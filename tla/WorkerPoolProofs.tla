--------------------------- MODULE WorkerPoolProofs --------------------------
(***************************************************************************)
(* Machine-checked proofs about WorkerPool, for any number of workers, any *)
(* width of GroupID and any requests.  First the facts about vectors and   *)
(* ranks that the handlers rest on, then the inductive invariant, then the *)
(* theorems.                                                               *)
(***************************************************************************)
EXTENDS WorkerPool, FiniteSetTheorems, SequenceTheorems, TLAPS

\* A vector that holds each worker at most once.
Once(s) == \A i, j \in DOMAIN s : s[i] = s[j] => i = j

StrictlyAscending(s) == \A i, j \in DOMAIN s : i < j => s[i] < s[j]

-----------------------------------------------------------------------------
(* Sets of workers are finite.                                               *)
LEMMA WorkersFinite ==
    ASSUME NEW S, S \subseteq Workers
    PROVE  IsFiniteSet(S) /\ Cardinality(S) \in Nat
  <1>1. IsFiniteSet(Workers)
    BY PoolAssumption, FS_Interval DEF Workers
  <1>2. IsFiniteSet(S)
    BY <1>1, FS_Subset
  <1> QED
    BY <1>2, FS_CardinalityType

(* A set of worker IDs has a rank for each of its members exactly when it is *)
(* 1..k: get_process_grid of GroupDriver.cpp works for no other group.       *)
LEMMA RanksArePrefix ==
    ASSUME NEW M, M \subseteq Nat \ {0}, IsFiniteSet(M), RanksExist(M)
    PROVE  M = 1 .. Cardinality(M)
  <1>1. Cardinality(M) \in Nat
    BY FS_CardinalityType
  <1>2. M \subseteq 1 .. Cardinality(M)
    BY <1>1 DEF RanksExist
  <1>3. IsFiniteSet(1 .. Cardinality(M)) /\ Cardinality(1 .. Cardinality(M)) = Cardinality(M)
    BY <1>1, FS_Interval
  <1> QED
    BY <1>2, <1>3, FS_Subset

(* A set of worker IDs with no gap below any member has a rank for each.     *)
LEMMA NoGapHasRanks ==
    ASSUME NEW M, M \subseteq Nat \ {0}, IsFiniteSet(M),
           \A m \in M : 1 .. m \subseteq M
    PROVE  RanksExist(M)
  <1> SUFFICES ASSUME NEW id \in M
               PROVE  id <= Cardinality(M)
    BY DEF RanksExist
  <1>1. Cardinality(1 .. id) = id
    BY FS_Interval
  <1> QED
    BY <1>1, FS_Subset

(* The vector that std::sort leaves holds the same workers, each once.       *)
LEMMA SortedOnce ==
    ASSUME NEW s \in Seq(Workers), Once(s), NEW t \in Sortings(s)
    PROVE  /\ t \in Seq(Workers)
           /\ Len(t) = Len(s)
           /\ Range(t) = Range(s)
           /\ StrictlyAscending(t)
  <1>1. PICK p \in Bijection(DOMAIN s, DOMAIN s) :
            t = [i \in DOMAIN s |-> s[p[i]]] /\ Ascending(t)
    BY DEF Sortings
  <1>2. /\ p \in [DOMAIN s -> DOMAIN s]
        /\ \A a, b \in DOMAIN s : p[a] = p[b] => a = b
        /\ \A k \in DOMAIN s : \E i \in DOMAIN s : p[i] = k
    BY <1>1 DEF Bijection, Injection, Surjection, IsInjective
  <1>3. Len(s) \in Nat /\ DOMAIN s = 1 .. Len(s) /\ s \in [1 .. Len(s) -> Workers]
    BY LenProperties
  <1>4. t \in [1 .. Len(s) -> Workers]
    BY <1>1, <1>2, <1>3
  <1>5. t \in Seq(Workers) /\ Len(t) = Len(s)
    BY <1>3, <1>4
  <1>6. Range(t) = Range(s)
    BY <1>1, <1>2, <1>3, <1>4 DEF Range
  <1>7. StrictlyAscending(t)
    <2> SUFFICES ASSUME NEW i \in DOMAIN t, NEW j \in DOMAIN t, i < j
                 PROVE  t[i] < t[j]
      BY DEF StrictlyAscending
    <2>1. t[i] <= t[j] /\ t[i] \in Nat /\ t[j] \in Nat
      BY <1>1, <1>3, <1>4 DEF Ascending, Workers
    <2>2. t[i] # t[j]
      BY <1>1, <1>2, <1>3, <1>4 DEF Once
    <2> QED
      BY <2>1, <2>2
  <1> QED
    BY <1>5, <1>6, <1>7

(* A message lists each worker ID of a set once.                             *)
LEMMA OrderOnce ==
    ASSUME NEW Y, Y \subseteq Workers, NEW y \in Orders(Y)
    PROVE  y \in Seq(Workers) /\ Once(y) /\ Range(y) = Y
  <1>2. Cardinality(Y) \in Nat
    BY WorkersFinite
  <1>3. /\ y \in [1 .. Cardinality(Y) -> Y]
        /\ \A a, b \in 1 .. Cardinality(Y) : y[a] = y[b] => a = b
        /\ \A w \in Y : \E i \in 1 .. Cardinality(Y) : y[i] = w
    BY DEF Orders, Bijection, Injection, Surjection, IsInjective
  <1>4. y \in Seq(Workers) /\ DOMAIN y = 1 .. Cardinality(Y)
    BY <1>2, <1>3
  <1>5. Range(y) = Y
    BY <1>3 DEF Range
  <1> QED
    BY <1>3, <1>4, <1>5 DEF Once

(* Appending workers that the vector does not hold keeps each worker once.   *)
LEMMA AppendOnce ==
    ASSUME NEW s \in Seq(Workers), NEW y \in Seq(Workers), Once(s), Once(y),
           Range(s) \cap Range(y) = {}
    PROVE  /\ s \o y \in Seq(Workers)
           /\ Once(s \o y)
           /\ Range(s \o y) = Range(s) \cup Range(y)
  <1>1. /\ s \o y \in Seq(Workers)
        /\ Len(s \o y) = Len(s) + Len(y)
        /\ \A i \in 1 .. Len(s) + Len(y) :
               (s \o y)[i] = IF i <= Len(s) THEN s[i] ELSE y[i - Len(s)]
    BY ConcatProperties
  <1>2. /\ Len(s) \in Nat /\ DOMAIN s = 1 .. Len(s)
        /\ Len(y) \in Nat /\ DOMAIN y = 1 .. Len(y)
        /\ DOMAIN (s \o y) = 1 .. Len(s) + Len(y)
    BY <1>1, LenProperties
  <1>3. \A i \in DOMAIN s, j \in DOMAIN y : s[i] # y[j]
    BY DEF Range
  <1>4. Once(s \o y)
    <2> SUFFICES ASSUME NEW i \in 1 .. Len(s) + Len(y), NEW j \in 1 .. Len(s) + Len(y),
                        (s \o y)[i] = (s \o y)[j]
                 PROVE  i = j
      BY <1>2 DEF Once
    <2>1. CASE i <= Len(s) /\ j <= Len(s)
      BY <2>1, <1>1, <1>2 DEF Once
    <2>2. CASE i > Len(s) /\ j > Len(s)
      <3>1. y[i - Len(s)] = y[j - Len(s)]
        BY <2>2, <1>1, <1>2
      <3>2. i - Len(s) \in DOMAIN y /\ j - Len(s) \in DOMAIN y
        BY <2>2, <1>2
      <3>3. i - Len(s) = j - Len(s)
        BY <3>1, <3>2 DEF Once
      <3> QED
        BY <3>3, <1>2
    <2>3. CASE i <= Len(s) /\ j > Len(s)
      BY <2>3, <1>1, <1>2, <1>3
    <2>4. CASE i > Len(s) /\ j <= Len(s)
      BY <2>4, <1>1, <1>2, <1>3
    <2> QED
      BY <2>1, <2>2, <2>3, <2>4, <1>2
  <1>5. Range(s \o y) = Range(s) \cup Range(y)
    <2>1. ASSUME NEW i \in DOMAIN s PROVE s[i] \in Range(s \o y)
      BY <1>1, <1>2 DEF Range
    <2>2. ASSUME NEW j \in DOMAIN y PROVE y[j] \in Range(s \o y)
      <3>1. Len(s) + j \in 1 .. Len(s) + Len(y) /\ (s \o y)[Len(s) + j] = y[j]
        BY <1>1, <1>2
      <3> QED
        BY <3>1, <1>2 DEF Range
    <2>3. ASSUME NEW i \in 1 .. Len(s) + Len(y)
          PROVE  (s \o y)[i] \in Range(s) \cup Range(y)
      BY <1>1, <1>2 DEF Range
    <2> QED
      BY <2>1, <2>2, <2>3, <1>2 DEF Range
  <1> QED
    BY <1>1, <1>4, <1>5
-----------------------------------------------------------------------------
\* WorkerInfo::groupID names the group whose map holds the worker.
OwnersAgree ==
    \A w \in Workers, g \in GroupIDs \ {0} : info_groupID[w] = g <=> w \in members[g]

\* While the driver serves, the null group is empty and every group has its ranks.
GroupsServed ==
    driver = "serving" => members[0] = {} /\ \A g \in GroupIDs : RanksExist(members[g])

\* Before the counter wraps the groups are those of the connections so far, and
\* only a group that exists holds workers.
GroupsCounted ==
    /\ connections < GroupIDSpan => next_groupID = connections /\ groups = 1 .. connections
    /\ \A g \in GroupIDs : members[g] # {} => g \in groups

\* The inductive invariant.
Inv ==
    /\ TypeOK
    /\ WorkersPartitioned
    /\ OwnersAgree
    /\ GroupsServed
    /\ GroupsCounted
    /\ HonestReply

(* What allocate_workers does, as sets: it takes from the vector the lowest  *)
(* workers in it, and leaves the rest in order.                              *)
LEMMA AllocateFacts ==
    ASSUME TypeOK, WorkersPartitioned,
           NEW n \in 0 .. MaxRequest,
           NEW num, num = LesserOf(n, Len(unallocated_workers)), num > 0
    PROVE  /\ num \in 1 .. Len(unallocated_workers)
           /\ Taken(num) # {} /\ Taken(num) \subseteq Range(unallocated_workers)
           /\ Taken(num) \subseteq Workers
           /\ Remaining(num) \in Seq(Workers)
           /\ StrictlyAscending(Remaining(num))
           /\ Range(Remaining(num)) = Range(unallocated_workers) \ Taken(num)
           /\ \A a \in Taken(num), b \in Range(Remaining(num)) : a < b
  <1> DEFINE u == unallocated_workers
             r == Remaining(num)
  <1>1. /\ u \in Seq(Workers) /\ Len(u) \in Nat
        /\ DOMAIN u = 1 .. Len(u) /\ u \in [1 .. Len(u) -> Workers]
    BY LenProperties DEF TypeOK
  <1>2. \A i, j \in 1 .. Len(u) : i < j => u[i] < u[j]
    BY <1>1 DEF WorkersPartitioned
  <1>3. num \in 1 .. Len(u)
    <2>1. n \in Nat
      BY PoolAssumption
    <2>2. CASE n <= Len(u)
      <3>1. num = n
        BY <2>2 DEF LesserOf
      <3> QED
        BY <3>1, <2>1, <2>2, <1>1
    <2>3. CASE ~(n <= Len(u))
      <3>1. num = Len(u)
        BY <2>3 DEF LesserOf
      <3> QED
        BY <3>1, <1>1
    <2> QED
      BY <2>2, <2>3
  <1>4. /\ r \in Seq(Workers)
        /\ Len(r) = Len(u) - num
        /\ \A i \in 1 .. Len(u) - num : r[i] = u[num + i]
    <2>1. \A i \in num + 1 .. Len(u) : u[i] \in Workers
      BY <1>1, <1>3
    <2>2. /\ SubSeq(u, num + 1, Len(u)) \in Seq(Workers)
          /\ Len(SubSeq(u, num + 1, Len(u))) =
                 IF num + 1 <= Len(u) THEN Len(u) - (num + 1) + 1 ELSE 0
          /\ \A i \in 1 .. Len(u) - (num + 1) + 1 :
                 SubSeq(u, num + 1, Len(u))[i] = u[num + 1 + i - 1]
      <3> HIDE DEF u
      <3> QED
        BY <2>1, <1>1, <1>3, SubSeqProperties, num + 1 \in Int, Len(u) \in Int
    <2> QED
      BY <2>2, <1>1, <1>3 DEF Remaining
  <1>5. DOMAIN r = 1 .. Len(u) - num
    BY <1>4, LenProperties
  <1> HIDE DEF r
  <1>6. StrictlyAscending(r)
    <2> SUFFICES ASSUME NEW i \in 1 .. Len(u) - num, NEW j \in 1 .. Len(u) - num, i < j
                 PROVE  r[i] < r[j]
      BY <1>5 DEF StrictlyAscending
    <2>1. /\ num + i \in 1 .. Len(u) /\ num + j \in 1 .. Len(u) /\ num + i < num + j
          /\ r[i] = u[num + i] /\ r[j] = u[num + j]
      BY <1>1, <1>3, <1>4
    <2> QED
      BY <1>2, <2>1
  <1>7. Taken(num) # {} /\ Taken(num) \subseteq Range(u) /\ Taken(num) \subseteq Workers
    BY <1>1, <1>3 DEF Taken, Range
  <1>8. ASSUME NEW a \in Taken(num), NEW b \in Range(r)
        PROVE  a < b /\ b \in Range(u)
    <2>1. PICK i \in 1 .. num : a = u[i]
      BY DEF Taken
    <2>2. PICK j \in 1 .. Len(u) - num : b = r[j]
      BY <1>5 DEF Range
    <2>3. b = u[num + j] /\ num + j \in 1 .. Len(u) /\ i < num + j /\ i \in 1 .. Len(u)
      BY <1>1, <1>3, <1>4, <2>2
    <2> QED
      BY <1>1, <1>2, <2>1, <2>3 DEF Range
  <1>9. Range(r) = Range(u) \ Taken(num)
    <2>1. Range(r) \subseteq Range(u) /\ Range(r) \cap Taken(num) = {}
      <3>1. \A b \in Range(r) : b \in Range(u) /\ b \notin Taken(num)
        BY <1>7, <1>8 DEF Workers
      <3> QED
        BY <3>1
    <2>2. ASSUME NEW i \in 1 .. Len(u), u[i] \notin Taken(num)
          PROVE  u[i] \in Range(r)
      <3>1. i > num
        BY <2>2, <1>3 DEF Taken
      <3>2. i - num \in DOMAIN r /\ r[i - num] = u[i]
        BY <3>1, <1>1, <1>3, <1>4, <1>5
      <3> QED
        BY <3>2 DEF Range
    <2> QED
      BY <2>1, <2>2, <1>1 DEF Range
  <1> QED
    BY <1>3, <1>4, <1>6, <1>7, <1>8, <1>9 DEF r

(* What deallocate_workers does, as sets: the workers given back join the    *)
(* vector, which is again in ascending order and holds each worker once.     *)
LEMMA DeallocateFacts ==
    ASSUME TypeOK, WorkersPartitioned,
           NEW g \in GroupIDs, NEW S \in SUBSET Workers,
           NEW y \in Orders(Yielded(g, S)),
           NEW t \in Sortings(unallocated_workers \o y)
    PROVE  /\ Range(y) = Yielded(g, S) /\ Range(y) \subseteq members[g]
           /\ t \in Seq(Workers) /\ StrictlyAscending(t)
           /\ Range(t) = Range(unallocated_workers) \cup Range(y)
  <1> DEFINE u == unallocated_workers
  <1>1. Yielded(g, S) \subseteq members[g] /\ Yielded(g, S) \subseteq Workers
    BY DEF Yielded
  <1>2. y \in Seq(Workers) /\ Once(y) /\ Range(y) = Yielded(g, S)
    BY <1>1, OrderOnce
  <1>3. u \in Seq(Workers)
    BY DEF TypeOK
  <1>4. Once(u)
    <2>1. DOMAIN u = 1 .. Len(u) /\ Len(u) \in Nat /\ \A i \in DOMAIN u : u[i] \in Nat
      <3>1. u \in [1 .. Len(u) -> Workers] /\ Len(u) \in Nat
        <4> HIDE DEF u
        <4> QED
          BY <1>3, LenProperties
      <3> QED
        BY <3>1 DEF Workers
    <2>2. \A i, j \in DOMAIN u : i < j => u[i] < u[j]
      BY DEF WorkersPartitioned
    <2> HIDE DEF u
    <2>3. ASSUME NEW i \in DOMAIN u, NEW j \in DOMAIN u, u[i] = u[j] PROVE i = j
      BY <2>1, <2>2, <2>3
    <2> QED
      BY <2>3 DEF Once
  <1>5. Range(u) \cap Range(y) = {}
    BY <1>1, <1>2 DEF WorkersPartitioned
  <1>6. u \o y \in Seq(Workers) /\ Once(u \o y) /\ Range(u \o y) = Range(u) \cup Range(y)
    <2> HIDE DEF u
    <2> QED
      BY <1>2, <1>3, <1>4, <1>5, AppendOnce
  <1>7. t \in Seq(Workers) /\ Range(t) = Range(u \o y) /\ StrictlyAscending(t)
    BY <1>6, SortedOnce
  <1> QED
    BY <1>1, <1>2, <1>6, <1>7
-----------------------------------------------------------------------------
(* The invariant holds before the first connection.                          *)
LEMMA InitInv == Init => Inv
  <1> SUFFICES ASSUME Init PROVE Inv
    OBVIOUS
  <1>1. unallocated_workers = [i \in 1 .. NumWorkers |-> i] /\ NumWorkers \in Nat
    BY PoolAssumption DEF Init, Workers
  <1>2. /\ unallocated_workers \in Seq(Workers)
        /\ DOMAIN unallocated_workers = Workers
        /\ Range(unallocated_workers) = Workers
    BY <1>1 DEF Workers, Range
  <1>3. 0 \in GroupIDs
    BY PoolAssumption DEF GroupIDs
  <1>4. TypeOK
    BY <1>2, <1>3, PoolAssumption DEF TypeOK, Init, Answers, Answer
  <1>5. WorkersPartitioned
    BY <1>1, <1>2 DEF WorkersPartitioned, Init, Workers
  <1>6. OwnersAgree
    BY DEF OwnersAgree, Init
  <1>7. GroupsServed
    BY <1>3 DEF GroupsServed, Init, RanksExist
  <1>8. GroupsCounted
    BY DEF GroupsCounted, Init
  <1>9. HonestReply
    BY <1>3 DEF HonestReply, Init, Answer
  <1> QED
    BY <1>4, <1>5, <1>6, <1>7, <1>8, <1>9 DEF Inv

(* Accepting a connection disturbs only the counters and the set of groups.  *)
LEMMA NewGroupStep == Inv /\ NewGroup => Inv'
  <1> SUFFICES ASSUME Inv, NewGroup PROVE Inv'
    OBVIOUS
  <1> USE DEF Inv, NewGroup
  <1>1. next_groupID' \in GroupIDs /\ connections' \in 0 .. MaxConnections
    BY PoolAssumption DEF TypeOK, GroupIDs
  <1>2. TypeOK'
    BY <1>1 DEF TypeOK
  <1>3. WorkersPartitioned' /\ OwnersAgree' /\ GroupsServed' /\ HonestReply'
    BY DEF WorkersPartitioned, OwnersAgree, GroupsServed, HonestReply, RanksExist
  <1>4. GroupsCounted'
    <2>1. ASSUME connections' < GroupIDSpan
          PROVE  next_groupID' = connections' /\ groups' = 1 .. connections'
      <3>1. connections \in Nat /\ connections + 1 < GroupIDSpan /\ GroupIDSpan \in Nat
        BY <2>1, PoolAssumption DEF TypeOK
      <3>2. next_groupID = connections /\ groups = 1 .. connections
        BY <3>1 DEF GroupsCounted
      <3>3. (connections + 1) % GroupIDSpan = connections + 1
        BY <3>1
      <3> QED
        BY <3>1, <3>2, <3>3
    <2> QED
      BY <2>1 DEF GroupsCounted
  <1> QED
    BY <1>2, <1>3, <1>4

(* A vector in strictly ascending order satisfies the order conjunct of      *)
(* WorkersPartitioned; and the outcome of set_group_communicator is          *)
(* "serving" only if the group is not the null group's and has its ranks.    *)
LEMMA OutcomeServing ==
    ASSUME NEW g \in GroupIDs, NEW M, Outcome(g, M) = "serving"
    PROVE  RanksExist(M) /\ (g = 0 => M = {})
  BY DEF Outcome

(* A request that is granted keeps the invariant.                            *)
LEMMA AllocateStep ==
    ASSUME Inv, NEW g \in GroupIDs, NEW n \in 0 .. MaxRequest,
           driver = "serving", g \in groups, AllocateWorkers(g, n),
           UNCHANGED <<next_groupID, connections, groups>>
    PROVE  Inv'
  <1> DEFINE num == LesserOf(n, Len(unallocated_workers))
             T   == Taken(num)
             u   == unallocated_workers
  <1>0. TypeOK /\ WorkersPartitioned /\ OwnersAgree /\ GroupsServed /\ GroupsCounted
    BY DEF Inv
  <1>1. /\ num > 0
        /\ info_groupID' = [w \in Workers |-> IF w \in T THEN g ELSE info_groupID[w]]
        /\ members' = [members EXCEPT ![g] = @ \cup T]
        /\ unallocated_workers' = Remaining(num)
        /\ driver' = Outcome(g, members'[g])
        /\ ReplyUnlessDown(Answer(g, "REQUEST_WORKERS", T, "NONE"))
    BY DEF AllocateWorkers
  <1>2. /\ T # {} /\ T \subseteq Range(u) /\ T \subseteq Workers
        /\ unallocated_workers' \in Seq(Workers)
        /\ StrictlyAscending(unallocated_workers')
        /\ Range(unallocated_workers') = Range(u) \ T
    BY <1>0, <1>1, AllocateFacts
  <1> HIDE DEF num, T, u
  <1>3. members \in [GroupIDs -> SUBSET Workers] /\ info_groupID \in [Workers -> GroupIDs]
    BY <1>0 DEF TypeOK
  <1>4. \A h \in GroupIDs : members'[h] = IF h = g THEN members[h] \cup T ELSE members[h]
    BY <1>1, <1>3
  <1>5. TypeOK'
    <2>1. driver' \in {"serving", "blocked", "aborted"}
      BY <1>1 DEF Outcome
    <2>2. reply' \in Answers
      BY <1>0, <1>1, <1>2 DEF ReplyUnlessDown, Answer, Answers, TypeOK
    <2>3. info_groupID' \in [Workers -> GroupIDs] /\ members' \in [GroupIDs -> SUBSET Workers]
      BY <1>1, <1>2, <1>3
    <2> QED
      BY <1>0, <1>2, <2>1, <2>2, <2>3 DEF TypeOK
  <1>6. WorkersPartitioned'
    <2>1. \A w \in Workers : w \in Range(u) <=> \A h \in GroupIDs : w \notin members[h]
      BY <1>0 DEF WorkersPartitioned, u
    <2>2. \A w \in Workers :
             w \in Range(unallocated_workers') <=> \A h \in GroupIDs : w \notin members'[h]
      BY <1>2, <1>4, <2>1
    <2>3. \A h, k \in GroupIDs : h # k => members[h] \cap members[k] = {}
      BY <1>0 DEF WorkersPartitioned
    <2>4. \A h \in GroupIDs : T \cap members[h] = {}
      BY <1>2, <2>1
    <2>5. \A h, k \in GroupIDs : h # k => members'[h] \cap members'[k] = {}
      BY <1>4, <2>3, <2>4
    <2> QED
      BY <1>2, <2>2, <2>5 DEF WorkersPartitioned, StrictlyAscending
  <1>7. OwnersAgree'
    <2> SUFFICES ASSUME NEW w \in Workers, NEW h \in GroupIDs \ {0}
                 PROVE  info_groupID'[w] = h <=> w \in members'[h]
      BY DEF OwnersAgree
    <2>1. info_groupID[w] = h <=> w \in members[h]
      BY <1>0 DEF OwnersAgree
    <2>2. CASE w \in T
      <3>1. w \notin members[h]
        BY <1>0, <1>2, <2>2 DEF WorkersPartitioned, u
      <3> QED
        BY <1>1, <1>4, <2>2, <3>1
    <2>3. CASE w \notin T
      BY <1>1, <1>4, <2>1, <2>3
    <2> QED
      BY <2>2, <2>3
  <1>8. GroupsServed'
    <2> SUFFICES ASSUME driver' = "serving"
                 PROVE  members'[0] = {} /\ \A h \in GroupIDs : RanksExist(members'[h])
      BY DEF GroupsServed, RanksExist
    <2>1. RanksExist(members'[g]) /\ (g = 0 => members'[g] = {})
      BY <1>1, OutcomeServing
    <2>2. members[0] = {} /\ \A h \in GroupIDs : RanksExist(members[h])
      BY <1>0 DEF GroupsServed
    <2>3. 0 \in GroupIDs
      BY PoolAssumption DEF GroupIDs
    <2> QED
      BY <1>4, <2>1, <2>2, <2>3
  <1>9. GroupsCounted'
    BY <1>0, <1>4 DEF GroupsCounted
  <1>10. HonestReply'
    <2>1. CASE driver' = "serving"
      <3>1. reply' = Answer(g, "REQUEST_WORKERS", T, "NONE")
        BY <1>1, <2>1 DEF ReplyUnlessDown
      <3>2. /\ reply'.cmd = "REQUEST_WORKERS" /\ reply'.workers = T
            /\ reply'.to = g /\ reply'.error = "NONE"
        BY <3>1 DEF Answer
      <3> QED
        BY <1>4, <3>2 DEF HonestReply
    <2>2. CASE driver' # "serving"
      BY <2>2 DEF HonestReply
    <2> QED
      BY <2>1, <2>2
  <1> QED
    BY <1>5, <1>6, <1>7, <1>8, <1>9, <1>10 DEF Inv

(* A yield of workers the group holds keeps the invariant.                   *)
LEMMA DeallocateStep ==
    ASSUME Inv, NEW g \in GroupIDs, NEW S \in SUBSET Workers,
           driver = "serving", g \in groups,
           NEW y \in Orders(Yielded(g, S)), DeallocateWorkers(g, y),
           UNCHANGED <<next_groupID, connections, groups>>
    PROVE  Inv'
  <1> DEFINE Y == Range(y)
             u == unallocated_workers
  <1>0. TypeOK /\ WorkersPartitioned /\ OwnersAgree /\ GroupsServed /\ GroupsCounted
    BY DEF Inv
  <1>1. /\ info_groupID' = [w \in Workers |-> IF w \in Y THEN 0 ELSE info_groupID[w]]
        /\ members' = [members EXCEPT ![g] = @ \ Y]
        /\ unallocated_workers' \in Sortings(u \o y)
        /\ driver' = Outcome(g, members'[g])
        /\ ReplyUnlessDown(Answer(g, "YIELD_WORKERS", Y, "NONE"))
    BY DEF DeallocateWorkers, Unowned
  <1>2. /\ Y \subseteq members[g]
        /\ unallocated_workers' \in Seq(Workers)
        /\ StrictlyAscending(unallocated_workers')
        /\ Range(unallocated_workers') = Range(u) \cup Y
    BY <1>0, <1>1, DeallocateFacts
  <1> HIDE DEF Y, u
  <1>3. members \in [GroupIDs -> SUBSET Workers] /\ info_groupID \in [Workers -> GroupIDs]
    BY <1>0 DEF TypeOK
  <1>4. \A h \in GroupIDs : members'[h] = IF h = g THEN members[h] \ Y ELSE members[h]
    BY <1>1, <1>3
  <1>5. 0 \in GroupIDs /\ Y \subseteq Workers
    BY <1>2, <1>3, PoolAssumption DEF GroupIDs
  <1>6. TypeOK'
    <2>1. driver' \in {"serving", "blocked", "aborted"}
      BY <1>1 DEF Outcome
    <2>2. reply' \in Answers
      BY <1>0, <1>1, <1>5 DEF ReplyUnlessDown, Answer, Answers, TypeOK
    <2>3. info_groupID' \in [Workers -> GroupIDs] /\ members' \in [GroupIDs -> SUBSET Workers]
      BY <1>1, <1>3, <1>5
    <2> QED
      BY <1>0, <1>2, <2>1, <2>2, <2>3 DEF TypeOK
  <1>7. WorkersPartitioned'
    <2>1. \A w \in Workers : w \in Range(u) <=> \A h \in GroupIDs : w \notin members[h]
      BY <1>0 DEF WorkersPartitioned, u
    <2>2. \A h, k \in GroupIDs : h # k => members[h] \cap members[k] = {}
      BY <1>0 DEF WorkersPartitioned
    <2>3. \A w \in Workers :
             w \in Range(unallocated_workers') <=> \A h \in GroupIDs : w \notin members'[h]
      BY <1>2, <1>4, <2>1, <2>2
    <2>4. \A h, k \in GroupIDs : h # k => members'[h] \cap members'[k] = {}
      BY <1>4, <2>2
    <2> QED
      BY <1>2, <2>3, <2>4 DEF WorkersPartitioned, StrictlyAscending
  <1>8. OwnersAgree'
    <2> SUFFICES ASSUME NEW w \in Workers, NEW h \in GroupIDs \ {0}
                 PROVE  info_groupID'[w] = h <=> w \in members'[h]
      BY DEF OwnersAgree
    <2>1. info_groupID[w] = h <=> w \in members[h]
      BY <1>0 DEF OwnersAgree
    <2>2. CASE w \in Y
      <3>1. h # g => w \notin members[h]
        BY <1>0, <1>2, <2>2 DEF WorkersPartitioned
      <3> QED
        BY <1>1, <1>4, <2>2, <3>1
    <2>3. CASE w \notin Y
      BY <1>1, <1>4, <2>1, <2>3
    <2> QED
      BY <2>2, <2>3
  <1>9. GroupsServed'
    <2> SUFFICES ASSUME driver' = "serving"
                 PROVE  members'[0] = {} /\ \A h \in GroupIDs : RanksExist(members'[h])
      BY DEF GroupsServed, RanksExist
    <2>1. RanksExist(members'[g]) /\ (g = 0 => members'[g] = {})
      BY <1>1, OutcomeServing
    <2>2. members[0] = {} /\ \A h \in GroupIDs : RanksExist(members[h])
      BY <1>0 DEF GroupsServed
    <2> QED
      BY <1>4, <1>5, <2>1, <2>2
  <1>10. GroupsCounted'
    BY <1>0, <1>4 DEF GroupsCounted
  <1>11. HonestReply'
    <2>1. CASE driver' = "serving"
      <3>1. reply' = Answer(g, "YIELD_WORKERS", Y, "NONE")
        BY <1>1, <2>1 DEF ReplyUnlessDown
      <3>2. /\ reply'.cmd = "YIELD_WORKERS" /\ reply'.workers = Y /\ reply'.error = "NONE"
        BY <3>1 DEF Answer
      <3> QED
        BY <1>2, <3>2 DEF HonestReply
    <2>2. CASE driver' # "serving"
      BY <2>2 DEF HonestReply
    <2> QED
      BY <2>1, <2>2
  <1> QED
    BY <1>6, <1>7, <1>8, <1>9, <1>10, <1>11 DEF Inv

(* An answer that moves no worker keeps the invariant.                       *)
LEMMA AnswerStep ==
    ASSUME Inv, NEW g \in GroupIDs, NEW n \in 0 .. MaxRequest,
           \/ RefuseWorkers(g, n)
           \/ /\ reply' = Answer(g, "YIELD_WORKERS", {}, "NONE")
              /\ UNCHANGED <<unallocated_workers, info_groupID, members, driver>>,
           UNCHANGED <<next_groupID, connections, groups>>
    PROVE  Inv'
  <1>1. UNCHANGED <<unallocated_workers, info_groupID, members, driver,
                    next_groupID, connections, groups>>
    BY DEF RefuseWorkers
  <1>2. TypeOK'
    BY <1>1 DEF Inv, TypeOK, RefuseWorkers, Answer, Answers
  <1>3. WorkersPartitioned' /\ OwnersAgree' /\ GroupsServed' /\ GroupsCounted'
    BY <1>1 DEF Inv, WorkersPartitioned, OwnersAgree, GroupsServed, GroupsCounted, RanksExist
  <1>4. HonestReply'
    BY <1>1 DEF Inv, HonestReply, RefuseWorkers, Answer
  <1> QED
    BY <1>2, <1>3, <1>4 DEF Inv
(* Every step keeps the invariant.                                           *)
LEMMA NextInv == Inv /\ [Next]_vars => Inv'
  <1> SUFFICES ASSUME Inv, [Next]_vars PROVE Inv'
    OBVIOUS
  <1>1. CASE NewGroup
    BY <1>1, NewGroupStep
  <1>2. ASSUME NEW g \in GroupIDs, NEW n \in 0 .. MaxRequest, RequestWorkers(g, n)
        PROVE  Inv'
    <2>1. CASE AllocateWorkers(g, n)
      BY <1>2, <2>1, AllocateStep DEF RequestWorkers
    <2>2. CASE RefuseWorkers(g, n)
      BY <1>2, <2>2, AnswerStep DEF RequestWorkers
    <2> QED
      BY <1>2, <2>1, <2>2 DEF RequestWorkers
  <1>3. ASSUME NEW g \in GroupIDs, NEW S \in SUBSET Workers, YieldWorkers(g, S)
        PROVE  Inv'
    <2>1. ASSUME NEW y \in Orders(Yielded(g, S)), DeallocateWorkers(g, y)
          PROVE  Inv'
      BY <1>3, <2>1, DeallocateStep DEF YieldWorkers
    <2>2. ASSUME reply' = Answer(g, "YIELD_WORKERS", {}, "NONE"),
                 UNCHANGED <<unallocated_workers, info_groupID, members, driver>>
          PROVE  Inv'
      <3>1. 0 \in 0 .. MaxRequest
        BY PoolAssumption
      <3> QED
        BY <1>3, <2>2, <3>1, AnswerStep DEF YieldWorkers
    <2> QED
      BY <1>3, <2>1, <2>2 DEF YieldWorkers
  <1>4. CASE UNCHANGED vars
    BY <1>4 DEF vars, Inv, TypeOK, WorkersPartitioned, OwnersAgree, GroupsServed,
                GroupsCounted, HonestReply, RanksExist
  <1> QED
    BY <1>1, <1>2, <1>3, <1>4 DEF Next

LEMMA Invariant == Spec => []Inv
  BY InitInv, NextInv, PTL DEF Spec

-----------------------------------------------------------------------------
(* Every variable always has its type. *)
THEOREM TypeCorrect == Spec => []TypeOK
  <1>1. Inv => TypeOK
    BY DEF Inv
  <1> QED
    BY <1>1, Invariant, PTL

(* No worker is ever in two places or in none, and the vector stays sorted.  *)
THEOREM Partition == Spec => []WorkersPartitioned
  <1>1. Inv => WorkersPartitioned
    BY DEF Inv
  <1> QED
    BY <1>1, Invariant, PTL

(* The driver's answers are true while it serves. *)
THEOREM Honesty == Spec => []HonestReply
  <1>1. Inv => HonestReply
    BY DEF Inv
  <1> QED
    BY <1>1, Invariant, PTL

(* While the driver serves, the workers in use are 1..k and one group's.     *)
THEOREM OneGroupAtATime == Spec => []OneActiveGroup
  <1>1. Inv => OneActiveGroup
    <2> SUFFICES ASSUME Inv, driver = "serving",
                        NEW g \in GroupIDs, NEW h \in GroupIDs,
                        members[g] # {}, members[h] # {}
                 PROVE  g = h /\ members[g] = 1 .. Cardinality(members[g])
      BY DEF OneActiveGroup
    <2>1. ASSUME NEW k \in GroupIDs, members[k] # {}
          PROVE  members[k] = 1 .. Cardinality(members[k]) /\ 1 \in members[k]
      <3>1. members[k] \subseteq Workers /\ RanksExist(members[k])
        BY DEF Inv, TypeOK, GroupsServed
      <3>2. IsFiniteSet(members[k]) /\ Cardinality(members[k]) \in Nat
        BY <3>1, WorkersFinite
      <3>3. members[k] \subseteq Nat \ {0}
        BY <3>1 DEF Workers
      <3>4. members[k] = 1 .. Cardinality(members[k])
        BY <3>1, <3>2, <3>3, RanksArePrefix
      <3>5. Cardinality(members[k]) # 0
        BY <3>4, <2>1
      <3> QED
        BY <3>2, <3>4, <3>5
    <2>2. 1 \in members[g] \cap members[h] /\ members[g] = 1 .. Cardinality(members[g])
      BY <2>1
    <2> QED
      BY <2>2 DEF Inv, WorkersPartitioned
  <1> QED
    BY <1>1, Invariant, PTL

(* What clients are told of the workers agrees with what allocation works on. *)
THEOREM Listings == Spec => []ListingsAgree
  <1>1. Inv => ListingsAgree
    <2> SUFFICES ASSUME Inv, driver = "serving"
                 PROVE  /\ InactiveWorkers = Range(unallocated_workers)
                        /\ \A g \in GroupIDs \ {0} : AssignedWorkers(g) = members[g]
                        /\ Cardinality(ActiveWorkers) = NumWorkers - Len(unallocated_workers)
      BY DEF ListingsAgree
    <2> DEFINE u == unallocated_workers
    <2>1. /\ u \in Seq(Workers) /\ info_groupID \in [Workers -> GroupIDs]
          /\ members \in [GroupIDs -> SUBSET Workers] /\ 0 \in GroupIDs
      BY PoolAssumption DEF Inv, TypeOK, GroupIDs
    <2>2. /\ \A w \in Workers, g \in GroupIDs \ {0} : info_groupID[w] = g <=> w \in members[g]
          /\ members[0] = {}
      BY DEF Inv, OwnersAgree, GroupsServed
    <2>3. \A w \in Workers : w \in Range(u) <=> \A g \in GroupIDs : w \notin members[g]
      BY DEF Inv, WorkersPartitioned
    <2>4. /\ Len(u) \in Nat /\ u \in [1 .. Len(u) -> Workers] /\ DOMAIN u = 1 .. Len(u)
          /\ \A i, j \in 1 .. Len(u) : i < j => u[i] < u[j]
      BY <2>1, LenProperties DEF Inv, WorkersPartitioned
    <2> HIDE DEF u
    <2>5. Range(u) \subseteq Workers
      BY <2>4 DEF Range
    <2>6. \A w \in Workers : info_groupID[w] = 0 <=> w \in Range(u)
      BY <2>1, <2>2, <2>3
    <2>7. InactiveWorkers = Range(u)
      BY <2>5, <2>6 DEF InactiveWorkers
    <2>8. \A g \in GroupIDs \ {0} : AssignedWorkers(g) = members[g]
      BY <2>1, <2>2 DEF AssignedWorkers
    <2>9. Cardinality(ActiveWorkers) = NumWorkers - Len(u)
      <3>1. ActiveWorkers = Workers \ Range(u)
        <4>1. \A w \in Workers : info_groupID[w] > 0 <=> info_groupID[w] # 0
          BY <2>1 DEF GroupIDs
        <4> QED
          BY <4>1, <2>6 DEF ActiveWorkers
      <3>2. Cardinality(Range(u)) = Len(u)
        <4>1. u \in [1 .. Len(u) -> Range(u)] /\ \A w \in Range(u) : \E i \in 1 .. Len(u) : u[i] = w
          BY <2>4 DEF Range
        <4>2. \A i, j \in 1 .. Len(u) : u[i] = u[j] => i = j
          <5>1. \A i \in 1 .. Len(u) : u[i] \in Nat
            BY <2>4 DEF Workers
          <5> QED
            BY <2>4, <5>1
        <4>3. u \in Bijection(1 .. Len(u), Range(u))
          BY <4>1, <4>2 DEF Bijection, Injection, Surjection, IsInjective
        <4>4. IsFiniteSet(1 .. Len(u)) /\ Cardinality(1 .. Len(u)) = Len(u)
          BY <2>4, FS_Interval
        <4> QED
          BY <4>3, <4>4, FS_Bijection DEF ExistsBijection
      <3>3. IsFiniteSet(Workers) /\ Cardinality(Workers) = NumWorkers
        BY PoolAssumption, FS_Interval DEF Workers
      <3>4. Workers \cap Range(u) = Range(u)
        BY <2>5
      <3>5. Cardinality(Workers \ Range(u)) = Cardinality(Workers) - Cardinality(Workers \cap Range(u))
        BY <3>3, FS_Difference
      <3> QED
        BY <3>1, <3>2, <3>3, <3>4, <3>5
    <2> QED
      BY <2>7, <2>8, <2>9 DEF u
  <1> QED
    BY <1>1, Invariant, PTL

(* A client that is alone in holding workers keeps being served when it asks *)
(* for more.                                                                 *)
THEOREM LoneClient == Spec => LoneClientServed
  <1> DEFINE Lone(g) ==
                 /\ driver = "serving"
                 /\ \A h \in GroupIDs \ {g} : members[h] = {} /\ members'[h] = {}
                 /\ members[g] \subseteq members'[g]
  <1>1. Inv /\ [Next]_vars =>
            [\A g \in GroupIDs \ {0} : Lone(g) => driver' = "serving"]_vars
    <2> SUFFICES ASSUME Inv, Next, NEW g \in GroupIDs \ {0}, Lone(g)
                 PROVE  driver' = "serving"
      OBVIOUS
    <2>0. members \in [GroupIDs -> SUBSET Workers] /\ TypeOK /\ WorkersPartitioned
      BY DEF Inv, TypeOK
    <2>1. CASE NewGroup
      BY <2>1 DEF NewGroup
    <2>2. ASSUME NEW h \in GroupIDs, NEW n \in 0 .. MaxRequest, RequestWorkers(h, n)
          PROVE  driver' = "serving"
      <3>1. CASE RefuseWorkers(h, n)
        BY <3>1 DEF RefuseWorkers
      <3>2. CASE AllocateWorkers(h, n)
        <4> DEFINE num == LesserOf(n, Len(unallocated_workers))
                   T   == Taken(num)
                   u   == unallocated_workers
        <4>1. /\ num > 0
              /\ members' = [members EXCEPT ![h] = @ \cup T]
              /\ driver' = Outcome(h, members'[h])
          BY <3>2 DEF AllocateWorkers
        <4>2. /\ T # {} /\ T \subseteq Workers
              /\ \A a \in T, b \in Range(u) \ T : a < b
          BY <2>0, <4>1, AllocateFacts
        <4> HIDE DEF num, T, u
        <4>3. members'[h] = members[h] \cup T
          BY <2>0, <4>1
        <4>4. h = g
          BY <4>2, <4>3
        <4>5. members[g] \subseteq Workers /\ RanksExist(members[g])
          BY <2>0 DEF Inv, GroupsServed
        <4>6. members[g] = 1 .. Cardinality(members[g]) /\ Cardinality(members[g]) \in Nat
          BY <4>5, WorkersFinite, RanksArePrefix DEF Workers
        <4>7. ASSUME NEW m \in members'[g], NEW x \in 1 .. m
              PROVE  x \in members'[g]
          <5>1. CASE m \in members[g]
            BY <5>1, <4>3, <4>4, <4>6
          <5>2. CASE m \in T
            <6>1. x \in Workers /\ m \in Nat /\ x \in Nat /\ ~(m < x)
              BY <5>2, <4>2, PoolAssumption DEF Workers
            <6>2. x \in members[g] \/ x \in Range(u)
              BY <6>1, <2>0 DEF WorkersPartitioned, u
            <6> QED
              BY <5>2, <6>1, <6>2, <4>2, <4>3, <4>4
          <5> QED
            BY <5>1, <5>2, <4>3, <4>4
        <4>8. RanksExist(members'[g])
          <5>1. members'[g] \subseteq Workers
            BY <4>2, <4>3, <4>4, <4>5
          <5>2. members'[g] \subseteq Nat \ {0} /\ IsFiniteSet(members'[g])
            BY <5>1, WorkersFinite DEF Workers
          <5> QED
            BY <5>2, <4>7, NoGapHasRanks
        <4> QED
          BY <4>1, <4>4, <4>8 DEF Outcome
      <3> QED
        BY <2>2, <3>1, <3>2 DEF RequestWorkers
    <2>3. ASSUME NEW h \in GroupIDs, NEW S \in SUBSET Workers, YieldWorkers(h, S)
          PROVE  driver' = "serving"
      <3>1. ASSUME Yielded(h, S) # {},
                   NEW y \in Orders(Yielded(h, S)), DeallocateWorkers(h, y)
            PROVE  FALSE
        <4>1. Range(y) = Yielded(h, S) /\ Range(y) \subseteq members[h]
          BY <2>0, <3>1, DeallocateFacts DEF DeallocateWorkers
        <4>2. members'[h] = members[h] \ Range(y)
          BY <2>0, <3>1 DEF DeallocateWorkers
        <4>3. h = g
          BY <3>1, <4>1
        <4> QED
          BY <3>1, <4>1, <4>2, <4>3
      <3> QED
        BY <2>3, <3>1 DEF YieldWorkers
    <2> QED
      BY <2>1, <2>2, <2>3 DEF Next
  <1>2. [][\A g \in GroupIDs \ {0} : Lone(g) => driver' = "serving"]_vars <=> LoneClientServed
    BY DEF LoneClientServed
  <1> QED
    BY <1>1, <1>2, Invariant, PTL DEF Spec

(* Until the group counter wraps, every connection gets a fresh, empty group. *)
THEOREM Fresh == Spec => FreshGroup
  <1>1. Inv /\ [Next]_vars =>
            [connections' # connections /\ connections' < GroupIDSpan =>
                /\ next_groupID' \notin groups \cup {0}
                /\ members'[next_groupID'] = {}]_vars
    <2> SUFFICES ASSUME Inv, Next, connections' # connections, connections' < GroupIDSpan
                 PROVE  /\ next_groupID' \notin groups \cup {0}
                        /\ members'[next_groupID'] = {}
      OBVIOUS
    <2>1. NewGroup
      BY DEF Next, RequestWorkers, YieldWorkers
    <2>2. connections \in Nat /\ connections + 1 < GroupIDSpan /\ GroupIDSpan \in Nat
      BY <2>1, PoolAssumption DEF NewGroup, Inv, TypeOK
    <2>3. next_groupID = connections /\ groups = 1 .. connections
      BY <2>2 DEF Inv, GroupsCounted
    <2>4. next_groupID' = connections + 1 /\ connections + 1 \in GroupIDs
      <3>1. (connections + 1) % GroupIDSpan = connections + 1
        BY <2>2
      <3> QED
        BY <2>1, <2>2, <2>3, <3>1 DEF NewGroup, GroupIDs
    <2>5. next_groupID' \notin groups \cup {0}
      BY <2>2, <2>3, <2>4
    <2>6. members'[next_groupID'] = {}
      BY <2>1, <2>4, <2>5 DEF NewGroup, Inv, GroupsCounted
    <2> QED
      BY <2>5, <2>6
  <1> QED
    BY <1>1, Invariant, PTL DEF Spec, FreshGroup

(* The bookkeeping implements the abstract lease. *)
THEOREM Refinement == Spec => LeaseSpec
  <1>1. Init => Lease!Init
    BY DEF Init, Lease!Init
  <1>2. Inv /\ [Next]_vars => [Lease!Next]_members
    <2> SUFFICES ASSUME Inv, Next PROVE Lease!Next \/ UNCHANGED members
      BY DEF vars
    <2>0. members \in [GroupIDs -> SUBSET Workers] /\ TypeOK /\ WorkersPartitioned
      BY DEF Inv, TypeOK
    <2>1. CASE NewGroup
      BY <2>1 DEF NewGroup
    <2>2. ASSUME NEW g \in GroupIDs, NEW n \in 0 .. MaxRequest, RequestWorkers(g, n)
          PROVE  Lease!Next \/ UNCHANGED members
      <3>1. CASE RefuseWorkers(g, n)
        BY <3>1 DEF RefuseWorkers
      <3>2. CASE AllocateWorkers(g, n)
        <4> DEFINE num == LesserOf(n, Len(unallocated_workers))
                   T   == Taken(num)
                   u   == unallocated_workers
        <4>1. num > 0 /\ members' = [members EXCEPT ![g] = @ \cup T]
          BY <3>2 DEF AllocateWorkers
        <4>2. /\ T # {} /\ T \subseteq Range(u) /\ T \subseteq Workers
              /\ \A a \in T, b \in Range(u) \ T : a < b
          BY <2>0, <4>1, AllocateFacts
        <4> HIDE DEF num, T, u
        <4>3. Lease!Free \subseteq Range(u) /\ T \subseteq Lease!Free
          BY <2>0, <4>2 DEF WorkersPartitioned, Lease!Free, u
        <4>4. Lease!Grant(g, T)
          BY <4>1, <4>2, <4>3 DEF Lease!Grant
        <4> QED
          BY <4>2, <4>4 DEF Lease!Next
      <3> QED
        BY <2>2, <3>1, <3>2 DEF RequestWorkers
    <2>3. ASSUME NEW g \in GroupIDs, NEW S \in SUBSET Workers, YieldWorkers(g, S)
          PROVE  Lease!Next \/ UNCHANGED members
      <3>1. ASSUME Yielded(g, S) # {},
                   NEW y \in Orders(Yielded(g, S)), DeallocateWorkers(g, y)
            PROVE  Lease!Next
        <4>1. Range(y) = Yielded(g, S) /\ Range(y) \subseteq members[g]
          BY <2>0, <3>1, DeallocateFacts DEF DeallocateWorkers
        <4>2. Lease!Return(g, Range(y))
          BY <3>1, <4>1 DEF Lease!Return, DeallocateWorkers
        <4> QED
          BY <2>0, <4>1, <4>2 DEF Lease!Next
      <3> QED
        BY <2>3, <3>1 DEF YieldWorkers
    <2> QED
      BY <2>1, <2>2, <2>3 DEF Next
  <1> QED
    BY <1>1, <1>2, Invariant, PTL DEF Spec, LeaseSpec, Lease!Spec
=============================================================================
