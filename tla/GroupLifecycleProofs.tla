------------------------- MODULE GroupLifecycleProofs -------------------------
(***************************************************************************)
(* Machine-checked proofs about GroupLifecycle, for any workers, groups    *)
(* and changes of groups, and whichever way the races named by Prompt are  *)
(* decided: every variable has its type, a worker that lags behind         *)
(* receives the details of the right group, and every group that serves    *)
(* has its one primary.                                                    *)
(***************************************************************************)
EXTENDS GroupLifecycle, FiniteSetTheorems, SequenceTheorems, TLAPS

\* Where the driver is while it forms a group that the workers know of, and while
\* they do not yet.
Forming == {"CREATE", "FORM", "PRINT", "OPEN", "GRID"}
Leaving == {"CLOSE", "FREE", "NEW"}

(* The driver is at work for a group, of which it has counted the change and *)
(* whose communicator it still has as long as it tells the workers to leave; *)
(* and a command loop that waits for a broadcast knows on what.              *)
AtWork ==
    /\ driver.at = "IDLE" <=> driver.g = 0
    /\ driver.at # "IDLE" => epoch # 0 /\ comm[epoch] = members[driver.g]
    /\ driver.at \in {"CLOSE", "FREE"} => groupComm[driver.g] # 0
    /\ \A w \in Workers, e \in Epochs : loop[w][e].at = "WAIT" => loop[w][e].on # 0

(* Nobody has entered a collective of a communicator that is yet to come.    *)
Unborn(e) == e > epoch \/ (e = epoch /\ driver.at \in Leaving)

Fresh ==
    /\ \A e \in Epochs : Unborn(e) => \A p \in Ranks : entered[e][p] = <<>>
    /\ \A g \in Groups : groupComm[g] # 0 => ~ Unborn(groupComm[g])
    /\ driver.at \in Forming => entered[epoch][0] # <<>>

(* A worker's command loop for a group, and its communicator of the group,   *)
(* come after its entry into the group.                                      *)
Joined ==
    \A w \in Workers, e \in Epochs :
        loop[w][e].at # "NONE" \/ gw[w].group = e => entered[e][w] # <<>>

(* The details of a group are on their way only while the driver waits for   *)
(* its workers to join it.                                                   *)
Details ==
    \A w \in Workers : \A i \in DOMAIN sends[w] :
        sends[w][i] # 0 =>
            /\ i = Len(sends[w]) /\ sends[w][i] = epoch /\ driver.at = "CREATE"
            /\ w \in comm[epoch] /\ entered[epoch][w] = <<>>

(* A set that has with a worker every lower one.                             *)
Lowest(S) == \A w \in S, v \in Workers : v < w => v \in S

(* While the job runs, every group that has been answered has the lowest     *)
(* workers, all of whom have a GroupWorker; and the primary flag says how    *)
(* its worker ranked in some group.                                          *)
Ranked ==
    job = "running" =>
        /\ \A e \in Epochs : e < epoch \/ (e = epoch /\ driver.at = "IDLE") => Lowest(comm[e])
        /\ \A g \in Groups : g # driver.g =>
               Lowest(members[g]) /\ \A w \in members[g] : gw[w].primary # "UNSET"
        /\ \A w \in Workers : /\ gw[w].primary = "YES" => \E e \in 1 .. epoch :
                                     w \in comm[e] /\ \A v \in comm[e] : w <= v
                              /\ gw[w].primary = "NO" => \E e \in 1 .. epoch :
                                     w \in comm[e] /\ \E v \in comm[e] : v < w
        /\ \A w \in Workers, e \in Epochs : entered[e][w] # <<>> => gw[w].primary # "UNSET"

Inv == TypeOK /\ AtWork /\ Fresh /\ Joined /\ Details /\ Ranked

-----------------------------------------------------------------------------
(* What the pieces of the state are made of, and what the operators that     *)
(* change them do.                                                           *)
Stages == {"NONE", "CREATE", "FORM", "PEERS", "AGAIN", "COPY", "GRID", "READY", "POST", "WAIT"}
Loops  == [at: Stages, on: 0 .. MaxEpochs]
GroupWorkers ==
    [group: 0 .. MaxEpochs, group_peers: 0 .. MaxEpochs, El_group_peers: 0 .. MaxEpochs,
     freed: SUBSET Epochs, grid: 0 .. MaxEpochs, primary: {"UNSET", "YES", "NO"}, connection_open: BOOLEAN]
Drivers == [at: {"IDLE", "NEW", "CREATE", "FORM"} \cup Commands, g: Groups \cup {0}]

LEMMA TypesAre ==
    TypeOK <=>
        /\ members \in [Groups -> SUBSET Workers] /\ groupComm \in [Groups -> 0 .. MaxEpochs]
        /\ epoch \in 0 .. MaxEpochs /\ comm \in [Epochs -> SUBSET Workers] /\ driver \in Drivers
        /\ entered \in [Epochs -> [Ranks -> Seq(Labels)]]
        /\ peersEntered \in [Epochs -> [Workers -> Seq(Labels)]]
        /\ bcast \in [Epochs -> [Workers -> Seq(Commands)]]
        /\ worldIn \in [Workers -> Nat] /\ newGroup \in [Workers -> Nat]
        /\ sends \in [Workers -> Seq(0 .. MaxEpochs)]
        /\ gridMsg \in [Epochs -> SUBSET Workers]
        /\ loop \in [Workers -> [Epochs -> Loops]]
        /\ handlers \subseteq Threads
        /\ gw \in [Workers -> GroupWorkers]
        /\ job \in {"running", "bad_rank", "null_comm", "freed_comm", "null_grid"}
  BY DEF TypeOK, Loops, GroupWorkers, Drivers, Stages

LEMMA Constants ==
    /\ NumWorkers \in Nat \ {0} /\ MaxEpochs \in Nat \ {0} /\ Groups \subseteq Nat \ {0}
    /\ Workers \subseteq Nat /\ Epochs \subseteq Nat /\ 0 \notin Workers /\ 0 \notin Epochs
    /\ Ranks = Workers \cup {0} /\ 0 .. MaxEpochs = Epochs \cup {0}
    /\ Commands \subseteq Labels
  BY LifecycleAssumption DEF Workers, Epochs, Ranks, Commands, Labels

LEMMA Appended ==
    ASSUME NEW S, NEW s \in Seq(S), NEW x \in S
    PROVE  /\ Append(s, x) \in Seq(S) /\ Append(s, x) # <<>>
           /\ Len(s) \in Nat /\ Len(Append(s, x)) = Len(s) + 1
           /\ \A i \in 1 .. Len(s) : Append(s, x)[i] = s[i]
           /\ Append(s, x)[Len(s) + 1] = x
  <1>1. /\ Append(s, x) \in Seq(S)
        /\ Len(s) \in Nat /\ Len(Append(s, x)) = Len(s) + 1
        /\ \A i \in 1 .. Len(s) : Append(s, x)[i] = s[i]
        /\ Append(s, x)[Len(s) + 1] = x
    BY AppendProperties, LenProperties
  <1>2. Append(s, x) # <<>>
    BY <1>1, EmptySeq
  <1> QED
    BY <1>1, <1>2

LEMMA Entering ==
    ASSUME TypeOK, NEW e \in Epochs, NEW p \in Ranks, NEW what \in Labels, Enter(e, p, what)
    PROVE  /\ entered' \in [Epochs -> [Ranks -> Seq(Labels)]]
           /\ entered'[e][p] = Append(entered[e][p], what) /\ entered'[e][p] # <<>>
           /\ \A f \in Epochs, q \in Ranks :
                  f # e \/ q # p => entered'[f][q] = entered[f][q]
  <1>1. /\ entered \in [Epochs -> [Ranks -> Seq(Labels)]] /\ entered[e][p] \in Seq(Labels)
    BY TypesAre
  <1>2. Append(entered[e][p], what) \in Seq(Labels)
    BY <1>1, Appended
  <1>3. \A s \in Seq(Labels) : Append(s, what) # <<>>
    BY Appended
  <1>4. Append(entered[e][p], what) # <<>>
    BY <1>1, <1>3
  <1> QED
    BY <1>1, <1>2, <1>4 DEF Enter

LEMMA EnteringPeers ==
    ASSUME TypeOK, NEW e \in Epochs, NEW w \in Workers, NEW what \in Labels,
           EnterPeers(e, w, what)
    PROVE  /\ peersEntered' \in [Epochs -> [Workers -> Seq(Labels)]]
           /\ peersEntered'[e][w] = Append(peersEntered[e][w], what)
           /\ \A f \in Epochs, v \in Workers :
                  f # e \/ v # w => peersEntered'[f][v] = peersEntered[f][v]
  <1>1. /\ peersEntered \in [Epochs -> [Workers -> Seq(Labels)]]
        /\ peersEntered[e][w] \in Seq(Labels)
    BY TypesAre
  <1>2. Append(peersEntered[e][w], what) \in Seq(Labels)
    BY <1>1, Appended
  <1> QED
    BY <1>1, <1>2 DEF EnterPeers

LEMMA Commanding ==
    ASSUME TypeOK, NEW e \in Epochs, NEW c \in Commands, Command(e, c)
    PROVE  /\ bcast' \in [Epochs -> [Workers -> Seq(Commands)]]
           /\ \A w \in comm[e] : w \in Workers => bcast'[e][w] = Append(bcast[e][w], c)
           /\ \A w \in Workers, f \in Epochs :
                  f # e \/ w \notin comm[e] => bcast'[f][w] = bcast[f][w]
           /\ entered' \in [Epochs -> [Ranks -> Seq(Labels)]]
           /\ entered'[e][0] = Append(entered[e][0], c) /\ entered'[e][0] # <<>>
           /\ \A f \in Epochs, q \in Ranks :
                  f # e \/ q # 0 => entered'[f][q] = entered[f][q]
  <1>1. Enter(e, 0, c) /\ 0 \in Ranks /\ c \in Labels
    BY Constants DEF Command
  <1>2. bcast \in [Epochs -> [Workers -> Seq(Commands)]]
    BY TypesAre
  <1>3. \A w \in Workers : Append(bcast[e][w], c) \in Seq(Commands)
    BY <1>2, Appended
  <1>4. bcast' = [bcast EXCEPT ![e] =
                     [w \in Workers |-> IF w \in comm[e] THEN Append(bcast[e][w], c)
                                                         ELSE bcast[e][w]]]
    BY DEF Command
  <1>5. /\ bcast' \in [Epochs -> [Workers -> Seq(Commands)]]
        /\ \A w \in comm[e] : w \in Workers => bcast'[e][w] = Append(bcast[e][w], c)
        /\ \A w \in Workers, f \in Epochs :
               f # e \/ w \notin comm[e] => bcast'[f][w] = bcast[f][w]
    BY <1>2, <1>3, <1>4
  <1> QED
    BY <1>1, <1>5, Entering

(* Taking the head of a queue.                                               *)
LEMMA Taken ==
    ASSUME NEW S, NEW s \in Seq(S), s # <<>>
    PROVE  /\ Head(s) \in S /\ Head(s) = s[1] /\ Tail(s) \in Seq(S)
           /\ Len(s) \in Nat \ {0} /\ Len(Tail(s)) = Len(s) - 1
           /\ DOMAIN s = 1 .. Len(s) /\ DOMAIN Tail(s) = 1 .. Len(s) - 1
           /\ \A i \in DOMAIN Tail(s) : Tail(s)[i] = s[i + 1] /\ i + 1 \in DOMAIN s
  <1>1. /\ Head(s) \in S /\ Tail(s) \in Seq(S)
        /\ Len(s) \in Nat \ {0} /\ Len(Tail(s)) = Len(s) - 1
        /\ \A i \in 1 .. Len(Tail(s)) : Tail(s)[i] = s[i + 1]
    BY HeadTailProperties, LenProperties, EmptySeq
  <1>2. DOMAIN s = 1 .. Len(s) /\ DOMAIN Tail(s) = 1 .. Len(s) - 1
    BY <1>1, LenProperties
  <1>3. Head(s) = s[1]
    OBVIOUS
  <1> QED
    BY <1>1, <1>2, <1>3

-----------------------------------------------------------------------------
(* A step of a worker that leaves the driver, the details on their way and   *)
(* the primary flags alone, and enters no collective of a communicator it    *)
(* has not entered yet, keeps everything but the types.                      *)
LEMMA WorkerKeeps ==
    ASSUME TypeOK, AtWork, Fresh, Joined, Details, Ranked, job = "running",
           UNCHANGED <<driverVars, sends>>,
           \A w \in Workers : gw'[w].primary = gw[w].primary,
           \A e \in Epochs : entered'[e][0] = entered[e][0],
           \A e \in Epochs, w \in Workers :
               \/ entered'[e][w] = entered[e][w]
               \/ entered[e][w] # <<>> /\ entered'[e][w] # <<>>,
           \A w \in Workers, e \in Epochs :
               /\ loop'[w][e].at # "NONE" \/ gw'[w].group = e => entered[e][w] # <<>>
               /\ loop'[w][e].at = "WAIT" => loop'[w][e].on # 0
    PROVE  AtWork' /\ Fresh' /\ Joined' /\ Details' /\ Ranked'
  <1>1. /\ members' = members /\ groupComm' = groupComm /\ epoch' = epoch /\ comm' = comm
        /\ driver' = driver
    BY DEF driverVars
  <1>2. AtWork'
    BY <1>1 DEF AtWork
  <1>3. \A e \in Epochs, w \in Workers : entered'[e][w] # <<>> <=> entered[e][w] # <<>>
    OBVIOUS
  <1>4. Fresh'
    <2>1. \A e \in Epochs, p \in Ranks : entered'[e][p] # <<>> <=> entered[e][p] # <<>>
      BY <1>3, Constants
    <2>2. driver.at \in Forming => epoch \in Epochs
      BY TypesAre, Constants DEF AtWork, Forming
    <2> QED
      BY <1>1, <2>1, <2>2 DEF Fresh, Unborn
  <1>5. Joined'
    BY <1>3 DEF Joined
  <1>6. Details'
    <2>1. SUFFICES ASSUME NEW w \in Workers, NEW i \in DOMAIN sends[w], sends[w][i] # 0
                   PROVE  /\ i = Len(sends[w]) /\ sends[w][i] = epoch /\ driver.at = "CREATE"
                          /\ w \in comm[epoch] /\ entered'[epoch][w] = <<>>
      BY <1>1 DEF Details
    <2>2. /\ i = Len(sends[w]) /\ sends[w][i] = epoch /\ driver.at = "CREATE"
          /\ w \in comm[epoch] /\ entered[epoch][w] = <<>>
      BY <2>1 DEF Details
    <2>3. epoch \in Epochs
      BY <2>2, TypesAre, Constants DEF AtWork
    <2> QED
      BY <1>3, <2>2, <2>3
  <1>7. Ranked'
    <2>1. /\ \A e \in Epochs : e < epoch \/ (e = epoch /\ driver.at = "IDLE") => Lowest(comm[e])
          /\ \A g \in Groups : g # driver.g =>
                 Lowest(members[g]) /\ \A w \in members[g] : gw[w].primary # "UNSET"
          /\ \A w \in Workers : /\ gw[w].primary = "YES" => \E e \in 1 .. epoch :
                                       w \in comm[e] /\ \A v \in comm[e] : w <= v
                                /\ gw[w].primary = "NO" => \E e \in 1 .. epoch :
                                       w \in comm[e] /\ \E v \in comm[e] : v < w
          /\ \A w \in Workers, e \in Epochs : entered[e][w] # <<>> => gw[w].primary # "UNSET"
      BY DEF Ranked
    <2>2. \A g \in Groups : members[g] \subseteq Workers
      BY TypesAre
    <2>3. \A g \in Groups : g # driver.g => \A w \in members[g] : gw'[w].primary # "UNSET"
      BY <2>1, <2>2
    <2>4. \A w \in Workers, e \in Epochs : entered'[e][w] # <<>> => gw'[w].primary # "UNSET"
      BY <1>3, <2>1
    <2>5. \A w \in Workers : /\ gw'[w].primary = "YES" => \E e \in 1 .. epoch :
                                      w \in comm[e] /\ \A v \in comm[e] : w <= v
                             /\ gw'[w].primary = "NO" => \E e \in 1 .. epoch :
                                      w \in comm[e] /\ \E v \in comm[e] : v < w
      BY <2>1
    <2> QED
      BY <1>1, <2>1, <2>3, <2>4, <2>5 DEF Ranked
  <1> QED
    BY <1>2, <1>4, <1>5, <1>6, <1>7

-----------------------------------------------------------------------------
(* The pieces that the steps of a worker change keep their types.            *)
LEMMA TypesWillBe ==
    ASSUME members' \in [Groups -> SUBSET Workers], groupComm' \in [Groups -> 0 .. MaxEpochs],
           epoch' \in 0 .. MaxEpochs, comm' \in [Epochs -> SUBSET Workers], driver' \in Drivers,
           entered' \in [Epochs -> [Ranks -> Seq(Labels)]],
           peersEntered' \in [Epochs -> [Workers -> Seq(Labels)]],
           bcast' \in [Epochs -> [Workers -> Seq(Commands)]],
           worldIn' \in [Workers -> Nat], newGroup' \in [Workers -> Nat],
           sends' \in [Workers -> Seq(0 .. MaxEpochs)],
           gridMsg' \in [Epochs -> SUBSET Workers],
           loop' \in [Workers -> [Epochs -> Loops]],
           handlers' \subseteq Threads, gw' \in [Workers -> GroupWorkers],
           job' \in {"running", "bad_rank", "null_comm", "freed_comm", "null_grid"}
    PROVE  TypeOK'
  BY DEF TypeOK, Loops, GroupWorkers, Drivers, Stages

LEMMA ThreadsKeep ==
    ASSUME handlers \subseteq Threads, NEW h \in handlers
    PROVE  /\ Done(h) => handlers' \subseteq Threads
           /\ \A at \in {"ENTERED", "PEERS", "MEET", "SLEEP"}, e \in 0 .. MaxEpochs, n \in Nat :
                  Blocks(h, at, e, n) => handlers' \subseteq Threads
           /\ h.w \in Workers /\ h.cmd \in Commands /\ h.via \in Epochs
           /\ h.on \in 0 .. MaxEpochs /\ h.k \in Nat
  <1>1. h \in Threads
    OBVIOUS
  <1>2. /\ h.w \in Workers /\ h.cmd \in Commands /\ h.via \in Epochs
        /\ h.on \in 0 .. MaxEpochs /\ h.k \in Nat
    BY <1>1 DEF Threads
  <1>3. Done(h) => handlers' \subseteq Threads
    BY DEF Done
  <1>4. ASSUME NEW at \in {"ENTERED", "PEERS", "MEET", "SLEEP"}, NEW e \in 0 .. MaxEpochs,
               NEW n \in Nat, Blocks(h, at, e, n)
        PROVE  handlers' \subseteq Threads
    <2>1. [h EXCEPT !.at = at] \in Threads
      BY <1>1 DEF Threads
    <2>2. \A t \in Threads : [t EXCEPT !.on = e] \in Threads
      BY DEF Threads
    <2>3. \A t \in Threads : [t EXCEPT !.k = n + 1] \in Threads
      <3>1. n + 1 \in Nat
        OBVIOUS
      <3> QED
        BY <3>1 DEF Threads
    <2>4. [h EXCEPT !.at = at, !.on = e, !.k = n + 1]
              = [[[h EXCEPT !.at = at] EXCEPT !.on = e] EXCEPT !.k = n + 1]
      OBVIOUS
    <2>5. [h EXCEPT !.at = at, !.on = e, !.k = n + 1] \in Threads
      BY <2>1, <2>2, <2>3, <2>4
    <2> QED
      BY <1>4, <2>5 DEF Blocks
  <1> QED
    BY <1>2, <1>3, <1>4

LEMMA CrashKeeps ==
    ASSUME Inv, NEW error \in {"bad_rank", "null_comm", "freed_comm", "null_grid"}, Crash(error)
    PROVE  Inv'
  <1>1. TypeOK'
    BY TypesAre, TypesWillBe DEF Inv, Crash, driverVars, worldVars
  <1>2. UNCHANGED <<driverVars, entered, sends, loop, gw>> /\ job' = error
    BY DEF Crash, worldVars
  <1>3. AtWork' /\ Fresh' /\ Joined' /\ Details' /\ Ranked'
    BY <1>2 DEF Inv, driverVars, AtWork, Fresh, Unborn, Joined, Details, Ranked
  <1> QED
    BY <1>1, <1>3 DEF Inv

LEMMA MisuseKeeps ==
    ASSUME Inv, NEW w \in Workers, NEW c, Misuse(w, c)
    PROVE  Inv'
  BY CrashKeeps DEF Misuse

LEMMA WorldCommandKeeps ==
    ASSUME Inv, NEW w \in Workers, WorldCommand(w)
    PROVE  Inv'
  <1>1. worldIn' \in [Workers -> Nat] /\ newGroup' \in [Workers -> Nat]
    <2>1. worldIn \in [Workers -> Nat] /\ newGroup \in [Workers -> Nat]
      BY TypesAre DEF Inv
    <2>2. worldIn[w] - 1 \in Nat /\ newGroup[w] + 1 \in Nat
      BY <2>1 DEF WorldCommand
    <2> QED
      BY <2>1, <2>2 DEF WorldCommand
  <1>2. UNCHANGED <<driverVars, entered, peersEntered, bcast, sends, gridMsg, loop, handlers,
                    gw, job>>
    BY DEF WorldCommand
  <1>3. TypeOK'
    BY <1>1, <1>2, TypesAre, TypesWillBe DEF Inv, driverVars
  <1>4. AtWork' /\ Fresh' /\ Joined' /\ Details' /\ Ranked'
    BY <1>2 DEF Inv, driverVars, AtWork, Fresh, Unborn, Joined, Details, Ranked
  <1> QED
    BY <1>3, <1>4 DEF Inv

(* A command loop goes on to the stage `at`, waiting on `on` if it does.     *)
LEMMA LoopGoesOn ==
    ASSUME TypeOK, NEW w \in Workers, NEW e \in Epochs, NEW at \in Stages,
           NEW on \in 0 .. MaxEpochs, loop' = [loop EXCEPT ![w][e] = [at |-> at, on |-> on]]
    PROVE  /\ loop' \in [Workers -> [Epochs -> Loops]]
           /\ loop'[w][e].at = at /\ loop'[w][e].on = on
           /\ \A v \in Workers, f \in Epochs : v # w \/ f # e => loop'[v][f] = loop[v][f]
  <1>1. loop \in [Workers -> [Epochs -> Loops]]
    BY TypesAre
  <1>2. [at |-> at, on |-> on] \in Loops
    BY DEF Loops
  <1> QED
    BY <1>1, <1>2

LEMMA LoopMovesTo ==
    ASSUME TypeOK, NEW w \in Workers, NEW e \in Epochs, NEW at \in Stages,
           loop' = [loop EXCEPT ![w][e].at = at]
    PROVE  /\ loop' \in [Workers -> [Epochs -> Loops]]
           /\ loop'[w][e].at = at /\ loop'[w][e].on = loop[w][e].on
           /\ \A v \in Workers, f \in Epochs : v # w \/ f # e => loop'[v][f] = loop[v][f]
  <1>1. loop \in [Workers -> [Epochs -> Loops]]
    BY TypesAre
  <1>2. PICK l \in Loops : l = loop[w][e]
    BY <1>1
  <1>3. loop' = [loop EXCEPT ![w] = [loop[w] EXCEPT ![e] = [l EXCEPT !.at = at]]]
    BY <1>1, <1>2
  <1>4. /\ [l EXCEPT !.at = at] \in Loops
        /\ [l EXCEPT !.at = at].at = at /\ [l EXCEPT !.at = at].on = l.on
    BY DEF Loops
  <1> QED
    BY <1>1, <1>2, <1>3, <1>4

LEMMA SetGroupCommKeeps ==
    ASSUME Inv, NEW w \in Workers, NEW e \in Epochs, SetGroupComm(w, e)
    PROVE  Inv'
  <1>1. TypeOK /\ gw \in [Workers -> GroupWorkers] /\ w \in Ranks /\ "FORM" \in Labels
    BY TypesAre, Constants DEF Inv, Labels
  <1>2. /\ job = "running" /\ loop[w][e].at = "CREATE"
        /\ gw' = [gw EXCEPT ![w].group = e] /\ Enter(e, w, "FORM")
        /\ loop' = [loop EXCEPT ![w][e].at = "FORM"]
        /\ UNCHANGED <<driverVars, peersEntered, bcast, worldVars, gridMsg, handlers, job>>
    BY DEF SetGroupComm
  <1>3. /\ loop' \in [Workers -> [Epochs -> Loops]] /\ loop'[w][e].at = "FORM"
        /\ \A v \in Workers, f \in Epochs : v # w \/ f # e => loop'[v][f] = loop[v][f]
    BY <1>1, <1>2, LoopMovesTo DEF Stages
  <1>4. /\ gw' \in [Workers -> GroupWorkers] /\ gw'[w].group = e
        /\ \A v \in Workers : gw'[v].primary = gw[v].primary
        /\ \A v \in Workers : v # w => gw'[v] = gw[v]
    BY <1>1, <1>2 DEF GroupWorkers, Epochs
  <1>5. /\ entered' \in [Epochs -> [Ranks -> Seq(Labels)]] /\ entered'[e][w] # <<>>
        /\ \A f \in Epochs, q \in Ranks : f # e \/ q # w => entered'[f][q] = entered[f][q]
    BY <1>1, <1>2, Entering
  <1>6. TypeOK'
    BY <1>1, <1>2, <1>3, <1>4, <1>5, TypesAre, TypesWillBe DEF driverVars, worldVars
  <1>7. entered[e][w] # <<>>
    BY <1>2 DEF Inv, Joined
  <1>8. /\ \A f \in Epochs : entered'[f][0] = entered[f][0]
        /\ \A f \in Epochs, v \in Workers :
               \/ entered'[f][v] = entered[f][v]
               \/ entered[f][v] # <<>> /\ entered'[f][v] # <<>>
    BY <1>5, <1>7, Constants
  <1>9. \A v \in Workers, f \in Epochs :
            /\ loop'[v][f].at # "NONE" \/ gw'[v].group = f => entered[f][v] # <<>>
            /\ loop'[v][f].at = "WAIT" => loop'[v][f].on # 0
    BY <1>3, <1>4, <1>7 DEF Inv, Joined, AtWork
  <1>10. UNCHANGED <<driverVars, sends>>
    BY <1>2 DEF worldVars
  <1> QED
    BY <1>2, <1>4, <1>6, <1>8, <1>9, <1>10, WorkerKeeps DEF Inv

LEMMA PeersStepKeeps ==
    ASSUME Inv, NEW w \in Workers, NEW e \in Epochs, PeersStep(w, e)
    PROVE  Inv'
  <1>1. /\ TypeOK /\ gw \in [Workers -> GroupWorkers]
        /\ {"CREATE", "PEERS", "AGAIN", "GRID"} \subseteq Labels
        /\ gw[w].group_peers \in 0 .. MaxEpochs /\ gw[w].El_group_peers \in 0 .. MaxEpochs
        /\ gw[w].group_peers # 0 => gw[w].group_peers \in Epochs
    BY TypesAre, Constants DEF Inv, Labels, Commands, GroupWorkers
  <1>2. CASE PeersMisuse(w, e)
    BY <1>2, MisuseKeeps DEF PeersMisuse
  <1>3. CASE ~ PeersMisuse(w, e)
    <2>1. /\ UNCHANGED <<driverVars, entered, bcast, worldVars, gridMsg, handlers>>
          /\ \/ CreatePeers(w, e) \/ SetPeers(w, e) \/ MeetAgain(w, e)
             \/ CopyPeers(w, e) \/ MakeGrid(w, e)
      BY <1>3 DEF PeersStep
    <2>2. PICK at \in {"PEERS", "AGAIN", "COPY", "GRID", "READY"} :
              loop' = [loop EXCEPT ![w][e].at = at]
      BY <2>1 DEF CreatePeers, SetPeers, MeetAgain, CopyPeers, MakeGrid
    <2>3. loop[w][e].at \in {"FORM", "PEERS", "AGAIN", "COPY", "GRID"} /\ UNCHANGED job
      BY <2>1 DEF CreatePeers, SetPeers, MeetAgain, CopyPeers, MakeGrid
    <2>4. /\ gw' \in [Workers -> GroupWorkers]
          /\ \A v \in Workers : gw'[v].primary = gw[v].primary /\ gw'[v].group = gw[v].group
      <3>1. /\ [gw EXCEPT ![w].group_peers = e] \in [Workers -> GroupWorkers]
            /\ [gw EXCEPT ![w].El_group_peers = gw[w].group_peers] \in [Workers -> GroupWorkers]
            /\ [gw EXCEPT ![w].grid = gw[w].El_group_peers] \in [Workers -> GroupWorkers]
        BY <1>1 DEF GroupWorkers, Epochs
      <3>2. \/ UNCHANGED gw \/ gw' = [gw EXCEPT ![w].group_peers = e]
            \/ gw' = [gw EXCEPT ![w].El_group_peers = gw[w].group_peers]
            \/ gw' = [gw EXCEPT ![w].grid = gw[w].El_group_peers]
        BY <2>1 DEF CreatePeers, SetPeers, MeetAgain, CopyPeers, MakeGrid
      <3>3. ASSUME NEW v \in Workers
            PROVE  gw'[v].primary = gw[v].primary /\ gw'[v].group = gw[v].group
        BY <1>1, <3>2 DEF GroupWorkers
      <3> QED
        BY <1>1, <3>1, <3>2, <3>3
    <2>5. peersEntered' \in [Epochs -> [Workers -> Seq(Labels)]]
      <3>1. CASE CopyPeers(w, e)
        BY <1>1, <3>1, TypesAre DEF CopyPeers
      <3>2. CASE ~ CopyPeers(w, e)
        <4>1. PICK on \in Epochs, what \in {"CREATE", "PEERS", "AGAIN", "GRID"} :
                  EnterPeers(on, w, what)
          BY <1>1, <2>1, <3>2 DEF CreatePeers, SetPeers, MeetAgain, MakeGrid
        <4> QED
          BY <1>1, <4>1, EnteringPeers
      <3> QED
        BY <3>1, <3>2
    <2>6. /\ loop' \in [Workers -> [Epochs -> Loops]] /\ loop'[w][e].at # "WAIT"
          /\ \A v \in Workers, f \in Epochs : v # w \/ f # e => loop'[v][f] = loop[v][f]
      BY <1>1, <2>2, LoopMovesTo DEF Stages
    <2>7. TypeOK'
      BY <1>1, <2>1, <2>3, <2>4, <2>5, <2>6, TypesAre, TypesWillBe DEF driverVars, worldVars
    <2>8. \A v \in Workers, f \in Epochs :
              /\ loop'[v][f].at # "NONE" \/ gw'[v].group = f => entered[f][v] # <<>>
              /\ loop'[v][f].at = "WAIT" => loop'[v][f].on # 0
      BY <2>3, <2>4, <2>6 DEF Inv, Joined, AtWork
    <2>9. UNCHANGED <<driverVars, sends, entered>>
      BY <2>1 DEF worldVars
    <2>10. job = "running"
      BY DEF PeersStep
    <2> QED
      BY <2>1, <2>3, <2>4, <2>7, <2>8, <2>9, <2>10, WorkerKeeps DEF Inv
  <1> QED
    BY <1>2, <1>3

LEMMA PostKeeps ==
    ASSUME Inv, NEW w \in Workers, NEW e \in Epochs, Post(w, e)
    PROVE  Inv'
  <1>1. /\ TypeOK /\ job = "running" /\ loop[w][e].at \in {"POST", "READY"}
        /\ gw[w].group \in 0 .. MaxEpochs
    BY TypesAre DEF Inv, Post, GroupWorkers
  <1>2. CASE gw[w].group = 0
    BY <1>2, CrashKeeps DEF Post
  <1>3. CASE gw[w].group # 0
    <2>1. /\ loop' = [loop EXCEPT ![w][e] = [at |-> "WAIT", on |-> gw[w].group]]
          /\ UNCHANGED <<driverVars, entered, peersEntered, bcast, worldVars, gridMsg,
                         handlers, gw, job>>
      BY <1>3 DEF Post
    <2>2. /\ loop' \in [Workers -> [Epochs -> Loops]]
          /\ loop'[w][e].on = gw[w].group
          /\ \A v \in Workers, f \in Epochs : v # w \/ f # e => loop'[v][f] = loop[v][f]
      <3>1. PICK on \in 0 .. MaxEpochs : on = gw[w].group
        BY <1>1
      <3>2. "WAIT" \in Stages /\ loop' = [loop EXCEPT ![w][e] = [at |-> "WAIT", on |-> on]]
        BY <2>1, <3>1 DEF Stages
      <3>3. [at |-> "WAIT", on |-> on] \in Loops /\ loop \in [Workers -> [Epochs -> Loops]]
        BY <1>1, <3>2, TypesAre DEF Loops
      <3> QED
        BY <3>1, <3>2, <3>3
    <2>3. TypeOK'
      BY <1>1, <2>1, <2>2, TypesAre, TypesWillBe DEF driverVars, worldVars
    <2>4. \A v \in Workers, f \in Epochs :
              /\ loop'[v][f].at # "NONE" \/ gw'[v].group = f => entered[f][v] # <<>>
              /\ loop'[v][f].at = "WAIT" => loop'[v][f].on # 0
      BY <1>1, <1>3, <2>1, <2>2 DEF Inv, Joined, AtWork
    <2>5. UNCHANGED <<driverVars, sends, entered, gw>>
      BY <2>1 DEF worldVars
    <2> QED
      BY <1>1, <2>3, <2>4, <2>5, WorkerKeeps DEF Inv
  <1> QED
    BY <1>2, <1>3

LEMMA GroupCommandKeeps ==
    ASSUME Inv, NEW w \in Workers, NEW e \in Epochs, GroupCommand(w, e)
    PROVE  Inv'
  <1>1. PICK on \in Epochs : on = loop[w][e].on
    <2>1. loop[w][e] \in Loops /\ loop[w][e].on # 0
      BY TypesAre DEF Inv, AtWork, GroupCommand
    <2>2. loop[w][e].on \in 0 .. MaxEpochs
      BY <2>1 DEF Loops
    <2> QED
      BY <2>1, <2>2, Constants
  <1>2. /\ TypeOK /\ job = "running" /\ loop[w][e].at = "WAIT"
        /\ bcast \in [Epochs -> [Workers -> Seq(Commands)]] /\ bcast[on][w] # <<>>
        /\ bcast' = [bcast EXCEPT ![on][w] = Tail(@)]
        /\ handlers' = handlers \cup
               {[w |-> w, cmd |-> Head(bcast[on][w]), via |-> on, at |-> "START",
                 on |-> 0, k |-> 0]}
        /\ loop' = [loop EXCEPT ![w][e] = [at |-> "POST", on |-> 0]]
        /\ UNCHANGED <<driverVars, entered, peersEntered, worldVars, gridMsg, gw, job>>
    BY <1>1, TypesAre DEF Inv, GroupCommand
  <1>3. \A s \in Seq(Commands) : s # <<>> => Head(s) \in Commands /\ Tail(s) \in Seq(Commands)
    BY Taken
  <1>4. Head(bcast[on][w]) \in Commands /\ Tail(bcast[on][w]) \in Seq(Commands)
    BY <1>2, <1>3
  <1>5. bcast' \in [Epochs -> [Workers -> Seq(Commands)]]
    BY <1>2, <1>4
  <1>6. [w |-> w, cmd |-> Head(bcast[on][w]), via |-> on, at |-> "START", on |-> 0, k |-> 0]
            \in Threads
    BY <1>4, Constants DEF Threads
  <1>7. handlers' \subseteq Threads
    BY <1>2, <1>6, TypesAre
  <1>8. /\ loop' \in [Workers -> [Epochs -> Loops]] /\ loop'[w][e].at = "POST"
        /\ \A v \in Workers, f \in Epochs : v # w \/ f # e => loop'[v][f] = loop[v][f]
    BY <1>2, Constants, LoopGoesOn DEF Stages
  <1>9. TypeOK'
    BY <1>2, <1>5, <1>7, <1>8, TypesAre, TypesWillBe DEF driverVars, worldVars
  <1>10. \A v \in Workers, f \in Epochs :
             /\ loop'[v][f].at # "NONE" \/ gw'[v].group = f => entered[f][v] # <<>>
             /\ loop'[v][f].at = "WAIT" => loop'[v][f].on # 0
    BY <1>2, <1>8 DEF Inv, Joined, AtWork
  <1>11. UNCHANGED <<driverVars, sends, entered, gw>>
    BY <1>2 DEF worldVars
  <1> QED
    BY <1>2, <1>9, <1>10, <1>11, WorkerKeeps DEF Inv

(* A thread that works for a group the worker is in.                         *)
LEMMA ThreadEnters ==
    ASSUME Inv, NEW w \in Workers, NEW what \in Labels, NEW e \in Epochs, gw[w].group = e,
           Enter(e, w, what)
    PROVE  /\ entered' \in [Epochs -> [Ranks -> Seq(Labels)]]
           /\ Len(entered[e][w]) \in Nat
           /\ \A f \in Epochs : entered'[f][0] = entered[f][0]
           /\ \A f \in Epochs, v \in Workers :
                  \/ entered'[f][v] = entered[f][v]
                  \/ entered[f][v] # <<>> /\ entered'[f][v] # <<>>
  <1>1. TypeOK /\ w \in Ranks /\ entered[e][w] # <<>>
    BY Constants DEF Inv, Joined
  <1>2. entered[e][w] \in Seq(Labels)
    BY <1>1, TypesAre
  <1>3. /\ entered' \in [Epochs -> [Ranks -> Seq(Labels)]] /\ entered'[e][w] # <<>>
        /\ \A f \in Epochs, q \in Ranks : f # e \/ q # w => entered'[f][q] = entered[f][q]
    BY <1>1, Entering
  <1>4. Len(entered[e][w]) \in Nat
    BY <1>2, LenProperties
  <1>5. w # 0 /\ 0 \in Ranks /\ Workers \subseteq Ranks
    BY Constants
  <1> QED
    BY <1>1, <1>3, <1>4, <1>5

(* A step of a handler thread of w that leaves the loops alone, and w in its *)
(* group or in none.                                                         *)
LEMMA HandlerKeeps ==
    ASSUME Inv, TypeOK', job = "running", UNCHANGED <<driverVars, sends, loop>>,
           \A w \in Workers : /\ gw'[w].primary = gw[w].primary
                              /\ gw'[w].group \in {gw[w].group, 0},
           \A f \in Epochs : entered'[f][0] = entered[f][0],
           \A f \in Epochs, v \in Workers :
               \/ entered'[f][v] = entered[f][v]
               \/ entered[f][v] # <<>> /\ entered'[f][v] # <<>>
    PROVE  Inv'
  <1>1. \A v \in Workers, f \in Epochs :
            /\ loop'[v][f].at # "NONE" \/ gw'[v].group = f => entered[f][v] # <<>>
            /\ loop'[v][f].at = "WAIT" => loop'[v][f].on # 0
    BY Constants DEF Inv, Joined, AtWork
  <1> QED
    BY <1>1, WorkerKeeps DEF Inv

LEMMA EnterGroupBarrierKeeps ==
    ASSUME Inv, job = "running", NEW h \in handlers, EnterGroupBarrier(h)
    PROVE  Inv'
  <1>1. /\ TypeOK /\ h.w \in Workers /\ h.cmd \in Commands /\ h.cmd \in Labels
        /\ handlers \subseteq Threads
    BY ThreadsKeep, TypesAre, Constants DEF Inv
  <1>2. gw \in [Workers -> GroupWorkers] /\ gw[h.w].group \in 0 .. MaxEpochs
    BY <1>1, TypesAre DEF GroupWorkers
  <1>3. CASE gw[h.w].group = 0
    BY <1>3, CrashKeeps DEF EnterGroupBarrier
  <1>4. CASE gw[h.w].group # 0
    <2>1. PICK e \in Epochs : e = gw[h.w].group
      BY <1>2, <1>4, Constants
    <2>2. /\ Enter(e, h.w, h.cmd)
          /\ Done(h) \/ Blocks(h, "ENTERED", e, Len(entered[e][h.w]))
          /\ UNCHANGED <<driverVars, peersEntered, bcast, worldVars, gridMsg, loop, job>>
      BY <1>4, <2>1 DEF EnterGroupBarrier
    <2>3. PICK open \in BOOLEAN : gw' = [gw EXCEPT ![h.w].connection_open = open]
      <3>1. gw[h.w].connection_open \in BOOLEAN
        BY <1>1, <1>2 DEF GroupWorkers
      <3> QED
        BY <1>4, <3>1 DEF EnterGroupBarrier
    <2>4. /\ gw' \in [Workers -> GroupWorkers]
          /\ \A v \in Workers : gw'[v].primary = gw[v].primary /\ gw'[v].group = gw[v].group
      <3>1. PICK r \in GroupWorkers : r = gw[h.w]
        BY <1>1, <1>2
      <3>2. /\ [r EXCEPT !.connection_open = open] \in GroupWorkers
            /\ [r EXCEPT !.connection_open = open].primary = r.primary
            /\ [r EXCEPT !.connection_open = open].group = r.group
        BY DEF GroupWorkers
      <3>3. gw' = [gw EXCEPT ![h.w] = [r EXCEPT !.connection_open = open]]
        BY <2>3, <3>1
      <3> QED
        BY <1>1, <1>2, <3>1, <3>2, <3>3
    <2>5. /\ entered' \in [Epochs -> [Ranks -> Seq(Labels)]]
          /\ Len(entered[e][h.w]) \in Nat
          /\ \A f \in Epochs : entered'[f][0] = entered[f][0]
          /\ \A f \in Epochs, v \in Workers :
                 \/ entered'[f][v] = entered[f][v]
                 \/ entered[f][v] # <<>> /\ entered'[f][v] # <<>>
      BY <1>1, <2>1, <2>2, ThreadEnters
    <2>6. handlers' \subseteq Threads
      BY <1>1, <2>1, <2>2, <2>5, ThreadsKeep, Constants
    <2>7. TypeOK'
      BY <1>1, <2>2, <2>4, <2>5, <2>6, TypesAre, TypesWillBe DEF driverVars, worldVars
    <2> QED
      BY <2>2, <2>4, <2>5, <2>7, HandlerKeeps DEF worldVars
  <1> QED
    BY <1>3, <1>4

LEMMA SendGridKeeps ==
    ASSUME Inv, job = "running", NEW h \in handlers, SendGrid(h)
    PROVE  Inv'
  <1>1. TypeOK /\ h.w \in Workers /\ handlers \subseteq Threads /\ gw[h.w].group \in 0 .. MaxEpochs
    BY ThreadsKeep, TypesAre DEF Inv, GroupWorkers
  <1>2. CASE gw[h.w].grid = 0 \/ gw[h.w].group = 0
    BY <1>2, CrashKeeps DEF SendGrid
  <1>3. CASE gw[h.w].grid # 0 /\ gw[h.w].group # 0
    <2>1. PICK e \in Epochs : e = gw[h.w].group
      BY <1>1, <1>3, Constants
    <2>2. /\ gridMsg' = [gridMsg EXCEPT ![e] = @ \cup {h.w}] /\ Done(h)
          /\ UNCHANGED <<driverVars, entered, peersEntered, bcast, worldVars, loop, gw, job>>
      BY <1>3, <2>1 DEF SendGrid
    <2>3. gridMsg' \in [Epochs -> SUBSET Workers] /\ handlers' \subseteq Threads
      BY <1>1, <2>2, TypesAre, ThreadsKeep
    <2>4. TypeOK'
      BY <1>1, <2>2, <2>3, TypesAre, TypesWillBe DEF driverVars, worldVars
    <2> QED
      BY <2>2, <2>4, HandlerKeeps DEF worldVars
  <1> QED
    BY <1>2, <1>3

LEMMA DropGridKeeps ==
    ASSUME Inv, job = "running", NEW h \in handlers, DropGrid(h)
    PROVE  Inv'
  <1>1. TypeOK /\ h.w \in Workers /\ handlers \subseteq Threads /\ "FREE" \in Labels
    BY ThreadsKeep, TypesAre DEF Inv, Labels, Commands
  <1>2. gw \in [Workers -> GroupWorkers] /\ gw[h.w].group \in 0 .. MaxEpochs
    BY <1>1, TypesAre DEF GroupWorkers
  <1>3. /\ gw' = [gw EXCEPT ![h.w].grid = 0]
        /\ UNCHANGED <<driverVars, peersEntered, bcast, worldVars, gridMsg, loop, job>>
    BY DEF DropGrid
  <1>4. /\ gw' \in [Workers -> GroupWorkers]
        /\ \A v \in Workers : gw'[v].primary = gw[v].primary /\ gw'[v].group = gw[v].group
    BY <1>1, <1>2, <1>3, Constants DEF GroupWorkers
  <1>5. /\ entered' \in [Epochs -> [Ranks -> Seq(Labels)]] /\ handlers' \subseteq Threads
        /\ \A f \in Epochs : entered'[f][0] = entered[f][0]
        /\ \A f \in Epochs, v \in Workers :
               \/ entered'[f][v] = entered[f][v]
               \/ entered[f][v] # <<>> /\ entered'[f][v] # <<>>
    <2>1. CASE gw[h.w].group = 0
      <3>1. UNCHANGED entered /\ Blocks(h, "PEERS", 0, 0)
        BY <2>1 DEF DropGrid
      <3> QED
        BY <1>1, <3>1, TypesAre, ThreadsKeep, Constants
    <2>2. CASE gw[h.w].group # 0
      <3>1. PICK e \in Epochs : e = gw[h.w].group
        BY <1>2, <2>2, Constants
      <3>2. Enter(e, h.w, "FREE") /\ Blocks(h, "ENTERED", e, Len(entered[e][h.w]))
        BY <2>2, <3>1 DEF DropGrid
      <3> QED
        BY <1>1, <3>1, <3>2, ThreadEnters, ThreadsKeep, Constants
    <2> QED
      BY <2>1, <2>2
  <1>6. TypeOK'
    BY <1>1, <1>3, <1>4, <1>5, TypesAre, TypesWillBe DEF driverVars, worldVars
  <1> QED
    BY <1>3, <1>4, <1>5, <1>6, HandlerKeeps DEF worldVars

LEMMA FreeCommKeeps ==
    ASSUME Inv, job = "running", NEW h \in handlers, FreeComm(h)
    PROVE  Inv'
  <1>1. /\ TypeOK /\ h.w \in Workers /\ handlers \subseteq Threads
        /\ gw \in [Workers -> GroupWorkers]
    BY ThreadsKeep, TypesAre DEF Inv
  <1>2. CASE gw[h.w].group = 0
    BY <1>2, CrashKeeps DEF FreeComm
  <1>3. CASE gw[h.w].group # 0
    <2>1. /\ gw' = [gw EXCEPT ![h.w].group = 0] /\ Blocks(h, "PEERS", 0, 0)
          /\ UNCHANGED <<driverVars, entered, peersEntered, bcast, worldVars, gridMsg, loop, job>>
      BY <1>3 DEF FreeComm
    <2>2. /\ gw' \in [Workers -> GroupWorkers] /\ handlers' \subseteq Threads
          /\ \A v \in Workers : gw'[v].primary = gw[v].primary /\ gw'[v].group \in {gw[v].group, 0}
      <3>1. 0 \in 0 .. MaxEpochs
        BY Constants
      <3>2. /\ gw' \in [Workers -> GroupWorkers]
            /\ \A v \in Workers : /\ gw'[v].primary = gw[v].primary
                                  /\ gw'[v].group \in {gw[v].group, 0}
        BY <1>1, <2>1, <3>1 DEF GroupWorkers
      <3> QED
        BY <1>1, <2>1, <3>1, <3>2, ThreadsKeep
    <2>3. TypeOK'
      BY <1>1, <2>1, <2>2, TypesAre, TypesWillBe DEF driverVars, worldVars
    <2> QED
      BY <2>1, <2>2, <2>3, HandlerKeeps DEF worldVars
  <1> QED
    BY <1>2, <1>3

LEMMA MeetPeersKeeps ==
    ASSUME Inv, job = "running", NEW h \in handlers, MeetPeers(h)
    PROVE  Inv'
  <1>1. /\ TypeOK /\ h.w \in Workers /\ handlers \subseteq Threads
        /\ gw[h.w].group_peers \in 0 .. MaxEpochs /\ "FREE" \in Labels
    BY ThreadsKeep, TypesAre DEF Inv, GroupWorkers, Labels, Commands
  <1>2. CASE Misuse(h.w, gw[h.w].group_peers)
    BY <1>1, <1>2, MisuseKeeps
  <1>3. CASE ~ Misuse(h.w, gw[h.w].group_peers)
    <2>1. UNCHANGED <<driverVars, entered, bcast, worldVars, gridMsg, loop, gw, job>>
      BY <1>3 DEF MeetPeers
    <2>2. peersEntered' \in [Epochs -> [Workers -> Seq(Labels)]] /\ handlers' \subseteq Threads
      <3>1. CASE gw[h.w].group_peers = 0
        BY <1>1, <1>3, <3>1, TypesAre, ThreadsKeep DEF MeetPeers
      <3>2. CASE gw[h.w].group_peers # 0
        <4>1. PICK e \in Epochs : e = gw[h.w].group_peers
          BY <1>1, <3>2, Constants
        <4>2. EnterPeers(e, h.w, "FREE") /\ Blocks(h, "MEET", e, Len(peersEntered[e][h.w]))
          BY <1>3, <3>2, <4>1 DEF MeetPeers
        <4>3. peersEntered[e][h.w] \in Seq(Labels)
          BY <1>1, TypesAre
        <4>4. Len(peersEntered[e][h.w]) \in Nat /\ e \in 0 .. MaxEpochs
          BY <4>3, LenProperties, Constants
        <4> QED
          BY <1>1, <4>2, <4>4, EnteringPeers, ThreadsKeep
      <3> QED
        BY <3>1, <3>2
    <2>3. TypeOK'
      BY <1>1, <2>1, <2>2, TypesAre, TypesWillBe DEF driverVars, worldVars
    <2> QED
      BY <2>1, <2>3, HandlerKeeps DEF worldVars
  <1> QED
    BY <1>2, <1>3

\* A thread frees one of the two handles, of communicator e.
LEMMA FreeingKeeps ==
    ASSUME Inv, job = "running", NEW h \in handlers, handlers' \subseteq Threads,
           NEW e \in Epochs,
           \/ gw' = [gw EXCEPT ![h.w].El_group_peers = 0, ![h.w].freed = @ \cup {e}]
           \/ gw' = [gw EXCEPT ![h.w].group_peers = 0, ![h.w].freed = @ \cup {e}],
           UNCHANGED <<driverVars, entered, peersEntered, bcast, worldVars, gridMsg, loop, job>>
    PROVE  Inv'
  <1>1. /\ TypeOK /\ h.w \in Workers /\ gw \in [Workers -> GroupWorkers] /\ 0 \in 0 .. MaxEpochs
    BY ThreadsKeep, TypesAre, Constants DEF Inv
  <1>2. \A x \in GroupWorkers :
            /\ [x EXCEPT !.El_group_peers = 0, !.freed = @ \cup {e}] \in GroupWorkers
            /\ [x EXCEPT !.group_peers = 0, !.freed = @ \cup {e}] \in GroupWorkers
    BY <1>1 DEF GroupWorkers
  <1>3. /\ gw' \in [Workers -> GroupWorkers]
        /\ \A v \in Workers : gw'[v].primary = gw[v].primary /\ gw'[v].group = gw[v].group
    <2>1. gw' \in [Workers -> GroupWorkers]
      <3> DEFINE el  == [gw[h.w] EXCEPT !.El_group_peers = 0, !.freed = @ \cup {e}]
                 own == [gw[h.w] EXCEPT !.group_peers = 0, !.freed = @ \cup {e}]
      <3>1. el \in GroupWorkers /\ own \in GroupWorkers
        BY <1>1, <1>2
      <3>2. gw' = [gw EXCEPT ![h.w] = el] \/ gw' = [gw EXCEPT ![h.w] = own]
        OBVIOUS
      <3> HIDE DEF el, own
      <3> QED
        BY <1>1, <3>1, <3>2
    <2>2. \A v \in Workers : gw'[v].primary = gw[v].primary /\ gw'[v].group = gw[v].group
      BY <1>1 DEF GroupWorkers
    <2> QED
      BY <2>1, <2>2
  <1>4. TypeOK'
    BY <1>1, <1>3, TypesAre, TypesWillBe DEF driverVars, worldVars
  <1> QED
    BY <1>3, <1>4, HandlerKeeps DEF worldVars

LEMMA FreeElPeersKeeps ==
    ASSUME Inv, job = "running", NEW h \in handlers, FreeElPeers(h)
    PROVE  Inv'
  <1>1. /\ h.w \in Workers /\ handlers \subseteq Threads
        /\ gw[h.w].El_group_peers \in 0 .. MaxEpochs
    BY ThreadsKeep, TypesAre DEF Inv, GroupWorkers
  <1>2. CASE Misuse(h.w, gw[h.w].El_group_peers)
    BY <1>1, <1>2, MisuseKeeps
  <1>3. CASE ~ Misuse(h.w, gw[h.w].El_group_peers)
    <2>1. PICK e \in Epochs : e = gw[h.w].El_group_peers
      BY <1>1, <1>3, Constants DEF FreeElPeers
    <2>2. /\ gw' = [gw EXCEPT ![h.w].El_group_peers = 0, ![h.w].freed = @ \cup {e}]
          /\ Blocks(h, "SLEEP", 0, 0)
          /\ UNCHANGED <<driverVars, entered, peersEntered, bcast, worldVars, gridMsg, loop, job>>
      BY <1>3, <2>1 DEF FreeElPeers
    <2>3. handlers' \subseteq Threads
      BY <1>1, <2>2, ThreadsKeep, Constants
    <2> QED
      BY <2>2, <2>3, FreeingKeeps
  <1> QED
    BY <1>2, <1>3

LEMMA FreePeersKeeps ==
    ASSUME Inv, job = "running", NEW h \in handlers, FreePeers(h)
    PROVE  Inv'
  <1>1. /\ h.w \in Workers /\ handlers \subseteq Threads
        /\ gw[h.w].group_peers \in 0 .. MaxEpochs
    BY ThreadsKeep, TypesAre DEF Inv, GroupWorkers
  <1>2. CASE Misuse(h.w, gw[h.w].group_peers)
    BY <1>1, <1>2, MisuseKeeps
  <1>3. CASE ~ Misuse(h.w, gw[h.w].group_peers)
    <2>1. PICK e \in Epochs : e = gw[h.w].group_peers
      BY <1>1, <1>3, Constants DEF FreePeers
    <2>2. /\ gw' = [gw EXCEPT ![h.w].group_peers = 0, ![h.w].freed = @ \cup {e}]
          /\ Done(h)
          /\ UNCHANGED <<driverVars, entered, peersEntered, bcast, worldVars, gridMsg, loop, job>>
      BY <1>3, <2>1 DEF FreePeers
    <2>3. handlers' \subseteq Threads
      BY <1>1, <2>2, ThreadsKeep
    <2> QED
      BY <2>2, <2>3, FreeingKeeps
  <1> QED
    BY <1>2, <1>3

-----------------------------------------------------------------------------
(* A worker takes what the driver sent it about a change of the groups.      *)
LEMMA JoinGroupKeeps ==
    ASSUME Inv, NEW w \in Workers, JoinGroup(w)
    PROVE  Inv'
  <1>1. /\ TypeOK /\ job = "running" /\ sends \in [Workers -> Seq(0 .. MaxEpochs)]
        /\ sends[w] # <<>> /\ sends' = [sends EXCEPT ![w] = Tail(@)]
        /\ newGroup \in [Workers -> Nat] /\ newGroup' = [newGroup EXCEPT ![w] = @ - 1]
        /\ newGroup[w] > 0
        /\ UNCHANGED <<driverVars, peersEntered, bcast, worldIn, gridMsg, handlers, job>>
    BY TypesAre DEF Inv, JoinGroup
  <1>2. UNCHANGED <<members, groupComm, epoch, comm, driver>>
    BY <1>1 DEF driverVars
  <1>3. \A s \in Seq(0 .. MaxEpochs) : s # <<>> =>
            /\ Head(s) \in 0 .. MaxEpochs /\ Head(s) = s[1] /\ Tail(s) \in Seq(0 .. MaxEpochs)
            /\ Len(s) \in Nat \ {0} /\ Len(Tail(s)) = Len(s) - 1
            /\ DOMAIN s = 1 .. Len(s) /\ DOMAIN Tail(s) = 1 .. Len(s) - 1
            /\ \A i \in DOMAIN Tail(s) : Tail(s)[i] = s[i + 1] /\ i + 1 \in DOMAIN s
    BY Taken
  <1>4. PICK e \in 0 .. MaxEpochs : e = Head(sends[w])
    BY <1>1, <1>3
  <1>5. /\ sends[w][1] = e /\ 1 \in DOMAIN sends[w] /\ Len(sends[w]) \in Nat \ {0}
        /\ DOMAIN sends'[w] = 1 .. Len(sends[w]) - 1 /\ Len(sends'[w]) = Len(sends[w]) - 1
        /\ \A i \in DOMAIN sends'[w] : sends'[w][i] = sends[w][i + 1] /\ i + 1 \in DOMAIN sends[w]
        /\ sends' \in [Workers -> Seq(0 .. MaxEpochs)]
        /\ \A v \in Workers : v # w => sends'[v] = sends[v]
    BY <1>1, <1>3, <1>4
  <1>6. newGroup' \in [Workers -> Nat]
    <2>1. newGroup[w] - 1 \in Nat
      BY <1>1
    <2> QED
      BY <1>1, <2>1
  <1>7. CASE e = 0
    <2>1. UNCHANGED <<entered, loop, gw>>
      BY <1>4, <1>7 DEF JoinGroup
    <2>2. TypeOK'
      BY <1>1, <1>5, <1>6, <2>1, TypesAre, TypesWillBe DEF driverVars
    <2>3. AtWork' /\ Fresh' /\ Joined' /\ Ranked'
      BY <1>1, <1>2, <2>1 DEF Inv, AtWork, Fresh, Unborn, Joined, Ranked
    <2>4. Details'
      <3>1. SUFFICES ASSUME NEW v \in Workers, NEW i \in DOMAIN sends'[v], sends'[v][i] # 0
                     PROVE  /\ i = Len(sends'[v]) /\ sends'[v][i] = epoch /\ driver.at = "CREATE"
                            /\ v \in comm[epoch] /\ entered[epoch][v] = <<>>
        BY <1>2, <2>1 DEF Details
      <3>2. CASE v # w
        BY <1>5, <3>1, <3>2 DEF Inv, Details
      <3>3. CASE v = w
        <4>1. /\ i + 1 \in DOMAIN sends[w] /\ sends[w][i + 1] # 0
              /\ sends'[w][i] = sends[w][i + 1] /\ i \in Int
          BY <1>5, <3>1, <3>3
        <4>2. /\ i + 1 = Len(sends[w]) /\ sends[w][i + 1] = epoch /\ driver.at = "CREATE"
              /\ w \in comm[epoch] /\ entered[epoch][w] = <<>>
          BY <4>1 DEF Inv, Details
        <4>3. Len(sends'[w]) = i
          BY <1>5, <4>1, <4>2
        <4> QED
          BY <3>3, <4>1, <4>2, <4>3
      <3> QED
        BY <3>2, <3>3
    <2> QED
      BY <2>2, <2>3, <2>4 DEF Inv
  <1>8. CASE e # 0
    <2>1. /\ Len(sends[w]) = 1 /\ e = epoch /\ driver.at = "CREATE" /\ w \in comm[epoch]
          /\ entered[epoch][w] = <<>> /\ epoch \in Epochs
      BY <1>4, <1>5, <1>8, Constants DEF Inv, Details
    <2>2. PICK primary \in {"UNSET", "YES", "NO"} :
              /\ gw' = [gw EXCEPT ![w].primary = primary]
              /\ gw[w].primary # "UNSET" => primary = gw[w].primary
              /\ gw[w].primary = "UNSET" =>
                     primary = IF \A v \in comm[epoch] : w <= v THEN "YES" ELSE "NO"
      <3>1. gw[w].primary \in {"UNSET", "YES", "NO"}
        BY <1>1, TypesAre DEF GroupWorkers
      <3>2. gw' = [gw EXCEPT ![w].primary =
                      IF @ = "UNSET" THEN (IF \A v \in comm[epoch] : w <= v THEN "YES" ELSE "NO")
                                     ELSE @]
        BY <1>4, <1>8, <2>1 DEF JoinGroup
      <3>3. CASE gw[w].primary = "UNSET"
        BY <3>2, <3>3
      <3>4. CASE gw[w].primary # "UNSET"
        BY <3>1, <3>2, <3>4
      <3> QED
        BY <3>3, <3>4
    <2>3. Enter(epoch, w, "CREATE") /\ loop' = [loop EXCEPT ![w][epoch].at = "CREATE"]
      BY <1>4, <1>8, <2>1 DEF JoinGroup
    <2>4. /\ gw' \in [Workers -> GroupWorkers] /\ gw'[w].primary = primary
          /\ \A v \in Workers : gw'[v].group = gw[v].group
          /\ \A v \in Workers : v # w => gw'[v] = gw[v]
      BY <1>1, <2>2, TypesAre DEF GroupWorkers
    <2>5. /\ entered' \in [Epochs -> [Ranks -> Seq(Labels)]] /\ entered'[epoch][w] # <<>>
          /\ \A f \in Epochs, q \in Ranks :
                 f # epoch \/ q # w => entered'[f][q] = entered[f][q]
      <3>1. w \in Ranks /\ "CREATE" \in Labels
        BY Constants DEF Labels
      <3> QED
        BY <1>1, <2>1, <2>3, <3>1, Entering
    <2>6. /\ loop' \in [Workers -> [Epochs -> Loops]] /\ loop'[w][epoch].at = "CREATE"
          /\ \A v \in Workers, f \in Epochs : v # w \/ f # epoch => loop'[v][f] = loop[v][f]
      BY <1>1, <2>1, <2>3, LoopMovesTo DEF Stages
    <2>7. TypeOK'
      BY <1>1, <1>5, <1>6, <2>4, <2>5, <2>6, TypesAre, TypesWillBe DEF driverVars
    <2>8. AtWork'
      BY <1>2, <2>6 DEF Inv, AtWork
    <2>9. Fresh'
      <3>1. \A f \in Epochs : Unborn(f) => f # epoch
        BY <2>1, Constants DEF Unborn, Leaving
      <3>2. driver.at \in Forming => entered'[epoch][0] # <<>>
        BY <2>1, <2>5, Constants DEF Inv, Fresh
      <3> QED
        BY <1>2, <2>5, <3>1, <3>2 DEF Inv, Fresh, Unborn
    <2>10. Joined'
      <3>1. SUFFICES ASSUME NEW v \in Workers, NEW f \in Epochs,
                            loop'[v][f].at # "NONE" \/ gw'[v].group = f
                     PROVE  entered'[f][v] # <<>>
        BY DEF Joined
      <3>2. CASE v = w /\ f = epoch
        BY <2>5, <3>2
      <3>3. CASE v # w \/ f # epoch
        <4>1. loop'[v][f] = loop[v][f] /\ gw'[v].group = gw[v].group
          BY <2>4, <2>6, <3>3
        <4>2. entered'[f][v] = entered[f][v]
          BY <2>5, <3>3, Constants
        <4> QED
          BY <3>1, <4>1, <4>2 DEF Inv, Joined
      <3> QED
        BY <3>2, <3>3
    <2>11. Details'
      <3>1. SUFFICES ASSUME NEW v \in Workers, NEW i \in DOMAIN sends'[v], sends'[v][i] # 0
                     PROVE  /\ i = Len(sends'[v]) /\ sends'[v][i] = epoch /\ driver.at = "CREATE"
                            /\ v \in comm[epoch] /\ entered'[epoch][v] = <<>>
        BY <1>2 DEF Details
      <3>2. v # w
        BY <1>5, <2>1, <3>1
      <3>3. entered'[epoch][v] = entered[epoch][v]
        BY <2>1, <2>5, <3>2, Constants
      <3> QED
        BY <1>5, <3>1, <3>2, <3>3 DEF Inv, Details
    <2>12. Ranked'
      <3>1. /\ \A f \in Epochs : f < epoch \/ (f = epoch /\ driver.at = "IDLE") => Lowest(comm[f])
            /\ \A g \in Groups : g # driver.g =>
                   Lowest(members[g]) /\ \A v \in members[g] : gw[v].primary # "UNSET"
            /\ \A v \in Workers : /\ gw[v].primary = "YES" => \E f \in 1 .. epoch :
                                         v \in comm[f] /\ \A u \in comm[f] : v <= u
                                  /\ gw[v].primary = "NO" => \E f \in 1 .. epoch :
                                         v \in comm[f] /\ \E u \in comm[f] : u < v
            /\ \A v \in Workers, f \in Epochs : entered[f][v] # <<>> => gw[v].primary # "UNSET"
        BY <1>1 DEF Inv, Ranked
      <3>2. gw'[w].primary # "UNSET"
        BY <2>2, <2>4
      <3>3. \A v \in Workers : gw[v].primary # "UNSET" => gw'[v].primary # "UNSET"
        BY <2>4, <3>2
      <3>4. \A g \in Groups : members[g] \subseteq Workers
        BY <1>1, TypesAre
      <3>5. \A g \in Groups : g # driver.g => \A v \in members[g] : gw'[v].primary # "UNSET"
        BY <3>1, <3>3, <3>4
      <3>6. \A v \in Workers, f \in Epochs : entered'[f][v] # <<>> => gw'[v].primary # "UNSET"
        <4>1. \A v \in Workers, f \in Epochs : v # w => entered'[f][v] = entered[f][v]
          BY <2>5, Constants
        <4> QED
          BY <3>1, <3>2, <3>3, <4>1
      <3>7. ASSUME NEW v \in Workers
            PROVE  /\ gw'[v].primary = "YES" => \E f \in 1 .. epoch :
                          v \in comm[f] /\ \A u \in comm[f] : v <= u
                   /\ gw'[v].primary = "NO" => \E f \in 1 .. epoch :
                          v \in comm[f] /\ \E u \in comm[f] : u < v
        <4>1. CASE gw'[v].primary = gw[v].primary
          BY <3>1, <4>1
        <4>2. CASE gw'[v].primary # gw[v].primary
          <5>1. /\ v = w /\ gw[w].primary = "UNSET"
                /\ primary = IF \A u \in comm[epoch] : w <= u THEN "YES" ELSE "NO"
            BY <2>2, <2>4, <4>2
          <5>2. epoch \in 1 .. epoch /\ comm[epoch] \subseteq Workers /\ Workers \subseteq Nat
            <6>1. epoch \in 1 .. epoch
              BY <2>1, LifecycleAssumption DEF Epochs
            <6> QED
              BY <1>1, <2>1, <6>1, TypesAre, Constants
          <5>3. CASE \A u \in comm[epoch] : w <= u
            BY <2>1, <2>4, <5>1, <5>2, <5>3
          <5>4. CASE ~ \A u \in comm[epoch] : w <= u
            <6>1. \E u \in comm[epoch] : u < w
              BY <5>2, <5>4
            <6> QED
              BY <2>1, <2>4, <5>1, <5>2, <5>4, <6>1
          <5> QED
            BY <5>3, <5>4
        <4> QED
          BY <4>1, <4>2
      <3> QED
        BY <1>2, <3>1, <3>5, <3>6, <3>7 DEF Ranked
    <2> QED
      BY <2>7, <2>8, <2>9, <2>10, <2>11, <2>12 DEF Inv
  <1> QED
    BY <1>7, <1>8

-----------------------------------------------------------------------------
(* The driver's steps.  One that goes on with a change it is at work on, and *)
(* keeps the worker's side and the groups.                                   *)
LEMMA DriverGoesOn ==
    ASSUME Inv, job = "running", UNCHANGED <<members, epoch, comm, gw, loop, job>>,
           driver.at # "IDLE", NEW at \in {"NEW", "CREATE", "FORM"} \cup Commands, Goto(at),
           at \in {"CLOSE", "FREE"} => groupComm'[driver.g] # 0,
           \A e \in Epochs, w \in Workers : entered'[e][w] = entered[e][w]
    PROVE  /\ AtWork' /\ Joined' /\ Ranked' /\ driver' \in Drivers
           /\ driver'.at = at /\ driver'.g = driver.g
           /\ epoch \in Epochs /\ driver.g \in Groups
  <1>1. driver \in Drivers /\ driver.g # 0 /\ epoch # 0 /\ comm[epoch] = members[driver.g]
    BY TypesAre DEF Inv, AtWork
  <1>2. driver.g \in Groups /\ epoch \in Epochs
    BY <1>1, TypesAre, Constants DEF Drivers, Inv
  <1>3. driver' \in Drivers /\ driver'.at = at /\ driver'.g = driver.g
    BY <1>1 DEF Goto, Drivers
  <1>4. at # "IDLE"
    BY DEF Commands
  <1>5. AtWork'
    BY <1>1, <1>3, <1>4 DEF Inv, AtWork
  <1>6. Joined'
    BY DEF Inv, Joined
  <1>7. Ranked'
    <2>1. /\ \A e \in Epochs : e < epoch => Lowest(comm[e])
          /\ \A g \in Groups : g # driver.g =>
                 Lowest(members[g]) /\ \A w \in members[g] : gw[w].primary # "UNSET"
          /\ \A w \in Workers : /\ gw[w].primary = "YES" => \E e \in 1 .. epoch :
                                       w \in comm[e] /\ \A v \in comm[e] : w <= v
                                /\ gw[w].primary = "NO" => \E e \in 1 .. epoch :
                                       w \in comm[e] /\ \E v \in comm[e] : v < w
          /\ \A w \in Workers, e \in Epochs : entered[e][w] # <<>> => gw[w].primary # "UNSET"
      BY DEF Inv, Ranked
    <2> QED
      BY <1>3, <1>4, <2>1 DEF Ranked
  <1> QED
    BY <1>2, <1>3, <1>5, <1>6, <1>7

\* While the driver does not wait for workers to join a group, no details are on
\* their way.
LEMMA NoDetails ==
    ASSUME Inv, driver.at # "CREATE"
    PROVE  /\ \A w \in Workers : \A i \in DOMAIN sends[w] : sends[w][i] = 0
           /\ UNCHANGED sends => Details'
  BY DEF Inv, Details

LEMMA SendFreeKeeps ==
    ASSUME Inv, SendFree
    PROVE  Inv'
  <1>1. /\ TypeOK /\ job = "running" /\ driver.at = "CLOSE" /\ Goto("FREE")
        /\ UNCHANGED <<members, groupComm, epoch, comm, peersEntered, worldVars, gridMsg, loop,
                       handlers, gw, job>>
    BY DEF Inv, SendFree, Through
  <1>2. driver.g \in Groups
    BY <1>1, TypesAre DEF Inv, AtWork, Drivers
  <1>3. PICK e \in Epochs : e = groupComm[driver.g]
    BY <1>1, <1>2, TypesAre, Constants DEF Inv, AtWork
  <1>4. Command(e, "FREE") /\ "FREE" \in Commands
    BY <1>3 DEF SendFree, Commands
  <1>5. /\ bcast' \in [Epochs -> [Workers -> Seq(Commands)]]
        /\ entered' \in [Epochs -> [Ranks -> Seq(Labels)]] /\ entered'[e][0] # <<>>
        /\ \A f \in Epochs, q \in Ranks : f # e \/ q # 0 => entered'[f][q] = entered[f][q]
    BY <1>1, <1>4, Commanding
  <1>6. /\ AtWork' /\ Joined' /\ Ranked' /\ driver' \in Drivers
        /\ driver'.at = "FREE" /\ driver'.g = driver.g
    BY <1>1, <1>3, <1>4, <1>5, DriverGoesOn, Constants
  <1>7. TypeOK'
    BY <1>1, <1>5, <1>6, TypesAre, TypesWillBe DEF worldVars
  <1>8. Fresh'
    <2>1. ~ Unborn(e)
      BY <1>2, <1>3, Constants DEF Inv, Fresh
    <2>2. \A f \in Epochs : Unborn(f)' <=> Unborn(f)
      BY <1>1, <1>6 DEF Unborn, Leaving
    <2>3. ASSUME NEW f \in Epochs, Unborn(f)', NEW p \in Ranks
          PROVE  entered'[f][p] = <<>>
      <3>1. Unborn(f) /\ f # e
        BY <2>1, <2>2, <2>3
      <3> QED
        BY <1>5, <3>1 DEF Inv, Fresh
    <2>4. driver'.at \notin Forming
      BY <1>6 DEF Forming
    <2>5. \A g \in Groups : groupComm'[g] # 0 => ~ Unborn(groupComm[g])'
      BY <1>1, <1>6 DEF Inv, Fresh, Unborn, Leaving
    <2> QED
      BY <1>1, <2>3, <2>4, <2>5 DEF Fresh, Unborn
  <1>9. Details'
    BY <1>1, NoDetails DEF worldVars
  <1> QED
    BY <1>6, <1>7, <1>8, <1>9 DEF Inv

LEMMA DropCommKeeps ==
    ASSUME Inv, DropComm
    PROVE  Inv'
  <1>1. /\ TypeOK /\ job = "running" /\ driver.at = "FREE" /\ Goto("NEW")
        /\ groupComm' = [groupComm EXCEPT ![driver.g] = 0]
        /\ UNCHANGED <<members, epoch, comm, entered, peersEntered, bcast, worldVars,
                       gridMsg, loop, handlers, gw, job>>
    BY DEF Inv, DropComm, Through
  <1>2. /\ AtWork' /\ Joined' /\ Ranked' /\ driver' \in Drivers
        /\ driver'.at = "NEW" /\ driver'.g = driver.g /\ driver.g \in Groups
    BY <1>1, DriverGoesOn
  <1>3. /\ groupComm' \in [Groups -> 0 .. MaxEpochs]
        /\ \A g \in Groups : groupComm'[g] \in {groupComm[g], 0}
    BY <1>1, <1>2, TypesAre, Constants
  <1>4. TypeOK'
    BY <1>1, <1>2, <1>3, TypesAre, TypesWillBe DEF worldVars
  <1>5. Fresh'
    <2>1. /\ driver'.at \notin Forming /\ driver.at \in Leaving /\ driver'.at \in Leaving
          /\ UNCHANGED <<epoch, entered>>
      BY <1>1, <1>2 DEF Forming, Leaving
    <2> QED
      BY <1>3, <2>1 DEF Inv, Fresh, Unborn
  <1>6. Details'
    BY <1>1, NoDetails DEF worldVars
  <1> QED
    BY <1>2, <1>4, <1>5, <1>6 DEF Inv

LEMMA ReadyGroupKeeps ==
    ASSUME Inv, ReadyGroup
    PROVE  Inv'
  <1>1. PICK at \in {"FORM", "PRINT", "OPEN"}, c \in {"PRINT", "OPEN", "GRID"} : ReadyStep(at, c)
    BY DEF ReadyGroup
  <1>2. /\ TypeOK /\ job = "running" /\ driver.at = at /\ Goto(c) /\ Command(epoch, c)
        /\ c \in Commands /\ c \notin {"CLOSE", "FREE"}
        /\ UNCHANGED <<members, groupComm, epoch, comm, peersEntered, worldVars, gridMsg, loop,
                       handlers, gw, job>>
    BY <1>1 DEF Inv, ReadyStep, Through, Commands
  <1>3. PICK e \in Epochs : e = epoch
    BY <1>2, TypesAre, Constants DEF Inv, AtWork
  <1>4. /\ bcast' \in [Epochs -> [Workers -> Seq(Commands)]]
        /\ entered' \in [Epochs -> [Ranks -> Seq(Labels)]] /\ entered'[e][0] # <<>>
        /\ \A f \in Epochs, q \in Ranks : f # e \/ q # 0 => entered'[f][q] = entered[f][q]
    BY <1>2, <1>3, Commanding
  <1>5. /\ AtWork' /\ Joined' /\ Ranked' /\ driver' \in Drivers
        /\ driver'.at = c /\ driver'.g = driver.g
    BY <1>2, <1>4, DriverGoesOn, Constants
  <1>6. TypeOK'
    BY <1>2, <1>4, <1>5, TypesAre, TypesWillBe DEF worldVars
  <1>7. Fresh'
    <2>1. driver.at \notin Leaving /\ driver'.at \notin Leaving
      BY <1>2, <1>5 DEF Leaving
    <2>2. \A f \in Epochs : Unborn(f) => f # e
      BY <1>3, <2>1, Constants DEF Unborn
    <2> QED
      BY <1>2, <1>3, <1>4, <2>1, <2>2 DEF Inv, Fresh, Unborn
  <1>8. Details'
    BY <1>1, <1>2, NoDetails DEF worldVars
  <1> QED
    BY <1>5, <1>6, <1>7, <1>8 DEF Inv

LEMMA AnnounceKeeps ==
    ASSUME Inv, Announce
    PROVE  Inv'
  <1>1. /\ TypeOK /\ job = "running" /\ driver.at = "NEW" /\ Goto("CREATE")
        /\ worldIn' = [w \in Workers |-> worldIn[w] + 1]
        /\ sends' = [w \in Workers |->
                        Append(sends[w], IF w \in comm[epoch] THEN epoch ELSE 0)]
        /\ Enter(epoch, 0, "CREATE")
        /\ UNCHANGED <<members, groupComm, epoch, comm, peersEntered, bcast, newGroup,
                       gridMsg, loop, handlers, gw, job>>
    BY DEF Inv, Announce
  <1>2. PICK e \in Epochs : e = epoch
    BY <1>1, TypesAre, Constants DEF Inv, AtWork
  <1>3. /\ entered' \in [Epochs -> [Ranks -> Seq(Labels)]] /\ entered'[e][0] # <<>>
        /\ \A f \in Epochs, q \in Ranks : f # e \/ q # 0 => entered'[f][q] = entered[f][q]
    <2>1. "CREATE" \in Labels /\ 0 \in Ranks
      BY Constants DEF Labels
    <2> QED
      BY <1>1, <1>2, <2>1, Entering
  <1>4. /\ AtWork' /\ Joined' /\ Ranked' /\ driver' \in Drivers
        /\ driver'.at = "CREATE" /\ driver'.g = driver.g
    <2>1. \A f \in Epochs, w \in Workers : entered'[f][w] = entered[f][w]
      BY <1>3, Constants
    <2> QED
      BY <1>1, <2>1, DriverGoesOn
  <1>5. sends \in [Workers -> Seq(0 .. MaxEpochs)] /\ worldIn \in [Workers -> Nat]
    BY <1>1, TypesAre
  <1>6. \A s \in Seq(0 .. MaxEpochs), x \in 0 .. MaxEpochs :
            /\ Append(s, x) \in Seq(0 .. MaxEpochs)
            /\ Len(s) \in Nat /\ Len(Append(s, x)) = Len(s) + 1
            /\ \A i \in 1 .. Len(s) : Append(s, x)[i] = s[i]
            /\ Append(s, x)[Len(s) + 1] = x
    BY Appended
  <1>7. \A s \in Seq(0 .. MaxEpochs) : DOMAIN s = 1 .. Len(s)
    BY LenProperties
  <1>8. ASSUME NEW w \in Workers
        PROVE  /\ sends'[w] \in Seq(0 .. MaxEpochs) /\ Len(sends[w]) \in Nat
               /\ Len(sends'[w]) = Len(sends[w]) + 1 /\ DOMAIN sends'[w] = 1 .. Len(sends[w]) + 1
               /\ DOMAIN sends[w] = 1 .. Len(sends[w])
               /\ \A i \in 1 .. Len(sends[w]) : sends'[w][i] = sends[w][i]
               /\ sends'[w][Len(sends[w]) + 1] = IF w \in comm[e] THEN e ELSE 0
    <2>1. PICK x \in 0 .. MaxEpochs : x = IF w \in comm[e] THEN e ELSE 0
      BY Constants
    <2>2. sends'[w] = Append(sends[w], x) /\ sends[w] \in Seq(0 .. MaxEpochs)
      BY <1>1, <1>2, <1>5, <2>1
    <2> QED
      BY <1>6, <1>7, <2>1, <2>2
  <1>9. sends' \in [Workers -> Seq(0 .. MaxEpochs)] /\ worldIn' \in [Workers -> Nat]
    BY <1>1, <1>5, <1>8
  <1>10. TypeOK'
    BY <1>1, <1>3, <1>4, <1>9, TypesAre, TypesWillBe
  <1>11. /\ \A f \in Epochs, q \in Ranks : Unborn(f) => entered[f][q] = <<>>
         /\ Unborn(e)
    BY <1>1, <1>2 DEF Inv, Fresh, Unborn, Leaving
  <1>12. Fresh'
    <2>1. \A f \in Epochs : Unborn(f)' => Unborn(f) /\ f # e
      BY <1>1, <1>2, <1>4, Constants DEF Unborn, Leaving
    <2>2. ASSUME NEW f \in Epochs, Unborn(f)', NEW p \in Ranks
          PROVE  entered'[f][p] = <<>>
      BY <1>3, <1>11, <2>1, <2>2
    <2>3. \A g \in Groups : groupComm[g] # 0 => ~ (groupComm[g] > epoch)
      BY DEF Inv, Fresh, Unborn
    <2>4. driver'.at \notin Leaving
      BY <1>4 DEF Leaving
    <2> QED
      BY <1>1, <1>2, <1>3, <2>2, <2>3, <2>4 DEF Fresh, Unborn
  <1>13. Details'
    <2>1. SUFFICES ASSUME NEW w \in Workers, NEW i \in DOMAIN sends'[w], sends'[w][i] # 0
                   PROVE  /\ i = Len(sends'[w]) /\ sends'[w][i] = e /\ w \in comm[e]
                          /\ entered'[e][w] = <<>>
      BY <1>1, <1>2, <1>4 DEF Details
    <2>2. \A j \in DOMAIN sends[w] : sends[w][j] = 0
      BY <1>1, NoDetails
    <2>3. i = Len(sends[w]) + 1
      BY <1>8, <2>1, <2>2
    <2>4. sends'[w][i] = e /\ w \in comm[e] /\ i = Len(sends'[w])
      BY <1>8, <2>1, <2>3
    <2>5. entered'[e][w] = <<>>
      BY <1>3, <1>11, Constants
    <2> QED
      BY <2>4, <2>5
  <1> QED
    BY <1>4, <1>10, <1>12, <1>13 DEF Inv

(* All of a group that the driver forms have entered it once the driver is   *)
(* let go of a collective of it.                                             *)
LEMMA AllHaveJoined ==
    ASSUME Inv, driver.at \in Forming, Met(epoch, Len(entered[epoch][0]))
    PROVE  \A w \in comm[epoch] : w \in Workers /\ entered[epoch][w] # <<>>
  <1>1. PICK e \in Epochs : e = epoch
    BY TypesAre, Constants DEF Inv, AtWork, Forming
  <1>2. entered[e][0] # <<>> /\ 0 \in Ranks /\ Workers \subseteq Ranks /\ comm[e] \subseteq Workers
    BY <1>1, Constants, TypesAre DEF Inv, Fresh
  <1>3. \A q \in Ranks : entered[e][q] \in Seq(Labels)
    BY TypesAre DEF Inv
  <1>4. \A s \in Seq(Labels) : Len(s) \in Nat /\ (Len(s) = 0 <=> s = <<>>)
    BY LenProperties, EmptySeq
  <1>5. ASSUME NEW w \in comm[e]
        PROVE  w \in Workers /\ entered[e][w] # <<>>
    <2>1. Len(entered[e][w]) >= Len(entered[e][0])
      BY <1>1 DEF Met
    <2>2. Len(entered[e][0]) \in Nat \ {0} /\ Len(entered[e][w]) \in Nat
      BY <1>2, <1>3, <1>4
    <2>3. Len(entered[e][w]) # 0
      BY <2>1, <2>2
    <2> QED
      BY <1>2, <1>3, <1>4, <2>3
  <1> QED
    BY <1>1, <1>5

LEMMA SetDriverCommKeeps ==
    ASSUME Inv, SetDriverComm
    PROVE  Inv'
  <1>1. /\ TypeOK /\ job = "running" /\ driver.at = "CREATE" /\ Goto("FORM")
        /\ Met(epoch, Len(entered[epoch][0]))
        /\ groupComm' = [groupComm EXCEPT ![driver.g] = epoch] /\ Enter(epoch, 0, "FORM")
        /\ UNCHANGED <<members, epoch, comm, peersEntered, bcast, worldVars, gridMsg,
                       loop, handlers, gw, job>>
    BY DEF Inv, SetDriverComm, Through
  <1>2. PICK e \in Epochs : e = epoch
    BY <1>1, TypesAre, Constants DEF Inv, AtWork
  <1>3. /\ entered' \in [Epochs -> [Ranks -> Seq(Labels)]] /\ entered'[e][0] # <<>>
        /\ \A f \in Epochs, q \in Ranks : f # e \/ q # 0 => entered'[f][q] = entered[f][q]
    <2>1. "FORM" \in Labels /\ 0 \in Ranks
      BY Constants DEF Labels
    <2> QED
      BY <1>1, <1>2, <2>1, Entering
  <1>4. /\ AtWork' /\ Joined' /\ Ranked' /\ driver' \in Drivers
        /\ driver'.at = "FORM" /\ driver'.g = driver.g /\ driver.g \in Groups
    <2>1. \A f \in Epochs, w \in Workers : entered'[f][w] = entered[f][w]
      BY <1>3, Constants
    <2> QED
      BY <1>1, <2>1, DriverGoesOn
  <1>5. /\ groupComm' \in [Groups -> 0 .. MaxEpochs]
        /\ \A g \in Groups : groupComm'[g] \in {groupComm[g], e}
    BY <1>1, <1>2, <1>4, TypesAre, Constants
  <1>6. TypeOK'
    BY <1>1, <1>3, <1>4, <1>5, TypesAre, TypesWillBe DEF worldVars
  <1>7. Fresh'
    <2>1. driver.at \notin Leaving /\ driver'.at \notin Leaving
      BY <1>1, <1>4 DEF Leaving
    <2>2. \A f \in Epochs : (Unborn(f)' <=> f > e) /\ (Unborn(f) <=> f > e)
      BY <1>1, <1>2, <2>1 DEF Unborn
    <2>3. ASSUME NEW f \in Epochs, Unborn(f)', NEW p \in Ranks
          PROVE  entered'[f][p] = <<>>
      <3>1. Unborn(f) /\ f # e
        BY <2>2, <2>3, Constants
      <3> QED
        BY <1>3, <3>1 DEF Inv, Fresh
    <2>4. \A g \in Groups : groupComm'[g] # 0 => ~ (groupComm'[g] > e)
      BY <1>2, <1>5, Constants DEF Inv, Fresh, Unborn
    <2> QED
      BY <1>1, <1>2, <1>3, <2>1, <2>3, <2>4 DEF Fresh, Unborn
  <1>8. Details'
    <2>1. driver.at \in Forming
      BY <1>1 DEF Forming
    <2>2. \A w \in comm[epoch] : entered[epoch][w] # <<>>
      BY <1>1, <2>1, AllHaveJoined
    <2>3. \A w \in Workers : \A i \in DOMAIN sends[w] : sends[w][i] = 0
      BY <2>2 DEF Inv, Details
    <2> QED
      BY <1>1, <2>3 DEF Details, worldVars
  <1> QED
    BY <1>4, <1>6, <1>7, <1>8 DEF Inv

\* If just the IDs 1 .. |M| are in M, then M is 1 .. |M|.
LEMMA RanksAreLowest ==
    ASSUME NEW M \in SUBSET Workers, {id \in M : id <= Cardinality(M)} = M
    PROVE  Lowest(M)
  <1>1. NumWorkers \in Nat /\ IsFiniteSet(Workers) /\ IsFiniteSet(M) /\ Cardinality(M) \in Nat
    <2>1. NumWorkers \in Nat /\ NumWorkers \in Int /\ 1 \in Int
      BY LifecycleAssumption
    <2>2. IsFiniteSet(1 .. NumWorkers)
      BY <2>1, FS_Interval
    <2>3. IsFiniteSet(Workers)
      BY <2>2 DEF Workers
    <2>4. IsFiniteSet(M)
      BY <2>3, FS_Subset
    <2> QED
      BY <2>1, <2>3, <2>4, FS_CardinalityType
  <1>2. PICK n \in Nat : n = Cardinality(M)
    BY <1>1
  <1>3. M \subseteq 1 .. n
    BY <1>2 DEF Workers
  <1>4. IsFiniteSet(1 .. n) /\ Cardinality(1 .. n) = n
    <2>1. Cardinality(1 .. n) = IF 1 > n THEN 0 ELSE n - 1 + 1
      BY FS_Interval
    <2>2. IsFiniteSet(1 .. n)
      BY FS_Interval
    <2> QED
      BY <2>1, <2>2
  <1>5. M = 1 .. n
    BY <1>2, <1>3, <1>4, FS_Subset
  <1> QED
    BY <1>5 DEF Lowest, Workers

LEMMA ReceiveGridKeeps ==
    ASSUME Inv, ReceiveGrid
    PROVE  Inv'
  <1>1. PICK M : M = comm[epoch]
    OBVIOUS
  <1>2. PICK ranks : ranks = {id \in M : id <= Cardinality(M)}
    OBVIOUS
  <1>3. /\ TypeOK /\ job = "running" /\ driver.at = "GRID" /\ driver.at \in Forming
        /\ Met(epoch, Len(entered[epoch][0]))
    BY DEF Inv, ReceiveGrid, Through, Forming
  <1>4. CASE ranks # M
    BY <1>1, <1>2, <1>4, CrashKeeps DEF ReceiveGrid
  <1>5. CASE ranks = M
    <2>1. /\ driver' = Idle /\ gridMsg' = [gridMsg EXCEPT ![epoch] = @ \ ranks]
          /\ UNCHANGED <<members, groupComm, epoch, comm, entered, peersEntered, bcast,
                         worldVars, loop, handlers, gw, job>>
      BY <1>1, <1>2, <1>5 DEF ReceiveGrid
    <2>2. /\ driver'.at = "IDLE" /\ driver'.g = 0 /\ driver' \in Drivers
      BY <2>1 DEF Idle, Drivers
    <2>3. gridMsg' \in [Epochs -> SUBSET Workers]
      BY <1>3, <2>1, TypesAre
    <2>4. TypeOK'
      BY <1>3, <2>1, <2>2, <2>3, TypesAre, TypesWillBe DEF worldVars
    <2>5. epoch \in Epochs /\ comm[epoch] = members[driver.g] /\ comm[epoch] \subseteq Workers
      BY <1>3, TypesAre, Constants DEF Inv, AtWork
    <2>6. AtWork'
      BY <2>1, <2>2 DEF Inv, AtWork
    <2>7. Fresh'
      <3>1. driver.at \notin Leaving /\ driver'.at \notin Leaving /\ driver'.at \notin Forming
        BY <1>3, <2>2 DEF Leaving, Forming
      <3>2. UNCHANGED <<epoch, groupComm, entered>>
        BY <2>1
      <3> QED
        BY <3>1, <3>2 DEF Inv, Fresh, Unborn
    <2>8. Joined'
      BY <2>1 DEF Inv, Joined
    <2>9. Details'
      BY <1>3, <2>1, NoDetails DEF worldVars
    <2>10. Ranked'
      <3>1. /\ \A e \in Epochs : e < epoch => Lowest(comm[e])
            /\ \A g \in Groups : g # driver.g =>
                   Lowest(members[g]) /\ \A w \in members[g] : gw[w].primary # "UNSET"
            /\ \A w \in Workers : /\ gw[w].primary = "YES" => \E e \in 1 .. epoch :
                                         w \in comm[e] /\ \A v \in comm[e] : w <= v
                                  /\ gw[w].primary = "NO" => \E e \in 1 .. epoch :
                                         w \in comm[e] /\ \E v \in comm[e] : v < w
            /\ \A w \in Workers, e \in Epochs : entered[e][w] # <<>> => gw[w].primary # "UNSET"
        BY <1>3 DEF Inv, Ranked
      <3>2. Lowest(comm[epoch])
        BY <1>1, <1>2, <1>5, <2>5, RanksAreLowest
      <3>3. \A w \in comm[epoch] : gw[w].primary # "UNSET"
        BY <1>3, <2>5, <3>1, AllHaveJoined
      <3>4. \A g \in Groups :
                Lowest(members[g]) /\ \A w \in members[g] : gw[w].primary # "UNSET"
        <4>1. SUFFICES ASSUME NEW g \in Groups
                       PROVE  Lowest(members[g]) /\ \A w \in members[g] : gw[w].primary # "UNSET"
          OBVIOUS
        <4>2. CASE g = driver.g
          BY <2>5, <3>2, <3>3, <4>2
        <4>3. CASE g # driver.g
          BY <3>1, <4>3
        <4> QED
          BY <4>2, <4>3
      <3>5. \A e \in Epochs : e < epoch \/ e = epoch => Lowest(comm[e])
        BY <3>1, <3>2
      <3>6. UNCHANGED <<members, epoch, comm, entered, gw, job>>
        BY <2>1
      <3> QED
        BY <3>1, <3>4, <3>5, <3>6 DEF Ranked
    <2> QED
      BY <2>4, <2>6, <2>7, <2>8, <2>9, <2>10 DEF Inv
  <1> QED
    BY <1>4, <1>5

LEMMA RegroupKeeps ==
    ASSUME Inv, NEW g \in Groups, NEW S \in SUBSET Workers, Regroup(g, S)
    PROVE  Inv'
  <1>1. /\ TypeOK /\ job = "running" /\ driver.at = "IDLE" /\ epoch < MaxEpochs
        /\ Lease!Grant(g, S) \/ Lease!Return(g, S)
        /\ epoch' = epoch + 1 /\ comm' = [comm EXCEPT ![epoch'] = members'[g]]
        /\ driver' = [at |-> IF groupComm[g] = 0 THEN "NEW" ELSE "CLOSE", g |-> g]
        /\ UNCHANGED <<groupComm, peersEntered, worldVars, gridMsg, loop, handlers, gw, job>>
    BY DEF Inv, Regroup
  <1>2. /\ members' \in [Groups -> SUBSET Workers]
        /\ \A k \in Groups : k # g => members'[k] = members[k]
    <2>1. members \in [Groups -> SUBSET Workers]
      BY <1>1, TypesAre
    <2>2. members' = [members EXCEPT ![g] = @ \cup S] \/ members' = [members EXCEPT ![g] = @ \ S]
      BY <1>1 DEF Lease!Grant, Lease!Return
    <2> QED
      BY <2>1, <2>2
  <1>3. PICK e \in Epochs : e = epoch + 1 /\ epoch \in Nat
    BY <1>1, TypesAre, LifecycleAssumption DEF Epochs
  <1>4. /\ comm' \in [Epochs -> SUBSET Workers] /\ comm'[e] = members'[g]
        /\ \A f \in Epochs : f # e => comm'[f] = comm[f]
        /\ epoch' = e /\ epoch' \in 0 .. MaxEpochs
    BY <1>1, <1>2, <1>3, TypesAre, Constants
  <1>5. driver' \in Drivers /\ driver'.g = g /\ driver'.at = IF groupComm[g] = 0 THEN "NEW" ELSE "CLOSE"
    BY <1>1 DEF Drivers, Commands
  <1>6. /\ bcast' \in [Epochs -> [Workers -> Seq(Commands)]]
        /\ entered' \in [Epochs -> [Ranks -> Seq(Labels)]]
        /\ \A f \in Epochs, q \in Workers : entered'[f][q] = entered[f][q]
        /\ \A f \in Epochs, q \in Ranks : Unborn(f) => entered'[f][q] = <<>>
    <2>1. CASE groupComm[g] = 0
      <3>1. UNCHANGED <<bcast, entered>>
        BY <2>1 DEF Regroup
      <3> QED
        BY <1>1, <3>1, TypesAre DEF Inv, Fresh
    <2>2. CASE groupComm[g] # 0
      <3>1. PICK f \in Epochs : f = groupComm[g]
        BY <1>1, <2>2, TypesAre, Constants
      <3>2. Command(f, "CLOSE") /\ "CLOSE" \in Commands /\ ~ Unborn(f)
        BY <2>2, <3>1 DEF Regroup, Commands, Inv, Fresh
      <3>3. /\ bcast' \in [Epochs -> [Workers -> Seq(Commands)]]
            /\ entered' \in [Epochs -> [Ranks -> Seq(Labels)]]
            /\ \A k \in Epochs, q \in Ranks : k # f \/ q # 0 => entered'[k][q] = entered[k][q]
        BY <1>1, <3>2, Commanding
      <3>4. ASSUME NEW k \in Epochs, NEW q \in Ranks, Unborn(k)
            PROVE  entered'[k][q] = <<>>
        <4>1. k # f
          BY <3>2, <3>4
        <4> QED
          BY <3>3, <3>4, <4>1 DEF Inv, Fresh
      <3> QED
        BY <3>3, <3>4, Constants
    <2> QED
      BY <2>1, <2>2
  <1>7. TypeOK'
    BY <1>1, <1>2, <1>4, <1>5, <1>6, TypesAre, TypesWillBe DEF worldVars
  <1>8. AtWork'
    BY <1>1, <1>4, <1>5, Constants DEF Inv, AtWork
  <1>9. Fresh'
    <2>1. ASSUME NEW f \in Epochs, Unborn(f)', NEW p \in Ranks
          PROVE  entered'[f][p] = <<>>
      <3>1. Unborn(f)
        BY <1>3, <1>4, <2>1, Constants DEF Unborn
      <3> QED
        BY <1>6, <3>1
    <2>2. ASSUME NEW k \in Groups, groupComm[k] # 0
          PROVE  groupComm[k] < e
      BY <1>1, <1>3, <2>2, TypesAre DEF Inv, Fresh, Unborn
    <2>3. \A k \in Groups : groupComm'[k] # 0 => groupComm'[k] \in Nat /\ groupComm'[k] < epoch'
      BY <1>1, <1>4, <2>2, TypesAre
    <2>4. driver'.at \notin Forming
      BY <1>5 DEF Forming
    <2> QED
      BY <1>3, <1>4, <2>1, <2>3, <2>4 DEF Fresh, Unborn
  <1>10. Joined'
    BY <1>1, <1>6 DEF Inv, Joined
  <1>11. Details'
    BY <1>1, NoDetails DEF worldVars
  <1>12. Ranked'
    <2>1. /\ \A f \in Epochs : f < epoch \/ f = epoch => Lowest(comm[f])
          /\ \A k \in Groups : k # driver.g =>
                 Lowest(members[k]) /\ \A w \in members[k] : gw[w].primary # "UNSET"
          /\ \A w \in Workers : /\ gw[w].primary = "YES" => \E f \in 1 .. epoch :
                                       w \in comm[f] /\ \A v \in comm[f] : w <= v
                                /\ gw[w].primary = "NO" => \E f \in 1 .. epoch :
                                       w \in comm[f] /\ \E v \in comm[f] : v < w
          /\ \A w \in Workers, f \in Epochs : entered[f][w] # <<>> => gw[w].primary # "UNSET"
      BY <1>1 DEF Inv, Ranked
    <2>2. driver.g = 0 /\ driver'.at # "IDLE" /\ UNCHANGED <<gw, job>>
      BY <1>1, <1>5 DEF Inv, AtWork
    <2>3. \A f \in Epochs : f < e => Lowest(comm'[f])
      BY <1>3, <1>4, <2>1, Constants
    <2>4. \A k \in Groups : k # g =>
              Lowest(members'[k]) /\ \A w \in members'[k] : gw'[w].primary # "UNSET"
      BY <1>2, <2>1, <2>2, Constants
    <2>5. \A f \in 1 .. epoch : f \in 1 .. e /\ comm'[f] = comm[f]
      <3>1. SUFFICES ASSUME NEW f \in 1 .. epoch PROVE f \in Epochs /\ f \in 1 .. e /\ f # e
        BY <1>4
      <3> QED
        BY <1>3, LifecycleAssumption DEF Epochs
    <2>6. \A w \in Workers : /\ gw'[w].primary = "YES" => \E f \in 1 .. e :
                                    w \in comm'[f] /\ \A v \in comm'[f] : w <= v
                             /\ gw'[w].primary = "NO" => \E f \in 1 .. e :
                                    w \in comm'[f] /\ \E v \in comm'[f] : v < w
      BY <2>1, <2>2, <2>5
    <2>7. \A w \in Workers, f \in Epochs : entered'[f][w] # <<>> => gw'[w].primary # "UNSET"
      <3>1. \A w \in Workers, f \in Epochs : entered'[f][w] = entered[f][w]
        BY <1>6
      <3>2. UNCHANGED gw
        BY <2>2
      <3> QED
        BY <2>1, <3>1, <3>2
    <2> QED
      BY <1>4, <1>5, <2>2, <2>3, <2>4, <2>6, <2>7 DEF Ranked
  <1> QED
    BY <1>7, <1>8, <1>9, <1>10, <1>11, <1>12 DEF Inv

-----------------------------------------------------------------------------
LEMMA Initially == Init => Inv
  <1>1. SUFFICES ASSUME Init PROVE Inv
    OBVIOUS
  <1>2. TypeOK
    <2>1. <<>> \in Seq(Labels) /\ <<>> \in Seq(Commands) /\ <<>> \in Seq(0 .. MaxEpochs)
      BY EmptySeq
    <2>2. 0 \in 0 .. MaxEpochs /\ 0 \in Nat
      BY Constants
    <2>3. [at |-> "NONE", on |-> 0] \in Loops /\ driver \in Drivers
      BY <1>1, <2>2 DEF Init, Loops, Stages, Drivers, Idle
    <2>4. [group |-> 0, group_peers |-> 0, El_group_peers |-> 0, freed |-> {},
           grid |-> 0, primary |-> "UNSET", connection_open |-> FALSE] \in GroupWorkers
      BY <2>2 DEF GroupWorkers
    <2> QED
      BY <1>1, <2>1, <2>2, <2>3, <2>4, TypesAre DEF Init
  <1>3. /\ driver.at = "IDLE" /\ driver.g = 0 /\ epoch = 0 /\ job = "running"
        /\ \A e \in Epochs, p \in Ranks : entered[e][p] = <<>>
        /\ \A g \in Groups : groupComm[g] = 0 /\ members[g] = {}
        /\ \A w \in Workers : \A e \in Epochs : loop[w][e].at = "NONE"
        /\ \A w \in Workers : gw[w].group = 0 /\ gw[w].primary = "UNSET" /\ sends[w] = <<>>
    BY <1>1 DEF Init, Idle
  <1>4. AtWork /\ Fresh /\ Joined
    BY <1>3, Constants DEF AtWork, Fresh, Joined, Unborn, Forming
  <1>5. Details
    BY <1>3 DEF Details
  <1>6. Ranked
    <2>1. \A e \in Epochs : ~ (e < epoch) /\ e # epoch
      BY <1>3, LifecycleAssumption DEF Epochs
    <2>2. \A g \in Groups : Lowest(members[g]) /\ \A w \in members[g] : gw[w].primary # "UNSET"
      BY <1>3 DEF Lowest
    <2>3. \A w \in Workers : gw[w].primary = "UNSET" /\ \A e \in Epochs : entered[e][w] = <<>>
      BY <1>3, Constants
    <2> QED
      BY <2>1, <2>2, <2>3 DEF Ranked
  <1> QED
    BY <1>2, <1>4, <1>5, <1>6 DEF Inv

LEMMA Inductive == Inv /\ [Next]_vars => Inv'
  <1>1. SUFFICES ASSUME Inv, [Next]_vars PROVE Inv'
    OBVIOUS
  <1>2. ASSUME NEW g \in Groups, NEW S \in SUBSET Workers, Regroup(g, S) PROVE Inv'
    BY <1>1, <1>2, RegroupKeeps
  <1>3. ASSUME DriverStep PROVE Inv'
    BY <1>1, <1>3, SendFreeKeeps, DropCommKeeps, AnnounceKeeps, SetDriverCommKeeps,
       ReadyGroupKeeps, ReceiveGridKeeps DEF DriverStep
  <1>4. ASSUME NEW w \in Workers, WorldCommand(w) \/ JoinGroup(w) PROVE Inv'
    BY <1>1, <1>4, WorldCommandKeeps, JoinGroupKeeps
  <1>5. ASSUME NEW w \in Workers, LoopStep(w) PROVE Inv'
    BY <1>1, <1>5, SetGroupCommKeeps, PeersStepKeeps, PostKeeps, GroupCommandKeeps DEF LoopStep
  <1>6. ASSUME NEW w \in Workers, HandlerStep(w) PROVE Inv'
    BY <1>1, <1>6, EnterGroupBarrierKeeps, SendGridKeeps, DropGridKeeps, FreeCommKeeps,
       MeetPeersKeeps, FreeElPeersKeeps, FreePeersKeeps DEF HandlerStep
  <1>7. ASSUME UNCHANGED vars PROVE Inv'
    <2>1. UNCHANGED <<driverVars, entered, peersEntered, bcast, worldVars, gridMsg, loop,
                      handlers, gw, job>>
      BY <1>7 DEF vars
    <2>2. TypeOK'
      BY <1>1, <2>1, TypesAre, TypesWillBe DEF Inv, driverVars, worldVars
    <2> QED
      BY <1>1, <2>1, <2>2
         DEF Inv, driverVars, worldVars, AtWork, Fresh, Unborn, Joined, Details, Ranked
  <1> QED
    BY <1>1, <1>2, <1>3, <1>4, <1>5, <1>6, <1>7 DEF Next

LEMMA Always == Spec => []Inv
  BY Initially, Inductive, PTL DEF Spec

(* Every variable has its type.                                              *)
THEOREM TypeCorrect == Spec => []TypeOK
  <1>1. Inv => TypeOK
    BY DEF Inv
  <1> QED
    BY <1>1, Always, PTL

(* However far a worker lags behind the driver, with any number of threads   *)
(* in handle_new_group that all receive with one tag: only the last of the   *)
(* messages on their way to it has details after it (Driver.cpp's sends in   *)
(* set_group_communicator, Worker.cpp's handle_new_group), so that no thread *)
(* can take another message's parts for its own.                             *)
THEOREM LastDetails == Spec => []DetailsAreLast
  <1>1. Inv => DetailsAreLast
    BY DEF Inv, Details, DetailsAreLast
  <1> QED
    BY <1>1, Always, PTL

(* A GroupWorker keeps for all its groups the primary flag it was made with, *)
(* yet whenever a client is answered just the lowest worker of each group    *)
(* believes it is the primary: the driver's mistaking IDs for ranks in       *)
(* get_process_grid ends the job before any other group could be served.     *)
THEOREM PrimaryIsLowest == Spec => []OnePrimary
  <1>1. Inv => OnePrimary
    <2>1. SUFFICES ASSUME Inv, Answered, NEW g \in Groups, NEW w \in members[g]
                   PROVE  gw[w].primary = "YES" <=> \A v \in members[g] : w <= v
      BY DEF OnePrimary
    <2>2. /\ job = "running" /\ driver.at = "IDLE" /\ driver.g = 0
      BY <2>1 DEF Answered, Idle
    <2>3. /\ w \in Workers /\ members[g] \subseteq Workers /\ Workers = 1 .. NumWorkers
          /\ NumWorkers \in Nat /\ epoch \in 0 .. MaxEpochs
          /\ \A e \in 1 .. epoch : e \in Epochs /\ comm[e] \subseteq Workers
          /\ gw[w].primary \in {"UNSET", "YES", "NO"}
      <3>1. w \in Workers /\ members[g] \subseteq Workers /\ epoch \in 0 .. MaxEpochs
        BY <2>1, TypesAre DEF Inv
      <3>2. \A e \in 1 .. epoch : e \in Epochs
        BY <3>1, LifecycleAssumption DEF Epochs
      <3>3. gw[w] \in GroupWorkers /\ \A e \in Epochs : comm[e] \subseteq Workers
        BY <2>1, <3>1, TypesAre DEF Inv
      <3> QED
        BY <3>1, <3>2, <3>3, LifecycleAssumption DEF Workers, GroupWorkers
    <2>4. /\ \A e \in 1 .. epoch : Lowest(comm[e])
          /\ Lowest(members[g]) /\ gw[w].primary # "UNSET"
          /\ gw[w].primary = "YES" => \E e \in 1 .. epoch :
                 w \in comm[e] /\ \A v \in comm[e] : w <= v
          /\ gw[w].primary = "NO" => \E e \in 1 .. epoch :
                 w \in comm[e] /\ \E v \in comm[e] : v < w
      <3>1. \A e \in 1 .. epoch : e < epoch \/ e = epoch
        BY <2>3
      <3>2. g # driver.g
        BY <2>2, Constants
      <3> QED
        BY <2>1, <2>2, <2>3, <3>1, <3>2 DEF Inv, Ranked
    \* A nonempty set with every lower worker has worker 1.
    <2>5. \A T \in SUBSET Workers : Lowest(T) => \A v \in T : 1 \in T
      BY <2>3 DEF Lowest
    <2>6. CASE gw[w].primary = "YES"
      <3>1. PICK e \in 1 .. epoch : w \in comm[e] /\ \A v \in comm[e] : w <= v
        BY <2>4, <2>6
      <3>2. w <= 1
        BY <2>3, <2>4, <2>5, <3>1
      <3> QED
        BY <2>3, <2>6, <3>2
    <2>7. CASE gw[w].primary = "NO"
      <3>1. PICK e \in 1 .. epoch : w \in comm[e] /\ \E v \in comm[e] : v < w
        BY <2>4, <2>7
      <3>2. PICK v \in Workers : v < w
        BY <2>3, <3>1
      <3>3. v \in members[g]
        BY <2>1, <2>3, <2>4, <3>2 DEF Lowest
      <3> QED
        BY <2>3, <2>7, <3>2, <3>3
    <2> QED
      BY <2>3, <2>4, <2>6, <2>7
  <1> QED
    BY <1>1, Always, PTL
=============================================================================
