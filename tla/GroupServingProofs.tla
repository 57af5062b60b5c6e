-------------------------- MODULE GroupServingProofs --------------------------
(***************************************************************************)
(* Machine-checked proofs about GroupLifecycle, for any workers, groups    *)
(* and changes of groups, whose command loops post their next broadcast,   *)
(* and whose handlers are done with `group`, in the usual order ("repost"  *)
(* and "release" in Prompt).                                               *)
(*                                                                         *)
(* In the first part, driver and workers enter the same collectives in the *)
(* same order.  The invariant is the script that a communicator goes       *)
(* through and where each process, thread and message is in it.            *)
(*                                                                         *)
(* The second part is what that gives the clients: a group that is         *)
(* answered is whole, a worker that no group holds is detached, a          *)
(* communicator is freed only after its connections; every step is one of  *)
(* GroupService or changes nothing it sees; and a handle of the peers'     *)
(* communicator that is gone is used only once a group has been changed.   *)
(***************************************************************************)
EXTENDS GroupLifecycleProofs, WellFoundedInduction

\* The collectives of a group's communicator, in order, and those of its workers'.
Script      == <<"CREATE", "FORM", "PRINT", "OPEN", "GRID", "CLOSE", "FREE">>
PeersScript == <<"CREATE", "PEERS", "AGAIN", "GRID", "FREE">>

\* How many of them each process has entered.
Steps    == [e \in Epochs |-> [p \in Ranks |-> Len(entered[e][p])]]
Meetings == [e \in Epochs |-> [w \in Workers |-> Len(peersEntered[e][w])]]

ByTheScript ==
    \A e \in Epochs, p \in Ranks :
        Steps[e][p] <= 7 /\ \A i \in DOMAIN entered[e][p] : entered[e][p][i] = Script[i]

ByThePeersScript ==
    \A e \in Epochs, w \in Workers :
        /\ Meetings[e][w] <= 5
        /\ \A i \in DOMAIN peersEntered[e][w] : peersEntered[e][w][i] = PeersScript[i]

(* Where the driver is in the script of the communicator it is at work on;   *)
(* all of every other group have come to the same place.                     *)
Course ==
    /\ driver.at \in {"NEW", "CREATE"} => groupComm[driver.g] = 0
    /\ driver.at \in {"FORM", "PRINT", "OPEN", "GRID"} => groupComm[driver.g] = epoch
    /\ driver.at = "CREATE" => Steps[epoch][0] = 1 /\ \A g \in Groups : groupComm[g] # epoch
    /\ driver.at = "FORM"   => Steps[epoch][0] = 2
    /\ driver.at = "PRINT"  => Steps[epoch][0] = 3
    /\ driver.at = "OPEN"   => Steps[epoch][0] = 4
    /\ driver.at = "GRID"   => Steps[epoch][0] = 5
    /\ driver.at = "CLOSE"  => Steps[groupComm[driver.g]][0] = 6
    /\ driver.at = "FREE"   => Steps[groupComm[driver.g]][0] = 7

Settled ==
    \A g \in Groups : g # driver.g =>
        /\ groupComm[g] = 0 => members[g] = {}
        /\ groupComm[g] # 0 =>
               /\ comm[groupComm[g]] = members[g] /\ Steps[groupComm[g]][0] = 5
               /\ \A w \in members[g] : Steps[groupComm[g]][w] = 5

Apart ==
    \A g, k \in Groups : g # k =>
        /\ members[g] \cap members[k] = {}
        /\ groupComm[g] # 0 /\ groupComm[k] # 0 =>
               groupComm[g] # groupComm[k] /\ comm[groupComm[g]] \cap comm[groupComm[k]] = {}

\* A communicator that the driver has freed.
Dropped(e) ==
    /\ e <= epoch /\ \A g \in Groups : groupComm[g] # e
    /\ ~ (e = epoch /\ driver.at \in {"CLOSE", "FREE", "NEW", "CREATE"})

Over == \A e \in Epochs : Dropped(e) => \A p \in comm[e] \cup {0} : Steps[e][p] = 7

-----------------------------------------------------------------------------
(* Only the workers of a communicator have anything to do with it, and they  *)
(* are at most one step behind the driver, or one ahead as long as it has    *)
(* not noticed that they all have come.                                      *)
Members ==
    \A e \in Epochs, w \in Workers :
        /\ w \notin comm[e] => Steps[e][w] = 0 /\ bcast[e][w] = <<>>
        /\ w \in comm[e] => \/ Steps[e][0] \in {Steps[e][w], Steps[e][w] + 1}
                            \/ (Steps[e][0] = 1 /\ Steps[e][w] = 2)

\* The driver has made d steps and the worker n: its last command is due.
Due(n, d) == n >= 2 /\ d = n + 1

(* A command on its way, or taken by a thread, is the one that is due.       *)
OnItsWay(commands, n, d) == commands # <<>> => Due(n, d) /\ commands = <<Script[d]>>

Begun(h, commands, n, d, at) ==
    h.at = "START" =>
        /\ commands = <<>> /\ Due(n, d) /\ h.cmd = Script[d] /\ h.on = 0 /\ h.k = 0
        /\ at \in {"POST", "WAIT"}

Commanded ==
    /\ \A e \in Epochs, w \in Workers : OnItsWay(bcast[e][w], Steps[e][w], Steps[e][0])
    /\ \A h \in handlers : Begun(h, bcast[h.via][h.w], Steps[h.via][h.w], Steps[h.via][0],
                                 loop[h.w][h.via].at)

(* Where the thread l is that joined e, after n steps on it and m with its   *)
(* peers.                                                                    *)
Stands(e, n, m, l) ==
    /\ n = 0 <=> l.at = "NONE"
    /\ n = 1 <=> l.at = "CREATE"
    /\ n >= 3 => l.at \in {"POST", "WAIT"}
    /\ l.on = IF l.at = "WAIT" THEN e ELSE 0
    /\ l.at \in {"NONE", "CREATE", "FORM"} => m = 0
    /\ l.at = "PEERS" => m = 1
    /\ l.at = "AGAIN" => m = 2
    /\ l.at \in {"COPY", "GRID"} => m = 3
    /\ l.at \in {"READY", "POST", "WAIT"} => m = 4 \/ (m = 5 /\ n = 7)

Stage == \A e \in Epochs, w \in Workers :
             Stands(e, Steps[e][w], Meetings[e][w], loop[w][e])

\* A worker that has made n steps on e has its communicator and has not begun to free
\* it.
In(n) == n \in 2 .. 6

(* What the GroupWorker holds of a group e on which it has made n steps,     *)
(* while the thread that joined it is at `at`.                               *)
Holds(e, n, at, worker) ==
    /\ In(n) \/ at = "POST" => worker.group = e
    /\ In(n) /\ at \in {"AGAIN", "COPY", "GRID", "READY", "POST", "WAIT"} =>
           worker.group_peers \in {e, 0}
    /\ In(n) /\ at = "GRID" => worker.El_group_peers \in {e, 0}
    /\ In(n) /\ at \in {"READY", "POST", "WAIT"} => worker.grid = e
    /\ worker.grid = e => In(n)
    /\ worker.group = e => n >= 2 /\ (worker.connection_open <=> n \in {4, 5})
    /\ worker.group = 0 => ~ worker.connection_open

Held == \A e \in Epochs, w \in Workers : Holds(e, Steps[e][w], loop[w][e].at, gw[w])

\* Handler thread h is done with the group it frees, and waits for its peers or for its
\* 10 s to pass; or it has yet to do with it.
Rests(h) == h.at \in {"MEET", "SLEEP"}
Frees(h) == h.cmd = "FREE" /\ ~ Rests(h)

\* A group that has been freed is the worker's as long as a thread is about to drop it.
Dropping ==
    \A e \in Epochs, w \in Workers :
        gw[w].group = e /\ Steps[e][w] = 7 => \E h \in handlers : h.w = w /\ Frees(h)

(* How far handler h is, of a worker that has made n steps, m with its peers.*)
Works(h, n, m, worker) ==
    /\ h.at = "START" \/ h.cmd \in {"GRID", "FREE"}
    /\ h.cmd = "GRID" /\ h.at # "START" => h.at = "ENTERED" /\ h.on = h.via /\ h.k = 5 /\ n = 5
    /\ h.cmd = "FREE" /\ h.at # "START" => n = 7
    /\ h.cmd = "FREE" /\ h.at = "ENTERED" => h.on = h.via /\ h.k = 7 /\ worker.group = h.via
    /\ h.cmd = "FREE" /\ h.at \in {"ENTERED", "PEERS"} => worker.group_peers \in {h.via, 0}
    /\ h.cmd = "FREE" /\ h.at = "PEERS" => worker.group = 0
    /\ Frees(h) => m = 4

Working ==
    \A h \in handlers : Works(h, Steps[h.via][h.w], Meetings[h.via][h.w], gw[h.w])

(* A worker frees one group at a time, before it is in the next.             *)
OneRelease ==
    \A h, t \in handlers :
        h.cmd = "FREE" /\ t.cmd = "FREE" /\ t.w = h.w =>
            t = h \/ (t.via # h.via /\ (Rests(t) \/ Rests(h)))

Released ==
    \A h \in handlers, e \in Epochs : Frees(h) /\ In(Steps[e][h.w]) => e = h.via

(* The grid positions on their way, and the threads that have yet to send    *)
(* theirs.                                                                   *)
Positions ==
    /\ \A e \in Epochs : \A w \in gridMsg[e] :
           driver.at = "GRID" /\ e = epoch /\ w \in comm[e] /\ Steps[e][w] = 5
    /\ \A h \in handlers : h.cmd = "GRID" /\ h.at # "START" =>
           driver.at = "GRID" /\ h.via = epoch /\ h.w \notin gridMsg[h.via]

\* What concerns the driver, and what concerns the workers.
Driving   == ByTheScript /\ Course /\ Settled /\ Apart /\ Over /\ Members
Following == /\ ByThePeersScript /\ Commanded /\ Stage /\ Held /\ Dropping /\ Working
             /\ OneRelease /\ Released /\ Positions

Serve == Inv /\ Driving /\ Following

\* The races that have to be decided the usual way for it.
Orderly == "repost" \in Prompt /\ "release" \in Prompt

-----------------------------------------------------------------------------
(* The scripts, and how many steps have been made.                           *)
LEMMA ScriptIs ==
    /\ Script[1] = "CREATE" /\ Script[2] = "FORM" /\ Script[3] = "PRINT" /\ Script[4] = "OPEN"
    /\ Script[5] = "GRID" /\ Script[6] = "CLOSE" /\ Script[7] = "FREE"
    /\ PeersScript[1] = "CREATE" /\ PeersScript[2] = "PEERS" /\ PeersScript[3] = "AGAIN"
    /\ PeersScript[4] = "GRID" /\ PeersScript[5] = "FREE"
  BY DEF Script, PeersScript

LEMMA StepsAre ==
    ASSUME TypeOK
    PROVE  /\ Steps \in [Epochs -> [Ranks -> Nat]] /\ Meetings \in [Epochs -> [Workers -> Nat]]
           /\ \A e \in Epochs, p \in Ranks :
                  Steps[e][p] = Len(entered[e][p]) /\ DOMAIN entered[e][p] = 1 .. Steps[e][p]
                  /\ (Steps[e][p] = 0 <=> entered[e][p] = <<>>)
           /\ \A e \in Epochs, w \in Workers :
                  /\ Meetings[e][w] = Len(peersEntered[e][w])
                  /\ DOMAIN peersEntered[e][w] = 1 .. Meetings[e][w]
  <1>1. /\ entered \in [Epochs -> [Ranks -> Seq(Labels)]]
        /\ peersEntered \in [Epochs -> [Workers -> Seq(Labels)]]
    BY TypesAre
  <1>2. \A s \in Seq(Labels) : Len(s) \in Nat /\ DOMAIN s = 1 .. Len(s) /\ (Len(s) = 0 <=> s = <<>>)
    BY LenProperties, EmptySeq
  <1>3. \A e \in Epochs, p \in Ranks :
            /\ Len(entered[e][p]) \in Nat /\ DOMAIN entered[e][p] = 1 .. Len(entered[e][p])
            /\ Len(entered[e][p]) = 0 <=> entered[e][p] = <<>>
    BY <1>1, <1>2
  <1>4. \A e \in Epochs, w \in Workers :
            /\ Len(peersEntered[e][w]) \in Nat
            /\ DOMAIN peersEntered[e][w] = 1 .. Len(peersEntered[e][w])
    BY <1>1, <1>2
  <1>5. \A e \in Epochs, p \in Ranks : Steps[e][p] = Len(entered[e][p])
    BY DEF Steps
  <1>6. \A e \in Epochs, w \in Workers : Meetings[e][w] = Len(peersEntered[e][w])
    BY DEF Meetings
  <1>7. Steps \in [Epochs -> [Ranks -> Nat]]
    BY <1>3 DEF Steps
  <1>8. Meetings \in [Epochs -> [Workers -> Nat]]
    BY <1>4 DEF Meetings
  <1> QED
    BY <1>3, <1>4, <1>5, <1>6, <1>7, <1>8

LEMMA StepsWillBe ==
    ASSUME TypeOK'
    PROVE  /\ Steps' \in [Epochs -> [Ranks -> Nat]] /\ Meetings' \in [Epochs -> [Workers -> Nat]]
           /\ \A e \in Epochs, p \in Ranks : DOMAIN entered'[e][p] = 1 .. Steps'[e][p]
           /\ \A e \in Epochs, w \in Workers :
                  DOMAIN peersEntered'[e][w] = 1 .. Meetings'[e][w]
  <1>1. /\ entered' \in [Epochs -> [Ranks -> Seq(Labels)]]
        /\ peersEntered' \in [Epochs -> [Workers -> Seq(Labels)]]
    BY DEF TypeOK
  <1>2. \A s \in Seq(Labels) : Len(s) \in Nat /\ DOMAIN s = 1 .. Len(s)
    BY LenProperties
  <1>3. \A e \in Epochs, p \in Ranks :
            Len(entered'[e][p]) \in Nat /\ DOMAIN entered'[e][p] = 1 .. Len(entered'[e][p])
    BY <1>1, <1>2
  <1>4. \A e \in Epochs, w \in Workers :
            /\ Len(peersEntered'[e][w]) \in Nat
            /\ DOMAIN peersEntered'[e][w] = 1 .. Len(peersEntered'[e][w])
    BY <1>1, <1>2
  <1>5. /\ Steps' = [e \in Epochs |-> [p \in Ranks |-> Len(entered'[e][p])]]
        /\ Meetings' = [e \in Epochs |-> [w \in Workers |-> Len(peersEntered'[e][w])]]
    BY DEF Steps, Meetings
  <1> QED
    BY <1>3, <1>4, <1>5

LEMMA MetMeans ==
    ASSUME TypeOK, NEW e \in Epochs, NEW k \in Nat
    PROVE  /\ Met(e, k) => \A p \in comm[e] \cup {0} : Steps[e][p] >= k
           /\ PeersMet(e, k) => \A w \in comm[e] : Meetings[e][w] >= k
  <1>1. comm[e] \subseteq Workers /\ Workers \subseteq Ranks /\ 0 \in Ranks
    BY TypesAre, Constants
  <1>2. \A p \in comm[e] \cup {0} : Steps[e][p] = Len(entered[e][p])
    BY <1>1, StepsAre
  <1>3. \A w \in comm[e] : Meetings[e][w] = Len(peersEntered[e][w])
    BY <1>1, StepsAre
  <1> QED
    BY <1>2, <1>3 DEF Met, PeersMet

(* A process enters what is next in the script.                              *)
LEMMA Stepping ==
    ASSUME TypeOK, TypeOK', ByTheScript, NEW e \in Epochs, NEW p \in Ranks, NEW what \in Labels,
           Enter(e, p, what), NEW n \in 0 .. 6, n = Steps[e][p], what = Script[n + 1]
    PROVE  /\ Steps'[e][p] = n + 1 /\ ByTheScript'
           /\ \A f \in Epochs, q \in Ranks : f # e \/ q # p => Steps'[f][q] = Steps[f][q]
  <1>1. entered[e][p] \in Seq(Labels) /\ Len(entered[e][p]) = n
    BY TypesAre, StepsAre
  <1>2. \A s \in Seq(Labels) :
            /\ Len(Append(s, what)) = Len(s) + 1
            /\ \A i \in 1 .. Len(s) : Append(s, what)[i] = s[i]
            /\ Append(s, what)[Len(s) + 1] = what
    BY Appended
  <1>3. /\ entered'[e][p] = Append(entered[e][p], what)
        /\ \A f \in Epochs, q \in Ranks : f # e \/ q # p => entered'[f][q] = entered[f][q]
    BY Entering
  <1>4. /\ Len(entered'[e][p]) = n + 1 /\ entered'[e][p][n + 1] = what
        /\ \A i \in 1 .. n : entered'[e][p][i] = entered[e][p][i]
    BY <1>1, <1>2, <1>3
  <1>5. /\ \A f \in Epochs, q \in Ranks : Steps'[f][q] = Len(entered'[f][q])
        /\ \A f \in Epochs, q \in Ranks : Steps[f][q] = Len(entered[f][q])
    BY DEF Steps
  <1>6. /\ Steps'[e][p] = n + 1
        /\ \A f \in Epochs, q \in Ranks : f # e \/ q # p => Steps'[f][q] = Steps[f][q]
    BY <1>3, <1>4, <1>5
  <1>7. \A f \in Epochs, q \in Ranks : DOMAIN entered'[f][q] = 1 .. Steps'[f][q]
    BY StepsWillBe
  <1>8. DOMAIN entered[e][p] = 1 .. n
    BY StepsAre
  <1>9. ASSUME NEW f \in Epochs, NEW q \in Ranks
        PROVE  Steps'[f][q] <= 7 /\ \A i \in DOMAIN entered'[f][q] : entered'[f][q][i] = Script[i]
    <2>1. CASE f = e /\ q = p
      <3>1. DOMAIN entered'[e][p] = 1 .. n + 1
        BY <1>6, <1>7
      <3>2. \A i \in 1 .. n : entered'[e][p][i] = Script[i]
        BY <1>4, <1>8 DEF ByTheScript
      <3>3. entered'[e][p][n + 1] = Script[n + 1]
        BY <1>4
      <3>4. \A i \in 1 .. n + 1 : i \in 1 .. n \/ i = n + 1
        OBVIOUS
      <3>5. \A i \in DOMAIN entered'[e][p] : entered'[e][p][i] = Script[i]
        BY <3>1, <3>2, <3>3, <3>4
      <3> QED
        BY <1>6, <2>1, <3>5
    <2>2. CASE f # e \/ q # p
      BY <1>3, <1>6, <2>2 DEF ByTheScript
    <2> QED
      BY <2>1, <2>2
  <1> QED
    BY <1>6, <1>9 DEF ByTheScript

LEMMA MeetingPeers ==
    ASSUME TypeOK, TypeOK', ByThePeersScript, NEW e \in Epochs, NEW w \in Workers,
           NEW what \in Labels, EnterPeers(e, w, what),
           NEW n \in 0 .. 4, n = Meetings[e][w], what = PeersScript[n + 1]
    PROVE  /\ Meetings'[e][w] = n + 1 /\ ByThePeersScript'
           /\ \A f \in Epochs, v \in Workers : f # e \/ v # w => Meetings'[f][v] = Meetings[f][v]
  <1>1. peersEntered[e][w] \in Seq(Labels) /\ Len(peersEntered[e][w]) = n
    BY TypesAre, StepsAre
  <1>2. \A s \in Seq(Labels) :
            /\ Len(Append(s, what)) = Len(s) + 1
            /\ \A i \in 1 .. Len(s) : Append(s, what)[i] = s[i]
            /\ Append(s, what)[Len(s) + 1] = what
    BY Appended
  <1>3. /\ peersEntered'[e][w] = Append(peersEntered[e][w], what)
        /\ \A f \in Epochs, v \in Workers :
               f # e \/ v # w => peersEntered'[f][v] = peersEntered[f][v]
    BY EnteringPeers
  <1>4. /\ Len(peersEntered'[e][w]) = n + 1 /\ peersEntered'[e][w][n + 1] = what
        /\ \A i \in 1 .. n : peersEntered'[e][w][i] = peersEntered[e][w][i]
    BY <1>1, <1>2, <1>3
  <1>5. /\ \A f \in Epochs, v \in Workers : Meetings'[f][v] = Len(peersEntered'[f][v])
        /\ \A f \in Epochs, v \in Workers : Meetings[f][v] = Len(peersEntered[f][v])
    BY DEF Meetings
  <1>6. /\ Meetings'[e][w] = n + 1
        /\ \A f \in Epochs, v \in Workers : f # e \/ v # w => Meetings'[f][v] = Meetings[f][v]
    BY <1>3, <1>4, <1>5
  <1>7. \A f \in Epochs, v \in Workers : DOMAIN peersEntered'[f][v] = 1 .. Meetings'[f][v]
    BY StepsWillBe
  <1>8. DOMAIN peersEntered[e][w] = 1 .. n
    BY StepsAre
  <1>9. ASSUME NEW f \in Epochs, NEW v \in Workers
        PROVE  /\ Meetings'[f][v] <= 5
               /\ \A i \in DOMAIN peersEntered'[f][v] : peersEntered'[f][v][i] = PeersScript[i]
    <2>1. CASE f = e /\ v = w
      <3>1. DOMAIN peersEntered'[e][w] = 1 .. n + 1
        BY <1>6, <1>7
      <3>2. \A i \in 1 .. n : peersEntered'[e][w][i] = PeersScript[i]
        BY <1>4, <1>8 DEF ByThePeersScript
      <3>3. \A i \in 1 .. n + 1 : i \in 1 .. n \/ i = n + 1
        OBVIOUS
      <3>4. \A i \in 1 .. n + 1 : peersEntered'[e][w][i] = PeersScript[i]
        BY <1>4, <3>2, <3>3
      <3> QED
        BY <1>6, <2>1, <3>1, <3>4
    <2>2. CASE f # e \/ v # w
      BY <1>3, <1>6, <2>2 DEF ByThePeersScript
    <2> QED
      BY <2>1, <2>2
  <1> QED
    BY <1>6, <1>9 DEF ByThePeersScript

-----------------------------------------------------------------------------
(* A communicator that a worker has entered and not left is a group's, or    *)
(* the one that is being made for the group the driver is at work for.       *)
LEMMA Live ==
    ASSUME Inv, Driving, NEW w \in Workers, NEW e \in Epochs, Steps[e][w] \in 1 .. 6
    PROVE  /\ w \in comm[e] /\ e <= epoch
           /\ \/ \E g \in Groups : groupComm[g] = e
              \/ /\ e = epoch /\ driver.at = "CREATE" /\ groupComm[driver.g] = 0
                 /\ driver.g \in Groups /\ comm[e] = members[driver.g]
  <1>1. TypeOK /\ w \in Ranks /\ epoch \in Nat /\ e \in Nat
    BY TypesAre, Constants, LifecycleAssumption DEF Inv
  <1>2. w \in comm[e]
    BY DEF Driving, Members
  <1>3. ~ Unborn(e)
    <2>1. entered[e][w] # <<>>
      BY <1>1, StepsAre
    <2> QED
      BY <1>1, <2>1 DEF Inv, Fresh
  <1>4. ~ Dropped(e)
    BY <1>2 DEF Driving, Over
  <1>5. e <= epoch
    BY <1>1, <1>3 DEF Unborn
  <1>6. CASE \E g \in Groups : groupComm[g] = e
    BY <1>2, <1>5, <1>6
  <1>7. CASE ~ \E g \in Groups : groupComm[g] = e
    <2>1. e = epoch /\ driver.at = "CREATE"
      BY <1>3, <1>4, <1>5, <1>7 DEF Unborn, Leaving, Dropped
    <2>2. groupComm[driver.g] = 0 /\ comm[epoch] = members[driver.g] /\ driver.g # 0
      BY <2>1 DEF Driving, Course, Inv, AtWork
    <2>3. driver.g \in Groups
      BY <1>1, <2>2, TypesAre DEF Drivers
    <2> QED
      BY <1>2, <1>5, <2>1, <2>2, <2>3
  <1> QED
    BY <1>6, <1>7

LEMMA OneLive ==
    ASSUME Inv, Driving, NEW w \in Workers, NEW e \in Epochs, NEW f \in Epochs,
           Steps[e][w] \in 1 .. 6, Steps[f][w] \in 1 .. 6
    PROVE  e = f
  <1> DEFINE Forms(x) == /\ x = epoch /\ driver.at = "CREATE" /\ groupComm[driver.g] = 0
                         /\ driver.g \in Groups /\ comm[x] = members[driver.g]
  <1>1. /\ w \in comm[e] /\ w \in comm[f]
        /\ (\E g \in Groups : groupComm[g] = e) \/ Forms(e)
        /\ (\E g \in Groups : groupComm[g] = f) \/ Forms(f)
    BY Live
  <1>2. 0 \notin Epochs
    BY Constants
  <1>3. ASSUME NEW x \in Epochs, NEW y \in Epochs, w \in comm[x], w \in comm[y], Forms(x),
               NEW k \in Groups, groupComm[k] = y
        PROVE  FALSE
    <2>1. k # driver.g /\ groupComm[k] # 0
      BY <1>2, <1>3
    <2>2. comm[y] = members[k]
      BY <1>3, <2>1 DEF Driving, Settled
    <2>3. members[k] \cap members[driver.g] = {}
      BY <1>3, <2>1 DEF Driving, Apart
    <2> QED
      BY <1>3, <2>2, <2>3
  <1>4. ASSUME NEW g \in Groups, NEW k \in Groups, groupComm[g] = e, groupComm[k] = f, e # f
        PROVE  FALSE
    BY <1>1, <1>2, <1>4 DEF Driving, Apart
  <1> QED
    BY <1>1, <1>3, <1>4

\* A worker that has yet to follow the driver's GRID is in the group that the driver
\* is making ready.
LEMMA GridIsDue ==
    ASSUME Inv, Driving, NEW w \in Workers, NEW e \in Epochs,
           Steps[e][0] = 5, Steps[e][w] = 4
    PROVE  driver.at = "GRID" /\ e = epoch
  <1>1. TypeOK /\ 0 \notin Epochs
    BY Constants DEF Inv
  <1>2. /\ w \in comm[e]
        /\ \/ \E g \in Groups : groupComm[g] = e
           \/ e = epoch /\ driver.at = "CREATE"
    BY Live
  <1>3. ~ (e = epoch /\ driver.at = "CREATE")
    BY DEF Driving, Course
  <1>4. PICK g \in Groups : groupComm[g] = e
    BY <1>2, <1>3
  <1>5. g = driver.g
    BY <1>1, <1>2, <1>4 DEF Driving, Settled
  <1>6. driver.g # 0 /\ driver.at # "IDLE"
    BY <1>4, <1>5, Constants DEF Inv, AtWork
  <1>7. driver.at \in {"NEW", "CREATE", "FORM"} \cup Commands
    BY <1>1, <1>6, TypesAre DEF Drivers
  <1> QED
    BY <1>1, <1>4, <1>5, <1>7 DEF Driving, Course, Commands

(* What the driver relies on stays as it is in the steps of a worker that    *)
(* follows the driver, or joins the group it forms.                          *)
LEMMA WorkerStays ==
    ASSUME Driving, UNCHANGED <<driverVars, entered>>,
           \A e \in Epochs, w \in Workers : w \notin comm[e] => bcast'[e][w] = bcast[e][w]
    PROVE  Driving' /\ UNCHANGED Steps
  <1>1. UNCHANGED Steps
    BY DEF Steps
  <1>2. UNCHANGED <<members, groupComm, epoch, comm, driver, entered>>
    BY DEF driverVars
  <1>3. ByTheScript' /\ Course' /\ Settled' /\ Apart'
    BY <1>1, <1>2 DEF Driving, ByTheScript, Course, Settled, Apart
  <1>4. Over'
    BY <1>1, <1>2 DEF Driving, Over, Dropped
  <1>5. Members'
    BY <1>1, <1>2 DEF Driving, Members
  <1> QED
    BY <1>1, <1>3, <1>4, <1>5 DEF Driving

LEMMA WorkerEnters ==
    ASSUME Inv, TypeOK', Driving, UNCHANGED <<driverVars, bcast>>,
           NEW w \in Workers, NEW e \in Epochs, w \in comm[e], NEW what \in Labels,
           Enter(e, w, what), NEW n \in 0 .. 6, n = Steps[e][w], what = Script[n + 1],
           Steps[e][0] = n + 1 \/ (n = 1 /\ Steps[e][0] \in {1, 2})
    PROVE  /\ Driving' /\ Steps'[e][w] = n + 1
           /\ \A f \in Epochs, p \in Ranks : f # e \/ p # w => Steps'[f][p] = Steps[f][p]
  <1>1. TypeOK /\ w \in Ranks /\ w # 0 /\ 0 \in Ranks /\ Workers \subseteq Ranks
    BY Constants DEF Inv
  <1>2. /\ Steps'[e][w] = n + 1 /\ ByTheScript'
        /\ \A f \in Epochs, q \in Ranks : f # e \/ q # w => Steps'[f][q] = Steps[f][q]
    BY <1>1, Stepping DEF Driving
  <1>3. UNCHANGED <<members, groupComm, epoch, comm, driver>>
    BY DEF driverVars
  <1>4. \A f \in Epochs : Steps'[f][0] = Steps[f][0]
    BY <1>1, <1>2
  <1>5. /\ groupComm \in [Groups -> 0 .. MaxEpochs] /\ epoch \in 0 .. MaxEpochs
        /\ 0 .. MaxEpochs = Epochs \cup {0} /\ driver \in Drivers /\ 0 \notin Epochs
        /\ \A f \in Epochs : comm[f] \subseteq Workers
    BY <1>1, TypesAre, Constants
  <1>6. Course'
    <2>1. driver.at # "IDLE" => epoch \in Epochs
      BY <1>5 DEF Inv, AtWork
    <2>2. driver.at \in {"CLOSE", "FREE"} => groupComm[driver.g] \in Epochs
      BY <1>5 DEF Inv, AtWork, Drivers
    <2> QED
      BY <1>3, <1>4, <2>1, <2>2 DEF Driving, Course
  <1>7. Settled'
    <2>1. SUFFICES ASSUME NEW g \in Groups, g # driver.g, groupComm[g] # 0
                   PROVE  /\ Steps'[groupComm[g]][0] = 5
                          /\ \A v \in members[g] : Steps'[groupComm[g]][v] = 5
      BY <1>3 DEF Driving, Settled
    <2>2. /\ groupComm[g] \in Epochs /\ comm[groupComm[g]] = members[g]
          /\ Steps[groupComm[g]][0] = 5
          /\ \A v \in members[g] : Steps[groupComm[g]][v] = 5
      BY <1>5, <2>1 DEF Driving, Settled
    <2>3. groupComm[g] # e
      BY <2>2
    <2>4. members[g] \subseteq Ranks
      BY <1>1, <1>5, <2>2
    <2> QED
      BY <1>1, <1>2, <2>2, <2>3, <2>4
  <1>8. Apart'
    BY <1>3 DEF Driving, Apart
  <1>9. Over'
    <2>1. SUFFICES ASSUME NEW f \in Epochs, Dropped(f), NEW p \in comm[f] \cup {0}
                   PROVE  Steps'[f][p] = 7
      BY <1>3 DEF Over, Dropped
    <2>2. Steps[f][p] = 7 /\ p \in Ranks
      BY <1>1, <1>5, <2>1 DEF Driving, Over
    <2>3. f # e
      <3>1. f = e => Steps[e][w] = 7
        BY <2>1 DEF Driving, Over
      <3> QED
        BY <3>1
    <2> QED
      BY <1>2, <2>2, <2>3
  <1>10. Members'
    <2>1. ASSUME NEW f \in Epochs, NEW v \in Workers
          PROVE  /\ v \notin comm[f] => Steps'[f][v] = 0 /\ bcast'[f][v] = <<>>
                 /\ v \in comm[f] => \/ Steps'[f][0] \in {Steps'[f][v], Steps'[f][v] + 1}
                                     \/ (Steps'[f][0] = 1 /\ Steps'[f][v] = 2)
      <3>1. CASE f = e /\ v = w
        BY <1>2, <1>4, <3>1
      <3>2. CASE f # e \/ v # w
        BY <1>1, <1>2, <1>4, <3>2 DEF Driving, Members
      <3> QED
        BY <3>1, <3>2
    <2> QED
      BY <1>3, <2>1 DEF Members
  <1> QED
    BY <1>2, <1>6, <1>7, <1>8, <1>9, <1>10 DEF Driving

-----------------------------------------------------------------------------
(* The workers' steps.  What each of them changes is told first, then what   *)
(* becomes of each part of the invariant.                                    *)
LEMMA WhatThereIs ==
    ASSUME TypeOK
    PROVE  /\ loop \in [Workers -> [Epochs -> Loops]] /\ gw \in [Workers -> GroupWorkers]
           /\ \A w \in Workers : /\ gw[w].group \in Epochs \cup {0}
                                 /\ gw[w].group_peers \in Epochs \cup {0}
                                 /\ gw[w].El_group_peers \in Epochs \cup {0}
                                 /\ gw[w].grid \in Epochs \cup {0}
                                 /\ gw[w].connection_open \in BOOLEAN
           /\ \A h \in handlers : /\ h.w \in Workers /\ h.via \in Epochs /\ h.cmd \in Commands
                                  /\ h.at \in {"START", "ENTERED", "PEERS", "MEET", "SLEEP"}
           /\ \A e \in Epochs : gridMsg[e] \subseteq Workers /\ comm[e] \subseteq Workers
           /\ bcast \in [Epochs -> [Workers -> Seq(Commands)]]
           /\ \A e \in Epochs, p \in Ranks : Steps[e][p] \in Nat
           /\ \A e \in Epochs, w \in Workers : Meetings[e][w] \in Nat /\ Steps[e][w] \in Nat
           /\ \A e \in Epochs : Steps[e][0] \in Nat
  <1>1. /\ loop \in [Workers -> [Epochs -> Loops]] /\ gw \in [Workers -> GroupWorkers]
        /\ handlers \subseteq Threads /\ gridMsg \in [Epochs -> SUBSET Workers]
        /\ comm \in [Epochs -> SUBSET Workers]
        /\ bcast \in [Epochs -> [Workers -> Seq(Commands)]]
    BY TypesAre
  <1>2. 0 .. MaxEpochs = Epochs \cup {0} /\ Workers \subseteq Ranks /\ 0 \in Ranks
    BY Constants
  <1>3. ASSUME NEW w \in Workers
        PROVE  /\ gw[w].group \in Epochs \cup {0} /\ gw[w].group_peers \in Epochs \cup {0}
               /\ gw[w].El_group_peers \in Epochs \cup {0}
               /\ gw[w].grid \in Epochs \cup {0} /\ gw[w].connection_open \in BOOLEAN
    <2>1. gw[w] \in GroupWorkers
      BY <1>1
    <2> QED
      BY <1>2, <2>1 DEF GroupWorkers
  <1>4. ASSUME NEW h \in handlers
        PROVE  /\ h.w \in Workers /\ h.via \in Epochs /\ h.cmd \in Commands
               /\ h.at \in {"START", "ENTERED", "PEERS", "MEET", "SLEEP"}
    BY <1>1 DEF Threads
  <1>5. /\ Steps \in [Epochs -> [Ranks -> Nat]] /\ Meetings \in [Epochs -> [Workers -> Nat]]
    BY StepsAre
  <1> QED
    BY <1>1, <1>2, <1>3, <1>4, <1>5

\* Nothing moves but clocks.
LEMMA NothingMoves ==
    ASSUME Driving, Following,
           UNCHANGED <<driverVars, entered, peersEntered, bcast, gridMsg, loop, handlers, gw>>
    PROVE  Driving' /\ Following'
  <1>1. Driving' /\ UNCHANGED Steps
    BY WorkerStays
  <1>2. UNCHANGED Meetings /\ UNCHANGED <<epoch, comm, driver>>
    BY DEF Meetings, driverVars
  <1>3. ByThePeersScript' /\ Commanded' /\ Stage' /\ Held'
    BY <1>1, <1>2 DEF Following, ByThePeersScript, Commanded, Stage, Held
  <1>4. Dropping' /\ Working' /\ OneRelease' /\ Released' /\ Positions'
    BY <1>1, <1>2 DEF Following, Dropping, Working, OneRelease, Released, Positions
  <1> QED
    BY <1>1, <1>3, <1>4 DEF Following

(* A step of worker w that concerns its part in e, and what it holds: for    *)
(* the others, and for its own part in other groups, all stays as it was.    *)
LEMMA Locally ==
    ASSUME TypeOK, TypeOK', Following, NEW w \in Workers, NEW e \in Epochs,
           UNCHANGED <<epoch, comm, driver>>,
           \A h \in handlers' : h.w # w => h \in handlers,
           \A h \in handlers : h.w # w => h \in handlers',
           \A f \in Epochs, v \in Workers : v # w \/ f # e =>
               /\ Steps'[f][v] = Steps[f][v] /\ Meetings'[f][v] = Meetings[f][v]
               /\ loop'[v][f] = loop[v][f] /\ bcast'[f][v] = bcast[f][v],
           \A f \in Epochs : Steps'[f][0] = Steps[f][0],
           \A v \in Workers : v # w => gw'[v] = gw[v],
           \A f \in Epochs, v \in Workers : v # w => (v \in gridMsg'[f] <=> v \in gridMsg[f]),
           ByThePeersScript',
           OnItsWay(bcast'[e][w], Steps'[e][w], Steps[e][0]),
           Stands(e, Steps'[e][w], Meetings'[e][w], loop'[w][e]),
           \A f \in Epochs : Holds(f, Steps'[f][w], loop'[w][f].at, gw'[w]),
           \A f \in Epochs : gw'[w].group = f /\ Steps'[f][w] = 7 =>
               \E h \in handlers' : h.w = w /\ Frees(h),
           \A h \in handlers' : h.w = w =>
               /\ h.via # e => h \in handlers
               /\ h.via = e => Begun(h, bcast'[e][w], Steps'[e][w], Steps[e][0], loop'[w][e].at)
               /\ Works(h, Steps'[h.via][w], Meetings'[h.via][w], gw'[w])
               /\ Frees(h) => \A f \in Epochs : In(Steps'[f][w]) => f = h.via
               /\ h.cmd = "GRID" /\ h.at # "START" =>
                      driver.at = "GRID" /\ h.via = epoch /\ w \notin gridMsg'[h.via],
           \A h, t \in handlers' : h.w = w /\ t.w = w /\ h.cmd = "FREE" /\ t.cmd = "FREE" =>
               t = h \/ (t.via # h.via /\ (Rests(t) \/ Rests(h))),
           \A f \in Epochs : w \in gridMsg'[f] =>
               driver.at = "GRID" /\ f = epoch /\ w \in comm[f] /\ Steps'[f][w] = 5
    PROVE  Following'
  <1>1. /\ \A h \in handlers' : h.w \in Workers /\ h.via \in Epochs
        /\ \A f \in Epochs : gridMsg'[f] \subseteq Workers
    <2>1. handlers' \subseteq Threads /\ gridMsg' \in [Epochs -> SUBSET Workers]
      BY DEF TypeOK
    <2> QED
      BY <2>1 DEF Threads
  <1>2. Commanded'
    <2>1. ASSUME NEW f \in Epochs, NEW v \in Workers
          PROVE  OnItsWay(bcast'[f][v], Steps'[f][v], Steps'[f][0])
      BY DEF Following, Commanded
    <2>2. ASSUME NEW h \in handlers'
          PROVE  Begun(h, bcast'[h.via][h.w], Steps'[h.via][h.w], Steps'[h.via][0],
                       loop'[h.w][h.via].at)
      <3>1. CASE h.w = w /\ h.via = e
        BY <1>1, <3>1
      <3>2. CASE h.w # w \/ h.via # e
        BY <1>1, <3>2 DEF Following, Commanded
      <3> QED
        BY <3>1, <3>2
    <2> QED
      BY <2>1, <2>2 DEF Commanded
  <1>3. Stage'
    <2>1. ASSUME NEW f \in Epochs, NEW v \in Workers
          PROVE  Stands(f, Steps'[f][v], Meetings'[f][v], loop'[v][f])
      BY DEF Following, Stage
    <2> QED
      BY <2>1 DEF Stage
  <1>4. Held'
    <2>1. ASSUME NEW f \in Epochs, NEW v \in Workers
          PROVE  Holds(f, Steps'[f][v], loop'[v][f].at, gw'[v])
      BY DEF Following, Held
    <2> QED
      BY <2>1 DEF Held
  <1>5. Dropping'
    <2>1. ASSUME NEW f \in Epochs, NEW v \in Workers, gw'[v].group = f, Steps'[f][v] = 7
          PROVE  \E h \in handlers' : h.w = v /\ Frees(h)
      BY <2>1 DEF Following, Dropping
    <2> QED
      BY <2>1 DEF Dropping, Frees, Rests
  <1>6. Working'
    <2>1. ASSUME NEW h \in handlers'
          PROVE  Works(h, Steps'[h.via][h.w], Meetings'[h.via][h.w], gw'[h.w])
      BY <1>1 DEF Following, Working
    <2> QED
      BY <2>1 DEF Working
  <1>7. OneRelease'
    <2>1. ASSUME NEW h \in handlers', NEW t \in handlers',
                 h.cmd = "FREE", t.cmd = "FREE", t.w = h.w
          PROVE  t = h \/ (t.via # h.via /\ (Rests(t) \/ Rests(h)))
      BY <2>1 DEF Following, OneRelease
    <2> QED
      BY <2>1 DEF OneRelease
  <1>8. Released'
    <2>1. ASSUME NEW h \in handlers', NEW f \in Epochs, Frees(h), In(Steps'[f][h.w])
          PROVE  f = h.via
      BY <1>1, <2>1 DEF Following, Released
    <2> QED
      BY <2>1 DEF Released, Frees, Rests
  <1>9. Positions'
    <2>1. ASSUME NEW f \in Epochs, NEW v \in gridMsg'[f]
          PROVE  driver.at = "GRID" /\ f = epoch /\ v \in comm[f] /\ Steps'[f][v] = 5
      BY <1>1 DEF Following, Positions
    <2>2. ASSUME NEW h \in handlers', h.cmd = "GRID", h.at # "START"
          PROVE  driver.at = "GRID" /\ h.via = epoch /\ h.w \notin gridMsg'[h.via]
      BY <1>1, <2>2 DEF Following, Positions
    <2> QED
      BY <2>1, <2>2 DEF Positions
  <1> QED
    BY <1>2, <1>3, <1>4, <1>5, <1>6, <1>7, <1>8, <1>9 DEF Following

LEMMA SetGroupCommServes ==
    ASSUME Serve, Inv', Orderly, NEW w \in Workers, NEW e \in Epochs, SetGroupComm(w, e)
    PROVE  Driving' /\ Following'
  <1>1. /\ Inv /\ TypeOK /\ TypeOK' /\ Driving /\ Following /\ "FORM" \in Labels
        /\ loop[w][e].at = "CREATE" /\ Met(e, 1)
        /\ gw' = [gw EXCEPT ![w].group = e] /\ Enter(e, w, "FORM")
        /\ loop' = [loop EXCEPT ![w][e].at = "FORM"]
        /\ UNCHANGED <<driverVars, peersEntered, bcast, worldVars, gridMsg, handlers, job>>
    BY DEF Serve, Inv, Labels, SetGroupComm
  <1>2. \A h \in handlers : h.w = w => ~ Frees(h)
    BY DEF SetGroupComm, Orderly, Frees, Rests
  <1>3. /\ Steps[e][w] = 1 /\ w \in comm[e] /\ Steps[e][0] \in {1, 2} /\ bcast[e][w] = <<>>
    <2>1. Steps[e][w] = 1
      BY <1>1 DEF Following, Stage, Stands
    <2>2. w \in comm[e] /\ Steps[e][0] >= 1
      BY <1>1, <2>1, Live, MetMeans
    <2>3. Steps[e][0] \in {1, 2}
      BY <1>1, <2>1, <2>2 DEF Driving, Members
    <2> QED
      BY <1>1, <2>1, <2>2, <2>3 DEF Following, Commanded, OnItsWay, Due
  <1>4. /\ Driving' /\ Steps'[e][w] = 2
        /\ \A f \in Epochs, p \in Ranks : f # e \/ p # w => Steps'[f][p] = Steps[f][p]
    BY <1>1, <1>3, ScriptIs, WorkerEnters
  <1>5. /\ \A f \in Epochs, v \in Workers : f # e \/ v # w => Steps'[f][v] = Steps[f][v]
        /\ \A f \in Epochs : Steps'[f][0] = Steps[f][0]
        /\ UNCHANGED Meetings /\ UNCHANGED <<epoch, comm, driver>>
    BY <1>1, <1>4, Constants DEF Meetings, driverVars
  <1>6. /\ loop'[w][e].at = "FORM" /\ loop'[w][e].on = loop[w][e].on
        /\ \A v \in Workers, f \in Epochs : v # w \/ f # e => loop'[v][f] = loop[v][f]
    BY <1>1, LoopMovesTo DEF Stages
  <1>7. /\ gw'[w].group = e /\ gw'[w].group_peers = gw[w].group_peers
        /\ gw'[w].grid = gw[w].grid /\ gw'[w].connection_open = gw[w].connection_open
        /\ \A v \in Workers : v # w => gw'[v] = gw[v]
    BY <1>1, WhatThereIs DEF GroupWorkers
  <1>8. \A f \in Epochs : Steps[f][w] \in 1 .. 6 => f = e
    BY <1>1, <1>3, OneLive
  \* The worker has left the group it was in before.
  <1>9. gw[w].group = 0 /\ ~ gw[w].connection_open
    <2>1. ASSUME NEW f \in Epochs, gw[w].group = f
          PROVE  FALSE
      <3>1. Steps[f][w] >= 2 /\ Steps[f][w] # 7
        BY <1>1, <1>2, <2>1 DEF Following, Held, Holds, Dropping
      <3>2. Steps[f][w] <= 7 /\ Steps[f][w] \in Nat
        BY <1>1, WhatThereIs, Constants DEF Driving, ByTheScript
      <3> QED
        BY <1>3, <1>8, <3>1, <3>2
    <2>2. gw[w].group = 0
      BY <1>1, <2>1, WhatThereIs
    <2> QED
      BY <1>1, <2>2, WhatThereIs DEF Following, Held, Holds
  <1>10. /\ \A h \in handlers : h.w \in Workers /\ h.via \in Epochs
         /\ \A h \in handlers : h.w = w /\ h.via = e => h.at # "START"
    BY <1>1, <1>2, <1>3, WhatThereIs DEF Following, Commanded, Begun, Due
  <1>11. OnItsWay(bcast'[e][w], Steps'[e][w], Steps[e][0])
    BY <1>1, <1>3 DEF OnItsWay
  <1>12. Stands(e, Steps'[e][w], Meetings'[e][w], loop'[w][e])
    BY <1>1, <1>3, <1>4, <1>5, <1>6 DEF Following, Stage, Stands
  <1>13. ASSUME NEW f \in Epochs
         PROVE  Holds(f, Steps'[f][w], loop'[w][f].at, gw'[w])
    <2>1. CASE f = e
      BY <1>1, <1>3, <1>4, <1>6, <1>7, <1>9, <2>1, Constants DEF Following, Held, Holds, In
    <2>2. CASE f # e
      <3>1. Holds(f, Steps[f][w], loop[w][f].at, gw[w]) /\ ~ In(Steps[f][w])
        BY <1>1, <1>8, <2>2 DEF Following, Held, In
      <3>2. loop[w][f].at # "POST"
        BY <1>9, <3>1, Constants DEF Holds
      <3> QED
        BY <1>5, <1>6, <1>7, <2>2, <3>1, <3>2, Constants DEF Holds
    <2> QED
      BY <2>1, <2>2
  <1>14. ASSUME NEW h \in handlers', h.w = w
         PROVE  /\ h \in handlers /\ ~ Frees(h)
                /\ h.via = e => Begun(h, bcast'[e][w], Steps'[e][w], Steps[e][0], loop'[w][e].at)
                /\ Works(h, Steps'[h.via][w], Meetings'[h.via][w], gw'[w])
                /\ h.cmd = "GRID" /\ h.at # "START" =>
                       driver.at = "GRID" /\ h.via = epoch /\ w \notin gridMsg'[h.via]
    <2>1. h \in handlers /\ ~ Frees(h)
      BY <1>1, <1>2, <1>14
    <2>2. /\ Works(h, Steps[h.via][w], Meetings[h.via][w], gw[w])
          /\ h.cmd = "GRID" /\ h.at # "START" =>
                 driver.at = "GRID" /\ h.via = epoch /\ w \notin gridMsg[h.via]
      BY <1>1, <1>14, <2>1 DEF Following, Working, Positions
    <2>3. Works(h, Steps'[h.via][w], Meetings'[h.via][w], gw'[w])
      <3>1. CASE h.via = e
        BY <1>3, <1>4, <1>5, <1>10, <1>14, <2>1, <2>2, <3>1 DEF Works, Frees, Rests
      <3>2. CASE h.via # e
        BY <1>5, <1>10, <2>1, <2>2, <3>2 DEF Works, Frees, Rests
      <3> QED
        BY <3>1, <3>2
    <2>4. h.via = e => Begun(h, bcast'[e][w], Steps'[e][w], Steps[e][0], loop'[w][e].at)
      BY <1>10, <1>14, <2>1 DEF Begun
    <2> QED
      BY <1>1, <2>1, <2>2, <2>3, <2>4
  <1>15. \A h, t \in handlers' : h.w = w /\ t.w = w /\ h.cmd = "FREE" /\ t.cmd = "FREE" =>
             t = h \/ (t.via # h.via /\ (Rests(t) \/ Rests(h)))
    BY <1>1 DEF Following, OneRelease
  <1>16. \A f \in Epochs : w \in gridMsg'[f] =>
             driver.at = "GRID" /\ f = epoch /\ w \in comm[f] /\ Steps'[f][w] = 5
    BY <1>1, <1>3, <1>5 DEF Following, Positions
  <1>17. ByThePeersScript'
    BY <1>1, <1>5 DEF Following, ByThePeersScript
  <1>18. /\ \A h \in handlers' : h.w = w =>
                /\ h.via # e => h \in handlers
                /\ h.via = e => Begun(h, bcast'[e][w], Steps'[e][w], Steps[e][0], loop'[w][e].at)
                /\ Works(h, Steps'[h.via][w], Meetings'[h.via][w], gw'[w])
                /\ Frees(h) => \A f \in Epochs : In(Steps'[f][w]) => f = h.via
                /\ h.cmd = "GRID" /\ h.at # "START" =>
                       driver.at = "GRID" /\ h.via = epoch /\ w \notin gridMsg'[h.via]
         /\ \A f \in Epochs : gw'[w].group = f /\ Steps'[f][w] = 7 =>
                \E h \in handlers' : h.w = w /\ Frees(h)
    BY <1>4, <1>7, <1>14
  <1>19. /\ \A f \in Epochs, v \in Workers : v # w \/ f # e =>
                /\ Steps'[f][v] = Steps[f][v] /\ Meetings'[f][v] = Meetings[f][v]
                /\ loop'[v][f] = loop[v][f] /\ bcast'[f][v] = bcast[f][v]
         /\ \A f \in Epochs, v \in Workers : v # w => (v \in gridMsg'[f] <=> v \in gridMsg[f])
         /\ \A h \in handlers' : h.w # w => h \in handlers
         /\ \A h \in handlers : h.w # w => h \in handlers'
    BY <1>1, <1>5, <1>6
  <1>20. /\ TypeOK /\ TypeOK' /\ Following /\ UNCHANGED <<epoch, comm, driver>>
         /\ \A f \in Epochs : Steps'[f][0] = Steps[f][0]
         /\ \A v \in Workers : v # w => gw'[v] = gw[v]
    BY <1>1, <1>5, <1>7
  <1>21. Following'
    BY <1>11, <1>12, <1>13, <1>15, <1>16, <1>17, <1>18, <1>19, <1>20, Locally
  <1> QED
    BY <1>4, <1>21

LEMMA PeersStepServes ==
    ASSUME Serve, Inv', NEW w \in Workers, NEW e \in Epochs, PeersStep(w, e)
    PROVE  Driving' /\ Following'
  <1>1. /\ Inv /\ TypeOK /\ TypeOK' /\ Driving /\ Following
        /\ UNCHANGED <<driverVars, entered, bcast, worldVars, gridMsg, handlers>>
    BY DEF Serve, Inv, PeersStep, PeersMisuse, Misuse, Crash
  <1>2. /\ loop[w][e].at \in {"FORM", "PEERS", "AGAIN", "COPY", "GRID"}
        /\ Steps[e][w] = 2 /\ Meetings[e][w] \in 0 .. 3
        /\ loop[w][e].at = "FORM" => Meetings[e][w] = 0
        /\ loop[w][e].at = "PEERS" => Meetings[e][w] = 1
        /\ loop[w][e].at = "AGAIN" => Meetings[e][w] = 2
        /\ loop[w][e].at \in {"COPY", "GRID"} => Meetings[e][w] = 3
    <2>1. loop[w][e].at \in {"FORM", "PEERS", "AGAIN", "COPY", "GRID"}
      BY DEF PeersStep, CreatePeers, SetPeers, MeetAgain, CopyPeers, MakeGrid, PeersMisuse
    <2>2. Stands(e, Steps[e][w], Meetings[e][w], loop[w][e]) /\ Steps[e][w] \in Nat
      BY <1>1, WhatThereIs DEF Following, Stage
    <2> QED
      BY <2>1, <2>2 DEF Stands
  <1>3. Driving' /\ UNCHANGED Steps /\ UNCHANGED <<epoch, comm, driver>>
    BY <1>1, WorkerStays DEF driverVars
  <1>4. /\ gw[w].group = e
        /\ loop[w][e].at \in {"AGAIN", "COPY", "GRID"} => gw[w].group_peers \in {e, 0}
        /\ loop[w][e].at = "GRID" => gw[w].El_group_peers \in {e, 0}
    BY <1>1, <1>2 DEF Following, Held, Holds, In
  <1>5. CASE PeersMisuse(w, e)
    <2>1. UNCHANGED <<gw, peersEntered, loop>>
      BY <1>5 DEF PeersMisuse, Misuse, Crash
    <2> QED
      BY <1>1, <2>1, NothingMoves
  <1>6. CASE \/ CreatePeers(w, e) \/ SetPeers(w, e) \/ MeetAgain(w, e)
             \/ CopyPeers(w, e) \/ MakeGrid(w, e)
    <2> DEFINE from == loop[w][e].at
               n    == Meetings[e][w]
    \* Where the thread goes, and what it has entered and holds then.
    <2>1. PICK at \in {"PEERS", "AGAIN", "COPY", "GRID", "READY"} :
              /\ loop' = [loop EXCEPT ![w][e].at = at]
              /\ <<from, at>> \in {<<"FORM", "PEERS">>, <<"PEERS", "AGAIN">>, <<"AGAIN", "COPY">>,
                                  <<"COPY", "GRID">>, <<"GRID", "READY">>}
              /\ IF at = "GRID" THEN UNCHANGED peersEntered
                                ELSE EnterPeers(e, w, PeersScript[n + 1])
      <3>1. CASE CreatePeers(w, e)
        BY <1>2, <3>1, ScriptIs DEF CreatePeers
      <3>2. CASE SetPeers(w, e)
        BY <1>2, <3>2, ScriptIs DEF SetPeers
      <3>3. CASE MeetAgain(w, e)
        BY <1>2, <1>4, <3>3, ScriptIs DEF MeetAgain
      <3>4. CASE CopyPeers(w, e)
        BY <3>4 DEF CopyPeers
      <3>5. CASE MakeGrid(w, e)
        BY <1>2, <1>4, <3>5, ScriptIs DEF MakeGrid
      <3> QED
        BY <1>6, <3>1, <3>2, <3>3, <3>4, <3>5
    <2>2. /\ gw'[w].group = e /\ gw'[w].connection_open = gw[w].connection_open
          /\ at # "PEERS" => gw'[w].group_peers \in {e, 0}
          /\ at = "GRID" => gw'[w].El_group_peers \in {e, 0}
          /\ gw'[w].grid = IF at = "READY" THEN e ELSE gw[w].grid
          /\ at # "AGAIN" => gw'[w].group_peers = gw[w].group_peers
          /\ \A v \in Workers : v # w => gw'[v] = gw[v]
      <3>1. gw \in [Workers -> GroupWorkers]
        BY <1>1, WhatThereIs
      <3>2. CASE CreatePeers(w, e)
        BY <1>4, <2>1, <3>2 DEF CreatePeers
      <3>3. CASE SetPeers(w, e)
        <4>1. gw' = [gw EXCEPT ![w].group_peers = e] /\ at = "AGAIN"
          BY <2>1, <3>3 DEF SetPeers
        <4> QED
          BY <1>4, <3>1, <4>1 DEF GroupWorkers
      <3>4. CASE MeetAgain(w, e)
        BY <1>4, <2>1, <3>4 DEF MeetAgain
      <3>5. CASE CopyPeers(w, e)
        <4>1. /\ gw' = [gw EXCEPT ![w].El_group_peers = gw[w].group_peers] /\ at = "GRID"
              /\ gw[w].group_peers \in {e, 0}
          BY <1>4, <2>1, <3>5 DEF CopyPeers
        <4> QED
          BY <1>4, <3>1, <4>1 DEF GroupWorkers
      <3>6. CASE MakeGrid(w, e)
        <4>1. /\ gw' = [gw EXCEPT ![w].grid = e] /\ at = "READY"
              /\ gw[w].group_peers \in {e, 0}
          BY <1>4, <2>1, <3>6 DEF MakeGrid
        <4> QED
          BY <1>4, <3>1, <4>1 DEF GroupWorkers
      <3> QED
        BY <1>6, <3>2, <3>3, <3>4, <3>5, <3>6
    <2>3. n \in 0 .. 3 /\ (at = "PEERS" => n = 0) /\ (at = "AGAIN" => n = 1)
          /\ (at = "COPY" => n = 2) /\ (at \in {"GRID", "READY"} => n = 3)
      BY <1>2, <2>1
    <2>4. /\ Meetings'[e][w] = IF at = "GRID" THEN n ELSE n + 1
          /\ ByThePeersScript'
          /\ \A f \in Epochs, v \in Workers : f # e \/ v # w => Meetings'[f][v] = Meetings[f][v]
      <3>1. CASE at = "GRID"
        BY <1>1, <2>1, <3>1 DEF Meetings, Following, ByThePeersScript
      <3>2. CASE at # "GRID"
        <4>1. PICK m \in 0 .. 4 : m = n
          BY <2>3
        <4>2. PICK what \in Labels : what = PeersScript[m + 1] /\ EnterPeers(e, w, what)
          BY <2>1, <2>3, <3>2, <4>1, ScriptIs DEF Labels, Commands
        <4> QED
          BY <1>1, <3>2, <4>1, <4>2, MeetingPeers DEF Following
      <3> QED
        BY <3>1, <3>2
    <2>5. /\ loop'[w][e].at = at /\ loop'[w][e].on = loop[w][e].on
          /\ \A v \in Workers, f \in Epochs : v # w \/ f # e => loop'[v][f] = loop[v][f]
      <3>1. TypeOK /\ loop' = [loop EXCEPT ![w][e].at = at]
        BY <1>1, <2>1
      <3> QED
        BY <3>1, LoopMovesTo DEF Stages
    <2>6. \A f \in Epochs : Steps[f][w] \in 1 .. 6 => f = e
      BY <1>1, <1>2, OneLive
    <2>7. \A h \in handlers : h.w = w =>
              /\ h.w \in Workers /\ h.via \in Epochs /\ ~ Frees(h)
              /\ h.via = e => h.at # "START"
      <3>1. SUFFICES ASSUME NEW h \in handlers, h.w = w
                     PROVE  ~ Frees(h) /\ (h.via = e => h.at # "START") /\ h.via \in Epochs
        OBVIOUS
      <3>2. h.via \in Epochs
        BY <1>1, WhatThereIs
      <3>3. Begun(h, bcast[h.via][w], Steps[h.via][w], Steps[h.via][0], loop[w][h.via].at)
        BY <1>1, <3>1 DEF Following, Commanded
      <3>4. h.via = e => h.at # "START"
        BY <1>2, <3>3 DEF Begun
      <3>5. Frees(h) => h.via = e /\ Meetings[h.via][w] = 4
        BY <1>1, <1>2, <3>1 DEF Following, Released, Working, Works, In
      <3> QED
        BY <1>2, <3>2, <3>4, <3>5
    <2>8. OnItsWay(bcast'[e][w], Steps'[e][w], Steps[e][0])
      BY <1>1, <1>3 DEF Following, Commanded
    <2>9. Stands(e, Steps'[e][w], Meetings'[e][w], loop'[w][e])
      <3>1. Stands(e, Steps[e][w], Meetings[e][w], loop[w][e])
        BY <1>1 DEF Following, Stage
      <3> QED
        BY <1>2, <1>3, <2>1, <2>3, <2>4, <2>5, <3>1 DEF Stands
    <2>10. ASSUME NEW f \in Epochs
           PROVE  Holds(f, Steps'[f][w], loop'[w][f].at, gw'[w])
      <3>1. Holds(f, Steps[f][w], loop[w][f].at, gw[w])
        BY <1>1 DEF Following, Held
      <3>2. CASE f = e
        BY <1>2, <1>3, <2>1, <2>2, <2>5, <3>1, <3>2, Constants DEF Holds, In
      <3>3. CASE f # e
        <4>1. ~ In(Steps[f][w])
          BY <2>6, <3>3 DEF In
        <4> QED
          BY <1>3, <1>4, <2>2, <2>5, <3>1, <3>3, <4>1, Constants DEF Holds
      <3> QED
        BY <3>2, <3>3
    <2>11. \A f \in Epochs : ~ (gw'[w].group = f /\ Steps'[f][w] = 7)
      BY <1>2, <1>3, <2>2
    <2>12. ASSUME NEW h \in handlers', h.w = w
           PROVE  /\ h \in handlers /\ ~ Frees(h)
                  /\ h.via = e => Begun(h, bcast'[e][w], Steps'[e][w], Steps[e][0], loop'[w][e].at)
                  /\ Works(h, Steps'[h.via][w], Meetings'[h.via][w], gw'[w])
                  /\ h.cmd = "GRID" /\ h.at # "START" =>
                         driver.at = "GRID" /\ h.via = epoch /\ w \notin gridMsg'[h.via]
      <3>1. /\ h \in handlers /\ ~ Frees(h) /\ h.via \in Epochs
            /\ h.via = e => h.at # "START"
        BY <1>1, <2>7, <2>12
      <3>2. /\ Works(h, Steps[h.via][w], Meetings[h.via][w], gw[w])
            /\ h.cmd = "GRID" /\ h.at # "START" =>
                   driver.at = "GRID" /\ h.via = epoch /\ w \notin gridMsg[h.via]
        BY <1>1, <2>12, <3>1 DEF Following, Working, Positions
      <3>3. Works(h, Steps'[h.via][w], Meetings'[h.via][w], gw'[w])
        BY <1>2, <1>3, <3>1, <3>2 DEF Works, Frees, Rests
      <3> QED
        BY <1>1, <3>1, <3>2, <3>3 DEF Begun
    <2>13. \A h, t \in handlers' : h.w = w /\ t.w = w /\ h.cmd = "FREE" /\ t.cmd = "FREE" =>
               t = h \/ (t.via # h.via /\ (Rests(t) \/ Rests(h)))
      BY <1>1 DEF Following, OneRelease
    <2>14. \A f \in Epochs : w \in gridMsg'[f] =>
               driver.at = "GRID" /\ f = epoch /\ w \in comm[f] /\ Steps'[f][w] = 5
      BY <1>1, <1>3 DEF Following, Positions
    <2>15. Following'
      BY <1>1, <1>3, <2>2, <2>4, <2>5, <2>8, <2>9, <2>10, <2>11, <2>12, <2>13, <2>14, Locally
    <2> QED
      BY <1>3, <2>15
  <1> QED
    BY <1>5, <1>6 DEF PeersStep

LEMMA PostServes ==
    ASSUME Serve, Inv', NEW w \in Workers, NEW e \in Epochs, Post(w, e)
    PROVE  Driving' /\ Following'
  <1>1. /\ Inv /\ TypeOK /\ TypeOK' /\ Driving /\ Following /\ loop[w][e].at \in {"POST", "READY"}
    BY DEF Serve, Inv, Post
  <1>2. /\ Steps[e][w] >= 2 /\ Stands(e, Steps[e][w], Meetings[e][w], loop[w][e])
        /\ gw[w].group = e /\ Steps[e][w] \in Nat
    <2>1. Stands(e, Steps[e][w], Meetings[e][w], loop[w][e]) /\ Steps[e][w] \in Nat
      BY <1>1, WhatThereIs DEF Following, Stage
    <2>2. Steps[e][w] >= 2 /\ (loop[w][e].at = "READY" => Steps[e][w] = 2)
      BY <1>1, <2>1 DEF Stands
    <2>3. gw[w].group = e
      BY <1>1, <2>2 DEF Following, Held, Holds, In
    <2> QED
      BY <2>1, <2>2, <2>3
  <1>3. /\ loop' = [loop EXCEPT ![w][e] = [at |-> "WAIT", on |-> e]]
        /\ UNCHANGED <<driverVars, entered, peersEntered, bcast, worldVars, gridMsg,
                       handlers, gw, job>>
    BY <1>2, Constants DEF Post
  <1>4. /\ Driving' /\ UNCHANGED Steps /\ UNCHANGED Meetings /\ UNCHANGED <<epoch, comm, driver>>
    BY <1>1, <1>3, WorkerStays DEF driverVars, Meetings
  <1>5. /\ loop'[w][e].at = "WAIT" /\ loop'[w][e].on = e
        /\ \A v \in Workers, f \in Epochs : v # w \/ f # e => loop'[v][f] = loop[v][f]
    <2>1. loop \in [Workers -> [Epochs -> Loops]]
      BY <1>1, TypesAre
    <2> QED
      BY <1>3, <2>1
  <1>6. OnItsWay(bcast'[e][w], Steps'[e][w], Steps[e][0])
    BY <1>1, <1>3, <1>4 DEF Following, Commanded
  <1>7. Stands(e, Steps'[e][w], Meetings'[e][w], loop'[w][e])
    BY <1>1, <1>2, <1>4, <1>5 DEF Stands
  <1>8. ASSUME NEW f \in Epochs
        PROVE  Holds(f, Steps'[f][w], loop'[w][f].at, gw'[w])
    <2>1. Holds(f, Steps[f][w], loop[w][f].at, gw[w])
      BY <1>1 DEF Following, Held
    <2>2. CASE f = e
      BY <1>1, <1>2, <1>3, <1>4, <1>5, <2>1, <2>2 DEF Holds
    <2>3. CASE f # e
      BY <1>3, <1>4, <1>5, <2>1, <2>3
    <2> QED
      BY <2>2, <2>3
  <1>9. \A f \in Epochs : gw'[w].group = f /\ Steps'[f][w] = 7 =>
            \E h \in handlers' : h.w = w /\ Frees(h)
    BY <1>1, <1>3, <1>4 DEF Following, Dropping
  <1>10. ASSUME NEW h \in handlers', h.w = w
         PROVE  /\ h \in handlers
                /\ h.via = e => Begun(h, bcast'[e][w], Steps'[e][w], Steps[e][0], loop'[w][e].at)
                /\ Works(h, Steps'[h.via][w], Meetings'[h.via][w], gw'[w])
                /\ Frees(h) => \A f \in Epochs : In(Steps'[f][w]) => f = h.via
                /\ h.cmd = "GRID" /\ h.at # "START" =>
                       driver.at = "GRID" /\ h.via = epoch /\ w \notin gridMsg'[h.via]
    <2>1. h \in handlers
      BY <1>3
    <2>2. /\ Works(h, Steps[h.via][w], Meetings[h.via][w], gw[w])
          /\ Begun(h, bcast[h.via][w], Steps[h.via][w], Steps[h.via][0], loop[w][h.via].at)
          /\ Frees(h) => \A f \in Epochs : In(Steps[f][w]) => f = h.via
          /\ h.cmd = "GRID" /\ h.at # "START" =>
                 driver.at = "GRID" /\ h.via = epoch /\ w \notin gridMsg[h.via]
      BY <1>1, <1>10, <2>1 DEF Following, Working, Commanded, Released, Positions
    <2>3. h.via = e => Begun(h, bcast'[e][w], Steps'[e][w], Steps[e][0], loop'[w][e].at)
      BY <1>3, <1>4, <1>5, <2>2 DEF Begun
    <2> QED
      BY <1>3, <1>4, <2>1, <2>2, <2>3
  <1>11. \A h, t \in handlers' : h.w = w /\ t.w = w /\ h.cmd = "FREE" /\ t.cmd = "FREE" =>
             t = h \/ (t.via # h.via /\ (Rests(t) \/ Rests(h)))
    BY <1>1, <1>3 DEF Following, OneRelease
  <1>12. \A f \in Epochs : w \in gridMsg'[f] =>
             driver.at = "GRID" /\ f = epoch /\ w \in comm[f] /\ Steps'[f][w] = 5
    BY <1>1, <1>3, <1>4 DEF Following, Positions
  <1>13. ByThePeersScript'
    BY <1>1, <1>3, <1>4 DEF Following, ByThePeersScript
  <1>14. Following'
    BY <1>1, <1>3, <1>4, <1>5, <1>6, <1>7, <1>8, <1>9, <1>10, <1>11, <1>12, <1>13, Locally
  <1> QED
    BY <1>4, <1>14

LEMMA GroupCommandServes ==
    ASSUME Serve, Inv', NEW w \in Workers, NEW e \in Epochs, GroupCommand(w, e)
    PROVE  Driving' /\ Following'
  <1>1. /\ Inv /\ TypeOK /\ TypeOK' /\ Driving /\ Following /\ loop[w][e].at = "WAIT"
    BY DEF Serve, Inv, GroupCommand
  <1>2. /\ loop[w][e].on = e /\ Stands(e, Steps[e][w], Meetings[e][w], loop[w][e])
    BY <1>1 DEF Following, Stage, Stands
  <1>3. bcast[e][w] # <<>> /\ bcast' = [bcast EXCEPT ![e][w] = Tail(@)]
    BY <1>2 DEF GroupCommand
  <1>4. PICK n \in 2 .. 6 : n = Steps[e][w] /\ Steps[e][0] = n + 1 /\ bcast[e][w] = <<Script[n + 1]>>
    <2>1. Due(Steps[e][w], Steps[e][0]) /\ bcast[e][w] = <<Script[Steps[e][0]]>>
      BY <1>1, <1>3 DEF Following, Commanded, OnItsWay
    <2>2. Steps[e][0] <= 7 /\ Steps[e][w] \in Nat /\ Steps[e][0] \in Nat
      BY <1>1, WhatThereIs, Constants DEF Driving, ByTheScript
    <2> QED
      BY <2>1, <2>2 DEF Due
  <1>5. PICK begun \in Threads :
            /\ begun = [w |-> w, cmd |-> Script[n + 1], via |-> e, at |-> "START",
                        on |-> 0, k |-> 0]
            /\ handlers' = handlers \cup {begun}
    <2>1. Head(bcast[e][w]) = Script[n + 1]
      BY <1>4
    <2>2. handlers' = handlers \cup
              {[w |-> w, cmd |-> Script[n + 1], via |-> e, at |-> "START", on |-> 0, k |-> 0]}
      BY <1>2, <2>1 DEF GroupCommand
    <2>3. handlers' \subseteq Threads
      BY <1>1 DEF TypeOK
    <2> QED
      BY <2>2, <2>3
  <1>6. /\ begun.w = w /\ begun.cmd = Script[n + 1] /\ begun.via = e /\ begun.at = "START"
        /\ begun.on = 0 /\ begun.k = 0
    BY <1>5
  <1>7. /\ loop' = [loop EXCEPT ![w][e] = [at |-> "POST", on |-> 0]]
        /\ UNCHANGED <<driverVars, entered, peersEntered, worldVars, gridMsg, gw, job>>
    BY DEF GroupCommand
  <1>8. /\ bcast'[e][w] = <<>>
        /\ \A f \in Epochs, v \in Workers : v # w \/ f # e => bcast'[f][v] = bcast[f][v]
    <2>1. bcast \in [Epochs -> [Workers -> Seq(Commands)]] /\ Tail(bcast[e][w]) = <<>>
      BY <1>1, <1>4, TypesAre
    <2> QED
      BY <1>3, <2>1
  <1>9. w \in comm[e]
    BY <1>1, <1>3 DEF Driving, Members
  <1>10. /\ Driving' /\ UNCHANGED Steps /\ UNCHANGED Meetings /\ UNCHANGED <<epoch, comm, driver>>
    <2>1. \A f \in Epochs, v \in Workers : v \notin comm[f] => bcast'[f][v] = bcast[f][v]
      BY <1>8, <1>9
    <2> QED
      BY <1>1, <1>7, <2>1, WorkerStays DEF driverVars, Meetings
  <1>11. /\ loop'[w][e].at = "POST" /\ loop'[w][e].on = 0
         /\ \A v \in Workers, f \in Epochs : v # w \/ f # e => loop'[v][f] = loop[v][f]
    <2>1. loop \in [Workers -> [Epochs -> Loops]]
      BY <1>1, TypesAre
    <2> QED
      BY <1>7, <2>1
  <1>12. \A f \in Epochs : In(Steps[f][w]) => f = e
    BY <1>1, <1>4, OneLive DEF In
  \* No other thread is about to free a group of the worker's.
  <1>13. ASSUME NEW h \in handlers, h.w = w
         PROVE  /\ ~ Frees(h) /\ (h.via = e => h.at # "START")
                /\ h.via = e => h.cmd # "FREE"
    <2>1. /\ Works(h, Steps[h.via][w], Meetings[h.via][w], gw[w])
          /\ Begun(h, bcast[h.via][w], Steps[h.via][w], Steps[h.via][0], loop[w][h.via].at)
          /\ Frees(h) => h.via = e
      BY <1>1, <1>4, <1>13 DEF Following, Working, Commanded, Released, In
    <2>2. h.via = e => h.at # "START"
      BY <1>3, <2>1 DEF Begun
    <2>3. h.via = e => h.cmd # "FREE"
      BY <1>4, <2>1, <2>2 DEF Works
    <2> QED
      BY <2>1, <2>2, <2>3 DEF Frees, Rests
  <1>14. OnItsWay(bcast'[e][w], Steps'[e][w], Steps[e][0])
    BY <1>8 DEF OnItsWay
  <1>15. Stands(e, Steps'[e][w], Meetings'[e][w], loop'[w][e])
    BY <1>1, <1>2, <1>4, <1>10, <1>11 DEF Stands
  <1>16. ASSUME NEW f \in Epochs
         PROVE  Holds(f, Steps'[f][w], loop'[w][f].at, gw'[w])
    <2>1. Holds(f, Steps[f][w], loop[w][f].at, gw[w])
      BY <1>1 DEF Following, Held
    <2>2. CASE f = e
      BY <1>1, <1>4, <1>7, <1>10, <1>11, <2>1, <2>2 DEF Holds, In
    <2>3. CASE f # e
      BY <1>7, <1>10, <1>11, <2>1, <2>3
    <2> QED
      BY <2>2, <2>3
  <1>17. \A f \in Epochs : gw'[w].group = f /\ Steps'[f][w] = 7 =>
             \E h \in handlers' : h.w = w /\ Frees(h)
    BY <1>1, <1>5, <1>7, <1>10 DEF Following, Dropping
  <1>18. ASSUME NEW h \in handlers', h.w = w
         PROVE  /\ h.via # e => h \in handlers
                /\ h.via = e => Begun(h, bcast'[e][w], Steps'[e][w], Steps[e][0], loop'[w][e].at)
                /\ Works(h, Steps'[h.via][w], Meetings'[h.via][w], gw'[w])
                /\ Frees(h) => \A f \in Epochs : In(Steps'[f][w]) => f = h.via
                /\ h.cmd = "GRID" /\ h.at # "START" =>
                       driver.at = "GRID" /\ h.via = epoch /\ w \notin gridMsg'[h.via]
    <2>1. CASE h = begun
      <3>1. Begun(h, bcast'[e][w], Steps'[e][w], Steps[e][0], loop'[w][e].at)
        BY <1>4, <1>6, <1>8, <1>10, <1>11, <2>1 DEF Begun, Due
      <3>2. Meetings[e][w] = 4
        BY <1>1, <1>2, <1>4 DEF Stands
      <3>3. Works(h, Steps'[h.via][w], Meetings'[h.via][w], gw'[w])
        BY <1>6, <1>10, <2>1, <3>2 DEF Works
      <3>4. \A f \in Epochs : In(Steps'[f][w]) => f = h.via
        BY <1>6, <1>10, <1>12, <2>1
      <3> QED
        BY <1>6, <2>1, <3>1, <3>3, <3>4
    <2>2. CASE h # begun
      <3>1. h \in handlers
        BY <1>5, <2>2
      <3>2. /\ Works(h, Steps[h.via][w], Meetings[h.via][w], gw[w])
            /\ h.cmd = "GRID" /\ h.at # "START" =>
                   driver.at = "GRID" /\ h.via = epoch /\ w \notin gridMsg[h.via]
        BY <1>1, <1>18, <3>1 DEF Following, Working, Positions
      <3>3. ~ Frees(h) /\ (h.via = e => h.at # "START")
        BY <1>13, <1>18, <3>1
      <3> QED
        BY <1>7, <1>10, <3>1, <3>2, <3>3 DEF Begun
    <2> QED
      BY <2>1, <2>2
  <1>19. ASSUME NEW h \in handlers', NEW t \in handlers', h.w = w, t.w = w,
                h.cmd = "FREE", t.cmd = "FREE"
         PROVE  t = h \/ (t.via # h.via /\ (Rests(t) \/ Rests(h)))
    <2>1. CASE h \in handlers /\ t \in handlers
      BY <1>1, <1>19, <2>1 DEF Following, OneRelease
    <2>2. CASE h = begun /\ t \in handlers
      BY <1>6, <1>13, <1>19, <2>2 DEF Frees, Rests
    <2>3. CASE t = begun /\ h \in handlers
      BY <1>6, <1>13, <1>19, <2>3 DEF Frees, Rests
    <2> QED
      BY <1>5, <2>1, <2>2, <2>3
  <1>20. \A f \in Epochs : w \in gridMsg'[f] =>
             driver.at = "GRID" /\ f = epoch /\ w \in comm[f] /\ Steps'[f][w] = 5
    BY <1>1, <1>7, <1>10 DEF Following, Positions
  <1>21. ByThePeersScript'
    BY <1>1, <1>7, <1>10 DEF Following, ByThePeersScript
  <1>22. /\ \A h \in handlers' : h.w # w => h \in handlers
         /\ \A h \in handlers : h.w # w => h \in handlers'
    BY <1>5, <1>6
  <1>23. Following'
    BY <1>1, <1>7, <1>8, <1>10, <1>11, <1>14, <1>15, <1>16, <1>17, <1>18, <1>19, <1>20, <1>21,
       <1>22, Locally
  <1> QED
    BY <1>10, <1>23

-----------------------------------------------------------------------------
(* A worker's steps on the world communicator.                               *)
LEMMA JoinGroupServes ==
    ASSUME Serve, Inv', NEW w \in Workers, JoinGroup(w)
    PROVE  Driving' /\ Following'
  <1>1. /\ Inv /\ TypeOK /\ TypeOK' /\ Driving /\ Following /\ sends[w] # <<>>
        /\ sends[w] \in Seq(0 .. MaxEpochs)
        /\ UNCHANGED <<driverVars, peersEntered, bcast, worldIn, gridMsg, handlers, job>>
    BY TypesAre DEF Serve, Inv, JoinGroup
  <1>2. CASE Head(sends[w]) = 0
    <2>1. UNCHANGED <<entered, loop, gw>>
      BY <1>2 DEF JoinGroup
    <2> QED
      BY <1>1, <2>1, NothingMoves
  <1>3. CASE Head(sends[w]) # 0
    <2>1. PICK e \in Epochs : e = Head(sends[w])
      BY <1>1, <1>3, Taken, Constants
    <2>2. /\ e = epoch /\ driver.at = "CREATE" /\ w \in comm[e] /\ entered[e][w] = <<>>
      <3>1. 1 \in DOMAIN sends[w] /\ sends[w][1] = e
        BY <1>1, <2>1, Taken
      <3> QED
        BY <1>1, <1>3, <2>1, <3>1 DEF Inv, Details
    <2>3. /\ Steps[e][w] = 0 /\ Steps[e][0] = 1 /\ bcast[e][w] = <<>> /\ w \in Ranks
          /\ "CREATE" \in Labels
      <3>1. w \in Ranks
        BY Constants
      <3>2. Steps[e][w] = 0 /\ Steps[e][0] = 1
        BY <1>1, <2>2, <3>1, StepsAre DEF Driving, Course
      <3> QED
        BY <1>1, <3>1, <3>2 DEF Following, Commanded, OnItsWay, Due, Labels
    <2>4. /\ gw' = [gw EXCEPT ![w].primary = gw'[w].primary]
          /\ Enter(e, w, "CREATE")
          /\ loop' = [loop EXCEPT ![w][e].at = "CREATE"]
      <3>1. PICK p : gw' = [gw EXCEPT ![w].primary = p]
        BY <1>3 DEF JoinGroup
      <3>2. gw \in [Workers -> GroupWorkers]
        BY <1>1, TypesAre
      <3>3. gw'[w].primary = p
        BY <3>1, <3>2 DEF GroupWorkers
      <3>4. Enter(e, w, "CREATE") /\ loop' = [loop EXCEPT ![w][e].at = "CREATE"]
        BY <1>3, <2>1 DEF JoinGroup
      <3> QED
        BY <3>1, <3>3, <3>4
    <2>5. /\ Driving' /\ Steps'[e][w] = 1
          /\ \A f \in Epochs, p \in Ranks : f # e \/ p # w => Steps'[f][p] = Steps[f][p]
      <3>1. UNCHANGED <<driverVars, bcast>> /\ Script[0 + 1] = "CREATE"
        BY <1>1, ScriptIs
      <3> QED
        BY <1>1, <2>2, <2>3, <2>4, <3>1, WorkerEnters
    <2>6. /\ \A f \in Epochs, v \in Workers : f # e \/ v # w => Steps'[f][v] = Steps[f][v]
          /\ \A f \in Epochs : Steps'[f][0] = Steps[f][0]
          /\ UNCHANGED Meetings /\ UNCHANGED <<epoch, comm, driver>>
      BY <1>1, <2>5, Constants DEF Meetings, driverVars
    <2>7. /\ loop'[w][e].at = "CREATE" /\ loop'[w][e].on = loop[w][e].on
          /\ \A v \in Workers, f \in Epochs : v # w \/ f # e => loop'[v][f] = loop[v][f]
      <3>1. TypeOK /\ loop' = [loop EXCEPT ![w][e].at = "CREATE"]
        BY <1>1, <2>4
      <3> QED
        BY <3>1, LoopMovesTo DEF Stages
    <2>8. /\ gw'[w].group = gw[w].group /\ gw'[w].group_peers = gw[w].group_peers
          /\ gw'[w].El_group_peers = gw[w].El_group_peers
          /\ gw'[w].grid = gw[w].grid /\ gw'[w].connection_open = gw[w].connection_open
          /\ \A v \in Workers : v # w => gw'[v] = gw[v]
      <3>1. gw \in [Workers -> GroupWorkers]
        BY <1>1, TypesAre
      <3> QED
        BY <2>4, <3>1 DEF GroupWorkers
    <2>9. ASSUME NEW h \in handlers, h.w = w
          PROVE  h.via # e /\ h.via \in Epochs
      <3>1. h.via \in Epochs
        BY <1>1, WhatThereIs
      <3>2. /\ Works(h, Steps[h.via][w], Meetings[h.via][w], gw[w])
            /\ Begun(h, bcast[h.via][w], Steps[h.via][w], Steps[h.via][0], loop[w][h.via].at)
        BY <1>1, <2>9 DEF Following, Working, Commanded
      <3> QED
        BY <2>3, <3>1, <3>2 DEF Works, Begun, Due
    <2>10. OnItsWay(bcast'[e][w], Steps'[e][w], Steps[e][0])
      BY <1>1, <2>3 DEF OnItsWay
    <2>11. Stands(e, Steps'[e][w], Meetings'[e][w], loop'[w][e])
      <3>1. Stands(e, Steps[e][w], Meetings[e][w], loop[w][e])
        BY <1>1 DEF Following, Stage
      <3> QED
        BY <2>3, <2>5, <2>6, <2>7, <3>1 DEF Stands
    <2>12. ASSUME NEW f \in Epochs
           PROVE  Holds(f, Steps'[f][w], loop'[w][f].at, gw'[w])
      <3>1. Holds(f, Steps[f][w], loop[w][f].at, gw[w])
        BY <1>1 DEF Following, Held
      <3>2. CASE f = e
        BY <2>3, <2>5, <2>7, <2>8, <3>1, <3>2 DEF Holds, In
      <3>3. CASE f # e
        BY <2>6, <2>7, <2>8, <3>1, <3>3 DEF Holds
      <3> QED
        BY <3>2, <3>3
    <2>13. ASSUME NEW f \in Epochs, gw'[w].group = f, Steps'[f][w] = 7
           PROVE  \E h \in handlers' : h.w = w /\ Frees(h)
      <3>1. gw[w].group = f /\ Steps[f][w] = 7 /\ handlers' = handlers
        BY <1>1, <2>5, <2>6, <2>8, <2>13
      <3> QED
        BY <1>1, <3>1 DEF Following, Dropping
    <2>14. ASSUME NEW h \in handlers', h.w = w
           PROVE  /\ h \in handlers /\ h.via # e
                  /\ Works(h, Steps'[h.via][w], Meetings'[h.via][w], gw'[w])
                  /\ Frees(h) => \A f \in Epochs : In(Steps'[f][w]) => f = h.via
                  /\ h.cmd = "GRID" /\ h.at # "START" =>
                         driver.at = "GRID" /\ h.via = epoch /\ w \notin gridMsg'[h.via]
      <3>1. h \in handlers /\ h.via # e /\ h.via \in Epochs
        BY <1>1, <2>9, <2>14
      <3>2. /\ Works(h, Steps[h.via][w], Meetings[h.via][w], gw[w])
            /\ Frees(h) => \A f \in Epochs : In(Steps[f][w]) => f = h.via
            /\ h.cmd = "GRID" /\ h.at # "START" =>
                   driver.at = "GRID" /\ h.via = epoch /\ w \notin gridMsg[h.via]
        BY <1>1, <2>14, <3>1 DEF Following, Working, Released, Positions
      <3>3. \A f \in Epochs : In(Steps'[f][w]) => In(Steps[f][w])
        BY <2>5, <2>6 DEF In
      <3>4. Works(h, Steps'[h.via][w], Meetings'[h.via][w], gw'[w])
        BY <2>6, <2>8, <3>1, <3>2 DEF Works
      <3> QED
        BY <1>1, <3>1, <3>2, <3>3, <3>4
    <2>15. \A h, t \in handlers' : h.w = w /\ t.w = w /\ h.cmd = "FREE" /\ t.cmd = "FREE" =>
               t = h \/ (t.via # h.via /\ (Rests(t) \/ Rests(h)))
      BY <1>1 DEF Following, OneRelease
    <2>16. \A f \in Epochs : w \in gridMsg'[f] =>
               driver.at = "GRID" /\ f = epoch /\ w \in comm[f] /\ Steps'[f][w] = 5
      BY <1>1, <2>2 DEF Following, Positions
    <2>17. ByThePeersScript'
      BY <1>1, <2>6 DEF Following, ByThePeersScript
    <2>18. Following'
      BY <1>1, <2>5, <2>6, <2>7, <2>8, <2>10, <2>11, <2>12, <2>13, <2>14, <2>15, <2>16, <2>17,
         Locally
    <2> QED
      BY <2>5, <2>18
  <1> QED
    BY <1>2, <1>3

LEMMA OthersServe ==
    ASSUME Serve, \/ \E w \in Workers : WorldCommand(w)
                  \/ \E error : Crash(error)
    PROVE  Driving' /\ Following'
  <1>1. UNCHANGED <<driverVars, entered, peersEntered, bcast, gridMsg, loop, handlers, gw>>
    BY DEF WorldCommand, Crash
  <1> QED
    BY <1>1, NothingMoves DEF Serve

-----------------------------------------------------------------------------
(* The handler threads' steps.                                               *)
LEMMA ThreadIs ==
    ASSUME Serve, NEW h \in handlers, NEW w, NEW e, w = h.w, e = h.via
    PROVE  /\ w \in Workers /\ e \in Epochs /\ h.cmd \in Commands /\ h \in Threads
           /\ Begun(h, bcast[e][w], Steps[e][w], Steps[e][0], loop[w][e].at)
           /\ Works(h, Steps[e][w], Meetings[e][w], gw[w])
           /\ Stands(e, Steps[e][w], Meetings[e][w], loop[w][e])
           /\ Holds(e, Steps[e][w], loop[w][e].at, gw[w])
           /\ Steps[e][w] \in 0 .. 7 /\ Steps[e][0] \in 0 .. 7 /\ Meetings[e][w] \in Nat
           /\ Frees(h) => \A f \in Epochs : In(Steps[f][w]) => f = e
  <1>1. /\ Inv /\ TypeOK /\ Driving /\ Following
    BY DEF Serve, Inv
  <1>2. w \in Workers /\ e \in Epochs /\ h.cmd \in Commands /\ h \in Threads
    BY <1>1, WhatThereIs, TypesAre
  <1>3. /\ Steps[e][w] \in Nat /\ Steps[e][0] \in Nat /\ Meetings[e][w] \in Nat
        /\ Steps[e][w] <= 7 /\ Steps[e][0] <= 7
    BY <1>1, <1>2, WhatThereIs, Constants DEF Driving, ByTheScript
  <1>4. /\ Begun(h, bcast[e][w], Steps[e][w], Steps[e][0], loop[w][e].at)
        /\ Works(h, Steps[e][w], Meetings[e][w], gw[w])
    BY <1>1 DEF Following, Commanded, Working
  <1>5. /\ Stands(e, Steps[e][w], Meetings[e][w], loop[w][e])
        /\ Holds(e, Steps[e][w], loop[w][e].at, gw[w])
    BY <1>1, <1>2 DEF Following, Stage, Held
  <1>6. Frees(h) => \A f \in Epochs : In(Steps[f][w]) => f = e
    BY <1>1 DEF Following, Released
  <1> QED
    BY <1>2, <1>3, <1>4, <1>5, <1>6

\* Two threads that tell the same thing are one.
LEMMA BegunOnce ==
    ASSUME Serve, NEW h \in handlers, NEW t \in handlers, h.w = t.w, h.via = t.via,
           h.at = t.at, h.cmd = t.cmd, h.on = t.on, h.k = t.k
    PROVE  h = t
  <1>1. handlers \subseteq Threads
    BY TypesAre DEF Serve, Inv
  <1>2. /\ h = [w |-> h.w, cmd |-> h.cmd, via |-> h.via, at |-> h.at, on |-> h.on, k |-> h.k]
        /\ t = [w |-> t.w, cmd |-> t.cmd, via |-> t.via, at |-> t.at, on |-> t.on, k |-> t.k]
    BY <1>1 DEF Threads
  <1> QED
    BY <1>2

LEMMA BegunAlone ==
    ASSUME Serve, NEW h \in handlers, NEW t \in handlers, h.w = t.w, h.via = t.via,
           h.at = "START", t.at = "START"
    PROVE  h = t
  <1>1. /\ Begun(h, bcast[h.via][h.w], Steps[h.via][h.w], Steps[h.via][0], loop[h.w][h.via].at)
        /\ Begun(t, bcast[h.via][h.w], Steps[h.via][h.w], Steps[h.via][0], loop[h.w][h.via].at)
    BY ThreadIs
  <1> QED
    BY <1>1, BegunOnce DEF Begun

(* Thread h of worker w, begun for e, ends or gives way to the one in next,  *)
(* which is it at a later stage.                                             *)
Turns(h, w, e, next) == h.w = w /\ h.via = e /\ handlers' = (handlers \ {h}) \cup next

LEMMA ThreadServes ==
    ASSUME Serve, TypeOK', NEW w \in Workers, NEW e \in Epochs, NEW h \in handlers, NEW next,
           Turns(h, w, e, next),
           \A t \in next :
               /\ t.w = w /\ t.via = e /\ t.cmd = h.cmd /\ t.at # "START"
               /\ Frees(t) => Frees(h)
               /\ Works(t, Steps'[e][w], Meetings'[e][w], gw'[w])
               /\ t.cmd = "GRID" => driver.at = "GRID" /\ e = epoch /\ w \notin gridMsg'[e]
               /\ \A s \in next : s = t,
           UNCHANGED <<epoch, comm, driver, bcast, loop>>,
           \A f \in Epochs, v \in Workers : v # w \/ f # e =>
               Steps'[f][v] = Steps[f][v] /\ Meetings'[f][v] = Meetings[f][v],
           \A f \in Epochs : Steps'[f][0] = Steps[f][0],
           \A f \in Epochs : In(Steps'[f][w]) => In(Steps[f][w]),
           \A v \in Workers : v # w => gw'[v] = gw[v],
           \A f \in Epochs, v \in Workers : v # w => (v \in gridMsg'[f] <=> v \in gridMsg[f]),
           \A f \in Epochs : w \in gridMsg'[f] =>
               driver.at = "GRID" /\ f = epoch /\ w \in comm[f] /\ Steps'[f][w] = 5,
           ByThePeersScript',
           OnItsWay(bcast[e][w], Steps'[e][w], Steps[e][0]),
           Stands(e, Steps'[e][w], Meetings'[e][w], loop[w][e]),
           \A f \in Epochs : Holds(f, Steps'[f][w], loop[w][f].at, gw'[w]),
           \A f \in Epochs : gw'[w].group = f /\ Steps'[f][w] = 7 =>
               \E t \in handlers' : t.w = w /\ Frees(t),
           \A t \in handlers : t.w = w /\ t # h =>
               /\ t.via = e => Begun(t, bcast[e][w], Steps'[e][w], Steps[e][0], loop[w][e].at)
               /\ Works(t, Steps'[t.via][w], Meetings'[t.via][w], gw'[w])
               /\ t.cmd = "GRID" /\ t.at # "START" => w \notin gridMsg'[t.via]
    PROVE  Following'
  <1>1. /\ TypeOK /\ Following /\ Inv
        /\ h.w = w /\ h.via = e /\ handlers' = (handlers \ {h}) \cup next
    BY DEF Serve, Inv, Turns
  <1>2. /\ \A t \in handlers' : t.w # w => t \in handlers
        /\ \A t \in handlers : t.w # w => t \in handlers'
    BY <1>1
  <1>3. ASSUME NEW t \in handlers', t.w = w
        PROVE  /\ t.via # e => t \in handlers
               /\ t.via = e => Begun(t, bcast'[e][w], Steps'[e][w], Steps[e][0], loop'[w][e].at)
               /\ Works(t, Steps'[t.via][w], Meetings'[t.via][w], gw'[w])
               /\ Frees(t) => \A f \in Epochs : In(Steps'[f][w]) => f = t.via
               /\ t.cmd = "GRID" /\ t.at # "START" =>
                      driver.at = "GRID" /\ t.via = epoch /\ w \notin gridMsg'[t.via]
    <2>1. CASE t \in next
      <3>1. /\ t.via = e /\ t.cmd = h.cmd /\ t.at # "START" /\ (Frees(t) => Frees(h))
            /\ Works(t, Steps'[e][w], Meetings'[e][w], gw'[w])
            /\ t.cmd = "GRID" => driver.at = "GRID" /\ e = epoch /\ w \notin gridMsg'[e]
        BY <2>1
      <3>2. Frees(h) => \A f \in Epochs : In(Steps[f][w]) => f = e
        BY <1>1 DEF Following, Released
      <3> QED
        BY <3>1, <3>2 DEF Begun
    <2>2. CASE t \notin next
      <3>1. t \in handlers /\ t # h
        BY <1>1, <1>3, <2>2
      <3>2. /\ Frees(t) => \A f \in Epochs : In(Steps[f][w]) => f = t.via
            /\ t.cmd = "GRID" /\ t.at # "START" => driver.at = "GRID" /\ t.via = epoch
        BY <1>1, <1>3, <3>1 DEF Following, Released, Positions
      <3> QED
        BY <1>3, <3>1, <3>2
    <2> QED
      BY <2>1, <2>2
  <1>4. ASSUME NEW s \in handlers', NEW t \in handlers', s.w = w, t.w = w,
               s.cmd = "FREE", t.cmd = "FREE"
        PROVE  t = s \/ (t.via # s.via /\ (Rests(t) \/ Rests(s)))
    <2>1. \A x, y \in handlers : x.w = w /\ y.w = w /\ x.cmd = "FREE" /\ y.cmd = "FREE" =>
              y = x \/ (y.via # x.via /\ (Rests(y) \/ Rests(x)))
      BY <1>1 DEF Following, OneRelease
    <2>2. CASE s \in next /\ t \in next
      BY <2>2
    <2>3. CASE s \in next /\ t \notin next
      <3>1. t \in handlers /\ t # h /\ h.cmd = "FREE" /\ s.via = h.via
        BY <1>1, <1>4, <2>3
      <3>2. t.via # h.via /\ (Rests(t) \/ Rests(h))
        BY <1>1, <1>4, <2>1, <3>1
      <3>3. ~ Rests(s) => ~ Rests(h)
        BY <1>4, <2>3, <3>1 DEF Frees
      <3> QED
        BY <3>1, <3>2, <3>3
    <2>4. CASE s \notin next /\ t \in next
      <3>1. s \in handlers /\ s # h /\ h.cmd = "FREE" /\ t.via = h.via
        BY <1>1, <1>4, <2>4
      <3>2. s.via # h.via /\ (Rests(s) \/ Rests(h))
        BY <1>1, <1>4, <2>1, <3>1
      <3>3. ~ Rests(t) => ~ Rests(h)
        BY <1>4, <2>4, <3>1 DEF Frees
      <3> QED
        BY <3>1, <3>2, <3>3
    <2>5. CASE s \notin next /\ t \notin next
      BY <1>1, <1>4, <2>1, <2>5
    <2> QED
      BY <2>2, <2>3, <2>4, <2>5
  <1>5. /\ OnItsWay(bcast'[e][w], Steps'[e][w], Steps[e][0])
        /\ Stands(e, Steps'[e][w], Meetings'[e][w], loop'[w][e])
        /\ \A f \in Epochs : Holds(f, Steps'[f][w], loop'[w][f].at, gw'[w])
    OBVIOUS
  <1> QED
    BY <1>1, <1>2, <1>3, <1>4, <1>5, Locally

LEMMA EnterGroupBarrierServes ==
    ASSUME Serve, Inv', NEW h \in handlers, EnterGroupBarrier(h)
    PROVE  Driving' /\ Following'
  <1>1. PICK w \in Workers, e \in Epochs : w = h.w /\ e = h.via
    BY ThreadIs
  <1>2. /\ Inv /\ TypeOK /\ TypeOK' /\ Driving /\ Following /\ h.at = "START"
        /\ h.cmd \in {"CLOSE", "PRINT", "OPEN", "GRID"}
    BY DEF Serve, Inv, EnterGroupBarrier
  <1>3. /\ Begun(h, bcast[e][w], Steps[e][w], Steps[e][0], loop[w][e].at)
        /\ Stands(e, Steps[e][w], Meetings[e][w], loop[w][e])
        /\ Holds(e, Steps[e][w], loop[w][e].at, gw[w])
        /\ Steps[e][w] \in 0 .. 7 /\ Steps[e][0] \in 0 .. 7
    BY <1>1, ThreadIs
  <1>4. PICK n \in 2 .. 5 : n = Steps[e][w] /\ Steps[e][0] = n + 1 /\ h.cmd = Script[n + 1]
    <2>1. Due(Steps[e][w], Steps[e][0]) /\ h.cmd = Script[Steps[e][0]]
      BY <1>2, <1>3 DEF Begun
    <2>2. Steps[e][0] # 7
      BY <1>2, <2>1, ScriptIs
    <2> QED
      BY <1>3, <2>1, <2>2 DEF Due
  <1>5. /\ loop[w][e].at \in {"POST", "WAIT"} /\ bcast[e][w] = <<>> /\ Meetings[e][w] = 4
        /\ gw[w].group = e /\ gw[w].group_peers \in {e, 0} /\ gw[w].grid = e
        /\ gw[w].connection_open <=> n \in {4, 5}
        /\ w \in comm[e] /\ h.cmd \in Labels
    <2>1. loop[w][e].at \in {"POST", "WAIT"} /\ bcast[e][w] = <<>>
      BY <1>2, <1>3 DEF Begun
    <2>2. Meetings[e][w] = 4
      BY <1>3, <1>4, <2>1 DEF Stands
    <2>3. /\ gw[w].group = e /\ gw[w].group_peers \in {e, 0} /\ gw[w].grid = e
          /\ gw[w].connection_open <=> n \in {4, 5}
      BY <1>3, <1>4, <2>1 DEF Holds, In
    <2>4. w \in comm[e]
      BY <1>2, <1>4, Live
    <2> QED
      BY <1>2, <2>1, <2>2, <2>3, <2>4 DEF Labels, Commands
  <1>6. /\ Enter(e, w, h.cmd)
        /\ gw' = [gw EXCEPT ![w].connection_open =
                     IF h.cmd = "CLOSE" THEN FALSE ELSE IF h.cmd = "OPEN" THEN TRUE ELSE @]
        /\ IF h.cmd = "GRID" THEN Blocks(h, "ENTERED", e, Len(entered[e][w])) ELSE Done(h)
        /\ UNCHANGED <<driverVars, peersEntered, bcast, worldVars, gridMsg, loop, job>>
    BY <1>1, <1>5, Constants DEF EnterGroupBarrier
  <1>7. /\ Driving' /\ Steps'[e][w] = n + 1
        /\ \A f \in Epochs, p \in Ranks : f # e \/ p # w => Steps'[f][p] = Steps[f][p]
    <2>1. UNCHANGED <<driverVars, bcast>> /\ n \in 0 .. 6
      BY <1>6
    <2> QED
      BY <1>2, <1>4, <1>5, <1>6, <2>1, WorkerEnters
  <1>8. /\ \A f \in Epochs, v \in Workers : f # e \/ v # w => Steps'[f][v] = Steps[f][v]
        /\ \A f \in Epochs : Steps'[f][0] = Steps[f][0]
        /\ UNCHANGED Meetings /\ UNCHANGED <<epoch, comm, driver, bcast, loop, gridMsg>>
    BY <1>6, <1>7, Constants DEF Meetings, driverVars
  <1>9. /\ gw'[w].group = e /\ gw'[w].group_peers = gw[w].group_peers /\ gw'[w].grid = e
        /\ gw'[w].El_group_peers = gw[w].El_group_peers
        /\ gw'[w].connection_open <=> n + 1 \in {4, 5}
        /\ \A v \in Workers : v # w => gw'[v] = gw[v]
    <2>1. PICK open : gw' = [gw EXCEPT ![w].connection_open = open]
      BY <1>6
    <2>2. gw \in [Workers -> GroupWorkers]
      BY <1>2, TypesAre
    <2>3. gw'[w].connection_open = IF h.cmd = "CLOSE" THEN FALSE
                                   ELSE IF h.cmd = "OPEN" THEN TRUE ELSE gw[w].connection_open
      BY <1>6, <2>2 DEF GroupWorkers
    <2>4. n + 1 = 6 <=> h.cmd = "CLOSE"
      BY <1>4, ScriptIs
    <2>5. n + 1 = 4 <=> h.cmd = "OPEN"
      BY <1>4, ScriptIs
    <2>6. gw'[w].connection_open <=> n + 1 \in {4, 5}
      <3>1. CASE h.cmd = "CLOSE"
        BY <2>3, <2>4, <3>1
      <3>2. CASE h.cmd = "OPEN"
        BY <2>3, <2>5, <3>2
      <3>3. CASE h.cmd \notin {"CLOSE", "OPEN"}
        <4>1. gw'[w].connection_open = gw[w].connection_open
          BY <2>3, <3>3
        <4>2. n \in {2, 4}
          BY <1>4, <2>4, <2>5, <3>3
        <4> QED
          BY <1>5, <4>1, <4>2
      <3> QED
        BY <3>1, <3>2, <3>3
    <2>7. /\ gw'[w].group = gw[w].group /\ gw'[w].group_peers = gw[w].group_peers
          /\ gw'[w].El_group_peers = gw[w].El_group_peers
          /\ gw'[w].grid = gw[w].grid /\ \A v \in Workers : v # w => gw'[v] = gw[v]
      BY <2>1, <2>2 DEF GroupWorkers
    <2> QED
      BY <1>5, <2>6, <2>7
  <1>10. PICK next :
             /\ handlers' = (handlers \ {h}) \cup next
             /\ \A t \in next : /\ t.w = w /\ t.via = e /\ t.cmd = "GRID" /\ h.cmd = "GRID"
                                /\ t.at = "ENTERED" /\ t.on = e /\ t.k = n + 1
                                /\ \A s \in next : s = t
    <2>1. PICK moved : moved = [h EXCEPT !.at = "ENTERED", !.on = e, !.k = n + 1]
      OBVIOUS
    <2>2. PICK next : next = IF h.cmd = "GRID" THEN {moved} ELSE {}
      OBVIOUS
    <2>3. h \in Threads /\ Len(entered[e][w]) = n
      BY <1>1, <1>2, <1>4, ThreadIs, StepsAre, Constants
    <2>4. handlers' = (handlers \ {h}) \cup next
      BY <1>6, <2>1, <2>2, <2>3 DEF Blocks, Done
    <2>5. /\ moved.w = w /\ moved.via = e /\ moved.cmd = h.cmd /\ moved.at = "ENTERED"
          /\ moved.on = e /\ moved.k = n + 1
      BY <1>1, <2>1, <2>3 DEF Threads
    <2>6. \A t \in next : /\ t.w = w /\ t.via = e /\ t.cmd = "GRID" /\ h.cmd = "GRID"
                           /\ t.at = "ENTERED" /\ t.on = e /\ t.k = n + 1
                           /\ \A s \in next : s = t
      BY <2>2, <2>5
    <2> QED
      BY <2>4, <2>6
  <1>11. /\ h.cmd = "GRID" => n = 4 /\ driver.at = "GRID" /\ e = epoch
         /\ w \notin gridMsg[e] \/ n = 5
    <2>1. n + 1 = 5 <=> h.cmd = "GRID"
      BY <1>4, ScriptIs
    <2>2. ASSUME n = 4 PROVE driver.at = "GRID" /\ e = epoch
      <3>1. Steps[e][0] = 5 /\ Steps[e][w] = 4
        BY <1>4, <2>2
      <3> QED
        BY <1>2, <3>1, GridIsDue
    <2> QED
      BY <1>2, <1>4, <2>1, <2>2 DEF Following, Positions
  \* No position is awaited any more once the driver closes the connections.
  <1>12. /\ \A f \in Epochs : w \in gridMsg[f] =>
                driver.at = "GRID" /\ f = epoch /\ w \in comm[f] /\ Steps'[f][w] = 5
         /\ \A t \in handlers : t.cmd = "GRID" /\ t.at # "START" => t.via # e \/ t.w # w
    <2>1. ~ (driver.at = "GRID" /\ e = epoch) \/ n # 5
      BY <1>2, <1>4 DEF Driving, Course
    <2>2. \A f \in Epochs : w \in gridMsg[f] =>
              driver.at = "GRID" /\ f = epoch /\ w \in comm[f] /\ Steps[f][w] = 5
      BY <1>2 DEF Following, Positions
    <2>3. ASSUME NEW t \in handlers, t.cmd = "GRID", t.at # "START", t.via = e, t.w = w
          PROVE  FALSE
      <3>1. driver.at = "GRID" /\ e = epoch
        BY <1>2, <2>3 DEF Following, Positions
      <3>2. Works(t, Steps[e][w], Meetings[e][w], gw[w])
        BY <2>3, ThreadIs
      <3> QED
        BY <1>4, <2>1, <2>3, <3>1, <3>2 DEF Works
    <2> QED
      BY <1>4, <1>8, <2>1, <2>2, <2>3
  <1>13. \A t \in next :
             /\ t.w = w /\ t.via = e /\ t.cmd = h.cmd /\ t.at # "START"
             /\ Frees(t) => Frees(h)
             /\ Works(t, Steps'[e][w], Meetings'[e][w], gw'[w])
             /\ t.cmd = "GRID" => driver.at = "GRID" /\ e = epoch /\ w \notin gridMsg'[e]
             /\ \A s \in next : s = t
    BY <1>7, <1>8, <1>10, <1>11 DEF Works, Frees, Rests
  <1>14. ASSUME NEW f \in Epochs
         PROVE  /\ Holds(f, Steps'[f][w], loop[w][f].at, gw'[w])
                /\ In(Steps'[f][w]) => In(Steps[f][w])
    <2>1. Holds(f, Steps[f][w], loop[w][f].at, gw[w])
      BY <1>2 DEF Following, Held
    <2>2. CASE f = e
      <3>1. In(n + 1) /\ In(n) /\ gw'[w].group # 0
        BY <1>4, <1>9, Constants DEF In
      <3>2. Holds(e, n + 1, loop[w][e].at, gw'[w])
        BY <1>4, <1>5, <1>9, <3>1 DEF Holds
      <3> QED
        BY <1>4, <1>7, <2>2, <3>1, <3>2
    <2>3. CASE f # e
      BY <1>5, <1>8, <1>9, <2>1, <2>3, Constants DEF Holds, In
    <2> QED
      BY <2>2, <2>3
  <1>15. \A f \in Epochs : ~ (gw'[w].group = f /\ Steps'[f][w] = 7)
    BY <1>4, <1>7, <1>9
  <1>16. ASSUME NEW t \in handlers, t.w = w, t # h
         PROVE  /\ t.via = e => Begun(t, bcast[e][w], Steps'[e][w], Steps[e][0], loop[w][e].at)
                /\ Works(t, Steps'[t.via][w], Meetings'[t.via][w], gw'[w])
                /\ t.cmd = "GRID" /\ t.at # "START" => w \notin gridMsg'[t.via]
    <2>1. /\ Works(t, Steps[t.via][w], Meetings[t.via][w], gw[w]) /\ t.via \in Epochs
          /\ t.cmd = "GRID" /\ t.at # "START" => w \notin gridMsg[t.via]
      BY <1>2, <1>16, ThreadIs DEF Following, Positions
    <2>2. t.via = e => t.at # "START"
      BY <1>1, <1>2, <1>16, BegunAlone
    <2>3. t.via # e
      BY <1>4, <1>12, <1>16, <2>1, <2>2 DEF Works
    <2>4. Works(t, Steps'[t.via][w], Meetings'[t.via][w], gw'[w])
      BY <1>5, <1>8, <1>9, <2>1, <2>3 DEF Works
    <2> QED
      BY <1>8, <2>1, <2>3, <2>4
  <1>17. /\ OnItsWay(bcast[e][w], Steps'[e][w], Steps[e][0])
         /\ Stands(e, Steps'[e][w], Meetings'[e][w], loop[w][e])
    BY <1>3, <1>4, <1>5, <1>7, <1>8 DEF OnItsWay, Stands
  <1>18. ByThePeersScript'
    BY <1>2, <1>6, <1>8 DEF Following, ByThePeersScript
  <1>19. /\ \A f \in Epochs : w \in gridMsg'[f] =>
                driver.at = "GRID" /\ f = epoch /\ w \in comm[f] /\ Steps'[f][w] = 5
         /\ \A f \in Epochs, v \in Workers : v # w => (v \in gridMsg'[f] <=> v \in gridMsg[f])
    BY <1>8, <1>12
  <1>20. Following'
    <2>1. /\ \A f \in Epochs, v \in Workers : v # w \/ f # e =>
                 Steps'[f][v] = Steps[f][v] /\ Meetings'[f][v] = Meetings[f][v]
          /\ \A f \in Epochs : Steps'[f][0] = Steps[f][0]
          /\ UNCHANGED <<epoch, comm, driver, bcast, loop>>
          /\ \A v \in Workers : v # w => gw'[v] = gw[v]
      BY <1>8, <1>9
    <2>2. \A f \in Epochs : gw'[w].group = f /\ Steps'[f][w] = 7 =>
              \E t \in handlers' : t.w = w /\ Frees(t)
      BY <1>15
    <2>3. Turns(h, w, e, next) /\ TypeOK'
      BY <1>1, <1>2, <1>10 DEF Turns
    <2> QED
      BY <1>13, <1>14, <1>16, <1>17, <1>18, <1>19, <2>1, <2>2, <2>3, ThreadServes
  <1> QED
    BY <1>7, <1>20

LEMMA SendGridServes ==
    ASSUME Serve, Inv', NEW h \in handlers, SendGrid(h)
    PROVE  Driving' /\ Following'
  <1>1. PICK w \in Workers, e \in Epochs : w = h.w /\ e = h.via
    BY ThreadIs
  <1>2. /\ Inv /\ TypeOK /\ TypeOK' /\ Driving /\ Following /\ h.at = "ENTERED" /\ h.cmd = "GRID"
    BY DEF Serve, Inv, SendGrid
  <1>3. /\ Works(h, Steps[e][w], Meetings[e][w], gw[w])
        /\ Stands(e, Steps[e][w], Meetings[e][w], loop[w][e])
        /\ Holds(e, Steps[e][w], loop[w][e].at, gw[w])
        /\ Steps[e][w] = 5 /\ h.on = e /\ h.k = 5
    BY <1>1, <1>2, ThreadIs DEF Works
  <1>4. gw[w].group = e /\ gw[w].grid = e /\ w \in comm[e] /\ driver.at = "GRID" /\ e = epoch
    <2>1. gw[w].group = e /\ gw[w].grid = e
      BY <1>3 DEF Holds, Stands, In
    <2>2. w \in comm[e]
      BY <1>2, <1>3, Live
    <2>3. driver.at = "GRID" /\ e = epoch
      BY <1>1, <1>2 DEF Following, Positions
    <2> QED
      BY <2>1, <2>2, <2>3
  <1>5. /\ gridMsg' = [gridMsg EXCEPT ![e] = @ \cup {w}] /\ handlers' = (handlers \ {h}) \cup {}
        /\ UNCHANGED <<driverVars, entered, peersEntered, bcast, worldVars, loop, gw, job>>
    BY <1>1, <1>4, Constants DEF SendGrid, Done
  <1>6. /\ Driving' /\ UNCHANGED Steps /\ UNCHANGED Meetings
        /\ UNCHANGED <<epoch, comm, driver, bcast, loop, gw>>
    BY <1>2, <1>5, WorkerStays DEF driverVars, Meetings
  <1>7. /\ gridMsg'[e] = gridMsg[e] \cup {w}
        /\ \A f \in Epochs : f # e => gridMsg'[f] = gridMsg[f]
    <2>1. gridMsg \in [Epochs -> SUBSET Workers]
      BY <1>2, TypesAre
    <2> QED
      BY <1>5, <2>1
  <1>8. ASSUME NEW f \in Epochs
        PROVE  /\ w \in gridMsg'[f] =>
                      driver.at = "GRID" /\ f = epoch /\ w \in comm[f] /\ Steps'[f][w] = 5
               /\ \A v \in Workers : v # w => (v \in gridMsg'[f] <=> v \in gridMsg[f])
               /\ Holds(f, Steps'[f][w], loop[w][f].at, gw'[w])
               /\ gw'[w].group = f /\ Steps'[f][w] = 7 => \E t \in handlers' : t.w = w /\ Frees(t)
    <2>1. w \in gridMsg[f] =>
              driver.at = "GRID" /\ f = epoch /\ w \in comm[f] /\ Steps[f][w] = 5
      BY <1>2 DEF Following, Positions
    <2>2. Holds(f, Steps'[f][w], loop[w][f].at, gw'[w])
      BY <1>2, <1>6 DEF Following, Held
    <2>3. ~ (gw'[w].group = f /\ Steps'[f][w] = 7)
      BY <1>3, <1>4, <1>6
    <2> QED
      BY <1>3, <1>4, <1>6, <1>7, <2>1, <2>2, <2>3
  <1>9. ASSUME NEW t \in handlers, t.w = w, t # h
        PROVE  /\ t.via = e => Begun(t, bcast[e][w], Steps'[e][w], Steps[e][0], loop[w][e].at)
               /\ Works(t, Steps'[t.via][w], Meetings'[t.via][w], gw'[w])
               /\ t.cmd = "GRID" /\ t.at # "START" => w \notin gridMsg'[t.via]
    <2>1. /\ Begun(t, bcast[t.via][w], Steps[t.via][w], Steps[t.via][0], loop[w][t.via].at)
          /\ Works(t, Steps[t.via][w], Meetings[t.via][w], gw[w]) /\ t.via \in Epochs
      BY <1>9, ThreadIs
    <2>2. ~ (t.cmd = "GRID" /\ t.at # "START")
      <3>1. SUFFICES ASSUME t.cmd = "GRID", t.at # "START" PROVE FALSE
        OBVIOUS
      <3>2. t.via = e /\ t.at = "ENTERED" /\ t.on = e /\ t.k = 5
        BY <1>2, <1>4, <2>1, <3>1 DEF Following, Positions, Works
      <3> QED
        BY <1>1, <1>2, <1>3, <1>9, <3>1, <3>2, BegunOnce
    <2> QED
      BY <1>6, <2>1, <2>2
  <1>10. /\ OnItsWay(bcast[e][w], Steps'[e][w], Steps[e][0]) /\ ByThePeersScript'
         /\ Stands(e, Steps'[e][w], Meetings'[e][w], loop[w][e])
    BY <1>2, <1>3, <1>5, <1>6 DEF Following, Commanded, ByThePeersScript
  <1>11. Turns(h, w, e, {})
    BY <1>1, <1>5 DEF Turns
  <1>12. Following'
    BY <1>2, <1>6, <1>8, <1>9, <1>10, <1>11, ThreadServes
  <1> QED
    BY <1>6, <1>12

\* A thread that frees a group meets its like on no other group of the worker.
LEMMA FreesAlone ==
    ASSUME Serve, NEW h \in handlers, NEW t \in handlers, t.w = h.w, Frees(h), Frees(t)
    PROVE  t = h
  BY DEF Serve, Following, OneRelease, Frees, Rests

LEMMA DropGridServes ==
    ASSUME Serve, Inv', NEW h \in handlers, DropGrid(h)
    PROVE  Driving' /\ Following'
  <1>1. PICK w \in Workers, e \in Epochs : w = h.w /\ e = h.via
    BY ThreadIs
  <1>2. /\ Inv /\ TypeOK /\ TypeOK' /\ Driving /\ Following /\ h.at = "START" /\ h.cmd = "FREE"
        /\ h \in Threads
    BY ThreadIs DEF Serve, Inv, DropGrid
  <1>3. /\ Begun(h, bcast[e][w], Steps[e][w], Steps[e][0], loop[w][e].at)
        /\ Works(h, Steps[e][w], Meetings[e][w], gw[w])
        /\ Stands(e, Steps[e][w], Meetings[e][w], loop[w][e])
        /\ Holds(e, Steps[e][w], loop[w][e].at, gw[w])
        /\ Steps[e][w] \in 0 .. 7 /\ Steps[e][0] \in 0 .. 7
    BY <1>1, ThreadIs
  <1>4. Steps[e][w] = 6 /\ Steps[e][0] = 7
    <2>1. Due(Steps[e][w], Steps[e][0]) /\ h.cmd = Script[Steps[e][0]]
      BY <1>2, <1>3 DEF Begun
    <2>2. PICK d \in 3 .. 7 : d = Steps[e][0]
      BY <1>3, <2>1 DEF Due
    <2>3. d = 7 <=> h.cmd = "FREE"
      BY <2>1, <2>2, ScriptIs
    <2> QED
      BY <1>2, <1>3, <2>1, <2>2, <2>3 DEF Due
  <1>5. /\ loop[w][e].at \in {"POST", "WAIT"} /\ bcast[e][w] = <<>> /\ Meetings[e][w] = 4
        /\ gw[w].group = e /\ gw[w].group_peers \in {e, 0} /\ ~ gw[w].connection_open
        /\ w \in comm[e] /\ "FREE" \in Labels
    <2>1. loop[w][e].at \in {"POST", "WAIT"} /\ bcast[e][w] = <<>>
      BY <1>2, <1>3 DEF Begun
    <2>2. Meetings[e][w] = 4
      BY <1>3, <1>4, <2>1 DEF Stands
    <2>3. /\ gw[w].group = e /\ gw[w].group_peers \in {e, 0} /\ ~ gw[w].connection_open
      BY <1>3, <1>4, <2>1 DEF Holds, In
    <2>4. w \in comm[e]
      BY <1>2, <1>4, Live
    <2> QED
      BY <2>1, <2>2, <2>3, <2>4 DEF Labels, Commands
  <1>6. /\ gw' = [gw EXCEPT ![w].grid = 0] /\ Enter(e, w, "FREE")
        /\ Blocks(h, "ENTERED", e, Len(entered[e][w]))
        /\ UNCHANGED <<driverVars, peersEntered, bcast, worldVars, gridMsg, loop, job>>
    BY <1>1, <1>5, Constants DEF DropGrid
  <1>7. /\ Driving' /\ Steps'[e][w] = 7
        /\ \A f \in Epochs, p \in Ranks : f # e \/ p # w => Steps'[f][p] = Steps[f][p]
    <2>1. UNCHANGED <<driverVars, bcast>> /\ Script[6 + 1] = "FREE" /\ Steps[e][0] = 6 + 1
      BY <1>4, <1>6, ScriptIs
    <2> QED
      BY <1>2, <1>4, <1>5, <1>6, <2>1, WorkerEnters
  <1>8. /\ \A f \in Epochs, v \in Workers : f # e \/ v # w => Steps'[f][v] = Steps[f][v]
        /\ \A f \in Epochs : Steps'[f][0] = Steps[f][0]
        /\ UNCHANGED Meetings /\ UNCHANGED <<epoch, comm, driver, bcast, loop, gridMsg>>
    BY <1>6, <1>7, Constants DEF Meetings, driverVars
  <1>9. /\ gw'[w].group = e /\ gw'[w].group_peers = gw[w].group_peers /\ gw'[w].grid = 0
        /\ gw'[w].El_group_peers = gw[w].El_group_peers
        /\ ~ gw'[w].connection_open /\ \A v \in Workers : v # w => gw'[v] = gw[v]
    <2>1. gw \in [Workers -> GroupWorkers]
      BY <1>2, TypesAre
    <2> QED
      BY <1>5, <1>6, <2>1 DEF GroupWorkers
  <1>10. PICK moved : /\ handlers' = (handlers \ {h}) \cup {moved}
                      /\ moved.w = w /\ moved.via = e /\ moved.cmd = "FREE"
                      /\ moved.at = "ENTERED" /\ moved.on = e /\ moved.k = 7
    <2>1. PICK moved : moved = [h EXCEPT !.at = "ENTERED", !.on = e, !.k = 6 + 1]
      OBVIOUS
    <2>2. Len(entered[e][w]) = 6
      BY <1>2, <1>4, StepsAre, Constants
    <2>3. handlers' = (handlers \ {h}) \cup {moved}
      BY <1>6, <2>1, <2>2 DEF Blocks
    <2>4. /\ moved.w = w /\ moved.via = e /\ moved.cmd = "FREE" /\ moved.at = "ENTERED"
          /\ moved.on = e /\ moved.k = 6 + 1
      BY <1>1, <1>2, <2>1 DEF Threads
    <2> QED
      BY <2>3, <2>4
  <1>11. \A t \in {moved} :
             /\ t.w = w /\ t.via = e /\ t.cmd = h.cmd /\ t.at # "START"
             /\ Frees(t) => Frees(h)
             /\ Works(t, Steps'[e][w], Meetings'[e][w], gw'[w])
             /\ t.cmd = "GRID" => driver.at = "GRID" /\ e = epoch /\ w \notin gridMsg'[e]
             /\ \A s \in {moved} : s = t
    BY <1>2, <1>5, <1>7, <1>8, <1>9, <1>10 DEF Works, Frees, Rests
  <1>12. ASSUME NEW f \in Epochs
         PROVE  /\ Holds(f, Steps'[f][w], loop[w][f].at, gw'[w])
                /\ In(Steps'[f][w]) => In(Steps[f][w])
                /\ w \in gridMsg'[f] =>
                       driver.at = "GRID" /\ f = epoch /\ w \in comm[f] /\ Steps'[f][w] = 5
    <2>1. /\ Holds(f, Steps[f][w], loop[w][f].at, gw[w])
          /\ w \in gridMsg[f] =>
                 driver.at = "GRID" /\ f = epoch /\ w \in comm[f] /\ Steps[f][w] = 5
      BY <1>2 DEF Following, Held, Positions
    <2>2. CASE f = e
      <3>1. Holds(e, 7, loop[w][e].at, gw'[w])
        BY <1>9, Constants DEF Holds, In
      <3> QED
        BY <1>4, <1>7, <1>8, <2>1, <2>2, <3>1 DEF In
    <2>3. CASE f # e
      BY <1>5, <1>8, <1>9, <2>1, <2>3, Constants DEF Holds, In
    <2> QED
      BY <2>2, <2>3
  <1>13. \A f \in Epochs : gw'[w].group = f /\ Steps'[f][w] = 7 =>
             \E t \in handlers' : t.w = w /\ Frees(t)
    BY <1>10 DEF Frees, Rests
  <1>14. ASSUME NEW t \in handlers, t.w = w, t # h
         PROVE  /\ t.via # e
                /\ Works(t, Steps'[t.via][w], Meetings'[t.via][w], gw'[w])
                /\ t.cmd = "GRID" /\ t.at # "START" => w \notin gridMsg'[t.via]
    <2>1. /\ Works(t, Steps[t.via][w], Meetings[t.via][w], gw[w]) /\ t.via \in Epochs
          /\ t.cmd = "GRID" /\ t.at # "START" => w \notin gridMsg[t.via]
      BY <1>2, <1>14, ThreadIs DEF Following, Positions
    <2>2. t.via = e => t.at # "START"
      BY <1>1, <1>2, <1>14, BegunAlone
    <2>3. t.via # e
      BY <1>4, <1>14, <2>1, <2>2 DEF Works
    <2>4. Works(t, Steps'[t.via][w], Meetings'[t.via][w], gw'[w])
      BY <1>5, <1>8, <1>9, <2>1, <2>3 DEF Works
    <2> QED
      BY <1>8, <2>1, <2>3, <2>4
  <1>15. /\ OnItsWay(bcast[e][w], Steps'[e][w], Steps[e][0])
         /\ Stands(e, Steps'[e][w], Meetings'[e][w], loop[w][e])
    BY <1>3, <1>4, <1>5, <1>7, <1>8 DEF OnItsWay, Stands
  <1>16. ByThePeersScript'
    BY <1>2, <1>6, <1>8 DEF Following, ByThePeersScript
  <1>17. Turns(h, w, e, {moved})
    BY <1>1, <1>10 DEF Turns
  <1>18. \A f \in Epochs, v \in Workers : v # w => (v \in gridMsg'[f] <=> v \in gridMsg[f])
    BY <1>8
  <1>19. Following'
    BY <1>2, <1>8, <1>9, <1>11, <1>12, <1>13, <1>14, <1>15, <1>16, <1>17, <1>18, ThreadServes
  <1> QED
    BY <1>7, <1>19

\* What is left when a thread that frees a group of worker w has told its peers: it
\* holds no communicator it would have to let go of.
LEMMA FreeCommServes ==
    ASSUME Serve, Inv', Orderly, NEW h \in handlers, FreeComm(h)
    PROVE  Driving' /\ Following'
  <1>1. PICK w \in Workers, e \in Epochs : w = h.w /\ e = h.via
    BY ThreadIs
  <1>2. /\ Inv /\ TypeOK /\ TypeOK' /\ Driving /\ Following /\ h.at = "ENTERED" /\ h.cmd = "FREE"
        /\ h \in Threads /\ Frees(h)
    BY ThreadIs DEF Serve, Inv, FreeComm, Frees, Rests
  <1>3. /\ Works(h, Steps[e][w], Meetings[e][w], gw[w])
        /\ Stands(e, Steps[e][w], Meetings[e][w], loop[w][e])
        /\ Holds(e, Steps[e][w], loop[w][e].at, gw[w])
        /\ Steps[e][w] = 7 /\ h.on = e /\ h.k = 7 /\ gw[w].group = e /\ Meetings[e][w] = 4
        /\ gw[w].group_peers \in {e, 0} /\ ~ gw[w].connection_open
        /\ \A f \in Epochs : In(Steps[f][w]) => f = e
    <2>1. /\ Works(h, Steps[e][w], Meetings[e][w], gw[w])
          /\ Holds(e, Steps[e][w], loop[w][e].at, gw[w])
      BY <1>1, ThreadIs
    <2> QED
      BY <1>1, <1>2, <2>1, ThreadIs DEF Works, Holds, Frees, Rests
  <1>4. /\ gw' = [gw EXCEPT ![w].group = 0] /\ Blocks(h, "PEERS", 0, 0)
        /\ UNCHANGED <<driverVars, entered, peersEntered, bcast, worldVars, gridMsg, loop, job>>
        /\ \A f \in Epochs : loop[w][f].at # "POST"
    BY <1>1, <1>3, Constants DEF FreeComm, Orderly
  <1>5. /\ Driving' /\ UNCHANGED Steps /\ UNCHANGED Meetings
        /\ UNCHANGED <<epoch, comm, driver, bcast, loop, gridMsg>>
    BY <1>2, <1>4, WorkerStays DEF driverVars, Meetings
  <1>6. /\ gw'[w].group = 0 /\ gw'[w].group_peers = gw[w].group_peers
        /\ gw'[w].El_group_peers = gw[w].El_group_peers
        /\ gw'[w].grid = gw[w].grid /\ ~ gw'[w].connection_open
        /\ \A v \in Workers : v # w => gw'[v] = gw[v]
    <2>1. gw \in [Workers -> GroupWorkers]
      BY <1>2, TypesAre
    <2> QED
      BY <1>3, <1>4, <2>1 DEF GroupWorkers
  <1>7. PICK moved : /\ handlers' = (handlers \ {h}) \cup {moved}
                     /\ moved.w = w /\ moved.via = e /\ moved.cmd = "FREE"
                     /\ moved.at = "PEERS"
    <2>1. PICK moved : moved = [h EXCEPT !.at = "PEERS", !.on = 0, !.k = 0 + 1]
      OBVIOUS
    <2>2. handlers' = (handlers \ {h}) \cup {moved}
      BY <1>4, <2>1 DEF Blocks
    <2>3. moved.w = w /\ moved.via = e /\ moved.cmd = "FREE" /\ moved.at = "PEERS"
      BY <1>1, <1>2, <2>1 DEF Threads
    <2> QED
      BY <2>2, <2>3
  <1>8. \A t \in {moved} :
            /\ t.w = w /\ t.via = e /\ t.cmd = h.cmd /\ t.at # "START"
            /\ Frees(t) => Frees(h)
            /\ Works(t, Steps'[e][w], Meetings'[e][w], gw'[w])
            /\ t.cmd = "GRID" => driver.at = "GRID" /\ e = epoch /\ w \notin gridMsg'[e]
            /\ \A s \in {moved} : s = t
    BY <1>2, <1>3, <1>5, <1>6, <1>7 DEF Works, Frees, Rests
  <1>9. ASSUME NEW f \in Epochs
        PROVE  /\ Holds(f, Steps'[f][w], loop[w][f].at, gw'[w])
               /\ w \in gridMsg'[f] =>
                      driver.at = "GRID" /\ f = epoch /\ w \in comm[f] /\ Steps'[f][w] = 5
    <2>1. /\ Holds(f, Steps[f][w], loop[w][f].at, gw[w])
          /\ w \in gridMsg[f] =>
                 driver.at = "GRID" /\ f = epoch /\ w \in comm[f] /\ Steps[f][w] = 5
      BY <1>2 DEF Following, Held, Positions
    <2>2. ~ In(Steps[f][w])
      BY <1>3 DEF In
    <2>3. Holds(f, Steps[f][w], loop[w][f].at, gw'[w])
      BY <1>4, <1>6, <2>1, <2>2, Constants DEF Holds
    <2> QED
      BY <1>5, <2>1, <2>3
  <1>10. \A f \in Epochs : gw'[w].group = f /\ Steps'[f][w] = 7 =>
             \E t \in handlers' : t.w = w /\ Frees(t)
    BY <1>6, Constants
  <1>11. ASSUME NEW t \in handlers, t.w = w, t # h
         PROVE  /\ t.via = e => Begun(t, bcast[e][w], Steps'[e][w], Steps[e][0], loop[w][e].at)
                /\ Works(t, Steps'[t.via][w], Meetings'[t.via][w], gw'[w])
                /\ t.cmd = "GRID" /\ t.at # "START" => w \notin gridMsg'[t.via]
    <2>1. /\ Begun(t, bcast[t.via][w], Steps[t.via][w], Steps[t.via][0], loop[w][t.via].at)
          /\ Works(t, Steps[t.via][w], Meetings[t.via][w], gw[w]) /\ t.via \in Epochs
          /\ t.cmd = "GRID" /\ t.at # "START" => w \notin gridMsg[t.via]
      BY <1>2, <1>11, ThreadIs DEF Following, Positions
    <2>2. ~ Frees(t)
      BY <1>1, <1>2, <1>11, FreesAlone
    <2>3. Works(t, Steps[t.via][w], Meetings[t.via][w], gw'[w])
      BY <2>1, <2>2 DEF Works, Frees, Rests
    <2> QED
      BY <1>5, <2>1, <2>3
  <1>12. /\ OnItsWay(bcast[e][w], Steps'[e][w], Steps[e][0]) /\ ByThePeersScript'
         /\ Stands(e, Steps'[e][w], Meetings'[e][w], loop[w][e])
    <2>1. Stands(e, Steps[e][w], Meetings[e][w], loop[w][e])
      BY <1>2 DEF Following, Stage
    <2> QED
      BY <1>2, <1>4, <1>5, <2>1 DEF Following, Commanded, ByThePeersScript
  <1>13. Turns(h, w, e, {moved})
    BY <1>1, <1>7 DEF Turns
  <1>14. Following'
    BY <1>2, <1>5, <1>6, <1>8, <1>9, <1>10, <1>11, <1>12, <1>13, ThreadServes
  <1> QED
    BY <1>5, <1>14

LEMMA MeetPeersServes ==
    ASSUME Serve, Inv', NEW h \in handlers, MeetPeers(h), ~ \E error : Crash(error)
    PROVE  Driving' /\ Following'
  <1>1. PICK w \in Workers, e \in Epochs : w = h.w /\ e = h.via
    BY ThreadIs
  <1>2. /\ Inv /\ TypeOK /\ TypeOK' /\ Driving /\ Following /\ h.at = "PEERS" /\ h.cmd = "FREE"
        /\ h \in Threads /\ Frees(h)
        /\ UNCHANGED <<driverVars, entered, bcast, worldVars, gridMsg, loop, gw, job>>
    BY ThreadIs DEF Serve, Inv, MeetPeers, Misuse, Frees, Rests
  <1>3. /\ Steps[e][w] = 7 /\ gw[w].group = 0 /\ Meetings[e][w] = 4
        /\ gw[w].group_peers \in {e, 0}
    <2>1. Works(h, Steps[e][w], Meetings[e][w], gw[w]) /\ h.via = e
      BY <1>1, ThreadIs
    <2>2. h.at = "PEERS" /\ h.cmd = "FREE"
      BY <1>2
    <2> QED
      BY <2>1, <2>2 DEF Works, Frees, Rests
  <1>4. /\ Driving' /\ UNCHANGED Steps
        /\ UNCHANGED <<epoch, comm, driver, bcast, loop, gridMsg, gw>>
    BY <1>2, WorkerStays DEF driverVars
  <1>5. PICK moved : moved = [h EXCEPT !.at = "MEET", !.on = e, !.k = 4 + 1]
    OBVIOUS
  <1>6. moved.w = w /\ moved.via = e /\ moved.cmd = "FREE" /\ moved.at = "MEET"
    BY <1>1, <1>2, <1>5 DEF Threads
  <1>7. PICK next : next = IF gw[w].group_peers = 0 THEN {} ELSE {moved}
    OBVIOUS
  <1>8. /\ handlers' = (handlers \ {h}) \cup next
        /\ Meetings'[e][w] \in {4, 5} /\ ByThePeersScript'
        /\ \A f \in Epochs, v \in Workers : f # e \/ v # w => Meetings'[f][v] = Meetings[f][v]
    <2>1. CASE gw[w].group_peers = 0
      <3>1. handlers' = handlers \ {h} /\ UNCHANGED peersEntered
        BY <1>1, <2>1 DEF MeetPeers, Misuse, Done
      <3>2. UNCHANGED Meetings
        BY <3>1 DEF Meetings
      <3> QED
        BY <1>2, <1>3, <1>7, <2>1, <3>1, <3>2 DEF Following, ByThePeersScript
    <2>2. CASE gw[w].group_peers # 0
      <3>1. gw[w].group_peers = e /\ Len(peersEntered[e][w]) = 4
        BY <1>2, <1>3, <2>2, StepsAre
      <3>2. EnterPeers(e, w, "FREE") /\ handlers' = (handlers \ {h}) \cup {moved}
        BY <1>1, <1>5, <2>2, <3>1 DEF MeetPeers, Misuse, Blocks
      <3>3. "FREE" \in Labels /\ PeersScript[4 + 1] = "FREE"
        BY ScriptIs DEF Labels, Commands
      <3>4. /\ Meetings'[e][w] = 4 + 1 /\ ByThePeersScript'
            /\ \A f \in Epochs, v \in Workers : f # e \/ v # w => Meetings'[f][v] = Meetings[f][v]
        BY <1>2, <1>3, <3>2, <3>3, MeetingPeers DEF Following
      <3> QED
        BY <1>7, <2>2, <3>2, <3>4
    <2> QED
      BY <2>1, <2>2
  <1>9. \A t \in next :
            /\ t.w = w /\ t.via = e /\ t.cmd = h.cmd /\ t.at # "START"
            /\ Frees(t) => Frees(h)
            /\ Works(t, Steps'[e][w], Meetings'[e][w], gw'[w])
            /\ t.cmd = "GRID" => driver.at = "GRID" /\ e = epoch /\ w \notin gridMsg'[e]
            /\ \A s \in next : s = t
    BY <1>2, <1>3, <1>4, <1>6, <1>7 DEF Works, Frees, Rests
  <1>10. ASSUME NEW f \in Epochs
         PROVE  /\ Holds(f, Steps'[f][w], loop[w][f].at, gw'[w])
                /\ w \in gridMsg'[f] =>
                       driver.at = "GRID" /\ f = epoch /\ w \in comm[f] /\ Steps'[f][w] = 5
                /\ gw'[w].group # f
    BY <1>2, <1>3, <1>4, Constants DEF Following, Held, Positions
  <1>11. ASSUME NEW t \in handlers, t.w = w, t # h
         PROVE  /\ t.via = e => Begun(t, bcast[e][w], Steps'[e][w], Steps[e][0], loop[w][e].at)
                /\ Works(t, Steps'[t.via][w], Meetings'[t.via][w], gw'[w])
                /\ t.cmd = "GRID" /\ t.at # "START" => w \notin gridMsg'[t.via]
    <2>1. /\ Begun(t, bcast[t.via][w], Steps[t.via][w], Steps[t.via][0], loop[w][t.via].at)
          /\ Works(t, Steps[t.via][w], Meetings[t.via][w], gw[w]) /\ t.via \in Epochs
          /\ t.cmd = "GRID" /\ t.at # "START" => w \notin gridMsg[t.via]
      BY <1>2, <1>11, ThreadIs DEF Following, Positions
    <2>2. ~ Frees(t)
      BY <1>1, <1>2, <1>11, FreesAlone
    <2>3. Works(t, Steps[t.via][w], Meetings'[t.via][w], gw[w])
      BY <2>1, <2>2 DEF Works, Frees, Rests
    <2> QED
      BY <1>4, <2>1, <2>3
  <1>12. /\ OnItsWay(bcast[e][w], Steps'[e][w], Steps[e][0])
         /\ Stands(e, Steps'[e][w], Meetings'[e][w], loop[w][e])
    <2>1. /\ Stands(e, Steps[e][w], Meetings[e][w], loop[w][e])
          /\ OnItsWay(bcast[e][w], Steps[e][w], Steps[e][0])
      BY <1>2 DEF Following, Stage, Commanded
    <2>2. Stands(e, 7, Meetings'[e][w], loop[w][e])
      BY <1>3, <1>8, <2>1 DEF Stands
    <2> QED
      BY <1>3, <1>4, <2>1, <2>2
  <1>13. Turns(h, w, e, next)
    BY <1>1, <1>8 DEF Turns
  <1>14. \A f \in Epochs, v \in Workers : f # e \/ v # w => Steps'[f][v] = Steps[f][v]
    BY <1>4
  <1>15. Following'
    BY <1>2, <1>4, <1>8, <1>9, <1>10, <1>11, <1>12, <1>13, <1>14, ThreadServes
  <1> QED
    BY <1>4, <1>15

\* A thread that rests lets go of a handle of the worker's.
LEMMA LetsGoServes ==
    ASSUME Serve, Inv', NEW h \in handlers, FreeElPeers(h) \/ FreePeers(h),
           ~ \E error : Crash(error)
    PROVE  Driving' /\ Following'
  <1>1. PICK w \in Workers, e \in Epochs : w = h.w /\ e = h.via
    BY ThreadIs
  <1>2. /\ Inv /\ TypeOK /\ TypeOK' /\ Driving /\ Following /\ Rests(h) /\ h.cmd = "FREE"
        /\ h \in Threads
    BY ThreadIs DEF Serve, Inv, FreeElPeers, FreePeers, Rests
  <1>3. /\ UNCHANGED <<driverVars, entered, peersEntered, bcast, worldVars, gridMsg, loop, job>>
        /\ \E c :
               \/ gw' = [gw EXCEPT ![w].El_group_peers = 0, ![w].freed = c]
               \/ gw' = [gw EXCEPT ![w].group_peers = 0, ![w].freed = c]
        /\ Blocks(h, "SLEEP", 0, 0) \/ Done(h)
    <2>1. /\ gw \in [Workers -> GroupWorkers]
          /\ ~ Misuse(w, gw[w].El_group_peers) /\ ~ Misuse(w, gw[w].group_peers)
      BY <1>2, TypesAre DEF Misuse
    <2>2. CASE FreeElPeers(h)
      <3>1. /\ gw' = [gw EXCEPT ![w].El_group_peers = 0,
                                ![w].freed = @ \cup {gw[w].El_group_peers}]
            /\ Blocks(h, "SLEEP", 0, 0)
            /\ UNCHANGED <<driverVars, entered, peersEntered, bcast, worldVars, gridMsg, loop, job>>
        BY <1>1, <2>1, <2>2 DEF FreeElPeers
      <3>2. gw' = [gw EXCEPT ![w].El_group_peers = 0,
                             ![w].freed = gw[w].freed \cup {gw[w].El_group_peers}]
        BY <2>1, <3>1 DEF GroupWorkers
      <3> QED
        BY <3>1, <3>2
    <2>3. CASE FreePeers(h)
      <3>1. /\ gw' = [gw EXCEPT ![w].group_peers = 0,
                                ![w].freed = @ \cup {gw[w].group_peers}]
            /\ Done(h)
            /\ UNCHANGED <<driverVars, entered, peersEntered, bcast, worldVars, gridMsg, loop, job>>
        BY <1>1, <2>1, <2>3 DEF FreePeers
      <3>2. gw' = [gw EXCEPT ![w].group_peers = 0,
                             ![w].freed = gw[w].freed \cup {gw[w].group_peers}]
        BY <2>1, <3>1 DEF GroupWorkers
      <3> QED
        BY <3>1, <3>2
    <2> QED
      BY <2>2, <2>3
  <1>4. /\ Driving' /\ UNCHANGED Steps /\ UNCHANGED Meetings
        /\ UNCHANGED <<epoch, comm, driver, bcast, loop, gridMsg>>
    BY <1>2, <1>3, WorkerStays DEF driverVars, Meetings
  <1>5. /\ gw'[w].group = gw[w].group /\ gw'[w].group_peers \in {gw[w].group_peers, 0}
        /\ gw'[w].El_group_peers \in {gw[w].El_group_peers, 0}
        /\ gw'[w].grid = gw[w].grid /\ gw'[w].connection_open = gw[w].connection_open
        /\ \A v \in Workers : v # w => gw'[v] = gw[v]
    <2>1. gw \in [Workers -> GroupWorkers]
      BY <1>2, TypesAre
    <2> QED
      BY <1>3, <2>1 DEF GroupWorkers
  <1>6. PICK next :
            /\ handlers' = (handlers \ {h}) \cup next
            /\ \A t \in next : /\ t.w = w /\ t.via = e /\ t.cmd = "FREE" /\ t.at = "SLEEP"
                               /\ \A s \in next : s = t
    <2>1. CASE Done(h)
      <3>1. PICK none : none = {}
        OBVIOUS
      <3>2. handlers' = (handlers \ {h}) \cup none
        BY <2>1, <3>1 DEF Done
      <3> QED
        BY <3>1, <3>2
    <2>2. CASE Blocks(h, "SLEEP", 0, 0)
      <3>1. PICK moved : moved = [h EXCEPT !.at = "SLEEP", !.on = 0, !.k = 0 + 1]
        OBVIOUS
      <3>2. handlers' = (handlers \ {h}) \cup {moved}
        BY <2>2, <3>1 DEF Blocks
      <3>3. moved.w = w /\ moved.via = e /\ moved.cmd = "FREE" /\ moved.at = "SLEEP"
        BY <1>1, <1>2, <3>1 DEF Threads
      <3>4. PICK one : one = {moved}
        OBVIOUS
      <3> QED
        BY <3>2, <3>3, <3>4
    <2> QED
      BY <1>3, <2>1, <2>2
  <1>7. \A t \in next :
            /\ t.w = w /\ t.via = e /\ t.cmd = h.cmd /\ t.at # "START"
            /\ Frees(t) => Frees(h)
            /\ Works(t, Steps'[e][w], Meetings'[e][w], gw'[w])
            /\ t.cmd = "GRID" => driver.at = "GRID" /\ e = epoch /\ w \notin gridMsg'[e]
            /\ \A s \in next : s = t
    <2>1. Steps[e][w] = 7
      <3>1. Works(h, Steps[e][w], Meetings[e][w], gw[w])
        BY <1>1, ThreadIs
      <3> QED
        BY <1>2, <3>1 DEF Works, Rests
    <2> QED
      BY <1>2, <1>4, <1>6, <2>1 DEF Works, Frees, Rests
  <1>8. ASSUME NEW f \in Epochs
        PROVE  /\ Holds(f, Steps'[f][w], loop[w][f].at, gw'[w])
               /\ w \in gridMsg'[f] =>
                      driver.at = "GRID" /\ f = epoch /\ w \in comm[f] /\ Steps'[f][w] = 5
    <2>1. /\ Holds(f, Steps[f][w], loop[w][f].at, gw[w])
          /\ w \in gridMsg[f] =>
                 driver.at = "GRID" /\ f = epoch /\ w \in comm[f] /\ Steps[f][w] = 5
      BY <1>2 DEF Following, Held, Positions
    <2>2. Holds(f, Steps[f][w], loop[w][f].at, gw'[w])
      BY <1>5, <2>1 DEF Holds
    <2> QED
      BY <1>4, <2>1, <2>2
  <1>9. ASSUME NEW f \in Epochs, gw'[w].group = f, Steps'[f][w] = 7
        PROVE  \E t \in handlers' : t.w = w /\ Frees(t)
    <2>1. gw[w].group = f /\ Steps[f][w] = 7
      BY <1>4, <1>5, <1>9
    <2>2. PICK t \in handlers : t.w = w /\ Frees(t)
      BY <1>2, <2>1 DEF Following, Dropping
    <2>3. t # h
      BY <1>2, <2>2 DEF Frees
    <2> QED
      BY <1>6, <2>2, <2>3
  <1>10. ASSUME NEW t \in handlers, t.w = w, t # h
        PROVE  /\ t.via = e => Begun(t, bcast[e][w], Steps'[e][w], Steps[e][0], loop[w][e].at)
               /\ Works(t, Steps'[t.via][w], Meetings'[t.via][w], gw'[w])
               /\ t.cmd = "GRID" /\ t.at # "START" => w \notin gridMsg'[t.via]
    <2>1. /\ Begun(t, bcast[t.via][w], Steps[t.via][w], Steps[t.via][0], loop[w][t.via].at)
          /\ Works(t, Steps[t.via][w], Meetings[t.via][w], gw[w]) /\ t.via \in Epochs
          /\ t.cmd = "GRID" /\ t.at # "START" => w \notin gridMsg[t.via]
      BY <1>2, <1>10, ThreadIs DEF Following, Positions
    <2>2. Works(t, Steps[t.via][w], Meetings[t.via][w], gw'[w])
      BY <1>5, <2>1 DEF Works
    <2> QED
      BY <1>4, <2>1, <2>2
  <1>11. /\ OnItsWay(bcast[e][w], Steps'[e][w], Steps[e][0]) /\ ByThePeersScript'
        /\ Stands(e, Steps'[e][w], Meetings'[e][w], loop[w][e])
    <2>1. Stands(e, Steps[e][w], Meetings[e][w], loop[w][e])
      BY <1>2 DEF Following, Stage
    <2> QED
      BY <1>2, <1>3, <1>4, <2>1 DEF Following, Commanded, ByThePeersScript
  <1>12. Turns(h, w, e, next)
    BY <1>1, <1>6 DEF Turns
  <1>13. Following'
    BY <1>2, <1>4, <1>5, <1>7, <1>8, <1>9, <1>10, <1>11, <1>12, ThreadServes
  <1> QED
    BY <1>4, <1>13

-----------------------------------------------------------------------------
(* The driver's steps.  What the workers do is left as it is, but for the    *)
(* commands on their way.                                                    *)
LEMMA WorkersKeep ==
    ASSUME TypeOK, Following, UNCHANGED <<peersEntered, loop, handlers, gw>>,
           \A f \in Epochs, w \in Workers : Steps'[f][w] = Steps[f][w],
           Commanded', Positions'
    PROVE  Following'
  <1>1. UNCHANGED Meetings /\ \A h \in handlers : h.w \in Workers /\ h.via \in Epochs
    BY WhatThereIs DEF Meetings
  <1>2. ByThePeersScript'
    BY <1>1 DEF Following, ByThePeersScript
  <1>3. Stage'
    <2>1. ASSUME NEW e \in Epochs, NEW w \in Workers
          PROVE  Stands(e, Steps'[e][w], Meetings'[e][w], loop'[w][e])
      BY <1>1 DEF Following, Stage
    <2> QED
      BY <2>1 DEF Stage
  <1>4. Held'
    <2>1. ASSUME NEW e \in Epochs, NEW w \in Workers
          PROVE  Holds(e, Steps'[e][w], loop'[w][e].at, gw'[w])
      BY DEF Following, Held
    <2> QED
      BY <2>1 DEF Held
  <1>5. Dropping'
    <2>1. ASSUME NEW e \in Epochs, NEW w \in Workers, gw'[w].group = e, Steps'[e][w] = 7
          PROVE  \E h \in handlers' : h.w = w /\ Frees(h)
      BY <2>1 DEF Following, Dropping
    <2> QED
      BY <2>1 DEF Dropping
  <1>6. Working'
    <2>1. ASSUME NEW h \in handlers'
          PROVE  Works(h, Steps'[h.via][h.w], Meetings'[h.via][h.w], gw'[h.w])
      BY <1>1 DEF Following, Working
    <2> QED
      BY <2>1 DEF Working
  <1>7. OneRelease' /\ Released'
    <2>1. OneRelease'
      BY DEF Following, OneRelease
    <2>2. ASSUME NEW h \in handlers', NEW e \in Epochs, Frees(h), In(Steps'[e][h.w])
          PROVE  e = h.via
      BY <1>1, <2>2 DEF Following, Released
    <2> QED
      BY <2>1, <2>2 DEF Released
  <1> QED
    BY <1>2, <1>3, <1>4, <1>5, <1>6, <1>7 DEF Following

LEMMA NoPositions ==
    ASSUME Serve, driver.at # "GRID", UNCHANGED <<gridMsg, handlers>>
    PROVE  Positions'
  BY DEF Serve, Following, Positions

\* The driver enters a collective that it has told nobody about.
LEMMA NothingSent ==
    ASSUME Serve, UNCHANGED <<bcast, loop, handlers>>, NEW e \in Epochs,
           \A f \in Epochs, w \in Workers : Steps'[f][w] = Steps[f][w],
           \A f \in Epochs : f # e => Steps'[f][0] = Steps[f][0],
           \A w \in Workers : ~ Due(Steps[e][w], Steps[e][0])
    PROVE  Commanded'
  <1>1. Following /\ \A h \in handlers : h.w \in Workers /\ h.via \in Epochs
    BY WhatThereIs DEF Serve, Inv
  <1>2. ASSUME NEW f \in Epochs, NEW w \in Workers
        PROVE  OnItsWay(bcast'[f][w], Steps'[f][w], Steps'[f][0])
    BY <1>1 DEF Following, Commanded, OnItsWay
  <1>3. ASSUME NEW h \in handlers'
        PROVE  Begun(h, bcast'[h.via][h.w], Steps'[h.via][h.w], Steps'[h.via][0],
                     loop'[h.w][h.via].at)
    <2>1. /\ Begun(h, bcast[h.via][h.w], Steps[h.via][h.w], Steps[h.via][0], loop[h.w][h.via].at)
          /\ h.w \in Workers /\ h.via \in Epochs
      BY <1>1, <1>3 DEF Following, Commanded
    <2>2. CASE h.via = e
      BY <2>1, <2>2 DEF Begun
    <2>3. CASE h.via # e
      BY <2>1, <2>3
    <2> QED
      BY <2>2, <2>3
  <1> QED
    BY <1>2, <1>3 DEF Commanded

\* The driver gives its next command, which all the workers of e have to follow.
LEMMA Sent ==
    ASSUME Serve, TypeOK', NEW e \in Epochs, NEW c \in Commands, Command(e, c),
           UNCHANGED <<loop, handlers>>, NEW d \in 2 .. 6, d = Steps[e][0], c = Script[d + 1],
           \A w \in comm[e] : Steps[e][w] = d
    PROVE  /\ Commanded' /\ ByTheScript' /\ Steps'[e][0] = d + 1
           /\ \A f \in Epochs, p \in Ranks : f # e \/ p # 0 => Steps'[f][p] = Steps[f][p]
           /\ \A f \in Epochs, w \in Workers : Steps'[f][w] = Steps[f][w]
           /\ \A f \in Epochs, w \in Workers : w \notin comm[f] => bcast'[f][w] = bcast[f][w]
  <1>1. /\ Inv /\ TypeOK /\ Driving /\ Following /\ 0 \in Ranks /\ c \in Labels
        /\ Workers \subseteq Ranks /\ 0 \notin Workers
        /\ \A h \in handlers : h.w \in Workers /\ h.via \in Epochs
    BY WhatThereIs, Constants DEF Serve, Inv
  <1>2. /\ Steps'[e][0] = d + 1 /\ ByTheScript'
        /\ \A f \in Epochs, p \in Ranks : f # e \/ p # 0 => Steps'[f][p] = Steps[f][p]
    <2>1. Enter(e, 0, c)
      BY DEF Command
    <2> QED
      BY <1>1, <2>1, Stepping DEF Driving
  <1>3. \A f \in Epochs, w \in Workers : Steps'[f][w] = Steps[f][w]
    BY <1>1, <1>2
  <1>4. /\ \A w \in comm[e] : w \in Workers => bcast'[e][w] = Append(bcast[e][w], c)
        /\ \A w \in Workers, f \in Epochs : f # e \/ w \notin comm[e] => bcast'[f][w] = bcast[f][w]
    BY <1>1, Commanding
  \* The driver has been followed this far.
  <1>5. \A w \in Workers : ~ Due(Steps[e][w], Steps[e][0]) /\ bcast[e][w] = <<>>
    <2>1. SUFFICES ASSUME NEW w \in Workers
                   PROVE  ~ Due(Steps[e][w], Steps[e][0]) /\ bcast[e][w] = <<>>
      OBVIOUS
    <2>2. w \notin comm[e] => Steps[e][w] = 0
      BY <1>1 DEF Driving, Members
    <2>3. ~ Due(Steps[e][w], Steps[e][0])
      BY <2>2 DEF Due
    <2> QED
      BY <1>1, <2>3 DEF Following, Commanded, OnItsWay
  <1>6. ASSUME NEW f \in Epochs, NEW w \in Workers
        PROVE  OnItsWay(bcast'[f][w], Steps'[f][w], Steps'[f][0])
    <2>1. OnItsWay(bcast[f][w], Steps[f][w], Steps[f][0])
      BY <1>1 DEF Following, Commanded
    <2>2. CASE f # e
      BY <1>1, <1>2, <1>3, <1>4, <2>1, <2>2
    <2>3. CASE f = e /\ w \notin comm[e]
      BY <1>4, <1>5, <2>3 DEF OnItsWay
    <2>4. CASE f = e /\ w \in comm[e]
      <3>1. bcast'[e][w] = <<c>>
        BY <1>4, <1>5, <2>4
      <3>2. Steps'[e][w] = d
        BY <1>3, <2>4
      <3> QED
        BY <1>2, <2>4, <3>1, <3>2 DEF OnItsWay, Due
    <2> QED
      BY <2>2, <2>3, <2>4
  <1>7. ASSUME NEW h \in handlers'
        PROVE  Begun(h, bcast'[h.via][h.w], Steps'[h.via][h.w], Steps'[h.via][0],
                     loop'[h.w][h.via].at)
    <2>1. /\ Begun(h, bcast[h.via][h.w], Steps[h.via][h.w], Steps[h.via][0], loop[h.w][h.via].at)
          /\ h.w \in Workers /\ h.via \in Epochs
      BY <1>1, <1>7 DEF Following, Commanded
    <2>2. CASE h.via = e
      BY <1>5, <2>1, <2>2 DEF Begun
    <2>3. CASE h.via # e
      BY <1>1, <1>2, <1>3, <1>4, <2>1, <2>3
    <2> QED
      BY <2>2, <2>3
  <1>8. \A f \in Epochs, w \in Workers : w \notin comm[f] => bcast'[f][w] = bcast[f][w]
    BY <1>4
  <1> QED
    BY <1>2, <1>3, <1>6, <1>7, <1>8 DEF Commanded

(* The driver, at work for a group, makes its step on e, which is no other   *)
(* group's.                                                                  *)
LEMMA DriverServes ==
    ASSUME Serve, TypeOK', driver.at # "IDLE", NEW at, Goto(at), NEW e \in Epochs,
           at \notin {"CLOSE", "IDLE"},
           UNCHANGED <<members, epoch, comm, peersEntered, loop, handlers, gw>>,
           \A k \in Groups : k # driver.g => groupComm'[k] = groupComm[k] /\ groupComm[k] # e,
           \A f \in Epochs, p \in Ranks : f # e \/ p # 0 => Steps'[f][p] = Steps[f][p],
           ByTheScript', Course', Commanded', Positions',
           \A w \in comm[e] : \/ Steps'[e][0] \in {Steps[e][w], Steps[e][w] + 1}
                              \/ (Steps'[e][0] = 1 /\ Steps[e][w] = 2),
           \A f \in Epochs, w \in Workers : w \notin comm[f] => bcast'[f][w] = bcast[f][w],
           groupComm'[driver.g] # 0 =>
               /\ groupComm'[driver.g] \in {groupComm[driver.g], epoch}
               /\ groupComm'[driver.g] = groupComm[driver.g] \/ e = epoch,
           \A x \in Epochs : Dropped(x)' =>
               \/ Dropped(x) /\ x # e
               \/ \A p \in comm[x] \cup {0} : Steps'[x][p] = 7
    PROVE  Driving' /\ Following'
  <1>1. /\ Inv /\ TypeOK /\ Driving /\ Following /\ 0 \in Ranks /\ Workers \subseteq Ranks
        /\ 0 \notin Workers /\ 0 \notin Epochs
        /\ driver.g \in Groups /\ comm[epoch] = members[driver.g] /\ driver'.g = driver.g
        /\ driver'.at = at
        /\ \A f \in Epochs : comm[f] \subseteq Workers
        /\ \A k \in Groups : groupComm[k] \in Epochs \cup {0}
    <2>1. Inv /\ TypeOK /\ Driving /\ Following
      BY DEF Serve, Inv
    <2>2. driver \in Drivers /\ groupComm \in [Groups -> 0 .. MaxEpochs]
      BY <2>1, TypesAre
    <2>3. driver.g # 0 /\ comm[epoch] = members[driver.g]
      BY <2>1 DEF Inv, AtWork
    <2>4. driver'.g = driver.g /\ driver'.at = at
      BY <2>2 DEF Goto, Drivers
    <2> QED
      BY <2>1, <2>2, <2>3, <2>4, Constants, WhatThereIs DEF Drivers
  <1>2. \A f \in Epochs, w \in Workers : Steps'[f][w] = Steps[f][w]
    BY <1>1
  <1>3. Following'
    BY <1>1, <1>2, WorkersKeep
  <1>4. Settled'
    <2>1. SUFFICES ASSUME NEW g \in Groups, g # driver.g
                   PROVE  /\ groupComm[g] = 0 => members[g] = {}
                          /\ groupComm[g] # 0 =>
                               /\ comm[groupComm[g]] = members[g] /\ Steps'[groupComm[g]][0] = 5
                               /\ \A w \in members[g] : Steps'[groupComm[g]][w] = 5
      BY <1>1 DEF Settled
    <2>2. /\ groupComm[g] = 0 => members[g] = {}
          /\ groupComm[g] # 0 =>
                 /\ comm[groupComm[g]] = members[g] /\ Steps[groupComm[g]][0] = 5
                 /\ \A w \in members[g] : Steps[groupComm[g]][w] = 5
      BY <1>1, <2>1 DEF Driving, Settled
    <2>3. CASE groupComm[g] = 0
      BY <2>2, <2>3
    <2>4. CASE groupComm[g] # 0
      <3>1. PICK f \in Epochs : f = groupComm[g] /\ f # e
        BY <1>1, <2>1, <2>4
      <3>2. \A w \in members[g] : w \in Workers
        BY <1>1, <2>2, <2>4, <3>1
      <3> QED
        BY <1>1, <1>2, <2>2, <2>4, <3>1, <3>2
    <2> QED
      BY <2>3, <2>4
  <1>5. Apart'
    <2>1. SUFFICES ASSUME NEW g \in Groups, NEW k \in Groups, g # k
                   PROVE  /\ members[g] \cap members[k] = {}
                          /\ groupComm'[g] # 0 /\ groupComm'[k] # 0 =>
                                 /\ groupComm'[g] # groupComm'[k]
                                 /\ comm[groupComm'[g]] \cap comm[groupComm'[k]] = {}
      BY DEF Apart
    <2>2. ASSUME NEW x \in Groups, NEW y \in Groups, x # y
          PROVE  /\ members[x] \cap members[y] = {}
                 /\ groupComm[x] # 0 /\ groupComm[y] # 0 =>
                        /\ groupComm[x] # groupComm[y]
                        /\ comm[groupComm[x]] \cap comm[groupComm[y]] = {}
      BY <1>1, <2>2 DEF Driving, Apart
    <2>3. ASSUME NEW y \in Groups, y # driver.g, groupComm'[driver.g] # 0, groupComm[y] # 0
          PROVE  /\ groupComm'[driver.g] # groupComm[y]
                 /\ comm[groupComm'[driver.g]] \cap comm[groupComm[y]] = {}
      <3>1. CASE groupComm'[driver.g] = groupComm[driver.g]
        BY <1>1, <2>2, <2>3, <3>1
      <3>2. CASE groupComm'[driver.g] = epoch /\ e = epoch
        <4>1. comm[groupComm[y]] = members[y]
          BY <1>1, <2>3 DEF Driving, Settled
        <4> QED
          BY <1>1, <2>2, <2>3, <3>2, <4>1
      <3> QED
        BY <2>3, <3>1, <3>2
    <2> QED
      BY <2>1, <2>2, <2>3
  <1>6. Over'
    <2>1. SUFFICES ASSUME NEW x \in Epochs, Dropped(x)', NEW p \in comm[x] \cup {0}
                   PROVE  Steps'[x][p] = 7
      BY DEF Over
    <2>2. CASE Dropped(x) /\ x # e
      BY <1>1, <2>1, <2>2 DEF Driving, Over
    <2> QED
      BY <2>1, <2>2
  <1>7. Members'
    <2>1. ASSUME NEW f \in Epochs, NEW w \in Workers
          PROVE  /\ w \notin comm[f] => Steps'[f][w] = 0 /\ bcast'[f][w] = <<>>
                 /\ w \in comm[f] => \/ Steps'[f][0] \in {Steps'[f][w], Steps'[f][w] + 1}
                                     \/ (Steps'[f][0] = 1 /\ Steps'[f][w] = 2)
      <3>1. CASE f = e
        BY <1>1, <1>2, <3>1 DEF Driving, Members
      <3>2. CASE f # e
        BY <1>1, <1>2, <3>2 DEF Driving, Members
      <3> QED
        BY <3>1, <3>2
    <2> QED
      BY <2>1 DEF Members
  <1> QED
    BY <1>3, <1>4, <1>5, <1>6, <1>7 DEF Driving

\* What a driver that is at work for a group relies on.
LEMMA AtWorkFor ==
    ASSUME Serve, driver.at # "IDLE"
    PROVE  /\ Inv /\ TypeOK /\ Driving /\ Following /\ driver.g \in Groups /\ epoch \in Epochs
           /\ comm[epoch] = members[driver.g] /\ 0 \notin Epochs
           /\ \A f \in Epochs : comm[f] \subseteq Workers
           /\ \A k \in Groups : /\ groupComm[k] \in Epochs \cup {0}
                                /\ groupComm[k] = epoch => driver.at \notin Leaving
           /\ \A at : Goto(at) => driver'.at = at /\ driver'.g = driver.g
  <1>1. Inv /\ TypeOK /\ Driving /\ Following
    BY DEF Serve, Inv
  <1>2. /\ driver \in Drivers /\ groupComm \in [Groups -> 0 .. MaxEpochs] /\ epoch \in 0 .. MaxEpochs
        /\ 0 .. MaxEpochs = Epochs \cup {0} /\ 0 \notin Epochs
    BY <1>1, TypesAre, Constants
  <1>3. driver.g # 0 /\ comm[epoch] = members[driver.g] /\ epoch # 0
    BY <1>1 DEF Inv, AtWork
  <1>4. ASSUME NEW k \in Groups, groupComm[k] = epoch
        PROVE  driver.at \notin Leaving
    <2>1. ~ Unborn(epoch)
      BY <1>1, <1>3, <1>4 DEF Inv, Fresh
    <2> QED
      BY <2>1 DEF Unborn
  <1>5. \A at : Goto(at) => driver'.at = at /\ driver'.g = driver.g
    BY <1>2 DEF Goto, Drivers
  <1> QED
    BY <1>1, <1>2, <1>3, <1>4, <1>5, WhatThereIs DEF Drivers

\* Where the collective has let go of the driver, the workers have come.
LEMMA AllCame ==
    ASSUME Serve, NEW e \in Epochs, Met(e, Len(entered[e][0]))
    PROVE  \A w \in comm[e] :
               /\ w \in Workers /\ Steps[e][w] >= Steps[e][0]
               /\ Steps[e][0] # 1 => Steps[e][w] = Steps[e][0]
  <1>1. TypeOK /\ Driving /\ 0 \in Ranks /\ comm[e] \subseteq Workers
    BY WhatThereIs, Constants DEF Serve, Inv
  <1>2. /\ Steps[e][0] \in Nat /\ Len(entered[e][0]) = Steps[e][0]
        /\ \A w \in Workers : Steps[e][w] \in Nat
    BY <1>1, StepsAre, WhatThereIs
  <1>3. \A w \in comm[e] : Steps[e][w] >= Steps[e][0]
    BY <1>1, <1>2, MetMeans
  <1>4. \A w \in comm[e] : \/ Steps[e][0] \in {Steps[e][w], Steps[e][w] + 1}
                           \/ (Steps[e][0] = 1 /\ Steps[e][w] = 2)
    BY <1>1 DEF Driving, Members
  <1> QED
    BY <1>1, <1>2, <1>3, <1>4

\* A communicator of one group is no other's.
LEMMA OnesOwn ==
    ASSUME Serve, NEW g \in Groups, groupComm[g] # 0
    PROVE  \A k \in Groups : k # g => groupComm[k] # groupComm[g]
  BY DEF Serve, Driving, Apart

LEMMA SendFreeServes ==
    ASSUME Serve, Inv', SendFree
    PROVE  Driving' /\ Following'
  <1>1. /\ driver.at = "CLOSE" /\ driver.at # "IDLE" /\ TypeOK' /\ Goto("FREE")
        /\ UNCHANGED <<members, groupComm, epoch, comm, peersEntered, worldVars,
                       gridMsg, loop, handlers, gw, job>>
    BY DEF SendFree, Inv
  <1>2. PICK e \in Epochs : e = groupComm[driver.g] /\ groupComm[driver.g] # 0
    BY <1>1, AtWorkFor DEF Inv, AtWork
  <1>3. Met(e, Len(entered[e][0])) /\ Command(e, "FREE") /\ "FREE" \in Commands
    BY <1>2 DEF SendFree, Through, Commands
  <1>4. Steps[e][0] = 6 /\ \A w \in comm[e] : Steps[e][w] = 6
    <2>1. Steps[e][0] = 6
      BY <1>1, <1>2, AtWorkFor DEF Driving, Course
    <2> QED
      BY <1>3, <2>1, AllCame
  <1>5. /\ Commanded' /\ ByTheScript' /\ Steps'[e][0] = 7
        /\ \A f \in Epochs, p \in Ranks : f # e \/ p # 0 => Steps'[f][p] = Steps[f][p]
        /\ \A f \in Epochs, w \in Workers : w \notin comm[f] => bcast'[f][w] = bcast[f][w]
    <2>1. Script[6 + 1] = "FREE"
      BY ScriptIs
    <2> QED
      BY <1>1, <1>3, <1>4, <2>1, Sent
  <1>6. driver'.at = "FREE" /\ driver'.g = driver.g
    BY <1>1, AtWorkFor
  <1>7. Course'
    BY <1>1, <1>2, <1>5, <1>6 DEF Course
  <1>8. \A x \in Epochs : Dropped(x)' => Dropped(x) /\ x # e
    <2>1. driver.g \in Groups
      BY <1>1, AtWorkFor
    <2> QED
      BY <1>1, <1>2, <1>6, <2>1 DEF Dropped
  <1>9. Positions'
    BY <1>1, NoPositions
  <1>10. \A k \in Groups : k # driver.g => groupComm'[k] = groupComm[k] /\ groupComm[k] # e
    BY <1>1, <1>2, AtWorkFor, OnesOwn
  <1>11. \A w \in comm[e] : Steps'[e][0] \in {Steps[e][w], Steps[e][w] + 1}
    BY <1>4, <1>5
  <1> QED
    BY <1>1, <1>2, <1>5, <1>7, <1>8, <1>9, <1>10, <1>11, DriverServes

LEMMA DropCommServes ==
    ASSUME Serve, Inv', DropComm
    PROVE  Driving' /\ Following'
  <1>1. /\ driver.at = "FREE" /\ driver.at # "IDLE" /\ TypeOK' /\ Goto("NEW")
        /\ groupComm' = [groupComm EXCEPT ![driver.g] = 0]
        /\ UNCHANGED <<members, epoch, comm, entered, peersEntered, bcast, worldVars,
                       gridMsg, loop, handlers, gw, job>>
    BY DEF DropComm, Inv
  <1>2. PICK e \in Epochs : e = groupComm[driver.g] /\ groupComm[driver.g] # 0
    BY <1>1, AtWorkFor DEF Inv, AtWork
  <1>3. Met(e, Len(entered[e][0]))
    BY <1>2 DEF DropComm, Through
  <1>4. Steps[e][0] = 7 /\ \A w \in comm[e] : Steps[e][w] = 7
    <2>1. Steps[e][0] = 7
      BY <1>1, <1>2, AtWorkFor DEF Driving, Course
    <2> QED
      BY <1>3, <2>1, AllCame
  <1>5. UNCHANGED Steps /\ ByTheScript'
    <2>1. UNCHANGED Steps
      BY <1>1 DEF Steps
    <2> QED
      BY <1>1, <2>1, AtWorkFor DEF Driving, ByTheScript
  <1>6. driver'.at = "NEW" /\ driver'.g = driver.g
    BY <1>1, AtWorkFor
  <1>7. /\ groupComm'[driver.g] = 0
        /\ \A k \in Groups : k # driver.g => groupComm'[k] = groupComm[k] /\ groupComm[k] # e
    <2>1. groupComm \in [Groups -> 0 .. MaxEpochs] /\ driver.g \in Groups
      BY <1>1, AtWorkFor, TypesAre
    <2> QED
      BY <1>1, <1>2, <2>1, OnesOwn
  <1>8. Course'
    BY <1>6, <1>7 DEF Course
  <1>9. ASSUME NEW x \in Epochs, Dropped(x)'
        PROVE  (Dropped(x) /\ x # e) \/ \A p \in comm[x] \cup {0} : Steps'[x][p] = 7
    <2>1. CASE x = e
      BY <1>4, <1>5, <2>1
    <2>2. CASE x # e
      <3>1. \A k \in Groups : groupComm[k] # x
        BY <1>2, <1>7, <1>9, <2>2 DEF Dropped
      <3> QED
        BY <1>1, <1>6, <1>9, <2>2, <3>1 DEF Dropped
    <2> QED
      BY <2>1, <2>2
  <1>10. Positions'
    BY <1>1, NoPositions
  <1>11. Commanded'
    <2>1. UNCHANGED <<bcast, loop, handlers>>
      BY <1>1
    <2> QED
      BY <1>1, <1>5, <2>1, AtWorkFor DEF Following, Commanded
  <1>12. \A w \in comm[e] : Steps'[e][0] \in {Steps[e][w], Steps[e][w] + 1}
    BY <1>4, <1>5
  <1> QED
    BY <1>1, <1>5, <1>7, <1>8, <1>9, <1>10, <1>11, <1>12, DriverServes

LEMMA AnnounceServes ==
    ASSUME Serve, Inv', Announce
    PROVE  Driving' /\ Following'
  <1>1. /\ driver.at = "NEW" /\ driver.at # "IDLE" /\ TypeOK' /\ Goto("CREATE")
        /\ Enter(epoch, 0, "CREATE")
        /\ UNCHANGED <<members, groupComm, epoch, comm, peersEntered, bcast, gridMsg, loop,
                       handlers, gw, job>>
    BY DEF Announce, Inv
  <1>2. PICK e \in Epochs : e = epoch
    BY <1>1, AtWorkFor
  <1>3. /\ driver'.at = "CREATE" /\ driver'.g = driver.g /\ driver.g \in Groups
        /\ groupComm[driver.g] = 0 /\ \A k \in Groups : groupComm[k] # e
    <2>1. \A k \in Groups : groupComm[k] # e
      BY <1>1, <1>2, AtWorkFor DEF Leaving
    <2>2. groupComm[driver.g] = 0
      BY <1>1, AtWorkFor DEF Driving, Course
    <2> QED
      BY <1>1, <2>1, <2>2, AtWorkFor
  <1>4. \A p \in Ranks : Steps[e][p] = 0
    <2>1. Unborn(e)
      BY <1>1, <1>2 DEF Unborn, Leaving
    <2>2. \A p \in Ranks : entered[e][p] = <<>>
      BY <1>1, <2>1, AtWorkFor DEF Inv, Fresh
    <2> QED
      BY <1>1, <2>2, AtWorkFor, StepsAre
  <1>5. /\ Steps'[e][0] = 1 /\ ByTheScript'
        /\ \A f \in Epochs, p \in Ranks : f # e \/ p # 0 => Steps'[f][p] = Steps[f][p]
    <2>1. /\ TypeOK /\ ByTheScript /\ 0 \in Ranks /\ "CREATE" \in Labels
          /\ Enter(e, 0, "CREATE") /\ Steps[e][0] = 0 /\ Script[0 + 1] = "CREATE"
      BY <1>1, <1>2, <1>4, AtWorkFor, ScriptIs, Constants DEF Driving, Labels
    <2> QED
      BY <1>1, <2>1, Stepping
  <1>6. Course'
    BY <1>1, <1>2, <1>3, <1>5 DEF Course
  <1>7. \A x \in Epochs : Dropped(x)' => Dropped(x) /\ x # e
    BY <1>1, <1>2, <1>3 DEF Dropped
  <1>8. Positions'
    BY <1>1, NoPositions
  <1>9. Commanded'
    <2>1. \A w \in Workers : ~ Due(Steps[e][w], Steps[e][0])
      BY <1>4, Constants DEF Due
    <2>2. /\ \A f \in Epochs, w \in Workers : Steps'[f][w] = Steps[f][w]
          /\ \A f \in Epochs : f # e => Steps'[f][0] = Steps[f][0]
      BY <1>5, Constants
    <2> QED
      BY <1>1, <2>1, <2>2, NothingSent
  <1>10. \A w \in comm[e] : Steps'[e][0] \in {Steps[e][w], Steps[e][w] + 1}
    <2>1. comm[e] \subseteq Workers /\ Workers \subseteq Ranks
      BY <1>1, AtWorkFor, Constants
    <2>2. \A w \in comm[e] : Steps[e][w] = 0
      BY <1>4, <2>1
    <2> QED
      BY <1>5, <2>2
  <1>11. \A k \in Groups : k # driver.g => groupComm'[k] = groupComm[k] /\ groupComm[k] # e
    BY <1>1, <1>3
  <1> QED
    BY <1>1, <1>3, <1>5, <1>6, <1>7, <1>8, <1>9, <1>10, <1>11, DriverServes

LEMMA SetDriverCommServes ==
    ASSUME Serve, Inv', SetDriverComm
    PROVE  Driving' /\ Following'
  <1>1. /\ driver.at = "CREATE" /\ driver.at # "IDLE" /\ TypeOK' /\ Goto("FORM")
        /\ Enter(epoch, 0, "FORM") /\ Met(epoch, Len(entered[epoch][0]))
        /\ groupComm' = [groupComm EXCEPT ![driver.g] = epoch]
        /\ UNCHANGED <<members, epoch, comm, peersEntered, bcast, gridMsg, loop, handlers, gw,
                       job>>
    BY DEF SetDriverComm, Through, Inv
  <1>2. PICK e \in Epochs : e = epoch
    BY <1>1, AtWorkFor
  <1>3. /\ driver'.at = "FORM" /\ driver'.g = driver.g /\ driver.g \in Groups
        /\ groupComm[driver.g] = 0 /\ Steps[e][0] = 1 /\ \A k \in Groups : groupComm[k] # e
    BY <1>1, <1>2, AtWorkFor DEF Driving, Course
  <1>4. \A w \in comm[e] : Steps[e][w] \in {1, 2}
    <2>1. \A w \in comm[e] : w \in Workers /\ Steps[e][w] >= 1 /\ Steps[e][w] \in Nat
      BY <1>1, <1>2, <1>3, AtWorkFor, AllCame, WhatThereIs
    <2>2. \A w \in comm[e] : 1 \in {Steps[e][w], Steps[e][w] + 1} \/ Steps[e][w] = 2
      BY <1>1, <1>3, <2>1, AtWorkFor DEF Driving, Members
    <2> QED
      BY <2>1, <2>2
  <1>5. /\ Steps'[e][0] = 2 /\ ByTheScript'
        /\ \A f \in Epochs, p \in Ranks : f # e \/ p # 0 => Steps'[f][p] = Steps[f][p]
    <2>1. /\ TypeOK /\ ByTheScript /\ 0 \in Ranks /\ "FORM" \in Labels
          /\ Enter(e, 0, "FORM") /\ Steps[e][0] = 1 /\ Script[1 + 1] = "FORM"
      BY <1>1, <1>2, <1>3, AtWorkFor, ScriptIs, Constants DEF Driving, Labels
    <2>2. Steps'[e][0] = 1 + 1
      BY <1>1, <2>1, Stepping
    <2> QED
      BY <1>1, <2>1, <2>2, Stepping
  <1>6. /\ groupComm'[driver.g] = e
        /\ \A k \in Groups : k # driver.g => groupComm'[k] = groupComm[k] /\ groupComm[k] # e
    <2>1. groupComm \in [Groups -> 0 .. MaxEpochs]
      BY <1>1, AtWorkFor, TypesAre
    <2> QED
      BY <1>1, <1>2, <1>3, <2>1
  <1>7. Course'
    BY <1>1, <1>2, <1>3, <1>5, <1>6 DEF Course
  <1>8. ASSUME NEW x \in Epochs, Dropped(x)'
        PROVE  Dropped(x) /\ x # e
    <2>1. x # e /\ x # 0
      BY <1>1, <1>3, <1>6, <1>8, AtWorkFor DEF Dropped
    <2>2. \A k \in Groups : groupComm[k] # x
      BY <1>3, <1>6, <1>8, <2>1 DEF Dropped
    <2> QED
      BY <1>1, <1>2, <1>8, <2>1, <2>2 DEF Dropped
  <1>9. Positions'
    BY <1>1, NoPositions
  <1>10. Commanded'
    <2>1. \A w \in Workers : ~ Due(Steps[e][w], Steps[e][0])
      <3>1. \A w \in Workers : Steps[e][w] \in Nat
        BY <1>1, AtWorkFor, WhatThereIs
      <3> QED
        BY <1>3, <3>1 DEF Due
    <2>2. /\ \A f \in Epochs, w \in Workers : Steps'[f][w] = Steps[f][w]
          /\ \A f \in Epochs : f # e => Steps'[f][0] = Steps[f][0]
      BY <1>5, Constants
    <2> QED
      BY <1>1, <2>1, <2>2, NothingSent
  <1>11. \A w \in comm[e] : Steps'[e][0] \in {Steps[e][w], Steps[e][w] + 1}
    BY <1>4, <1>5
  <1> QED
    BY <1>1, <1>2, <1>5, <1>6, <1>7, <1>8, <1>9, <1>10, <1>11, DriverServes

LEMMA ReadyGroupServes ==
    ASSUME Serve, Inv', ReadyGroup
    PROVE  Driving' /\ Following'
  <1>1. PICK d \in 2 .. 4 :
            /\ ReadyStep(Script[d], Script[d + 1])
            /\ (d = 2 /\ Script[d] = "FORM" /\ Script[d + 1] = "PRINT")
               \/ (d = 3 /\ Script[d] = "PRINT" /\ Script[d + 1] = "OPEN")
               \/ (d = 4 /\ Script[d] = "OPEN" /\ Script[d + 1] = "GRID")
    <2>1. /\ Script[2] = "FORM" /\ Script[2 + 1] = "PRINT" /\ Script[3 + 1] = "OPEN"
          /\ Script[3] = "PRINT" /\ Script[4] = "OPEN" /\ Script[4 + 1] = "GRID"
      BY ScriptIs
    <2>2. CASE ReadyStep("FORM", "PRINT")
      BY <2>1, <2>2
    <2>3. CASE ReadyStep("PRINT", "OPEN")
      BY <2>1, <2>3
    <2>4. CASE ReadyStep("OPEN", "GRID")
      BY <2>1, <2>4
    <2> QED
      BY <2>2, <2>3, <2>4 DEF ReadyGroup
  <1>2. PICK at \in {"FORM", "PRINT", "OPEN"}, c \in {"PRINT", "OPEN", "GRID"} :
            at = Script[d] /\ c = Script[d + 1]
    BY <1>1
  <1>3. /\ driver.at = at /\ driver.at # "IDLE" /\ TypeOK' /\ Goto(c) /\ c \in Commands
        /\ Command(epoch, c) /\ Met(epoch, Len(entered[epoch][0]))
        /\ UNCHANGED <<members, groupComm, epoch, comm, peersEntered, gridMsg, loop, handlers, gw,
                       job>>
    BY <1>1, <1>2 DEF ReadyStep, Through, Inv, Commands
  <1>4. PICK e \in Epochs : e = epoch
    BY <1>3, AtWorkFor
  <1>5. /\ driver'.at = c /\ driver'.g = driver.g /\ driver.g \in Groups
        /\ groupComm[driver.g] = e /\ groupComm[driver.g] # 0
        /\ Steps[e][0] = d
    BY <1>1, <1>2, <1>3, <1>4, AtWorkFor DEF Driving, Course
  <1>6. \A w \in comm[e] : Steps[e][w] = d
    BY <1>3, <1>4, <1>5, AllCame
  <1>7. /\ Commanded' /\ ByTheScript' /\ Steps'[e][0] = d + 1
        /\ \A f \in Epochs, p \in Ranks : f # e \/ p # 0 => Steps'[f][p] = Steps[f][p]
        /\ \A f \in Epochs, w \in Workers : w \notin comm[f] => bcast'[f][w] = bcast[f][w]
    <2>1. d \in 2 .. 6 /\ c = Script[d + 1] /\ Command(e, c)
      BY <1>2, <1>3, <1>4
    <2> QED
      BY <1>3, <1>5, <1>6, <2>1, Sent
  <1>8. Course'
    BY <1>1, <1>2, <1>3, <1>4, <1>5, <1>7 DEF Course
  <1>9. \A x \in Epochs : Dropped(x)' => Dropped(x) /\ x # e
    BY <1>3, <1>5 DEF Dropped
  <1>10. Positions'
    BY <1>2, <1>3, NoPositions
  <1>11. \A k \in Groups : k # driver.g => groupComm'[k] = groupComm[k] /\ groupComm[k] # e
    BY <1>3, <1>5, OnesOwn
  <1>12. \A w \in comm[e] : Steps'[e][0] \in {Steps[e][w], Steps[e][w] + 1}
    BY <1>6, <1>7
  <1> QED
    BY <1>3, <1>5, <1>7, <1>8, <1>9, <1>10, <1>11, <1>12, DriverServes

\* Ranks that are IDs.
LEMMA RankHolderIs ==
    ASSUME NEW e, comm[e] \in SUBSET Workers,
           {id \in comm[e] : id <= Cardinality(comm[e])} = comm[e], NEW w \in comm[e]
    PROVE  RankHolder(e, w) = w
  <1>1. PICK M \in SUBSET Workers : M = comm[e]
    OBVIOUS
  <1>2. Lowest(M) /\ w \in Workers /\ M \subseteq Workers
    BY <1>1, RanksAreLowest
  <1>3. \A v \in M : Cardinality({x \in M : x <= v}) = v
    <2>1. SUFFICES ASSUME NEW v \in M PROVE Cardinality({x \in M : x <= v}) = v
      OBVIOUS
    <2>2. v \in Workers /\ v \in Nat \ {0}
      BY <1>2, Constants
    <2>3. \A x \in Workers : x < v => x \in M
      BY <1>2 DEF Lowest
    <2>4. \A x \in 1 .. v : x \in Workers
      BY <2>2, LifecycleAssumption DEF Workers
    <2>5. {x \in M : x <= v} = 1 .. v
      <3>1. \A x \in 1 .. v : x = v \/ x < v
        BY <2>2
      <3>2. \A x \in 1 .. v : x \in M /\ x <= v
        BY <2>2, <2>3, <2>4, <3>1
      <3>3. \A x \in M : x <= v => x \in 1 .. v
        BY <1>2, <2>2, LifecycleAssumption DEF Workers
      <3> QED
        BY <3>2, <3>3
    <2>6. Cardinality(1 .. v) = IF 1 > v THEN 0 ELSE v - 1 + 1
      BY <2>2, FS_Interval
    <2>7. ~ (1 > v) /\ v - 1 + 1 = v
      BY <2>2
    <2> QED
      BY <2>5, <2>6, <2>7
  <1>4. \A v \in M : Cardinality({x \in M : x <= v}) = w <=> v = w
    BY <1>1, <1>3
  <1>5. RankHolder(e, w) = CHOOSE v \in M : Cardinality({x \in M : x <= v}) = w
    BY <1>1 DEF RankHolder
  <1> QED
    BY <1>1, <1>4, <1>5

LEMMA ReceiveGridServes ==
    ASSUME Serve, Inv', ReceiveGrid
    PROVE  Driving' /\ Following'
  <1>1. /\ driver.at = "GRID" /\ driver.at # "IDLE" /\ TypeOK'
        /\ Met(epoch, Len(entered[epoch][0]))
    BY DEF ReceiveGrid, Through, Inv
  <1>2. PICK e \in Epochs : e = epoch
    BY <1>1, AtWorkFor
  <1>3. PICK ranks : ranks = {id \in comm[e] : id <= Cardinality(comm[e])}
    OBVIOUS
  <1>4. CASE ranks # comm[e]
    BY <1>2, <1>3, <1>4, OthersServe DEF ReceiveGrid
  <1>5. CASE ranks = comm[e]
    <2>1. /\ driver' = Idle /\ gridMsg' = [gridMsg EXCEPT ![e] = @ \ comm[e]]
          /\ UNCHANGED <<members, groupComm, epoch, comm, entered, peersEntered, bcast, worldVars,
                         loop, handlers, gw, job>>
          /\ \A id \in comm[e] : RankHolder(e, id) \in gridMsg[e]
      BY <1>2, <1>3, <1>5 DEF ReceiveGrid
    <2>2. /\ driver'.at = "IDLE" /\ driver'.g = 0 /\ UNCHANGED Steps
      BY <2>1 DEF Idle, Steps
    <2>3. /\ TypeOK /\ Driving /\ Following /\ groupComm[driver.g] = e /\ driver.g \in Groups
          /\ Steps[e][0] = 5 /\ comm[e] = members[driver.g] /\ comm[e] \in SUBSET Workers
          /\ 0 \notin Epochs /\ 0 \notin Groups
      BY <1>1, <1>2, AtWorkFor, Constants DEF Driving, Course
    <2>4. \A w \in comm[e] : w \in Workers /\ Steps[e][w] = 5
      BY <1>1, <1>2, <2>3, AllCame
    \* Every worker's position has come: none is left, or yet to be sent.
    <2>5. \A w \in comm[e] : w \in gridMsg[e]
      BY <1>3, <1>5, <2>1, <2>3, RankHolderIs
    <2>6. Course'
      BY <2>2 DEF Course
    <2>7. Settled'
      <3>1. ASSUME NEW g \in Groups
            PROVE  /\ groupComm[g] = 0 => members[g] = {}
                   /\ groupComm[g] # 0 =>
                          /\ comm[groupComm[g]] = members[g] /\ Steps[groupComm[g]][0] = 5
                          /\ \A w \in members[g] : Steps[groupComm[g]][w] = 5
        <4>1. CASE g = driver.g
          BY <2>3, <2>4, <4>1
        <4>2. CASE g # driver.g
          BY <2>3, <4>2 DEF Driving, Settled
        <4> QED
          BY <4>1, <4>2
      <3> QED
        BY <2>1, <2>2, <3>1 DEF Settled
    <2>8. ByTheScript' /\ Apart'
      BY <2>1, <2>2, <2>3 DEF Driving, ByTheScript, Apart
    <2>9. Over'
      <3>1. \A x \in Epochs : Dropped(x)' => Dropped(x)
        BY <1>1, <2>1, <2>2 DEF Dropped
      <3>2. UNCHANGED <<comm, Steps>> /\ Over
        BY <2>1, <2>2, <2>3 DEF Driving
      <3> QED
        BY <3>1, <3>2 DEF Over
    <2>10. Members'
      BY <2>1, <2>2, <2>3 DEF Driving, Members
    <2>11. Commanded'
      BY <2>1, <2>2, <2>3 DEF Following, Commanded
    <2>12. Positions'
      <3>1. gridMsg \in [Epochs -> SUBSET Workers]
        BY <2>3, TypesAre
      <3>2. \A f \in Epochs : gridMsg'[f] = {}
        <4>1. \A f \in Epochs : f # e => gridMsg[f] = {}
          BY <1>2, <2>3 DEF Following, Positions
        <4>2. gridMsg[e] \subseteq comm[e]
          BY <2>3 DEF Following, Positions
        <4> QED
          BY <2>1, <3>1, <4>1, <4>2
      <3>3. ASSUME NEW h \in handlers, h.cmd = "GRID", h.at # "START"
            PROVE  FALSE
        <4>1. h.via = e /\ h.w \notin gridMsg[e]
          BY <1>2, <2>3, <3>3 DEF Following, Positions
        <4>2. h.w \in Workers /\ Steps[e][h.w] = 5
          BY <2>3, <3>3, <4>1, WhatThereIs DEF Following, Working, Works
        <4>3. h.w \in comm[e]
          BY <2>3, <4>2 DEF Driving, Members
        <4> QED
          BY <2>5, <4>1, <4>3
      <3>4. UNCHANGED handlers
        BY <2>1
      <3> QED
        BY <3>2, <3>3, <3>4 DEF Positions
    <2>13. Following'
      BY <2>1, <2>2, <2>3, <2>11, <2>12, WorkersKeep
    <2> QED
      BY <2>6, <2>7, <2>8, <2>9, <2>10, <2>13 DEF Driving
  <1> QED
    BY <1>4, <1>5

LEMMA RegroupServes ==
    ASSUME Serve, Inv', NEW g \in Groups, NEW S \in SUBSET Workers, Regroup(g, S)
    PROVE  Driving' /\ Following'
  <1>1. /\ Inv /\ TypeOK /\ TypeOK' /\ Driving /\ Following /\ driver.at = "IDLE" /\ driver.g = 0
        /\ 0 \notin Groups /\ 0 \notin Epochs /\ 0 \in Ranks
        /\ Lease!Grant(g, S) \/ Lease!Return(g, S)
        /\ epoch < MaxEpochs /\ epoch' = epoch + 1 /\ comm' = [comm EXCEPT ![epoch'] = members'[g]]
        /\ driver' = [at |-> IF groupComm[g] = 0 THEN "NEW" ELSE "CLOSE", g |-> g]
        /\ UNCHANGED <<groupComm, peersEntered, worldVars, gridMsg, loop, handlers, gw, job>>
    BY Constants DEF Serve, Inv, AtWork, Regroup
  <1>2. PICK e \in Epochs : e = epoch + 1 /\ epoch \in Nat
    BY <1>1, TypesAre, LifecycleAssumption DEF Epochs
  <1>3. /\ comm'[e] = members'[g] /\ \A f \in Epochs : f # e => comm'[f] = comm[f]
        /\ epoch' = e /\ \A f \in Epochs : comm[f] \subseteq Workers
    <2>1. comm \in [Epochs -> SUBSET Workers]
      BY <1>1, TypesAre
    <2> QED
      BY <1>1, <1>2, <2>1
  <1>4. /\ driver'.g = g /\ driver'.at = IF groupComm[g] = 0 THEN "NEW" ELSE "CLOSE"
    BY <1>1
  \* The group gains workers that no group has, or gives back its own.
  <1>5. /\ members[g] \subseteq Workers /\ members'[g] \subseteq Workers
        /\ \A k \in Groups : k # g => members'[k] = members[k] /\ members'[g] \cap members[k] = {}
    <2>1. members \in [Groups -> SUBSET Workers]
      BY <1>1, TypesAre
    <2>2. \A k \in Groups : k # g => members[g] \cap members[k] = {}
      BY <1>1 DEF Driving, Apart
    <2>3. CASE Lease!Grant(g, S)
      <3>1. members' = [members EXCEPT ![g] = @ \cup S] /\ S \subseteq Lease!Free
        BY <2>3 DEF Lease!Grant
      <3>2. \A w \in S, k \in Groups : w \notin members[k]
        BY <3>1 DEF Lease!Free
      <3> QED
        BY <2>1, <2>2, <3>1, <3>2
    <2>4. CASE Lease!Return(g, S)
      <3>1. members' = [members EXCEPT ![g] = @ \ S]
        BY <2>4 DEF Lease!Return
      <3> QED
        BY <2>1, <2>2, <3>1
    <2> QED
      BY <1>1, <2>3, <2>4
  \* What there is of the new communicator.
  <1>6. /\ \A k \in Groups : groupComm[k] # e /\ groupComm[k] \in Epochs \cup {0}
        /\ \A p \in Ranks : Steps[e][p] = 0
        /\ \A w \in Workers : bcast[e][w] = <<>> /\ Steps[e][w] = 0
        /\ Steps[e][0] = 0
    <2>1. Unborn(e)
      BY <1>2 DEF Unborn
    <2>2. groupComm \in [Groups -> 0 .. MaxEpochs] /\ 0 .. MaxEpochs = Epochs \cup {0}
      BY <1>1, TypesAre, Constants
    <2>3. \A k \in Groups : groupComm[k] # e /\ groupComm[k] \in Epochs \cup {0}
      BY <1>1, <2>1, <2>2 DEF Inv, Fresh
    <2>4. \A p \in Ranks : Steps[e][p] = 0
      BY <1>1, <2>1, StepsAre DEF Inv, Fresh
    <2>5. \A w \in Workers : w \in Ranks
      BY Constants
    <2>6. \A w \in Workers : OnItsWay(bcast[e][w], 0, 0)
      BY <1>1, <2>4, <2>5 DEF Following, Commanded
    <2> QED
      BY <1>1, <2>3, <2>4, <2>5, <2>6 DEF OnItsWay, Due
  \* The other groups are as ready as they were.
  <1>7. ASSUME NEW k \in Groups, groupComm[k] # 0
        PROVE  /\ groupComm[k] \in Epochs /\ groupComm[k] # e /\ comm[groupComm[k]] = members[k]
               /\ Steps[groupComm[k]][0] = 5
               /\ \A w \in members[k] : Steps[groupComm[k]][w] = 5
    BY <1>1, <1>6, <1>7 DEF Driving, Settled
  <1>8. /\ ByTheScript' /\ Commanded' /\ (groupComm[g] # 0 => Steps'[groupComm[g]][0] = 6)
        /\ \A f \in Epochs, p \in Ranks : f # groupComm[g] \/ p # 0 => Steps'[f][p] = Steps[f][p]
        /\ \A f \in Epochs, w \in Workers : w \notin comm[f] => bcast'[f][w] = bcast[f][w]
    <2>1. CASE groupComm[g] = 0
      <3>1. UNCHANGED <<bcast, entered>>
        BY <2>1 DEF Regroup
      <3>2. UNCHANGED Steps
        BY <3>1 DEF Steps
      <3>3. ByTheScript' /\ Commanded'
        BY <1>1, <3>1, <3>2 DEF Driving, Following, ByTheScript, Commanded
      <3> QED
        BY <2>1, <3>1, <3>2, <3>3
    <2>2. CASE groupComm[g] # 0
      <3>1. PICK f \in Epochs : f = groupComm[g]
        BY <1>7, <2>2
      <3>2. /\ Command(f, "CLOSE") /\ "CLOSE" \in Commands /\ Steps[f][0] = 5
            /\ Script[5 + 1] = "CLOSE" /\ \A w \in comm[f] : Steps[f][w] = 5
        BY <1>7, <2>2, <3>1, ScriptIs DEF Regroup, Commands
      <3>3. Steps'[f][0] = 5 + 1
        BY <1>1, <3>2, Sent
      <3> QED
        BY <1>1, <3>1, <3>2, <3>3, Sent
    <2> QED
      BY <2>1, <2>2
  <1>9. /\ \A f \in Epochs, w \in Workers : Steps'[f][w] = Steps[f][w]
        /\ \A f \in Epochs : f # groupComm[g] => Steps'[f][0] = Steps[f][0]
    BY <1>1, <1>8, Constants
  <1>10. Positions'
    BY <1>1, NoPositions
  <1>11. Following'
    BY <1>1, <1>8, <1>9, <1>10, WorkersKeep
  <1>12. Course'
    BY <1>1, <1>4, <1>8 DEF Course
  <1>13. Settled'
    <2>1. SUFFICES ASSUME NEW k \in Groups, k # g
                   PROVE  /\ groupComm[k] = 0 => members'[k] = {}
                          /\ groupComm[k] # 0 =>
                               /\ comm'[groupComm[k]] = members'[k] /\ Steps'[groupComm[k]][0] = 5
                               /\ \A w \in members'[k] : Steps'[groupComm[k]][w] = 5
      BY <1>1, <1>4 DEF Settled
    <2>2. CASE groupComm[k] = 0
      <3>1. members[k] = {}
        BY <1>1, <2>2 DEF Driving, Settled
      <3> QED
        BY <1>5, <2>1, <2>2, <3>1
    <2>3. CASE groupComm[k] # 0
      <3>1. PICK f \in Epochs : f = groupComm[k]
        BY <1>7, <2>3
      <3>2. f # groupComm[g]
        BY <1>1, <2>1, <2>3, <3>1, OnesOwn
      <3>3. /\ f # e /\ comm[f] = members[k] /\ Steps[f][0] = 5
            /\ \A w \in members[k] : w \in Workers /\ Steps[f][w] = 5
        BY <1>3, <1>7, <2>3, <3>1
      <3> QED
        BY <1>3, <1>5, <1>9, <2>1, <2>3, <3>1, <3>2, <3>3
    <2> QED
      BY <2>2, <2>3
  <1>14. Apart'
    <2>1. SUFFICES ASSUME NEW k \in Groups, NEW j \in Groups, k # j
                   PROVE  /\ members'[k] \cap members'[j] = {}
                          /\ groupComm[k] # 0 /\ groupComm[j] # 0 =>
                                 /\ groupComm[k] # groupComm[j]
                                 /\ comm'[groupComm[k]] \cap comm'[groupComm[j]] = {}
      BY <1>1 DEF Apart
    <2>2. members'[k] \cap members'[j] = {}
      <3>1. members[k] \cap members[j] = {}
        BY <1>1, <2>1 DEF Driving, Apart
      <3> QED
        BY <1>5, <2>1, <3>1
    <2>3. groupComm[k] # 0 /\ groupComm[j] # 0 =>
              /\ groupComm[k] # groupComm[j]
              /\ comm[groupComm[k]] \cap comm[groupComm[j]] = {}
      BY <1>1, <2>1 DEF Driving, Apart
    <2> QED
      BY <1>3, <1>7, <2>2, <2>3
  <1>15. Over'
    <2>1. SUFFICES ASSUME NEW x \in Epochs, Dropped(x)', NEW p \in comm'[x] \cup {0}
                   PROVE  Steps'[x][p] = 7
      BY DEF Over
    <2>2. x # e /\ x <= epoch /\ (\A k \in Groups : groupComm[k] # x)
      BY <1>1, <1>2, <1>3, <1>4, <2>1, Constants DEF Dropped
    <2>3. Dropped(x)
      BY <1>1, <2>2 DEF Dropped
    <2>4. p \in comm[x] \cup {0} /\ p \in Ranks
      BY <1>1, <1>3, <2>1, <2>2, Constants
    <2>5. Steps[x][p] = 7
      BY <1>1, <2>3, <2>4 DEF Driving, Over
    <2> QED
      BY <1>8, <2>2, <2>4, <2>5
  <1>16. Members'
    <2>1. ASSUME NEW f \in Epochs, NEW w \in Workers
          PROVE  /\ w \notin comm'[f] => Steps'[f][w] = 0 /\ bcast'[f][w] = <<>>
                 /\ w \in comm'[f] => \/ Steps'[f][0] \in {Steps'[f][w], Steps'[f][w] + 1}
                                      \/ (Steps'[f][0] = 1 /\ Steps'[f][w] = 2)
      <3>1. /\ w \notin comm[f] => Steps[f][w] = 0 /\ bcast[f][w] = <<>>
            /\ w \in comm[f] => \/ Steps[f][0] \in {Steps[f][w], Steps[f][w] + 1}
                                \/ (Steps[f][0] = 1 /\ Steps[f][w] = 2)
        BY <1>1 DEF Driving, Members
      <3>2. CASE f = e
        <4>1. Steps'[e][w] = 0 /\ Steps'[e][0] = 0
          BY <1>6, <1>9
        <4>2. bcast'[e][w] = <<>>
          <5>1. OnItsWay(bcast'[e][w], Steps'[e][w], Steps'[e][0])
            BY <1>8 DEF Commanded
          <5> QED
            BY <4>1, <5>1 DEF OnItsWay, Due
        <4> QED
          BY <3>2, <4>1, <4>2
      <3>3. CASE f # e /\ f # groupComm[g]
        BY <1>3, <1>8, <1>9, <3>1, <3>3
      <3>4. CASE f = groupComm[g]
        <4>1. /\ groupComm[g] # 0 /\ comm'[f] = comm[f] /\ Steps'[f][0] = 6
              /\ w \in comm[f] => Steps[f][w] = 5
          BY <1>1, <1>3, <1>7, <1>8, <3>4
        <4> QED
          BY <1>8, <1>9, <3>1, <4>1
      <3> QED
        BY <3>2, <3>3, <3>4
    <2> QED
      BY <2>1 DEF Members
  <1> QED
    BY <1>8, <1>11, <1>12, <1>13, <1>14, <1>15, <1>16 DEF Driving

-----------------------------------------------------------------------------
(* The invariant holds of the initial state and of every step.               *)
LEMMA ServesInitially == Init => Serve
  <1>1. SUFFICES ASSUME Init PROVE Serve
    OBVIOUS
  <1>2. Inv /\ TypeOK
    BY <1>1, Initially DEF Inv
  <1>3. /\ \A e \in Epochs, p \in Ranks : entered[e][p] = <<>> /\ Steps[e][p] = 0
        /\ \A e \in Epochs, w \in Workers :
               /\ Steps[e][w] = 0 /\ Meetings[e][w] = 0 /\ peersEntered[e][w] = <<>>
        /\ \A e \in Epochs : Steps[e][0] = 0
    <2>1. Len(<<>>) = 0
      BY LenProperties, EmptySeq
    <2>2. \A e \in Epochs, p \in Ranks : entered[e][p] = <<>> /\ Steps[e][p] = 0
      BY <1>1, <2>1 DEF Init, Steps
    <2>3. \A e \in Epochs, w \in Workers : peersEntered[e][w] = <<>> /\ Meetings[e][w] = 0
      BY <1>1, <2>1 DEF Init, Meetings
    <2>4. Workers \subseteq Ranks /\ 0 \in Ranks
      BY Constants
    <2> QED
      BY <2>2, <2>3, <2>4
  <1>4. /\ DOMAIN <<>> = {} /\ 0 \notin Epochs /\ Epochs \subseteq Nat
    BY Constants
  <1>5. ByTheScript /\ ByThePeersScript
    BY <1>3, <1>4 DEF ByTheScript, ByThePeersScript
  <1>6. Course /\ Settled /\ Apart
    BY <1>1 DEF Init, Idle, Course, Settled, Apart
  <1>7. Over
    <2>1. \A e \in Epochs : ~ (e <= epoch)
      BY <1>1, LifecycleAssumption DEF Init, Epochs
    <2> QED
      BY <2>1 DEF Over, Dropped
  <1>8. Members
    BY <1>1, <1>3 DEF Init, Members
  <1>9. Commanded /\ Stage /\ Held
    <2>1. ASSUME NEW e \in Epochs, NEW w \in Workers
          PROVE  /\ OnItsWay(bcast[e][w], Steps[e][w], Steps[e][0])
                 /\ Stands(e, Steps[e][w], Meetings[e][w], loop[w][e])
                 /\ Holds(e, Steps[e][w], loop[w][e].at, gw[w])
      <3>1. bcast[e][w] = <<>> /\ loop[w][e] = [at |-> "NONE", on |-> 0]
        BY <1>1 DEF Init
      <3>2. gw[w] = [group |-> 0, group_peers |-> 0, El_group_peers |-> 0, freed |-> {},
                     grid |-> 0, primary |-> "UNSET", connection_open |-> FALSE]
        BY <1>1 DEF Init
      <3> QED
        BY <1>3, <1>4, <3>1, <3>2 DEF OnItsWay, Stands, Holds, In
    <2>2. handlers = {}
      BY <1>1 DEF Init
    <2> QED
      BY <2>1, <2>2 DEF Commanded, Stage, Held
  <1>10. Dropping /\ Working /\ OneRelease /\ Released /\ Positions
    BY <1>1, <1>3 DEF Init, Dropping, Working, OneRelease, Released, Positions
  <1> QED
    BY <1>2, <1>5, <1>6, <1>7, <1>8, <1>9, <1>10 DEF Serve, Driving, Following

LEMMA ServesOn ==
    ASSUME Orderly, Serve, [Next]_vars
    PROVE  Serve'
  <1>1. Inv'
    BY Inductive DEF Serve
  <1>2. CASE UNCHANGED vars
    BY <1>1, <1>2, NothingMoves DEF Serve, vars
  <1>3. ASSUME NEW g \in Groups, NEW S \in SUBSET Workers, Regroup(g, S)
        PROVE  Driving' /\ Following'
    BY <1>1, <1>3, RegroupServes
  <1>4. ASSUME DriverStep
        PROVE  Driving' /\ Following'
    BY <1>1, <1>4, SendFreeServes, DropCommServes, AnnounceServes, SetDriverCommServes,
       ReadyGroupServes, ReceiveGridServes DEF DriverStep
  <1>5. ASSUME NEW w \in Workers, WorldCommand(w) \/ JoinGroup(w)
        PROVE  Driving' /\ Following'
    BY <1>1, <1>5, OthersServe, JoinGroupServes
  <1>6. ASSUME NEW w \in Workers, LoopStep(w)
        PROVE  Driving' /\ Following'
    BY <1>1, <1>6, SetGroupCommServes, PeersStepServes, PostServes, GroupCommandServes DEF LoopStep
  <1>7. ASSUME NEW w \in Workers, HandlerStep(w)
        PROVE  Driving' /\ Following'
    <2>1. PICK h \in handlers : \/ EnterGroupBarrier(h) \/ SendGrid(h) \/ DropGrid(h)
                                \/ FreeComm(h) \/ MeetPeers(h) \/ FreeElPeers(h) \/ FreePeers(h)
      BY <1>7 DEF HandlerStep
    <2> QED
      BY <1>1, <2>1, EnterGroupBarrierServes, SendGridServes, DropGridServes, FreeCommServes,
         MeetPeersServes, LetsGoServes, OthersServe
  <1> QED
    BY <1>1, <1>2, <1>3, <1>4, <1>5, <1>6, <1>7 DEF Next, Serve

LEMMA ServesAlways ==
    ASSUME Orderly
    PROVE  Spec => []Serve
  <1>1. Serve /\ [Next]_vars => Serve'
    BY ServesOn
  <1> QED
    BY <1>1, ServesInitially, PTL DEF Spec

(* Blocking collectives meet their own kind, on every communicator of a      *)
(* group and of its workers, at whatever distance its workers follow the     *)
(* driver: what is sent by Driver.cpp and GroupDriver.cpp comes in the order *)
(* in which GroupWorker.cpp's threads enter it.                              *)
THEOREM CollectivesMatch ==
    ASSUME Orderly
    PROVE  Spec => []CollectivesAgree
  <1>1. Serve => CollectivesAgree
    <2>1. SUFFICES ASSUME Serve, NEW e \in Epochs
                   PROVE  /\ \A p, q \in comm[e] \cup {0} :
                                 \A k \in DOMAIN entered[e][p] \cap DOMAIN entered[e][q] :
                                     entered[e][p][k] = entered[e][q][k]
                          /\ \A p, q \in comm[e] :
                                 \A k \in DOMAIN peersEntered[e][p] \cap DOMAIN peersEntered[e][q] :
                                     peersEntered[e][p][k] = peersEntered[e][q][k]
      BY DEF CollectivesAgree
    <2>2. comm[e] \subseteq Workers /\ Workers \subseteq Ranks /\ 0 \in Ranks
      BY <2>1, WhatThereIs, Constants DEF Serve, Inv
    <2>3. \A p \in comm[e] \cup {0} : \A k \in DOMAIN entered[e][p] : entered[e][p][k] = Script[k]
      BY <2>1, <2>2 DEF Serve, Driving, ByTheScript
    <2>4. \A p \in comm[e] : \A k \in DOMAIN peersEntered[e][p] :
              peersEntered[e][p][k] = PeersScript[k]
      BY <2>1, <2>2 DEF Serve, Following, ByThePeersScript
    <2> QED
      BY <2>3, <2>4
  <1> QED
    BY <1>1, ServesAlways, PTL

-----------------------------------------------------------------------------
(* The second part: what the script gives the clients.                       *)

\* A set of workers that has with each of them every lower one is 1 .. k.
LEMMA LowestAreFirst ==
    ASSUME NEW M \in SUBSET Workers, Lowest(M)
    PROVE  M = 1 .. Cardinality(M)
  <1>1. PICK N \in Nat : Workers = 1 .. N
    BY LifecycleAssumption DEF Workers
  <1> DEFINE Missing == {k \in Nat : k # 0 /\ k \notin M}
  <1>2. N + 1 \in Missing
    BY <1>1
  <1>3. PICK R : R = {ss \in Nat \X Nat : ss[1] < ss[2]} /\ IsWellFoundedOn(R, Nat)
    BY NatLessThanWellFounded DEF OpToRel
  <1>4. PICK k \in Nat : k # 0 /\ k \notin M /\ \A j \in Nat : j # 0 /\ j \notin M => ~ (j < k)
    <2>1. Missing # {} /\ Missing \subseteq Nat
      BY <1>2
    <2>2. \E k \in Missing : \A j \in Missing : ~ (<<j, k>> \in R)
      <3> HIDE DEF Missing
      <3> QED
        BY <1>3, <2>1, WFMin
    <2> QED
      BY <1>3, <2>2
  <1>5. M = 1 .. (k - 1)
    <2>1. \A v \in M : v \in Nat /\ v # 0 /\ v < k
      BY <1>1, <1>4 DEF Lowest
    <2>2. \A v \in 1 .. (k - 1) : v \in M
      BY <1>4
    <2>3. \A v \in Nat : v # 0 /\ v < k => v \in 1 .. (k - 1)
      BY <1>4
    <2> QED
      BY <2>1, <2>2, <2>3
  <1>6. Cardinality(1 .. (k - 1)) = IF 1 > k - 1 THEN 0 ELSE (k - 1) - 1 + 1
    BY <1>4, FS_Interval
  <1>7. Cardinality(1 .. (k - 1)) = k - 1
    BY <1>4, <1>6
  <1> QED
    BY <1>5, <1>7

LEMMA WorkersAreFinite ==
    ASSUME NEW M \in SUBSET Workers
    PROVE  IsFiniteSet(M) /\ Cardinality(M) \in Nat
  <1>1. PICK N \in Nat : Workers = 1 .. N
    BY LifecycleAssumption DEF Workers
  <1>2. IsFiniteSet(1 .. N)
    BY <1>1, FS_Interval
  <1>3. IsFiniteSet(M)
    BY <1>1, <1>2, FS_Subset
  <1> QED
    BY <1>3, FS_CardinalityType

-----------------------------------------------------------------------------
(* When the driver is not at work, every group is settled.                   *)
LEMMA AnsweredIsSettled ==
    ASSUME Serve, Answered, NEW g \in Groups, NEW e \in Epochs, groupComm[g] = e
    PROVE  /\ comm[e] = members[g] /\ members[g] \subseteq Workers /\ Lowest(members[g])
           /\ Steps[e][0] = 5 /\ \A w \in members[g] : Steps[e][w] = 5
  <1>1. driver.at = "IDLE" /\ g # driver.g /\ job = "running" /\ e # 0
    BY Constants DEF Answered, Idle
  <1>2. TypeOK /\ Ranked
    BY DEF Serve, Inv
  <1>3. Lowest(members[g])
    BY <1>1, <1>2 DEF Ranked
  <1>4. comm[e] = members[g] /\ Steps[e][0] = 5 /\ \A w \in members[g] : Steps[e][w] = 5
    BY <1>1 DEF Serve, Driving, Settled
  <1> QED
    BY <1>2, <1>3, <1>4, TypesAre

(* What a worker holds of a group that serves, and the one thread of it that *)
(* the driver's next command will reach.                                     *)
LEMMA WorkerIsReady ==
    ASSUME Serve, NEW e \in Epochs, NEW w \in Workers, Steps[e][w] = 5, Steps[e][0] = 5
    PROVE  /\ gw[w].group = e /\ gw[w].grid = e /\ gw[w].group_peers \in {e, 0}
           /\ gw[w].connection_open /\ bcast[e][w] = <<>> /\ Listeners(w, e) = {e}
  <1>1. TypeOK /\ 0 \notin Epochs
    BY Constants DEF Serve, Inv
  <1>2. \A l \in Epochs : /\ Stands(l, Steps[l][w], Meetings[l][w], loop[w][l])
                          /\ Holds(l, Steps[l][w], loop[w][l].at, gw[w])
                          /\ Steps[l][w] \in Nat
    BY <1>1, WhatThereIs DEF Serve, Following, Stage, Held
  <1>3. loop[w][e].at \in {"POST", "WAIT"}
    BY <1>2 DEF Stands
  <1>4. In(5)
    BY DEF In
  <1>5. /\ gw[w].group = e /\ gw[w].grid = e /\ gw[w].group_peers \in {e, 0}
        /\ gw[w].connection_open
    BY <1>2, <1>3, <1>4 DEF Holds
  <1>6. bcast[e][w] = <<>>
    <2>1. OnItsWay(bcast[e][w], 5, 5)
      BY DEF Serve, Following, Commanded
    <2> QED
      BY <2>1 DEF OnItsWay, Due
  <1>7. ASSUME NEW l \in Listeners(w, e)
        PROVE  l = e
    <2>1. l \in Epochs /\ (loop[w][l].on = e \/ loop[w][l].at \in {"READY", "POST"})
      BY DEF Listeners
    <2>2. CASE loop[w][l].on = e
      BY <1>1, <1>2, <2>1, <2>2 DEF Stands
    <2>3. CASE loop[w][l].at = "POST"
      BY <1>2, <1>5, <2>1, <2>3 DEF Holds
    <2>4. CASE loop[w][l].at = "READY"
      <3>1. Steps[l][w] = 2
        BY <1>2, <2>1, <2>4 DEF Stands
      <3>2. In(Steps[l][w])
        BY <3>1 DEF In
      <3> QED
        BY <1>2, <1>5, <2>1, <3>2 DEF Holds
    <2> QED
      BY <2>1, <2>2, <2>3, <2>4
  <1>8. e \in Listeners(w, e)
    BY <1>2, <1>3, <1>5 DEF Listeners, Stands
  <1> QED
    BY <1>5, <1>6, <1>7, <1>8

(* When a client is answered, its group is whole, whatever the workers did   *)
(* in the meantime: communicator, IDs for ranks, grid, connections, and one  *)
(* command loop of each worker for the driver's next command.                *)
THEOREM AnsweredIsReady ==
    ASSUME Orderly
    PROVE  Spec => []GroupReady
  <1>1. Serve => GroupReady
    <2>1. SUFFICES ASSUME Serve, Answered, NEW g \in Groups
          PROVE  /\ members[g] # {} => groupComm[g] # 0
                 /\ groupComm[g] # 0 =>
                        /\ comm[groupComm[g]] = members[g] /\ gridMsg[groupComm[g]] = {}
                        /\ members[g] = 1 .. Cardinality(members[g])
                        /\ \A w \in members[g] :
                               /\ gw[w].group = groupComm[g] /\ gw[w].grid = groupComm[g]
                               /\ gw[w].group_peers \in {groupComm[g], 0}
                               /\ gw[w].connection_open
                               /\ Cardinality(Listeners(w, groupComm[g])) = 1
                               /\ bcast[groupComm[g]][w] = <<>>
      BY DEF GroupReady
    <2>2. TypeOK /\ driver.at = "IDLE" /\ g # driver.g
      BY <2>1, Constants DEF Serve, Inv, Answered, Idle
    <2>3. CASE groupComm[g] = 0
      BY <2>1, <2>2, <2>3 DEF Serve, Driving, Settled
    <2>4. CASE groupComm[g] # 0
      <3>1. PICK e \in Epochs : groupComm[g] = e
        BY <2>1, <2>2, <2>4, TypesAre, Constants
      <3>2. /\ comm[e] = members[g] /\ members[g] \subseteq Workers /\ Lowest(members[g])
            /\ Steps[e][0] = 5 /\ \A w \in members[g] : Steps[e][w] = 5
        BY <2>1, <3>1, AnsweredIsSettled
      <3>3. members[g] = 1 .. Cardinality(members[g])
        BY <3>2, LowestAreFirst
      <3>4. gridMsg[e] = {}
        BY <2>1, <2>2 DEF Serve, Following, Positions
      <3>5. ASSUME NEW w \in members[g]
            PROVE  /\ gw[w].group = e /\ gw[w].grid = e /\ gw[w].group_peers \in {e, 0}
                   /\ gw[w].connection_open
                   /\ Cardinality(Listeners(w, e)) = 1 /\ bcast[e][w] = <<>>
        <4>1. w \in Workers /\ Steps[e][w] = 5
          BY <3>2
        <4>2. /\ gw[w].group = e /\ gw[w].grid = e /\ gw[w].group_peers \in {e, 0}
              /\ gw[w].connection_open /\ bcast[e][w] = <<>> /\ Listeners(w, e) = {e}
          BY <2>1, <3>2, <4>1, WorkerIsReady
        <4>3. Cardinality({e}) = 1
          BY FS_Singleton
        <4> QED
          BY <4>2, <4>3
      <3> QED
        BY <2>4, <3>1, <3>2, <3>3, <3>4, <3>5
    <2> QED
      BY <2>3, <2>4
  <1> QED
    BY <1>1, ServesAlways, PTL

(* A worker that no group holds accepts no connections and is in none of the *)
(* communicators, however far its threads lag behind the driver's.           *)
THEOREM FreeIsDetached ==
    ASSUME Orderly
    PROVE  Spec => []Detached
  <1>1. Serve => Detached
    <2>1. SUFFICES ASSUME Serve, Answered, NEW w \in Workers \ InUse
                   PROVE  /\ ~ gw[w].connection_open
                          /\ \A g \in Groups : groupComm[g] # 0 => gw[w].group # groupComm[g]
      BY DEF Detached
    <2>2. /\ Inv /\ TypeOK /\ Driving /\ w \in Workers /\ 0 \notin Epochs
          /\ driver.at = "IDLE" /\ gw[w].group \in Epochs \cup {0}
      BY <2>1, WhatThereIs, Constants DEF Serve, Inv, Answered, Idle
    <2>3. \A g \in Groups : w \notin members[g]
      BY <2>1 DEF InUse
    <2>4. \A e \in Epochs, g \in Groups : groupComm[g] = e => w \notin comm[e]
      BY <2>1, <2>3, AnsweredIsSettled
    <2>5. \A e \in Epochs : Steps[e][w] \notin 1 .. 6
      BY <2>2, <2>4, Live
    <2>6. \A e \in Epochs : Holds(e, Steps[e][w], loop[w][e].at, gw[w])
      BY <2>1, <2>2 DEF Serve, Following, Held
    <2>7. ~ gw[w].connection_open
      <3>1. CASE gw[w].group = 0
        BY <2>2, <2>6, <3>1, LifecycleAssumption DEF Holds, Epochs
      <3>2. CASE gw[w].group # 0
        <4>1. PICK e \in Epochs : gw[w].group = e
          BY <2>2, <3>2
        <4> QED
          BY <2>5, <2>6, <4>1 DEF Holds
      <3> QED
        BY <3>1, <3>2
    <2>8. ASSUME NEW g \in Groups, groupComm[g] # 0
          PROVE  gw[w].group # groupComm[g]
      <3>1. PICK e \in Epochs : groupComm[g] = e
        BY <2>2, <2>8, TypesAre, Constants
      <3>2. Steps[e][w] = 0
        BY <2>2, <2>4, <3>1 DEF Driving, Members
      <3> QED
        BY <2>6, <3>1, <3>2 DEF Holds
    <2> QED
      BY <2>7, <2>8
  <1> QED
    BY <1>1, ServesAlways, PTL

\* What workers do leaves the driver's own state alone.
LEMMA WorkersLeaveDriver ==
    ASSUME NEW w \in Workers, WorldCommand(w) \/ JoinGroup(w) \/ LoopStep(w) \/ HandlerStep(w)
    PROVE  UNCHANGED driverVars
  <1>1. CASE WorldCommand(w) \/ JoinGroup(w)
    BY <1>1 DEF WorldCommand, JoinGroup
  <1>2. CASE LoopStep(w)
    BY <1>2 DEF LoopStep, SetGroupComm, PeersStep, PeersMisuse, Misuse, Post, GroupCommand, Crash
  <1>3. CASE HandlerStep(w)
    <2>1. PICK h \in handlers : \/ EnterGroupBarrier(h) \/ SendGrid(h) \/ DropGrid(h)
                                \/ FreeComm(h) \/ MeetPeers(h) \/ FreeElPeers(h) \/ FreePeers(h)
      BY <1>3 DEF HandlerStep
    <2>2. CASE EnterGroupBarrier(h) \/ DropGrid(h) \/ MeetPeers(h)
      BY <2>2 DEF EnterGroupBarrier, DropGrid, MeetPeers, Misuse, Crash
    <2>3. CASE SendGrid(h) \/ FreeComm(h) \/ FreeElPeers(h) \/ FreePeers(h)
      BY <2>3 DEF SendGrid, FreeComm, FreeElPeers, FreePeers, Misuse, Crash
    <2> QED
      BY <2>1, <2>2, <2>3
  <1> QED
    BY <1>1, <1>2, <1>3

(* The driver lets a communicator go only when its workers have closed their *)
(* connections and dropped the grid they had built on it.                    *)
THEOREM FreedWhenClosed ==
    ASSUME Orderly
    PROVE  Spec => ClosedBeforeFreed
  <1> DEFINE Closing == \A g \in Groups : groupComm[g] # 0 /\ groupComm'[g] = 0 =>
                            \A w \in comm[groupComm[g]] :
                                ~ gw[w].connection_open /\ gw[w].grid # groupComm[g]
  <1>1. Serve /\ [Next]_vars => [Closing]_vars
    <2>1. SUFFICES ASSUME Serve, Next, NEW g \in Groups, groupComm[g] # 0, groupComm'[g] = 0,
                          NEW w \in comm[groupComm[g]]
                   PROVE  ~ gw[w].connection_open /\ gw[w].grid # groupComm[g]
      OBVIOUS
    <2>2. Inv /\ TypeOK /\ Driving
      BY <2>1 DEF Serve, Inv
    <2>3. groupComm \in [Groups -> 0 .. MaxEpochs] /\ 0 .. MaxEpochs = Epochs \cup {0}
      BY <2>2, TypesAre, Constants
    <2>4. PICK e \in Epochs : e = groupComm[g]
      BY <2>1, <2>3
    <2>5. CASE DropComm
      <3>1. driver.at = "FREE" /\ groupComm' = [groupComm EXCEPT ![driver.g] = 0]
        BY <2>5 DEF DropComm
      <3>2. g = driver.g
        BY <2>1, <2>3, <3>1
      <3>3. Met(e, Len(entered[e][0]))
        BY <2>4, <2>5, <3>2 DEF DropComm, Through
      <3>4. Steps[e][0] = 7
        BY <2>2, <2>4, <3>1, <3>2 DEF Driving, Course
      <3>5. w \in Workers /\ Steps[e][w] = 7 /\ w \in comm[e]
        BY <2>1, <2>4, <3>3, <3>4, AllCame
      <3>6. \A f \in Epochs : Holds(f, Steps[f][w], loop[w][f].at, gw[w])
        BY <2>1, <3>5 DEF Serve, Following, Held
      <3>7. gw[w].grid # e
        BY <3>5, <3>6 DEF Holds, In
      <3>8. ASSUME gw[w].connection_open
            PROVE  FALSE
        <4>1. gw[w].group \in Epochs \cup {0}
          BY <2>2, <3>5, WhatThereIs
        <4>2. gw[w].group # 0
          BY <2>4, <3>6, <3>8 DEF Holds
        <4>3. PICK f \in Epochs : gw[w].group = f
          BY <4>1, <4>2
        <4>4. Steps[f][w] \in 1 .. 6 /\ f # e
          BY <3>5, <3>6, <3>8, <4>3 DEF Holds
        <4>5. w \in comm[f] /\ \E k \in Groups : groupComm[k] = f
          BY <2>2, <3>1, <3>5, <4>4, Live
        <4>6. PICK k \in Groups : groupComm[k] = f
          BY <4>5
        <4>7. k # g /\ groupComm[k] # 0 /\ groupComm[g] # 0
          BY <2>1, <2>4, <4>4, <4>6, Constants
        <4>8. comm[groupComm[g]] \cap comm[groupComm[k]] = {}
          BY <2>2, <4>7 DEF Driving, Apart
        <4> QED
          BY <2>4, <3>5, <4>5, <4>6, <4>8
      <3> QED
        BY <2>4, <3>7, <3>8
    <2>6. CASE SetDriverComm
      <3>1. groupComm' = [groupComm EXCEPT ![driver.g] = epoch] /\ driver.at = "CREATE"
        BY <2>6 DEF SetDriverComm, Through
      <3>2. epoch # 0
        BY <2>2, <3>1 DEF Inv, AtWork
      <3> QED
        BY <2>1, <2>3, <3>1, <3>2
    <2>7. CASE UNCHANGED groupComm
      BY <2>1, <2>7
    <2>8. CASE DriverStep /\ ~ DropComm /\ ~ SetDriverComm
      <3>1. UNCHANGED groupComm
        BY <2>8 DEF DriverStep, SendFree, Announce, ReadyGroup, ReadyStep, ReceiveGrid, Crash,
                    driverVars
      <3> QED
        BY <2>7, <3>1
    <2>9. CASE \E k \in Groups, S \in SUBSET Workers : Regroup(k, S)
      BY <2>7, <2>9 DEF Regroup
    <2>10. CASE \E v \in Workers : WorldCommand(v) \/ JoinGroup(v) \/ LoopStep(v) \/ HandlerStep(v)
      <3>1. UNCHANGED groupComm
        BY <2>10, WorkersLeaveDriver DEF driverVars
      <3> QED
        BY <2>7, <3>1
    <2> QED
      BY <2>1, <2>5, <2>6, <2>8, <2>9, <2>10 DEF Next
  <1> QED
    BY <1>1, ServesAlways, PTL DEF Spec, ClosedBeforeFreed

-----------------------------------------------------------------------------
(* A worker serves its group while it is between the barriers of OPEN and    *)
(* CLOSE.                                                                    *)
Serves == [g \in Groups |->
              IF groupComm[g] = 0 THEN {}
              ELSE {w \in comm[groupComm[g]] : Steps[groupComm[g]][w] \in {4, 5}}]

LEMMA ServedByIs == Serve => ServedBy = Serves
  <1>1. SUFFICES ASSUME Serve, NEW g \in Groups, groupComm[g] # 0
                 PROVE  Serving(g) = {w \in comm[groupComm[g]] : Steps[groupComm[g]][w] \in {4, 5}}
    BY DEF ServedBy, Serves
  <1>2. TypeOK /\ 0 .. MaxEpochs = Epochs \cup {0}
    BY <1>1, Constants DEF Serve, Inv
  <1>3. PICK e \in Epochs : e = groupComm[g]
    BY <1>1, <1>2, TypesAre
  <1>4. ASSUME NEW w \in comm[e]
        PROVE  gw[w].group = e /\ gw[w].connection_open <=> Steps[e][w] \in {4, 5}
    <2>1. w \in Workers
      BY <1>2, <1>4, WhatThereIs
    <2>2. Holds(e, Steps[e][w], loop[w][e].at, gw[w])
      BY <1>1, <2>1 DEF Serve, Following, Held
    <2>3. Steps[e][w] \in {4, 5} => In(Steps[e][w])
      BY DEF In
    <2> QED
      BY <2>2, <2>3 DEF Holds
  <1> QED
    BY <1>3, <1>4 DEF Serving

LEMMA ServedByStays == Serve' => (ServedBy = Serves)'
  BY ServedByIs, PTL

LEMMA ServedByWillBe ==
    ASSUME Serve, Serve'
    PROVE  ServedBy = Serves /\ ServedBy' = Serves'
  BY ServedByIs, ServedByStays

LEMMA ChangeIs ==
    /\ driver.at = "IDLE" => Change = [g |-> driver.g, phase |-> "none"]
    /\ driver.at \in {"CLOSE", "FREE"} => Change = [g |-> driver.g, phase |-> "stop"]
    /\ driver.at \in {"NEW", "CREATE", "FORM", "PRINT", "OPEN", "GRID"} =>
           Change = [g |-> driver.g, phase |-> "start"]
  BY DEF Change

LEMMA ChangeWillBe ==
    /\ driver'.at = "IDLE" => Change' = [g |-> driver'.g, phase |-> "none"]
    /\ driver'.at \in {"CLOSE", "FREE"} => Change' = [g |-> driver'.g, phase |-> "stop"]
    /\ driver'.at \in {"NEW", "CREATE", "FORM", "PRINT", "OPEN", "GRID"} =>
           Change' = [g |-> driver'.g, phase |-> "start"]
  BY DEF Change

\* A process enters one collective.
LEMMA Growing ==
    ASSUME TypeOK, NEW e \in Epochs, NEW p \in Ranks, NEW what \in Labels, Enter(e, p, what)
    PROVE  /\ Steps'[e][p] = Steps[e][p] + 1
           /\ \A f \in Epochs, q \in Ranks : f # e \/ q # p => Steps'[f][q] = Steps[f][q]
  <1>1. entered[e][p] \in Seq(Labels)
    BY TypesAre
  <1>2. \A s \in Seq(Labels) : Len(Append(s, what)) = Len(s) + 1
    BY Appended
  <1>3. /\ entered'[e][p] = Append(entered[e][p], what)
        /\ \A f \in Epochs, q \in Ranks : f # e \/ q # p => entered'[f][q] = entered[f][q]
    BY Entering
  <1>4. /\ \A f \in Epochs, q \in Ranks : Steps'[f][q] = Len(entered'[f][q])
        /\ \A f \in Epochs, q \in Ranks : Steps[f][q] = Len(entered[f][q])
    BY DEF Steps
  <1>5. Len(entered'[e][p]) = Len(entered[e][p]) + 1
    BY <1>1, <1>2, <1>3
  <1>6. Steps'[e][p] = Steps[e][p] + 1
    BY <1>4, <1>5
  <1>7. \A f \in Epochs, q \in Ranks : f # e \/ q # p => Steps'[f][q] = Steps[f][q]
    BY <1>3, <1>4
  <1> QED
    BY <1>6, <1>7

\* Nobody begins or ends to serve.
LEMMA ServesStay ==
    ASSUME TypeOK, UNCHANGED groupComm,
           \A g \in Groups : groupComm[g] # 0 => comm'[groupComm[g]] = comm[groupComm[g]],
           \A e \in Epochs, w \in Workers : Steps'[e][w] \in {4, 5} <=> Steps[e][w] \in {4, 5}
    PROVE  Serves' = Serves
  <1>1. SUFFICES ASSUME NEW g \in Groups, groupComm[g] # 0
                 PROVE  {w \in comm'[groupComm[g]] : Steps'[groupComm[g]][w] \in {4, 5}}
                            = {w \in comm[groupComm[g]] : Steps[groupComm[g]][w] \in {4, 5}}
    BY DEF Serves
  <1>2. PICK e \in Epochs : e = groupComm[g]
    BY <1>1, TypesAre, Constants
  <1> QED
    BY <1>1, <1>2, WhatThereIs

\* A group that was ready has been changed once the driver is past its five collectives.
LEMMA WornIs ==
    /\ Worn <=> \E e \in Epochs : Steps[e][0] > 5
    /\ Worn' <=> \E e \in Epochs : Steps'[e][0] > 5
    /\ Worn \in BOOLEAN /\ Worn' \in BOOLEAN
  <1>1. 0 \in Ranks
    BY Constants
  <1>2. \A e \in Epochs : Steps[e][0] = Len(entered[e][0]) /\ Steps'[e][0] = Len(entered'[e][0])
    BY <1>1 DEF Steps
  <1>3. Worn <=> \E e \in Epochs : Steps[e][0] > 5
    BY <1>2 DEF Worn
  <1>4. Worn' <=> \E e \in Epochs : Steps'[e][0] > 5
    BY <1>2 DEF Worn
  <1>5. Worn \in BOOLEAN /\ Worn' \in BOOLEAN
    BY DEF Worn
  <1> QED
    BY <1>3, <1>4, <1>5

LEMMA WornStays ==
    ASSUME \A e \in Epochs : Steps'[e][0] > 5 <=> Steps[e][0] > 5
    PROVE  Worn' = Worn
  <1>1. Worn <=> Worn'
    BY WornIs
  <1> QED
    BY <1>1, WornIs

\* A client sees nothing of it.
LEMMA Unseen ==
    ASSUME Serve, Serve', Serves' = Serves, Change' = Change, UNCHANGED <<members, job>>,
           \A e \in Epochs : Steps'[e][0] > 5 <=> Steps[e][0] > 5
    PROVE  UNCHANGED Service!vars
  <1>1. Worn' = Worn
    BY WornStays
  <1>2. ServedBy' = ServedBy /\ Up' = Up
    BY ServedByWillBe DEF Up
  <1> QED
    BY <1>1, <1>2 DEF Service!vars

(* The driver's steps: it finds that all have stopped, or that all serve.    *)
LEMMA DriverImplements ==
    ASSUME Serve, Serve', DriverStep
    PROVE  Service!Next \/ UNCHANGED Service!vars
  <1>1. /\ TypeOK /\ Inv /\ Driving /\ driver \in Drivers /\ Workers \subseteq Ranks /\ 0 \notin Workers
        /\ 0 \in Ranks /\ 0 \notin Epochs /\ comm \in [Epochs -> SUBSET Workers]
        /\ groupComm \in [Groups -> 0 .. MaxEpochs] /\ 0 .. MaxEpochs = Epochs \cup {0}
    BY TypesAre, Constants DEF Serve, Inv
  <1>2. driver.at # "IDLE" /\ job = "running"
    BY DEF DriverStep, SendFree, DropComm, Announce, SetDriverComm, ReadyGroup, ReadyStep,
           ReceiveGrid, Through
  <1>3. /\ epoch \in Epochs /\ driver.g \in Groups /\ comm[epoch] = members[driver.g]
        /\ \A at : Goto(at) => driver'.at = at /\ driver'.g = driver.g
    BY <1>2, AtWorkFor
  <1>4. {"CREATE", "FORM", "PRINT", "OPEN", "GRID", "FREE"} \subseteq Labels
    BY DEF Labels, Commands
  \* A step that enters a collective, in the same phase.
  <1>5. ASSUME UNCHANGED <<members, groupComm, comm, job>>, Change' = Change,
               NEW e \in Epochs, NEW c \in Labels, Enter(e, 0, c), Steps[e][0] # 5
        PROVE  UNCHANGED Service!vars
    <2>1. /\ \A f \in Epochs, w \in Workers : Steps'[f][w] = Steps[f][w]
          /\ \A f \in Epochs : f # e => Steps'[f][0] = Steps[f][0]
          /\ Steps'[e][0] = Steps[e][0] + 1 /\ Steps[e][0] \in Nat
      BY <1>1, <1>5, Growing, WhatThereIs
    <2>2. Serves' = Serves
      BY <1>1, <1>5, <2>1, ServesStay
    <2>3. Steps'[e][0] > 5 <=> Steps[e][0] > 5
      BY <1>5, <2>1
    <2>4. \A f \in Epochs : Steps'[f][0] > 5 <=> Steps[f][0] > 5
      BY <2>1, <2>3
    <2> QED
      BY <1>5, <2>2, <2>4, Unseen
  <1>6. CASE SendFree
    <2>1. /\ driver.at = "CLOSE" /\ driver'.at = "FREE" /\ driver'.g = driver.g
          /\ Enter(groupComm[driver.g], 0, "FREE")
          /\ UNCHANGED <<members, groupComm, comm, job>>
      BY <1>3, <1>6 DEF SendFree, Command
    <2>2. groupComm[driver.g] \in Epochs
      BY <1>1, <1>3, <2>1 DEF Inv, AtWork
    <2>3. Change' = Change
      BY <2>1, ChangeIs, ChangeWillBe
    <2>4. Steps[groupComm[driver.g]][0] # 5
      BY <1>1, <2>1 DEF Driving, Course
    <2> QED
      BY <1>4, <1>5, <2>1, <2>2, <2>3, <2>4
  <1>7. CASE DropComm
    <2>1. /\ driver.at = "FREE" /\ driver'.at = "NEW" /\ driver'.g = driver.g
          /\ groupComm' = [groupComm EXCEPT ![driver.g] = 0]
          /\ UNCHANGED <<members, comm, entered, job>>
      BY <1>3, <1>7 DEF DropComm
    <2>2. PICK e \in Epochs : e = groupComm[driver.g]
      BY <1>1, <1>3, <2>1 DEF Inv, AtWork
    <2>3. \A w \in comm[e] : Steps[e][w] = 7
      <3>1. Met(e, Len(entered[e][0])) /\ Steps[e][0] = 7
        BY <1>1, <1>7, <2>1, <2>2 DEF DropComm, Through, Driving, Course
      <3> QED
        BY <3>1, AllCame
    <2>4. UNCHANGED Steps
      BY <2>1 DEF Steps
    <2>5. Serves[driver.g] = {}
      BY <1>3, <2>2, <2>3 DEF Serves
    <2>6. Serves' = Serves
      <3>1. \A g \in Groups : Serves'[g] = Serves[g]
        BY <1>1, <1>3, <2>1, <2>4, <2>5 DEF Serves
      <3>2. Serves' = [g \in Groups |-> Serves'[g]] /\ Serves = [g \in Groups |-> Serves[g]]
        BY DEF Serves
      <3> QED
        BY <3>1, <3>2
    <2>7. Change.phase = "stop" /\ Change.g = driver.g /\ Change' = [Change EXCEPT !.phase = "start"]
      BY <2>1, ChangeIs, ChangeWillBe
    <2>8. ServedBy = Serves /\ ServedBy' = Serves' /\ Worn' = Worn
      BY <2>4, ServedByWillBe, WornStays
    <2> QED
      BY <1>2, <2>1, <2>5, <2>6, <2>7, <2>8 DEF Service!Next, Service!AllStopped, Up
  <1>8. CASE Announce
    <2>1. /\ driver.at = "NEW" /\ driver'.at = "CREATE" /\ driver'.g = driver.g
          /\ Enter(epoch, 0, "CREATE") /\ UNCHANGED <<members, groupComm, comm, job>>
      BY <1>3, <1>8 DEF Announce
    <2>2. Change' = Change
      BY <2>1, ChangeIs, ChangeWillBe
    <2>3. Steps[epoch][0] # 5
      <3>1. entered[epoch][0] = <<>>
        BY <1>1, <1>3, <2>1 DEF Inv, Fresh, Unborn, Leaving
      <3> QED
        BY <1>1, <1>3, <3>1, StepsAre
    <2> QED
      BY <1>3, <1>4, <1>5, <2>1, <2>2, <2>3
  <1>9. CASE SetDriverComm
    <2>1. /\ driver.at = "CREATE" /\ driver'.at = "FORM" /\ driver'.g = driver.g
          /\ groupComm' = [groupComm EXCEPT ![driver.g] = epoch]
          /\ Enter(epoch, 0, "FORM") /\ UNCHANGED <<members, comm, job>>
      BY <1>3, <1>9 DEF SetDriverComm, Through
    <2>2. Change' = Change
      BY <2>1, ChangeIs, ChangeWillBe
    <2>3. /\ \A f \in Epochs, w \in Workers : Steps'[f][w] = Steps[f][w]
          /\ \A f \in Epochs : f # epoch => Steps'[f][0] = Steps[f][0]
          /\ Steps'[epoch][0] = Steps[epoch][0] + 1
      BY <1>1, <1>3, <1>4, <2>1, Growing
    \* The group had no communicator, and its workers have yet to open their connections.
    <2>4. groupComm[driver.g] = 0 /\ \A w \in comm[epoch] : Steps[epoch][w] \notin {4, 5}
      <3>1. groupComm[driver.g] = 0 /\ Steps[epoch][0] = 1
        BY <1>1, <2>1 DEF Driving, Course
      <3>2. \A w \in comm[epoch] : /\ w \in Workers /\ Steps[epoch][w] \in Nat
                                   /\ \/ 1 \in {Steps[epoch][w], Steps[epoch][w] + 1}
                                      \/ Steps[epoch][w] = 2
        BY <1>1, <1>3, <3>1, WhatThereIs DEF Driving, Members
      <3> QED
        BY <3>1, <3>2
    <2>5. \A g \in Groups : Serves'[g] = Serves[g]
      <3>1. SUFFICES ASSUME NEW g \in Groups PROVE Serves'[g] = Serves[g]
        OBVIOUS
      <3>2. CASE g = driver.g
        <4>1. Serves[g] = {}
          BY <2>4, <3>2 DEF Serves
        <4>2. groupComm'[g] = epoch /\ \A w \in comm[epoch] : w \in Workers
          BY <1>1, <1>3, <2>1, <3>2
        <4>3. Serves'[g] = {w \in comm[epoch] : Steps'[epoch][w] \in {4, 5}}
          BY <1>1, <1>3, <2>1, <4>2 DEF Serves
        <4> QED
          BY <1>3, <2>3, <2>4, <4>1, <4>2, <4>3
      <3>3. CASE g # driver.g
        <4>1. groupComm'[g] = groupComm[g]
          BY <1>1, <2>1, <3>3
        <4>2. \A e \in Epochs : {w \in comm[e] : Steps'[e][w] \in {4, 5}}
                                    = {w \in comm[e] : Steps[e][w] \in {4, 5}}
          BY <1>1, <2>3
        <4>3. groupComm[g] \in Epochs \cup {0}
          BY <1>1
        <4> QED
          BY <2>1, <4>1, <4>2, <4>3 DEF Serves
      <3> QED
        BY <3>2, <3>3
    <2>6. Serves' = Serves
      <3>1. Serves' = [g \in Groups |-> Serves'[g]] /\ Serves = [g \in Groups |-> Serves[g]]
        BY DEF Serves
      <3> QED
        BY <2>5, <3>1
    <2>7. \A f \in Epochs : Steps'[f][0] > 5 <=> Steps[f][0] > 5
      <3>1. Steps[epoch][0] = 1 /\ Steps'[epoch][0] = 1 + 1
        BY <1>1, <2>1, <2>3 DEF Driving, Course
      <3> QED
        BY <2>3, <3>1
    <2> QED
      BY <2>1, <2>2, <2>6, <2>7, Unseen
  <1>10. CASE ReadyGroup
    <2>1. PICK c \in {"PRINT", "OPEN", "GRID"} :
              /\ driver.at \in {"FORM", "PRINT", "OPEN"} /\ driver'.at = c /\ driver'.g = driver.g
              /\ Enter(epoch, 0, c) /\ UNCHANGED <<members, groupComm, comm, job>>
      BY <1>3, <1>10 DEF ReadyGroup, ReadyStep, Through, Command
    <2>2. Change' = Change
      BY <2>1, ChangeIs, ChangeWillBe
    <2>3. Steps[epoch][0] # 5
      BY <1>1, <2>1 DEF Driving, Course
    <2> QED
      BY <1>3, <1>4, <1>5, <2>1, <2>2, <2>3
  <1>11. CASE ReceiveGrid
    <2>1. driver.at = "GRID" /\ Met(epoch, Len(entered[epoch][0])) /\ groupComm[driver.g] = epoch
          /\ Steps[epoch][0] = 5 /\ UNCHANGED <<members, groupComm, comm, entered>>
      BY <1>1, <1>11 DEF ReceiveGrid, Through, Driving, Course, Crash, driverVars
    <2>2. \A w \in comm[epoch] : Steps[epoch][w] = 5
      BY <1>3, <2>1, AllCame
    <2>3. Serves[driver.g] = members[driver.g]
      <3>1. groupComm[driver.g] # 0
        BY <1>1, <1>3, <2>1
      <3> QED
        BY <1>3, <2>1, <2>2, <3>1 DEF Serves
    <2>4. UNCHANGED Serves /\ Worn' = Worn
      BY <2>1 DEF Serves, Steps, Worn
    <2>5. ServedBy = Serves /\ ServedBy' = Serves'
      BY ServedByWillBe
    <2>6. Change = [g |-> driver.g, phase |-> "start"]
      BY <2>1, ChangeIs
    <2>7. CASE {id \in comm[epoch] : id <= Cardinality(comm[epoch])} # comm[epoch]
      <3>1. Crash("bad_rank")
        BY <1>11, <2>7 DEF ReceiveGrid
      <3>2. members[driver.g] \in SUBSET Workers
        BY <1>1, <1>3, TypesAre
      <3>3. Lowest(members[driver.g]) =>
                members[driver.g] = 1 .. Cardinality(members[driver.g])
        BY <3>2, LowestAreFirst
      <3>4. \A w \in members[driver.g] : w \in 1 .. Cardinality(members[driver.g]) =>
                w <= Cardinality(members[driver.g])
        BY <1>1, <1>3, WorkersAreFinite
      <3>5. \E w \in members[driver.g], v \in Workers \ members[driver.g] : v < w
        <4>1. ~ Lowest(members[driver.g])
          BY <1>3, <2>7, <3>3, <3>4
        <4> QED
          BY <4>1 DEF Lowest
      <3>6. job' = "bad_rank" /\ driver' = driver
        BY <3>1 DEF Crash, driverVars
      <3>7. Change' = Change
        BY <3>6 DEF Change
      <3>8. Up /\ Up' = FALSE
        BY <1>2, <3>6 DEF Up
      <3> QED
        BY <2>1, <2>3, <2>4, <2>5, <2>6, <3>5, <3>7, <3>8 DEF Service!Next, Service!Fail
    <2>8. CASE {id \in comm[epoch] : id <= Cardinality(comm[epoch])} = comm[epoch]
      <3>1. driver' = Idle /\ UNCHANGED job
        BY <1>11, <2>8 DEF ReceiveGrid
      <3>2. Change' = [g |-> 0, phase |-> "none"]
        BY <3>1, ChangeWillBe DEF Idle
      <3> QED
        BY <1>2, <2>1, <2>3, <2>4, <2>5, <2>6, <3>1, <3>2
           DEF Service!Next, Service!Complete, Service!Still, Up
    <2> QED
      BY <2>7, <2>8
  <1> QED
    BY <1>6, <1>7, <1>8, <1>9, <1>10, <1>11 DEF DriverStep

-----------------------------------------------------------------------------
(* The workers' steps: only the two barriers that open and close their       *)
(* connections are seen, and the end of the job.                             *)
LEMMA NobodyEnters ==
    ASSUME Serve, Serve', UNCHANGED <<driverVars, entered, job>>
    PROVE  UNCHANGED Service!vars
  <1>1. UNCHANGED <<members, groupComm, comm, driver, job>> /\ UNCHANGED Steps
    BY DEF driverVars, Steps
  <1>2. Serves' = Serves
    BY <1>1, ServesStay DEF Serve, Inv
  <1>3. Change' = Change
    BY <1>1 DEF Change
  <1> QED
    BY <1>1, <1>2, <1>3, Unseen

(* A thread uses a handle that is null, or has been freed: it may end the    *)
(* job, once a group has been changed.                                       *)
Breaks == Worn' /\ job' \in {"null_comm", "freed_comm"}

LEMMA EndsWorn ==
    ASSUME Serve, Serve', Worn, job = "running", NEW error \in {"null_comm", "freed_comm"},
           Crash(error)
    PROVE  Service!Next /\ Breaks
  <1>1. UNCHANGED <<members, groupComm, comm, driver, entered>> /\ job' = error
    BY DEF Crash, driverVars
  <1>2. Worn' = Worn /\ Serves' = Serves /\ Change' = Change
    BY <1>1 DEF Worn, Serves, Steps, Change
  <1>3. ServedBy' = ServedBy /\ Up /\ Up' = FALSE
    BY <1>1, <1>2, ServedByWillBe DEF Up
  <1> QED
    BY <1>1, <1>2, <1>3 DEF Service!Next, Service!Break, Breaks

LEMMA EntersUnseen ==
    ASSUME Serve, Serve', UNCHANGED <<driverVars, job>>, NEW w \in Workers, NEW e \in Epochs,
           NEW what \in Labels, Enter(e, w, what), Steps[e][w] \notin {3, 5}
    PROVE  UNCHANGED Service!vars
  <1>1. UNCHANGED <<members, groupComm, comm, driver, job>> /\ TypeOK /\ Workers \subseteq Ranks
    BY Constants DEF driverVars, Serve, Inv
  <1>2. /\ Steps'[e][w] = Steps[e][w] + 1 /\ Steps[e][w] \in Nat
        /\ \A f \in Epochs, v \in Workers : f # e \/ v # w => Steps'[f][v] = Steps[f][v]
        /\ \A f \in Epochs : Steps'[f][0] = Steps[f][0]
    BY <1>1, Growing, WhatThereIs, Constants
  <1>3. Steps'[e][w] \in {4, 5} <=> Steps[e][w] \in {4, 5}
    BY <1>2
  <1>4. Serves' = Serves
    BY <1>1, <1>2, <1>3, ServesStay
  <1>5. Change' = Change
    BY <1>1 DEF Change
  <1> QED
    BY <1>1, <1>2, <1>4, <1>5, Unseen

LEMMA JoinGroupUnseen ==
    ASSUME Serve, Serve', NEW w \in Workers, WorldCommand(w) \/ JoinGroup(w)
    PROVE  UNCHANGED Service!vars
  <1>1. /\ Inv /\ TypeOK /\ sends[w] \in Seq(0 .. MaxEpochs) /\ "CREATE" \in Labels
        /\ UNCHANGED <<driverVars, job>>
    BY TypesAre DEF Serve, Inv, Labels, WorldCommand, JoinGroup
  <1>2. CASE WorldCommand(w)
    BY <1>1, <1>2, NobodyEnters DEF WorldCommand
  <1>3. CASE JoinGroup(w) /\ Head(sends[w]) = 0
    BY <1>1, <1>3, NobodyEnters DEF JoinGroup
  <1>4. CASE JoinGroup(w) /\ Head(sends[w]) # 0
    <2>1. PICK e \in Epochs : e = Head(sends[w])
      BY <1>1, <1>4, Taken, Constants DEF JoinGroup
    <2>2. Enter(e, w, "CREATE")
      BY <1>4, <2>1 DEF JoinGroup
    <2>3. 1 \in DOMAIN sends[w] /\ sends[w][1] = e
      BY <1>1, <1>4, <2>1, Taken DEF JoinGroup
    <2>4. e = epoch /\ entered[e][w] = <<>>
      BY <1>1, <1>4, <2>1, <2>3 DEF Inv, Details
    <2>5. Steps[e][w] = 0
      BY <1>1, <2>4, StepsAre, Constants
    <2> QED
      BY <1>1, <2>2, <2>5, EntersUnseen
  <1> QED
    BY <1>2, <1>3, <1>4

\* A worker makes its part of one group's communicators at a time.
Makes == {"PEERS", "AGAIN", "COPY", "GRID"}

LEMMA OneIsMade ==
    ASSUME Serve, NEW w \in Workers, NEW e \in Epochs, NEW f \in Epochs,
           loop[w][e].at \in Makes, loop[w][f].at \in Makes
    PROVE  e = f
  <1>1. ASSUME NEW x \in Epochs, loop[w][x].at \in Makes
        PROVE  Steps[x][w] \in 1 .. 6
    <2>1. Stands(x, Steps[x][w], Meetings[x][w], loop[w][x]) /\ Steps[x][w] \in Nat
      BY WhatThereIs DEF Serve, Inv, Following, Stage
    <2> QED
      BY <1>1, <2>1 DEF Stands, Makes
  <1> QED
    BY <1>1, OneLive DEF Serve

\* As long as no group that was ready has been changed, no handle has been freed, and each
\* is there when the communicators of the group are made.
Young ==
    ~ Worn =>
        \A w \in Workers :
            /\ gw[w].freed = {}
            /\ \A e \in Epochs :
                   /\ loop[w][e].at \in {"AGAIN", "COPY", "GRID"} => gw[w].group_peers = e
                   /\ loop[w][e].at = "GRID" => gw[w].El_group_peers = e

LEMMA FreesWhenWorn ==
    ASSUME Serve, NEW h \in handlers, h.cmd = "FREE"
    PROVE  Worn
  <1>1. PICK w \in Workers, e \in Epochs : w = h.w /\ e = h.via
    BY ThreadIs
  <1>2. /\ Begun(h, bcast[e][w], Steps[e][w], Steps[e][0], loop[w][e].at)
        /\ Works(h, Steps[e][w], Meetings[e][w], gw[w])
        /\ Steps[e][w] \in 0 .. 7 /\ Steps[e][0] \in 0 .. 7
    BY <1>1, ThreadIs
  <1>3. Steps[e][0] > 5
    <2>1. CASE h.at = "START"
      <3>1. Steps[e][0] \in 3 .. 7 /\ Script[Steps[e][0]] = "FREE"
        BY <1>2, <2>1 DEF Begun, Due
      <3>2. \A d \in 3 .. 7 : d \in {3, 4, 5, 6, 7}
        OBVIOUS
      <3>3. Steps[e][0] \in {3, 4, 5, 6, 7}
        BY <3>1, <3>2
      <3>4. Steps[e][0] = 7
        BY <3>1, <3>3, ScriptIs
      <3> QED
        BY <3>4
    <2>2. CASE h.at # "START"
      <3>1. Steps[e][w] = 7
        BY <1>2, <2>2 DEF Works
      <3>2. w \in comm[e] => \/ Steps[e][0] \in {Steps[e][w], Steps[e][w] + 1}
                               \/ (Steps[e][0] = 1 /\ Steps[e][w] = 2)
        BY DEF Serve, Driving, Members
      <3>3. w \notin comm[e] => Steps[e][w] = 0
        BY DEF Serve, Driving, Members
      <3> QED
        BY <1>2, <3>1, <3>2, <3>3
    <2> QED
      BY <2>1, <2>2
  <1> QED
    BY <1>3, WornIs

\* What a handle's misuse comes to.
LEMMA MisuseBreaks ==
    ASSUME Serve, Serve', Worn, job = "running", NEW w \in Workers, NEW c, Misuse(w, c)
    PROVE  Service!Next /\ Breaks
  BY EndsWorn DEF Misuse

LEMMA LoopImplements ==
    ASSUME Serve, Serve', Young, NEW w \in Workers, LoopStep(w)
    PROVE  UNCHANGED Service!vars \/ (Service!Next /\ Breaks)
  <1>1. /\ TypeOK /\ Following /\ "FORM" \in Labels
    BY DEF Serve, Inv, Labels
  <1>2. PICK e \in Epochs : SetGroupComm(w, e) \/ PeersStep(w, e) \/ Post(w, e) \/ GroupCommand(w, e)
    BY DEF LoopStep
  <1>3. /\ Stands(e, Steps[e][w], Meetings[e][w], loop[w][e])
        /\ Holds(e, Steps[e][w], loop[w][e].at, gw[w])
        /\ Steps[e][w] \in Nat /\ e # 0
    BY <1>1, WhatThereIs, Constants DEF Following, Stage, Held
  <1>4. CASE SetGroupComm(w, e)
    <2>1. Steps[e][w] = 1 /\ Enter(e, w, "FORM") /\ UNCHANGED <<driverVars, job>>
      BY <1>3, <1>4 DEF Stands, SetGroupComm
    <2> QED
      BY <1>1, <2>1, EntersUnseen
  <1>5. CASE PeersStep(w, e)
    <2>1. job = "running"
      BY <1>5 DEF PeersStep
    <2>2. CASE PeersMisuse(w, e)
      <3>1. loop[w][e].at \in {"AGAIN", "COPY", "GRID"}
        BY <2>2 DEF PeersMisuse
      <3>2. \/ Misuse(w, gw[w].group_peers)
            \/ loop[w][e].at = "GRID" /\ Misuse(w, gw[w].El_group_peers)
        BY <2>2 DEF PeersMisuse
      <3>3. Worn
        BY <1>3, <3>1, <3>2 DEF Young, Misuse
      <3> QED
        BY <2>1, <3>2, <3>3, MisuseBreaks
    <2>3. CASE ~ PeersMisuse(w, e)
      <3>1. UNCHANGED <<driverVars, entered, job>>
        BY <1>5, <2>3 DEF PeersStep, CreatePeers, SetPeers, MeetAgain, CopyPeers, MakeGrid
      <3> QED
        BY <3>1, NobodyEnters
    <2> QED
      BY <2>2, <2>3
  <1>6. CASE Post(w, e)
    <2>1. gw[w].group = e
      <3>1. CASE loop[w][e].at = "POST"
        BY <1>3, <3>1 DEF Holds
      <3>2. CASE loop[w][e].at = "READY"
        <4>1. Steps[e][w] = 2
          BY <1>3, <3>2 DEF Stands
        <4> QED
          BY <1>3, <4>1 DEF Holds, In
      <3> QED
        BY <1>6, <3>1, <3>2 DEF Post
    <2>2. UNCHANGED <<driverVars, entered, job>>
      BY <1>3, <1>6, <2>1 DEF Post
    <2> QED
      BY <2>2, NobodyEnters
  <1>7. CASE GroupCommand(w, e)
    BY <1>7, NobodyEnters DEF GroupCommand
  <1> QED
    BY <1>2, <1>4, <1>5, <1>6, <1>7

\* A thread that serves a command of the group finds all of it that it needs, up to what
\* it frees with its peers.
LEMMA ThreadImplements ==
    ASSUME Serve, Serve', job = "running", NEW h \in handlers,
           \/ SendGrid(h) \/ DropGrid(h) \/ FreeComm(h)
           \/ MeetPeers(h) \/ FreeElPeers(h) \/ FreePeers(h)
    PROVE  UNCHANGED Service!vars \/ (Service!Next /\ Breaks)
  <1>1. PICK w \in Workers, e \in Epochs : w = h.w /\ e = h.via
    BY ThreadIs
  <1>2. /\ Begun(h, bcast[e][w], Steps[e][w], Steps[e][0], loop[w][e].at)
        /\ Works(h, Steps[e][w], Meetings[e][w], gw[w])
        /\ Stands(e, Steps[e][w], Meetings[e][w], loop[w][e])
        /\ Holds(e, Steps[e][w], loop[w][e].at, gw[w])
        /\ Steps[e][w] \in 0 .. 7 /\ Steps[e][0] \in 0 .. 7 /\ e # 0
    BY <1>1, ThreadIs, Constants
  <1>3. "FREE" \in Labels
    BY DEF Labels, Commands
  <1>4. CASE SendGrid(h)
    <2>1. Steps[e][w] = 5
      BY <1>2, <1>4 DEF Works, SendGrid
    <2>2. gw[w].group = e /\ gw[w].grid = e
      BY <1>2, <2>1 DEF Stands, Holds, In
    <2>3. UNCHANGED <<driverVars, entered, job>>
      BY <1>1, <1>2, <1>4, <2>2 DEF SendGrid
    <2> QED
      BY <2>3, NobodyEnters
  <1>5. CASE DropGrid(h)
    <2>1. Steps[e][w] = 6
      <3>1. Due(Steps[e][w], Steps[e][0]) /\ h.cmd = Script[Steps[e][0]] /\ h.cmd = "FREE"
        BY <1>2, <1>5 DEF Begun, DropGrid
      <3>2. PICK d \in 3 .. 7 : d = Steps[e][0]
        BY <1>2, <3>1 DEF Due
      <3>3. d = 7
        <4>1. Script[d] = "FREE"
          BY <3>1, <3>2
        <4>2. d \in {3, 4, 5, 6, 7}
          OBVIOUS
        <4> QED
          BY <4>1, <4>2, ScriptIs
      <3> QED
        BY <1>2, <3>1, <3>2, <3>3 DEF Due
    <2>2. gw[w].group = e
      BY <1>2, <2>1 DEF Holds, In
    <2>3. Enter(e, w, "FREE") /\ UNCHANGED <<driverVars, job>>
      BY <1>1, <1>2, <1>5, <2>2 DEF DropGrid
    <2> QED
      BY <1>3, <2>1, <2>3, EntersUnseen
  <1>6. CASE FreeComm(h)
    <2>1. gw[w].group = e
      BY <1>1, <1>2, <1>6 DEF Works, FreeComm
    <2>2. UNCHANGED <<driverVars, entered, job>>
      BY <1>1, <1>2, <1>6, <2>1 DEF FreeComm
    <2> QED
      BY <2>2, NobodyEnters
  <1>7. CASE MeetPeers(h) \/ FreeElPeers(h) \/ FreePeers(h)
    <2>1. Worn
      BY <1>7, FreesWhenWorn DEF MeetPeers, FreeElPeers, FreePeers
    <2>2. CASE Misuse(w, gw[w].group_peers) \/ Misuse(w, gw[w].El_group_peers)
      BY <2>1, <2>2, MisuseBreaks
    <2>3. CASE ~ (Misuse(w, gw[w].group_peers) \/ Misuse(w, gw[w].El_group_peers))
      <3>1. UNCHANGED <<driverVars, entered, job>>
        BY <1>1, <1>7, <2>3 DEF MeetPeers, FreeElPeers, FreePeers
      <3> QED
        BY <3>1, NobodyEnters
    <2> QED
      BY <2>2, <2>3
  <1> QED
    BY <1>4, <1>5, <1>6, <1>7

\* Worker w of g's communicator e, and no other, begins or ends to serve.
LEMMA OneMoves ==
    ASSUME TypeOK, UNCHANGED <<groupComm, comm>>, NEW g \in Groups, NEW e \in Epochs,
           groupComm[g] = e, \A k \in Groups : k # g => groupComm[k] # e,
           NEW w \in comm[e],
           \A f \in Epochs, v \in Workers : f # e \/ v # w => Steps'[f][v] = Steps[f][v]
    PROVE  Serves' = [Serves EXCEPT ![g] = IF Steps'[e][w] \in {4, 5} THEN @ \cup {w} ELSE @ \ {w}]
  <1>1. /\ 0 \notin Epochs /\ \A f \in Epochs : comm[f] \subseteq Workers
        /\ \A k \in Groups : groupComm[k] \in Epochs \cup {0}
    BY WhatThereIs, TypesAre, Constants
  <1>2. /\ Serves[g] = {v \in comm[e] : Steps[e][v] \in {4, 5}}
        /\ Serves'[g] = {v \in comm[e] : Steps'[e][v] \in {4, 5}}
    BY <1>1 DEF Serves
  <1>3. Serves'[g] = IF Steps'[e][w] \in {4, 5} THEN Serves[g] \cup {w} ELSE Serves[g] \ {w}
    BY <1>1, <1>2
  <1>4. ASSUME NEW k \in Groups, k # g
        PROVE  Serves'[k] = Serves[k]
    <2>1. CASE groupComm[k] = 0
      BY <2>1 DEF Serves
    <2>2. CASE groupComm[k] # 0
      <3>1. PICK f \in Epochs : f = groupComm[k] /\ f # e
        BY <1>1, <1>4, <2>2
      <3>2. /\ Serves[k] = {v \in comm[f] : Steps[f][v] \in {4, 5}}
            /\ Serves'[k] = {v \in comm[f] : Steps'[f][v] \in {4, 5}}
        BY <2>2, <3>1 DEF Serves
      <3> QED
        BY <1>1, <3>1, <3>2
    <2> QED
      BY <2>1, <2>2
  <1>5. Serves = [k \in Groups |-> Serves[k]] /\ Serves' = [k \in Groups |-> Serves'[k]]
    BY DEF Serves
  <1> QED
    BY <1>3, <1>4, <1>5

(* A thread enters a barrier of the group: with OPEN its worker starts, with *)
(* CLOSE it stops.                                                           *)
LEMMA BarrierImplements ==
    ASSUME Serve, Serve', job = "running", NEW h \in handlers, EnterGroupBarrier(h)
    PROVE  UNCHANGED job /\ (Service!Next \/ UNCHANGED Service!vars)
  <1>1. PICK w \in Workers, e \in Epochs : w = h.w /\ e = h.via
    BY ThreadIs
  <1>2. /\ Inv /\ TypeOK /\ Driving /\ driver \in Drivers /\ 0 \notin Epochs /\ 0 \notin Groups
        /\ w \in Ranks /\ h.at = "START" /\ h.cmd \in {"CLOSE", "PRINT", "OPEN", "GRID"}
        /\ h.cmd \in Labels
    BY TypesAre, Constants, LifecycleAssumption DEF Serve, Inv, EnterGroupBarrier, Labels, Commands
  <1>3. /\ Begun(h, bcast[e][w], Steps[e][w], Steps[e][0], loop[w][e].at)
        /\ Holds(e, Steps[e][w], loop[w][e].at, gw[w])
        /\ Steps[e][w] \in 0 .. 7 /\ Steps[e][0] \in 0 .. 7
    BY <1>1, ThreadIs
  <1>4. PICK n \in 2 .. 5 : n = Steps[e][w] /\ Steps[e][0] = n + 1 /\ h.cmd = Script[n + 1]
    <2>1. Due(Steps[e][w], Steps[e][0]) /\ h.cmd = Script[Steps[e][0]]
      BY <1>2, <1>3 DEF Begun
    <2>2. Steps[e][0] # 7
      BY <1>2, <2>1, ScriptIs
    <2> QED
      BY <1>3, <2>1, <2>2 DEF Due
  <1>5. gw[w].group = e
    BY <1>3, <1>4 DEF Holds, In
  <1>6. Enter(e, w, h.cmd) /\ UNCHANGED <<driverVars, job>>
    BY <1>1, <1>2, <1>5 DEF EnterGroupBarrier
  <1>7. UNCHANGED <<members, groupComm, comm, driver>>
    BY <1>6 DEF driverVars
  <1>8. /\ Steps'[e][w] = n + 1
        /\ \A f \in Epochs, v \in Workers : f # e \/ v # w => Steps'[f][v] = Steps[f][v]
    BY <1>2, <1>4, <1>6, Growing, Constants
  \* It is the group that the driver is at work for.
  <1>9. /\ w \in comm[e] /\ driver.g \in Groups /\ groupComm[driver.g] = e
        /\ driver.at \in {"NEW", "CREATE", "FORM"} \cup Commands
    <2>1. ~ (e = epoch /\ driver.at = "CREATE")
      BY <1>2, <1>4 DEF Driving, Course
    <2>2. w \in comm[e] /\ \E g \in Groups : groupComm[g] = e
      BY <1>2, <1>4, <2>1, Live
    <2>3. PICK g \in Groups : groupComm[g] = e
      BY <2>2
    <2>4. g = driver.g
      BY <1>2, <1>4, <2>2, <2>3 DEF Driving, Settled
    <2> QED
      BY <1>2, <2>2, <2>3, <2>4 DEF Drivers, Inv, AtWork
  <1>10. \A k \in Groups : k # driver.g => groupComm[k] # e
    BY <1>2, <1>9, OnesOwn
  <1>11. Serves' = [Serves EXCEPT ![driver.g] =
                       IF Steps'[e][w] \in {4, 5} THEN @ \cup {w} ELSE @ \ {w}]
    <2>1. PICK g \in Groups : g = driver.g
      BY <1>9
    <2>2. /\ UNCHANGED groupComm /\ UNCHANGED comm /\ groupComm[g] = e
          /\ \A k \in Groups : k # g => groupComm[k] # e
      BY <1>7, <1>9, <1>10, <2>1
    <2>3. PICK v \in comm[e] : v = w
      BY <1>9
    <2>4. \A f \in Epochs, u \in Workers : f # e \/ u # v => Steps'[f][u] = Steps[f][u]
      BY <1>8, <2>3
    <2>5. Serves' = [Serves EXCEPT ![g] = IF Steps'[e][v] \in {4, 5} THEN @ \cup {v} ELSE @ \ {v}]
      BY <1>2, <2>2, <2>4, OneMoves
    <2> QED
      BY <2>1, <2>3, <2>5
  <1>12. Serves[driver.g] = {v \in comm[e] : Steps[e][v] \in {4, 5}}
    BY <1>2, <1>9 DEF Serves
  <1>13. /\ ServedBy = Serves /\ ServedBy' = Serves' /\ Change' = Change /\ Up' = Up /\ Up
         /\ Worn' = Worn
    <2>1. \A f \in Epochs : Steps'[f][0] = Steps[f][0]
      BY <1>1, <1>2, <1>6, Growing, Constants
    <2> QED
      BY <1>6, <1>7, <2>1, ServedByWillBe, WornStays DEF Change, Up
  <1>14. CASE n \in {2, 4}
    BY <1>2, <1>4, <1>6, <1>14, EntersUnseen
  <1>15. CASE n = 3
    <2>1. driver.at = "OPEN"
      BY <1>2, <1>4, <1>9, <1>15 DEF Driving, Course, Commands
    <2>2. Change.phase = "start" /\ Change.g = driver.g
      BY <2>1, ChangeIs
    <2>3. e = epoch /\ comm[epoch] = members[driver.g]
      BY <1>2, <1>9, <2>1 DEF Driving, Course, Inv, AtWork
    <2>4. w \in members[driver.g] \ Serves[driver.g]
      <3>1. w \notin {v \in comm[e] : Steps[e][v] \in {4, 5}}
        <4>1. Steps[e][w] = 3
          BY <1>4, <1>15
        <4> QED
          BY <4>1
      <3> QED
        BY <1>9, <1>12, <2>3, <3>1
    <2>5. Serves' = [Serves EXCEPT ![driver.g] = @ \cup {w}]
      BY <1>8, <1>11, <1>15
    <2>6. Service!Start(w)
      BY <1>7, <1>13, <2>2, <2>4, <2>5 DEF Service!Start
    <2> QED
      BY <1>6, <1>13, <2>6 DEF Service!Next
  <1>16. CASE n = 5
    <2>1. driver.at = "CLOSE"
      BY <1>2, <1>4, <1>9, <1>16 DEF Driving, Course, Commands
    <2>2. Change.phase = "stop" /\ Change.g = driver.g
      BY <2>1, ChangeIs
    <2>3. w \in Serves[driver.g]
      BY <1>4, <1>9, <1>12, <1>16
    <2>4. Serves' = [Serves EXCEPT ![driver.g] = @ \ {w}]
      BY <1>8, <1>11, <1>16
    <2>5. Service!Stop(w)
      BY <1>7, <1>13, <2>2, <2>3, <2>4 DEF Service!Stop
    <2> QED
      BY <1>6, <1>13, <2>5 DEF Service!Next
  <1> QED
    BY <1>6, <1>14, <1>15, <1>16

(* allocate_workers or deallocate_workers begins a change.                   *)
LEMMA RegroupImplements ==
    ASSUME Serve, Serve', NEW g \in Groups, NEW S \in SUBSET Workers, Regroup(g, S)
    PROVE  Service!Next
  <1>1. /\ Inv /\ TypeOK /\ Driving /\ driver.at = "IDLE" /\ driver.g = 0 /\ job = "running"
        /\ 0 \notin Epochs /\ 0 \in Ranks /\ "CLOSE" \in Labels /\ epoch \in Nat
        /\ Lease!Grant(g, S) \/ Lease!Return(g, S)
        /\ epoch < MaxEpochs /\ comm' = [comm EXCEPT ![epoch + 1] = members'[g]]
        /\ driver' = [at |-> IF groupComm[g] = 0 THEN "NEW" ELSE "CLOSE", g |-> g]
        /\ IF groupComm[g] = 0 THEN UNCHANGED entered ELSE Enter(groupComm[g], 0, "CLOSE")
        /\ UNCHANGED <<groupComm, job>>
    BY Constants, TypesAre, LifecycleAssumption
       DEF Serve, Inv, AtWork, Regroup, Command, Labels, Commands
  <1>2. \A k \in Groups : groupComm[k] # epoch + 1 /\ groupComm[k] \in Epochs \cup {0}
    <2>1. Unborn(epoch + 1)
      BY <1>1 DEF Unborn
    <2>2. epoch + 1 # 0
      BY <1>1
    <2> QED
      BY <1>1, <2>1, <2>2, TypesAre, Constants DEF Inv, Fresh
  <1>3. \A k \in Groups : groupComm[k] # 0 => comm'[groupComm[k]] = comm[groupComm[k]]
    BY <1>1, <1>2, TypesAre
  <1>4. \A f \in Epochs, w \in Workers : Steps'[f][w] = Steps[f][w]
    <2>1. CASE groupComm[g] = 0
      BY <1>1, <2>1 DEF Steps
    <2>2. CASE groupComm[g] # 0
      <3>1. PICK e \in Epochs : e = groupComm[g]
        BY <1>2, <2>2
      <3> QED
        BY <1>1, <2>2, <3>1, Growing, Constants
    <2> QED
      BY <2>1, <2>2
  <1>5. Serves' = Serves
    BY <1>1, <1>3, <1>4, ServesStay
  <1>6. ServedBy = Serves /\ ServedBy' = Serves' /\ Up' = Up /\ Up
    BY <1>1, ServedByWillBe DEF Up
  <1>7. Change = Service!Still
    BY <1>1, ChangeIs DEF Service!Still
  <1>8. Service!Lease!Grant(g, S) \/ Service!Lease!Return(g, S)
    BY <1>1 DEF Lease!Grant, Lease!Return, Lease!Free,
                Service!Lease!Grant, Service!Lease!Return, Service!Lease!Free
  <1>9. \E phase \in {"stop", "start"} :
            /\ phase = "start" => Serves[g] = {}
            /\ Change' = [g |-> g, phase |-> phase]
            /\ Worn' = (Worn \/ phase = "stop")
    <2>1. CASE groupComm[g] = 0
      <3>1. Serves[g] = {}
        BY <2>1 DEF Serves
      <3>2. driver'.at = "NEW" /\ driver'.g = g
        BY <1>1, <2>1
      <3>3. Change' = [g |-> g, phase |-> "start"]
        BY <3>2, ChangeWillBe
      <3>4. Worn' = Worn
        BY <1>1, <2>1 DEF Worn
      <3>5. Worn' = (Worn \/ "start" = "stop")
        BY <3>4, WornIs
      <3> QED
        BY <3>1, <3>3, <3>5
    <2>2. CASE groupComm[g] # 0
      <3>1. driver'.at = "CLOSE" /\ driver'.g = g
        BY <1>1, <2>2
      <3>2. Change' = [g |-> g, phase |-> "stop"]
        BY <3>1, ChangeWillBe
      <3>3. PICK e \in Epochs : e = groupComm[g]
        BY <1>2, <2>2
      <3>4. g # driver.g
        BY <1>1, LifecycleAssumption
      <3>5. Steps[e][0] = 5
        BY <1>1, <2>2, <3>3, <3>4 DEF Driving, Settled
      <3>6. Steps'[e][0] = Steps[e][0] + 1
        BY <1>1, <2>2, <3>3, Growing
      <3>7. Worn'
        BY <3>5, <3>6, WornIs
      <3>8. Worn' = (Worn \/ "stop" = "stop")
        BY <3>7, WornIs
      <3> QED
        BY <3>2, <3>8
    <2> QED
      BY <2>1, <2>2
  <1>10. Service!Begin(g, S)
    BY <1>5, <1>6, <1>7, <1>8, <1>9 DEF Service!Begin
  <1> QED
    BY <1>6, <1>10 DEF Service!Next

-----------------------------------------------------------------------------
LEMMA WorkersImplement ==
    ASSUME Serve, Serve', Young, NEW w \in Workers,
           WorldCommand(w) \/ JoinGroup(w) \/ LoopStep(w) \/ HandlerStep(w)
    PROVE  /\ Service!Next \/ UNCHANGED Service!vars
           /\ Breaks \/ UNCHANGED job
  <1>1. job = "running"
    BY DEF WorldCommand, JoinGroup, LoopStep, SetGroupComm, PeersStep, Post, GroupCommand,
           HandlerStep
  <1>2. UNCHANGED Service!vars => UNCHANGED job
    BY <1>1 DEF Service!vars, Up
  <1>3. CASE WorldCommand(w) \/ JoinGroup(w)
    BY <1>2, <1>3, JoinGroupUnseen
  <1>4. CASE LoopStep(w)
    BY <1>2, <1>4, LoopImplements
  <1>5. CASE HandlerStep(w)
    <2>1. PICK h \in handlers : \/ EnterGroupBarrier(h) \/ SendGrid(h) \/ DropGrid(h)
                                \/ FreeComm(h) \/ MeetPeers(h) \/ FreeElPeers(h) \/ FreePeers(h)
      BY <1>5 DEF HandlerStep
    <2>2. CASE EnterGroupBarrier(h)
      BY <1>1, <2>2, BarrierImplements
    <2>3. CASE ~ EnterGroupBarrier(h)
      BY <1>1, <1>2, <2>1, <2>3, ThreadImplements
    <2> QED
      BY <2>2, <2>3
  <1> QED
    BY <1>3, <1>4, <1>5

LEMMA StepImplements ==
    ASSUME Serve, Serve', Young, [Next]_vars
    PROVE  Service!Next \/ UNCHANGED Service!vars
  <1>1. CASE UNCHANGED vars
    BY <1>1, NobodyEnters DEF vars
  <1>2. ASSUME NEW g \in Groups, NEW S \in SUBSET Workers, Regroup(g, S)
        PROVE  Service!Next
    BY <1>2, RegroupImplements
  <1> QED
    BY <1>1, <1>2, DriverImplements, WorkersImplement DEF Next

LEMMA WornForGood ==
    ASSUME Serve, Serve', Young, [Next]_vars, Worn
    PROVE  Worn'
  <1>1. CASE UNCHANGED Service!vars
    BY <1>1 DEF Service!vars
  <1>2. CASE Service!Next
    BY <1>2 DEF Service!Next, Service!Begin, Service!Stop, Service!Start, Service!AllStopped,
                Service!Complete, Service!Fail, Service!Break
  <1> QED
    BY <1>1, <1>2, StepImplements

(* Until then the handles change only when a group's communicators are made. *)
LEMMA YoungOn ==
    ASSUME Serve, Serve', Young, [Next]_vars
    PROVE  Young'
  <1>1. SUFFICES ASSUME ~ Worn', NEW v \in Workers
                 PROVE  /\ gw'[v].freed = {}
                        /\ \A f \in Epochs :
                               /\ loop'[v][f].at \in {"AGAIN", "COPY", "GRID"} =>
                                      gw'[v].group_peers = f
                               /\ loop'[v][f].at = "GRID" => gw'[v].El_group_peers = f
    BY DEF Young
  <1>2. ~ Worn
    BY <1>1, WornForGood
  <1>3. /\ TypeOK /\ loop \in [Workers -> [Epochs -> Loops]] /\ gw \in [Workers -> GroupWorkers]
    BY TypesAre DEF Serve, Inv
  \* What the worker has had so far.
  <1>4. /\ gw[v].freed = {}
        /\ \A f \in Epochs :
               /\ loop[v][f].at \in {"AGAIN", "COPY", "GRID"} => gw[v].group_peers = f
               /\ loop[v][f].at = "GRID" => gw[v].El_group_peers = f
    BY <1>2 DEF Young
  <1>5. ASSUME gw'[v].freed = gw[v].freed, gw'[v].group_peers = gw[v].group_peers,
               gw'[v].El_group_peers = gw[v].El_group_peers,
               \A f \in Epochs : \/ loop'[v][f].at = loop[v][f].at
                                  \/ loop'[v][f].at \notin {"AGAIN", "COPY", "GRID"}
        PROVE  /\ gw'[v].freed = {}
               /\ \A f \in Epochs :
                      /\ loop'[v][f].at \in {"AGAIN", "COPY", "GRID"} => gw'[v].group_peers = f
                      /\ loop'[v][f].at = "GRID" => gw'[v].El_group_peers = f
    BY <1>4, <1>5
  <1>6. CASE UNCHANGED <<loop, gw>>
    BY <1>5, <1>6
  <1>7. CASE DriverStep
    BY <1>6, <1>7 DEF DriverStep, SendFree, DropComm, Announce, SetDriverComm, ReadyGroup,
                      ReadyStep, ReceiveGrid, Crash
  <1>8. CASE \E g \in Groups, S \in SUBSET Workers : Regroup(g, S)
    BY <1>6, <1>8 DEF Regroup
  <1>9. ASSUME NEW w \in Workers, WorldCommand(w) \/ JoinGroup(w)
        PROVE  /\ gw'[v].freed = gw[v].freed /\ gw'[v].group_peers = gw[v].group_peers
               /\ gw'[v].El_group_peers = gw[v].El_group_peers
               /\ \A f \in Epochs : \/ loop'[v][f].at = loop[v][f].at
                                     \/ loop'[v][f].at \notin {"AGAIN", "COPY", "GRID"}
    <2>1. CASE UNCHANGED <<loop, gw>>
      BY <2>1
    <2>2. CASE ~ UNCHANGED <<loop, gw>>
      <3>1. PICK e, p : /\ gw' = [gw EXCEPT ![w].primary = p]
                        /\ loop' = [loop EXCEPT ![w][e].at = "CREATE"]
        <4>1. PICK p : p = IF gw[w].primary = "UNSET"
                           THEN (IF \A u \in comm[Head(sends[w])] : w <= u THEN "YES" ELSE "NO")
                           ELSE gw[w].primary
          OBVIOUS
        <4>2. gw' = [gw EXCEPT ![w].primary = p]
          BY <1>3, <1>9, <2>2, <4>1 DEF WorldCommand, JoinGroup, GroupWorkers
        <4>3. loop' = [loop EXCEPT ![w][Head(sends[w])].at = "CREATE"]
          BY <1>9, <2>2 DEF WorldCommand, JoinGroup
        <4> QED
          BY <4>2, <4>3
      <3> QED
        BY <1>3, <3>1 DEF GroupWorkers, Loops
    <2> QED
      BY <2>1, <2>2
  <1>10. ASSUME NEW w \in Workers, NEW e \in Epochs, SetGroupComm(w, e)
         PROVE  /\ gw'[v].freed = gw[v].freed /\ gw'[v].group_peers = gw[v].group_peers
                /\ gw'[v].El_group_peers = gw[v].El_group_peers
                /\ \A f \in Epochs : \/ loop'[v][f].at = loop[v][f].at
                                      \/ loop'[v][f].at \notin {"AGAIN", "COPY", "GRID"}
    BY <1>3, <1>10 DEF SetGroupComm, GroupWorkers, Loops
  <1>11. ASSUME NEW w \in Workers, NEW e \in Epochs, Post(w, e) \/ GroupCommand(w, e)
         PROVE  /\ UNCHANGED gw
                /\ \A f \in Epochs : \/ loop'[v][f].at = loop[v][f].at
                                      \/ loop'[v][f].at \notin {"AGAIN", "COPY", "GRID"}
    <2>1. CASE UNCHANGED <<loop, gw>>
      BY <2>1
    <2>2. CASE ~ UNCHANGED <<loop, gw>>
      <3>1. UNCHANGED gw
        BY <1>11, <2>2 DEF Post, GroupCommand, Crash
      <3>2. ASSUME NEW l, l.at \in {"WAIT", "POST"}, loop' = [loop EXCEPT ![w][e] = l]
            PROVE  \A f \in Epochs : \/ loop'[v][f].at = loop[v][f].at
                                     \/ loop'[v][f].at \notin {"AGAIN", "COPY", "GRID"}
        BY <1>3, <3>2
      <3>3. CASE Post(w, e)
        <4>1. PICK l : l = [at |-> "WAIT", on |-> gw[w].group]
          OBVIOUS
        <4>2. l.at = "WAIT" /\ loop' = [loop EXCEPT ![w][e] = l]
          BY <2>2, <3>3, <4>1 DEF Post, Crash
        <4> QED
          BY <3>1, <3>2, <4>2
      <3>4. CASE GroupCommand(w, e)
        <4>1. PICK l : l = [at |-> "POST", on |-> 0]
          OBVIOUS
        <4>2. l.at = "POST" /\ loop' = [loop EXCEPT ![w][e] = l]
          BY <3>4, <4>1 DEF GroupCommand
        <4> QED
          BY <3>1, <3>2, <4>2
      <3> QED
        BY <1>11, <3>3, <3>4
    <2> QED
      BY <2>1, <2>2
  <1>12. ASSUME NEW w \in Workers, NEW e \in Epochs, PeersStep(w, e), ~ UNCHANGED <<loop, gw>>
         PROVE  /\ gw'[v].freed = {}
                /\ \A f \in Epochs :
                       /\ loop'[v][f].at \in {"AGAIN", "COPY", "GRID"} => gw'[v].group_peers = f
                       /\ loop'[v][f].at = "GRID" => gw'[v].El_group_peers = f
    <2>1. \/ CreatePeers(w, e) \/ SetPeers(w, e) \/ MeetAgain(w, e)
          \/ CopyPeers(w, e) \/ MakeGrid(w, e)
      BY <1>12 DEF PeersStep, PeersMisuse, Misuse, Crash
    <2> DEFINE GoesTo(at) == loop' = [loop EXCEPT ![w][e].at = at]
    <2>5. ASSUME NEW at, GoesTo(at)
          PROVE  /\ \A f \in Epochs : v # w \/ f # e => loop'[v][f] = loop[v][f]
                 /\ v = w => loop'[v][e].at = at
      BY <1>3, <2>5 DEF Loops
    <2>2. CASE CreatePeers(w, e) \/ MakeGrid(w, e)
      <3>1. /\ gw'[v].freed = gw[v].freed /\ gw'[v].group_peers = gw[v].group_peers
            /\ gw'[v].El_group_peers = gw[v].El_group_peers
        BY <1>3, <2>2 DEF CreatePeers, MakeGrid, GroupWorkers
      <3>2. \A f \in Epochs : \/ loop'[v][f].at = loop[v][f].at
                               \/ loop'[v][f].at \notin {"AGAIN", "COPY", "GRID"}
        <4>1. GoesTo("PEERS") \/ GoesTo("READY")
          BY <2>2 DEF CreatePeers, MakeGrid
        <4> HIDE DEF GoesTo
        <4> QED
          BY <2>5, <4>1
      <3> QED
        BY <1>5, <3>1, <3>2
    <2>3. CASE v # w
      <3>1. gw'[v] = gw[v] /\ loop'[v] = loop[v]
        BY <1>3, <2>1, <2>3 DEF CreatePeers, SetPeers, MeetAgain, CopyPeers, MakeGrid
      <3> QED
        BY <1>5, <3>1
    <2>4. CASE v = w /\ (SetPeers(w, e) \/ MeetAgain(w, e) \/ CopyPeers(w, e))
      <3>1. loop[v][e].at \in Makes
        BY <2>4 DEF SetPeers, MeetAgain, CopyPeers, Makes
      <3>2. \A f \in Epochs : f # e => loop[v][f].at \notin Makes
        BY <3>1, OneIsMade
      <3>3. \A f \in Epochs : f # e => loop'[v][f] = loop[v][f]
        <4>1. GoesTo("AGAIN") \/ GoesTo("COPY") \/ GoesTo("GRID")
          BY <2>4 DEF SetPeers, MeetAgain, CopyPeers
        <4> HIDE DEF GoesTo
        <4> QED
          BY <2>5, <4>1
      <3>4. gw'[v].freed = {}
        <4>1. CASE SetPeers(w, e)
          BY <1>3, <1>4, <4>1 DEF SetPeers, GroupWorkers
        <4>2. CASE MeetAgain(w, e)
          BY <1>4, <4>2 DEF MeetAgain
        <4>3. CASE CopyPeers(w, e)
          BY <1>3, <1>4, <4>3 DEF CopyPeers, GroupWorkers
        <4> QED
          BY <2>4, <4>1, <4>2, <4>3
      <3>5. /\ gw'[v].group_peers = e
            /\ loop'[v][e].at = "GRID" => gw'[v].El_group_peers = e
        <4>1. CASE SetPeers(w, e)
          BY <1>3, <2>4, <4>1 DEF SetPeers, GroupWorkers, Loops
        <4>2. CASE MeetAgain(w, e)
          BY <1>3, <1>4, <2>4, <4>2 DEF MeetAgain, Loops
        <4>3. CASE CopyPeers(w, e)
          BY <1>3, <1>4, <2>4, <4>3 DEF CopyPeers, GroupWorkers
        <4> QED
          BY <2>4, <4>1, <4>2, <4>3
      <3> QED
        BY <3>2, <3>3, <3>4, <3>5 DEF Makes
    <2> QED
      BY <2>1, <2>2, <2>3, <2>4
  <1>13. ASSUME NEW h \in handlers, \/ EnterGroupBarrier(h) \/ SendGrid(h) \/ DropGrid(h)
                                    \/ FreeComm(h) \/ MeetPeers(h) \/ FreeElPeers(h) \/ FreePeers(h)
         PROVE  /\ UNCHANGED loop /\ gw'[v].freed = gw[v].freed
                /\ gw'[v].group_peers = gw[v].group_peers
                /\ gw'[v].El_group_peers = gw[v].El_group_peers
    <2>1. h.cmd # "FREE"
      BY <1>2, FreesWhenWorn
    <2>2. CASE EnterGroupBarrier(h)
      <3>1. UNCHANGED loop
        BY <2>2 DEF EnterGroupBarrier, Crash
      <3>2. CASE UNCHANGED gw
        BY <3>1, <3>2
      <3>3. CASE ~ UNCHANGED gw
        <4>1. PICK c : gw' = [gw EXCEPT ![h.w].connection_open = c]
          <5>1. PICK c : c = IF h.cmd = "CLOSE" THEN FALSE
                             ELSE IF h.cmd = "OPEN" THEN TRUE ELSE gw[h.w].connection_open
            OBVIOUS
          <5>2. h.w \in Workers
            BY ThreadIs
          <5>3. gw' = [gw EXCEPT ![h.w].connection_open = c]
            BY <1>3, <2>2, <3>3, <5>1, <5>2 DEF EnterGroupBarrier, Crash, GroupWorkers
          <5> QED
            BY <5>3
        <4> QED
          BY <1>3, <3>1, <4>1 DEF GroupWorkers
      <3> QED
        BY <3>2, <3>3
    <2>3. CASE SendGrid(h)
      BY <2>3 DEF SendGrid, Crash
    <2> QED
      BY <1>13, <2>1, <2>2, <2>3 DEF DropGrid, FreeComm, MeetPeers, FreeElPeers, FreePeers
  <1>14. CASE UNCHANGED vars
    BY <1>6, <1>14 DEF vars
  <1>15. ASSUME NEW w \in Workers, LoopStep(w)
         PROVE  /\ gw'[v].freed = {}
                /\ \A f \in Epochs :
                       /\ loop'[v][f].at \in {"AGAIN", "COPY", "GRID"} => gw'[v].group_peers = f
                       /\ loop'[v][f].at = "GRID" => gw'[v].El_group_peers = f
    <2>1. PICK e \in Epochs : \/ SetGroupComm(w, e) \/ PeersStep(w, e)
                              \/ Post(w, e) \/ GroupCommand(w, e)
      BY <1>15 DEF LoopStep
    <2> QED
      BY <1>5, <1>6, <1>10, <1>11, <1>12, <2>1
  <1>16. ASSUME NEW w \in Workers, HandlerStep(w)
         PROVE  /\ UNCHANGED loop /\ gw'[v].freed = gw[v].freed
                /\ gw'[v].group_peers = gw[v].group_peers
                /\ gw'[v].El_group_peers = gw[v].El_group_peers
    BY <1>13, <1>16 DEF HandlerStep
  <1> QED
    BY <1>5, <1>7, <1>8, <1>9, <1>14, <1>15, <1>16 DEF Next

LEMMA InitImplements == Init => Service!Init
  <1>1. SUFFICES ASSUME Init
                 PROVE  Service!Init
    OBVIOUS
  <1>2. Change = [g |-> 0, phase |-> "none"]
    BY <1>1, ChangeIs DEF Init, Idle
  <1>3. ServedBy = [g \in Groups |-> {}]
    BY <1>1 DEF Init, ServedBy
  <1>4. Worn = FALSE
    <2>1. 0 \in Ranks
      BY Constants
    <2>2. \A e \in Epochs : Len(entered[e][0]) = 0
      BY <1>1, <2>1, EmptySeq DEF Init
    <2> QED
      BY <2>2 DEF Worn
  <1> QED
    BY <1>1, <1>2, <1>3, <1>4 DEF Init, Service!Init, Service!Still, Up

LEMMA YoungAlways ==
    ASSUME Orderly
    PROVE  Spec => [](Serve /\ Young)
  <1>1. Init => Young
    BY DEF Init, Young
  <1>2. Serve /\ Serve' /\ Young /\ [Next]_vars => Young'
    BY YoungOn
  <1> QED
    BY <1>1, <1>2, ServesAlways, PTL DEF Spec

(* Driver and workers together do what GroupService says: whatever their     *)
(* messages, barriers and threads do in between, a change of a group stops   *)
(* every worker that serves it, then starts just those it has now, and is    *)
(* answered then; no other group notices; and the job ends only for workers  *)
(* that are not the lowest, or once a group that was served has been changed *)
(* or given back.                                                            *)
THEOREM ImplementsService ==
    ASSUME Orderly
    PROVE  Spec => Service!Init /\ [][Service!Next]_(Service!vars)
  <1>1. Serve /\ Serve' /\ Young /\ [Next]_vars => [Service!Next]_(Service!vars)
    BY StepImplements
  <1> QED
    BY <1>1, YoungAlways, InitImplements, PTL DEF Spec

(* What ends the job: the driver, when it takes the workers' IDs for their   *)
(* ranks; or a handle of the peers' communicator that is null or has been    *)
(* freed, which no thread uses before a group that was served is changed.    *)
(* No thread ever finds `group` or `grid` gone under it.                     *)
WhyItEnded ==
    job # "running" => job = "bad_rank" \/ (job \in {"null_comm", "freed_comm"} /\ Worn)

THEOREM EndsAreExplained ==
    ASSUME Orderly
    PROVE  Spec => []WhyItEnded
  <1>1. Init => WhyItEnded
    BY DEF Init, WhyItEnded
  <1>2. Serve /\ Serve' /\ Young /\ WhyItEnded /\ [Next]_vars => WhyItEnded'
    <2>1. SUFFICES ASSUME Serve, Serve', Young, WhyItEnded, [Next]_vars
                   PROVE  WhyItEnded'
      OBVIOUS
    <2>2. CASE UNCHANGED job
      BY <2>1, <2>2, WornForGood DEF WhyItEnded
    <2>3. ASSUME NEW g \in Groups, NEW S \in SUBSET Workers, Regroup(g, S)
          PROVE  UNCHANGED job
      BY <2>3 DEF Regroup
    <2>4. CASE DriverStep
      <3>1. UNCHANGED job \/ job' = "bad_rank"
        BY <2>4 DEF DriverStep, SendFree, DropComm, Announce, SetDriverComm, ReadyGroup,
                    ReadyStep, ReceiveGrid, Crash
      <3> QED
        BY <2>2, <3>1 DEF WhyItEnded
    <2>5. ASSUME NEW w \in Workers,
                 WorldCommand(w) \/ JoinGroup(w) \/ LoopStep(w) \/ HandlerStep(w)
          PROVE  WhyItEnded'
      <3>1. Breaks \/ UNCHANGED job
        BY <2>1, <2>5, WorkersImplement
      <3> QED
        BY <2>2, <3>1 DEF Breaks, WhyItEnded
    <2> QED
      BY <2>1, <2>2, <2>3, <2>4, <2>5 DEF Next, vars
  <1> QED
    BY <1>1, <1>2, YoungAlways, PTL DEF Spec

(* No worker ever serves two groups, nor one while another one has already   *)
(* been granted it, seen in the state of the threads themselves; and a group *)
(* that is not being changed is served by its workers and no others.         *)
THEOREM ServesOneGroup ==
    ASSUME Orderly
    PROVE  Spec => [](Service!NeverShared /\ Service!Whole)
  <1>1. Serve => Service!NeverShared /\ Service!Whole
    <2>1. SUFFICES ASSUME Serve
                   PROVE  Service!NeverShared /\ Service!Whole
      OBVIOUS
    <2>2. /\ TypeOK /\ Inv /\ Driving /\ ServedBy = Serves /\ 0 \notin Epochs
          /\ \A g \in Groups : members[g] \subseteq Workers /\ groupComm[g] \in Epochs \cup {0}
      BY <2>1, ServedByIs, TypesAre, Constants DEF Serve, Inv
    \* Whoever serves is in the communicator of the group.
    <2>3. \A g \in Groups : /\ groupComm[g] = 0 => Serves[g] = {}
                            /\ groupComm[g] # 0 => Serves[g] \subseteq comm[groupComm[g]]
      BY DEF Serves
    <2>4. \A g \in Groups : g # driver.g => Serves[g] = members[g]
      <3>1. SUFFICES ASSUME NEW g \in Groups, g # driver.g
                     PROVE  Serves[g] = members[g]
        OBVIOUS
      <3>2. CASE groupComm[g] = 0
        BY <2>2, <2>3, <3>1, <3>2 DEF Driving, Settled
      <3>3. CASE groupComm[g] # 0
        <4>1. comm[groupComm[g]] = members[g] /\ \A w \in members[g] : Steps[groupComm[g]][w] = 5
          BY <2>2, <3>1, <3>3 DEF Driving, Settled
        <4>2. Serves[g] = {w \in comm[groupComm[g]] : Steps[groupComm[g]][w] \in {4, 5}}
          BY <3>3 DEF Serves
        <4> QED
          BY <4>1, <4>2
      <3> QED
        BY <3>2, <3>3
    <2>5. ASSUME NEW g \in Groups, NEW h \in Groups, g # h
          PROVE  Serves[g] \cap Serves[h] = {}
      BY <2>2, <2>3, <2>5 DEF Driving, Apart
    <2>6. ASSUME NEW g \in Groups, NEW h \in Groups, g # h
          PROVE  Serves[g] \cap members[h] = {}
      <3>1. CASE h # driver.g
        BY <2>4, <2>5, <2>6, <3>1
      <3>2. CASE h = driver.g
        BY <2>2, <2>4, <2>6, <3>2 DEF Driving, Apart
      <3> QED
        BY <3>1, <3>2
    <2>7. Service!NeverShared
      BY <2>2, <2>5, <2>6 DEF Service!NeverShared
    <2>8. Service!Whole
      <3>1. SUFFICES ASSUME NEW g \in Groups, Change = Service!Still \/ g # Change.g
                     PROVE  Serves[g] = members[g]
        BY <2>2 DEF Service!Whole
      <3>2. Change.g = driver.g
        BY DEF Change
      <3>3. Change = Service!Still => g # driver.g
        BY <3>2, LifecycleAssumption DEF Service!Still
      <3> QED
        BY <2>4, <3>1, <3>2, <3>3
    <2> QED
      BY <2>7, <2>8
  <1> QED
    BY <1>1, ServesAlways, PTL
=============================================================================
