------------------------- MODULE GroupCommandsProofs -------------------------
(***************************************************************************)
(* Driver and workers go through the commands of GroupCommands evenly, for *)
(* any number of workers, libraries, matrices and tasks.  The two sides of *)
(* a command are written apart in the code, its barriers, broadcasts and   *)
(* messages in the order in which they happen to be in two functions; the  *)
(* script below says once what that order is.  The invariant InTime places *)
(* every worker in the script of the driver's command, at most one barrier *)
(* ahead of the driver or behind it, and says what must then be under way  *)
(* between them.  It holds until a library has loaded in some worker and   *)
(* not in the driver.                                                      *)
(*                                                                         *)
(* On top of it the invariant Keeping says what driver and workers keep    *)
(* under the same IDs, command by command, although the IDs are given out, *)
(* broadcast and inserted in different places; and from both follows what  *)
(* can end the job.                                                        *)
(***************************************************************************)
EXTENDS GroupCommands, SequenceTheorems, TLAPS

-----------------------------------------------------------------------------
(* The forms of the values: what TypeOK says, without its bounds.            *)
Names   == {"NEW_MATRIX", "LOAD", "LOADED", "TASK", "SENT", "RAN", "RESULT", "DONE"}
Codes   == {"NEW_MATRIX", "LOAD", "RUN"}
Kept    == [id: Nat, thing: Nat]
Asked   == [op: Codes \cup {"NONE", "IDS"}, id: Nat, thing: Nat, fails: SUBSET Ranks, arg: Nat,
            results: Nat, ids: Seq(Kept)]
Drivers == [at: {"IDLE", "GRID", "MADE", "LOAD", "LOADED", "TASK", "SENT", "RAN", "INFO", "RESULT",
                 "DONE"}, cmd: Asked, k: Nat, ids: Seq(Kept)]
Handlers == [w: Workers, op: Codes,
             at: {"START", "MAKE", "OPEN", "TASK", "SENT", "RAN", "INFO", "RESULT"},
             cmd: Asked, k: Nat, i: Nat]

Forms ==
    /\ size \in 0 .. NumWorkers /\ made \in Nat
    /\ next_matrixID \in Nat /\ next_libraryID \in LibraryIDs /\ known \subseteq Kept
    /\ driver \in Drivers /\ handlers \subseteq Handlers
    /\ ibcast \in [Workers -> Seq(Codes)] /\ bcast \in [Workers -> Seq(Asked)]
    /\ barriers \in [Ranks -> Seq(Names)] /\ sends \in Seq(Nat)

-----------------------------------------------------------------------------
(* The script of a command.                                                  *)

\* The k-th barrier of a command.
Nth(cmd, k) ==
    CASE cmd.op = "NEW_MATRIX" -> "NEW_MATRIX"
      [] cmd.op = "LOAD"       -> IF k = 1 THEN "LOAD" ELSE "LOADED"
      [] OTHER                 -> IF k = 1 THEN "TASK" ELSE IF k = 2 THEN "SENT"
                                  ELSE IF k = 3 THEN "RAN"
                                  ELSE IF k = cmd.results + 4 THEN "DONE" ELSE "RESULT"

\* How many of them a worker has entered that is at a place of the command, having
\* sent i results; and how many messages it has sent the driver if it is the primary.
WorkerEntered(cmd, w, at, i) ==
    CASE at \in {"TOLD", "START", "MAKE"} -> 0
      [] at \in {"OPEN", "TASK"} -> 1
      [] at = "SENT"             -> 2
      [] at \in {"RAN", "INFO"}  -> 3
      [] at = "RESULT"           -> 3 + i
      [] OTHER                   -> CASE cmd.op = "NONE"       -> 0
                                      [] cmd.op = "NEW_MATRIX" -> 1
                                      [] cmd.op = "LOAD"       -> IF w \in cmd.fails THEN 1 ELSE 2
                                      [] OTHER                 -> cmd.results + 4

Said(cmd, at, i) ==
    CASE at \in {"MAKE", "INFO"} -> 1
      [] at = "RESULT"           -> 1 + i
      [] at = "OUT"              -> CASE cmd.op = "NEW_MATRIX" -> 1
                                      [] cmd.op = "RUN"        -> cmd.results + 1
                                      [] OTHER                 -> 0
      [] OTHER                   -> 0

\* The same for the driver, which knows of j results.
DriverEntered(cmd, at, j) ==
    CASE at \in {"MADE", "LOAD", "TASK"} -> 1
      [] at \in {"LOADED", "SENT"}       -> 2
      [] at = "RAN"                      -> 3
      [] at = "INFO"                     -> 3 + j
      [] at = "RESULT"                   -> 4 + j
      [] at = "DONE"                     -> cmd.results + 4
      [] OTHER                           -> 0

Heard(cmd, at, j) ==
    CASE at = "MADE"   -> 1
      [] at = "INFO"   -> 1 + j
      [] at = "RESULT" -> 2 + j
      [] at = "DONE"   -> cmd.results + 1
      [] OTHER         -> 0

\* What the primary's k-th message says.
Message(cmd, k) == IF cmd.op = "RUN" /\ k = 1 THEN cmd.results ELSE 0

-----------------------------------------------------------------------------
\* Where a thread waits in a barrier.
Waits == {"OPEN", "TASK", "SENT", "RAN", "RESULT"}

\* The places of a command.  TOLD: the worker's loop has not taken the code; OUT: its
\* thread is done, or has nothing left but to find that the library does not load.
Fits(cmd, w, at, i) ==
    /\ i \in Nat
    /\ \/ at = "OUT" /\ i = 0
       \/ at \in {"TOLD", "START"} /\ cmd.op # "NONE" /\ i = 0
       \/ at = "MAKE" /\ cmd.op = "NEW_MATRIX" /\ i = 0
       \/ at = "OPEN" /\ cmd.op = "LOAD" /\ w \notin cmd.fails /\ i = 0
       \/ at \in {"TASK", "SENT", "RAN"} /\ cmd.op = "RUN" /\ i = 0
       \/ at = "INFO" /\ cmd.op = "RUN" /\ i = 0 /\ cmd.results > 0
       \/ at = "RESULT" /\ cmd.op = "RUN" /\ i \in 1 .. cmd.results

\* A thread that has still to find that the library does not load does nothing more.
Live(h) == ~ (h.op = "LOAD" /\ h.at = "OPEN" /\ h.w \in h.cmd.fails)

\* The threads of each worker that do something yet, and the one at a place.
Threads == [w \in Workers |-> {h \in handlers : h.w = w /\ Live(h)}]

Thread(w, at, i) ==
    \E h \in handlers :
        /\ Threads[w] = {h} /\ h.w = w /\ h.at = at /\ h.i = i /\ h.op = driver.cmd.op
        /\ at # "START" => h.cmd = driver.cmd
        /\ at \in Waits => h.k = Len(barriers[w])

\* What the driver broadcasts last in a task that returns matrices.
IDs == [NoCommand EXCEPT !.op = "IDS", !.ids = driver.ids]

\* Worker w is at a place of the driver's command: its thread, and what is still to be
\* taken of what the driver broadcast.
Stands(w, at, i) ==
    /\ Fits(driver.cmd, w, at, i)
    /\ IF at \in {"TOLD", "OUT"} THEN Threads[w] = {} ELSE Thread(w, at, i)
    /\ ibcast[w] = IF at = "TOLD" THEN <<driver.cmd.op>> ELSE <<>>
    /\ bcast[w] = IF at \in {"TOLD", "START"} THEN <<driver.cmd>>
                  ELSE IF driver.at = "DONE" /\ at = "RESULT" THEN <<IDs>> ELSE <<>>

\* Barriers of the command that the driver has entered, and messages it has received.
Steps == DriverEntered(driver.cmd, driver.at, Len(driver.ids))
Ears  == Heard(driver.cmd, driver.at, Len(driver.ids))

\* A worker that has entered n barriers of the command is level with the driver, or one
\* barrier of the script ahead, or one behind.
Level(w, n) ==
    \/ n = Steps /\ barriers[w] = barriers[0]
    \/ n = Steps + 1 /\ barriers[w] = Append(barriers[0], Nth(driver.cmd, n))
    \/ Steps = n + 1 /\ barriers[0] = Append(barriers[w], Nth(driver.cmd, Steps))

\* Of the n messages that the primary has sent, those not received are under way.
Told(n) ==
    /\ n >= Ears /\ sends \in Seq(Nat) /\ Len(sends) = n - Ears
    /\ \A k \in 1 .. n - Ears : sends[k] = Message(driver.cmd, Ears + k)

Ats == {"TOLD", "START", "MAKE", "OPEN", "TASK", "SENT", "RAN", "INFO", "RESULT", "OUT"}

\* Where a worker is, and how that goes with where the driver is.
Place(w, at, i) ==
    /\ Stands(w, at, i)
    /\ Level(w, WorkerEntered(driver.cmd, w, at, i))
    /\ at = "INFO" => Steps >= 3
    /\ at = "OUT" /\ driver.cmd.op = "RUN" /\ driver.cmd.results > 0 => driver.at = "DONE"
    /\ driver.at = "INFO" => WorkerEntered(driver.cmd, w, at, i) >= Steps
    /\ w = Primary => Told(Said(driver.cmd, at, i))

InStep(w) == \E at \in Ats : \E i \in Nat : Place(w, at, i)

\* The driver's own places.
Driving ==
    /\ driver.at = "IDLE" => driver = Idle
    /\ driver.at \in {"GRID", "MADE"} => driver.cmd.op = "NEW_MATRIX"
    /\ driver.at \in {"LOAD", "LOADED"} => driver.cmd.op = "LOAD"
    /\ driver.at = "LOADED" => 0 \notin driver.cmd.fails
    /\ driver.at \in {"TASK", "SENT", "RAN", "INFO", "RESULT", "DONE"} => driver.cmd.op = "RUN"
    /\ driver.at \in {"INFO", "RESULT"} => Len(driver.ids) < driver.cmd.results
    /\ driver.at = "DONE" => Len(driver.ids) = driver.cmd.results
    /\ driver.at \notin {"INFO", "RESULT", "DONE"} => driver.ids = <<>>
    /\ driver.at \notin {"IDLE", "GRID", "INFO"} => driver.k = Len(barriers[0])
    /\ size = 0 => driver = Idle /\ sends = <<>>

\* Until a library goes astray, all members of the group are in step with the driver.
InTime ==
    astray = {} =>
        /\ Driving
        /\ \A w \in Members : InStep(w)
        /\ \A w \in Workers \ Members : /\ ibcast[w] = <<>> /\ bcast[w] = <<>>
                                        /\ Threads[w] = {}

-----------------------------------------------------------------------------
LEMMA SpanIs ==
    /\ LibraryIDs \subseteq Nat /\ LibraryIDSpan \in Nat \ {0} /\ NumWorkers \in Nat \ {0}
    /\ Workers \subseteq Ranks /\ 0 \in Ranks /\ 0 \notin Workers
    /\ 1 \in Workers /\ Ranks \subseteq Nat
    /\ \A n \in Nat : (n + 1) % LibraryIDSpan \in LibraryIDs
  BY CommandsAssumption DEF LibraryIDs, Workers, Ranks

LEMMA NoCommandIs ==
    /\ NoCommand \in Asked /\ NoCommand.op = "NONE" /\ NoCommand.results = 0 /\ NoCommand.fails = {}
    /\ Idle \in Drivers /\ Idle.cmd = NoCommand /\ Idle.at = "IDLE" /\ Idle.ids = <<>>
  <1>1. NoCommand = [op |-> "NONE", id |-> 0, thing |-> 0, fails |-> {}, arg |-> 0, results |-> 0,
                     ids |-> <<>>]
    BY DEF NoCommand
  <1>2. Idle = [at |-> "IDLE", cmd |-> NoCommand, k |-> 0, ids |-> <<>>]
    BY DEF Idle
  <1>3. <<>> \in Seq(Kept) /\ {} \in SUBSET Ranks
    OBVIOUS
  <1>4. NoCommand \in Asked
    BY <1>1, <1>3 DEF Asked
  <1> QED
    BY <1>1, <1>2, <1>3, <1>4 DEF Drivers

LEMMA Joining ==
    ASSUME NEW S, NEW s \in Seq(S), NEW x \in S
    PROVE  /\ Append(s, x) \in Seq(S) /\ Len(Append(s, x)) = Len(s) + 1 /\ Len(s) \in Nat
           /\ DOMAIN s = 1 .. Len(s) /\ DOMAIN Append(s, x) = 1 .. Len(s) + 1
           /\ \A i \in 1 .. Len(s) : Append(s, x)[i] = s[i] /\ s[i] \in S
           /\ Append(s, x)[Len(s) + 1] = x
  OBVIOUS

LEMMA Popping ==
    ASSUME NEW S, NEW s \in Seq(S), s # <<>>
    PROVE  /\ Tail(s) \in Seq(S) /\ Head(s) \in S /\ Head(s) = s[1]
           /\ Len(s) \in Nat /\ Len(s) # 0 /\ Len(Tail(s)) = Len(s) - 1
           /\ \A i \in 1 .. Len(s) - 1 : Tail(s)[i] = s[i + 1]
  <1>1. Len(s) \in Nat /\ Len(s) # 0
    BY EmptySeq, LenProperties
  <1> QED
    BY <1>1, HeadTailProperties, ElementOfSeq

LEMMA OfOne ==
    ASSUME NEW x
    PROVE  /\ Append(<<>>, x) = <<x>> /\ Head(<<x>>) = x /\ Tail(<<x>>) = <<>> /\ <<x>> # <<>>
           /\ Len(<<>>) = 0 /\ Len(<<x>>) = 1 /\ <<x>>[1] = x
  OBVIOUS

\* What a process enters and what the members are sent have the right form.
LEMMA BarrierIs ==
    ASSUME Forms, NEW p \in Ranks, NEW name \in Names, Barrier(p, name)
    PROVE  /\ barriers' \in [Ranks -> Seq(Names)] /\ barriers'[p] = Append(barriers[p], name)
           /\ Len(barriers'[p]) = Len(barriers[p]) + 1 /\ Len(barriers[p]) \in Nat
           /\ \A q \in Ranks \ {p} : barriers'[q] = barriers[q]
  <1>1. /\ barriers \in [Ranks -> Seq(Names)]
        /\ barriers' = [barriers EXCEPT ![p] = Append(barriers[p], name)]
    BY DEF Forms, Barrier
  <1>2. /\ Append(barriers[p], name) \in Seq(Names) /\ Len(barriers[p]) \in Nat
        /\ Len(Append(barriers[p], name)) = Len(barriers[p]) + 1
    BY <1>1, Joining
  <1> QED
    BY <1>1, <1>2

LEMMA SentToMembers ==
    ASSUME NEW S, NEW queues \in [Workers -> Seq(S)], NEW x \in S
    PROVE  /\ ToMembers(queues, x) \in [Workers -> Seq(S)]
           /\ \A w \in Workers :
                  ToMembers(queues, x)[w] = IF w \in Members THEN Append(queues[w], x) ELSE queues[w]
  <1>1. \A w \in Workers : Append(queues[w], x) \in Seq(S)
    BY Joining
  <1> QED
    BY <1>1 DEF ToMembers

\* The fields of the driver's state.
IsDriver(d, at, cmd, k, ids) ==
    d \in Drivers /\ d.at = at /\ d.cmd = cmd /\ d.k = k /\ d.ids = ids

Places == {"IDLE", "GRID", "MADE", "LOAD", "LOADED", "TASK", "SENT", "RAN", "INFO", "RESULT", "DONE"}

LEMMA DriverGoes ==
    ASSUME NEW at \in Places, NEW k \in Nat, driver \in Drivers, NEW ids \in Seq(Kept)
    PROVE  /\ IsDriver([driver EXCEPT !.at = at, !.k = k], at, driver.cmd, k, driver.ids)
           /\ IsDriver([driver EXCEPT !.at = at], at, driver.cmd, driver.k, driver.ids)
           /\ IsDriver([driver EXCEPT !.at = at, !.ids = ids], at, driver.cmd, driver.k, ids)
           /\ IsDriver([driver EXCEPT !.at = at, !.ids = ids, !.k = k], at, driver.cmd, k, ids)
           /\ driver.cmd \in Asked /\ driver.k \in Nat /\ driver.ids \in Seq(Kept)
  BY DEF Drivers, IsDriver, Places

LEMMA DriverBegins ==
    ASSUME NEW at \in Places, NEW k \in Nat, NEW cmd \in Asked
    PROVE  /\ IsDriver([Idle EXCEPT !.at = at, !.cmd = cmd], at, cmd, 0, <<>>)
           /\ IsDriver([Idle EXCEPT !.at = at, !.cmd = cmd, !.k = k], at, cmd, k, <<>>)
  BY NoCommandIs DEF Drivers, IsDriver, Places, Idle

\* The fields of a thread.
IsThread(t, w, op, at, cmd, k, i) ==
    t.w = w /\ t.op = op /\ t.at = at /\ t.cmd = cmd /\ t.k = k /\ t.i = i

LEMMA HandlerGoes ==
    ASSUME NEW h \in Handlers, NEW k \in Nat, NEW cmd \in Asked,
           NEW at \in {"START", "MAKE", "OPEN", "TASK", "SENT", "RAN", "INFO", "RESULT"}
    PROVE  /\ [h EXCEPT !.at = at, !.cmd = cmd] \in Handlers
           /\ IsThread([h EXCEPT !.at = at, !.cmd = cmd], h.w, h.op, at, cmd, h.k, h.i)
           /\ [h EXCEPT !.at = at, !.k = k] \in Handlers
           /\ IsThread([h EXCEPT !.at = at, !.k = k], h.w, h.op, at, h.cmd, k, h.i)
           /\ [h EXCEPT !.at = at, !.cmd = cmd, !.k = k] \in Handlers
           /\ IsThread([h EXCEPT !.at = at, !.cmd = cmd, !.k = k], h.w, h.op, at, cmd, k, h.i)
           /\ [h EXCEPT !.at = at] \in Handlers
           /\ IsThread([h EXCEPT !.at = at], h.w, h.op, at, h.cmd, h.k, h.i)
           /\ [h EXCEPT !.at = at, !.i = @ + 1, !.k = k] \in Handlers
           /\ IsThread([h EXCEPT !.at = at, !.i = @ + 1, !.k = k], h.w, h.op, at, h.cmd, k, h.i + 1)
           /\ h.w \in Workers /\ h.op \in Codes /\ h.cmd \in Asked /\ h.k \in Nat /\ h.i \in Nat
  <1>1. h.i + 1 \in Nat
    BY DEF Handlers
  <1> QED
    BY <1>1 DEF Handlers, IsThread

\* The fields of a command.
IsAsked(c, op, id, thing, fails, arg, results, ids) ==
    /\ c \in Asked
    /\ c.op = op /\ c.id = id /\ c.thing = thing /\ c.fails = fails /\ c.arg = arg
    /\ c.results = results /\ c.ids = ids

LEMMA AskedIs ==
    ASSUME NEW id \in Nat, NEW thing \in Nat, NEW fails \in SUBSET Ranks, NEW arg \in Nat,
           NEW results \in Nat, NEW ids \in Seq(Kept)
    PROVE  /\ IsAsked([NoCommand EXCEPT !.op = "NEW_MATRIX", !.id = id, !.thing = thing],
                      "NEW_MATRIX", id, thing, {}, 0, 0, <<>>)
           /\ IsAsked([NoCommand EXCEPT !.op = "LOAD", !.id = id, !.thing = thing, !.fails = fails],
                      "LOAD", id, thing, fails, 0, 0, <<>>)
           /\ IsAsked([NoCommand EXCEPT !.op = "RUN", !.id = id, !.thing = thing, !.arg = arg,
                                        !.results = results],
                      "RUN", id, thing, {}, arg, results, <<>>)
           /\ IsAsked([NoCommand EXCEPT !.op = "IDS", !.ids = ids], "IDS", 0, 0, {}, 0, 0, ids)
  <1>1. /\ NoCommand \in Asked /\ NoCommand.id = 0 /\ NoCommand.thing = 0 /\ NoCommand.fails = {}
        /\ NoCommand.arg = 0 /\ NoCommand.results = 0 /\ NoCommand.ids = <<>>
    BY NoCommandIs DEF NoCommand
  <1>2. /\ IsAsked([NoCommand EXCEPT !.op = "NEW_MATRIX", !.id = id, !.thing = thing],
                   "NEW_MATRIX", id, thing, {}, 0, 0, <<>>)
        /\ IsAsked([NoCommand EXCEPT !.op = "IDS", !.ids = ids], "IDS", 0, 0, {}, 0, 0, ids)
    BY <1>1 DEF Asked, Codes, IsAsked
  <1>3. IsAsked([NoCommand EXCEPT !.op = "LOAD", !.id = id, !.thing = thing, !.fails = fails],
                "LOAD", id, thing, fails, 0, 0, <<>>)
    BY <1>1 DEF Asked, Codes, IsAsked
  <1>4. IsAsked([NoCommand EXCEPT !.op = "RUN", !.id = id, !.thing = thing, !.arg = arg,
                                  !.results = results],
                "RUN", id, thing, {}, arg, results, <<>>)
    BY <1>1 DEF Asked, Codes, IsAsked
  <1> QED
    BY <1>2, <1>3, <1>4

-----------------------------------------------------------------------------
(* Every value has its form.                                                 *)
LEMMA HandlerForms ==
    ASSUME Forms, NEW w \in Workers, HandlerStep(w)
    PROVE  Forms'
  <1>1. PICK h \in handlers :
            /\ h.w = w
            /\ \/ TakeMatrix(h) \/ MakeMatrix(h) \/ TakeLibrary(h) \/ KeepLibrary(h)
               \/ TakeTask(h) \/ CopyTask(h) \/ RunTaskHere(h)
               \/ CountResults(h) \/ SendResult(h) \/ KeepResults(h)
    BY DEF HandlerStep
  <1>2. h \in Handlers /\ h.w \in Ranks /\ h.cmd \in Asked /\ h.cmd.results \in Nat
    BY SpanIs DEF Forms, Handlers, Asked
  <1>3. ASSUME NEW name \in Names, Barrier(w, name)
        PROVE  barriers' \in [Ranks -> Seq(Names)]
    BY <1>1, <1>2, <1>3, BarrierIs
  <1>4. ASSUME Takes(h)
        PROVE  bcast' \in [Workers -> Seq(Asked)] /\ Head(bcast[w]) \in Asked
    <2>1. bcast \in [Workers -> Seq(Asked)] /\ bcast[w] # <<>>
      BY <1>1, <1>4 DEF Forms, Takes
    <2>2. Tail(bcast[w]) \in Seq(Asked) /\ Head(bcast[w]) \in Asked
      BY <2>1, Popping
    <2> QED
      BY <1>1, <1>4, <2>1, <2>2 DEF Takes
  <1>5. ASSUME NEW x \in Nat, Tells(h, x)
        PROVE  sends' \in Seq(Nat)
    <2>1. Append(sends, x) \in Seq(Nat)
      BY Joining DEF Forms
    <2> QED
      BY <1>5, <2>1 DEF Forms, Tells
  <1>6. ASSUME NEW t \in Handlers, Becomes(h, t)
        PROVE  handlers' \subseteq Handlers
    BY <1>6 DEF Forms, Becomes
  <1>7. Done(h) => handlers' \subseteq Handlers
    BY DEF Forms, Done
  <1>8. Len(barriers[w]) + 1 \in Nat
    <2>1. barriers[w] \in Seq(Names)
      BY <1>1, <1>2 DEF Forms
    <2> QED
      BY <2>1, Joining
  <1>9. /\ UNCHANGED <<size, made, next_matrixID, next_libraryID, known, driver, ibcast>>
    BY DEF HandlerStep, groupVars, clientVars
  <1>10. CASE TakeMatrix(h)
    <2>1. Takes(h) /\ Tells(h, 0) /\ UNCHANGED barriers
          /\ Becomes(h, [h EXCEPT !.at = "MAKE", !.cmd = Head(bcast[w])])
      BY <1>1, <1>10 DEF TakeMatrix
    <2> QED
      BY <1>2, <1>4, <1>5, <1>6, <1>9, <2>1, HandlerGoes DEF Forms
  <1>11. CASE MakeMatrix(h)
    BY <1>1, <1>3, <1>7, <1>9, <1>11 DEF Forms, MakeMatrix, MeetsLast, Names
  <1>12. CASE TakeLibrary(h)
    <2>1. Takes(h) /\ Barrier(w, "LOAD") /\ UNCHANGED sends
          /\ Becomes(h, [h EXCEPT !.at = "OPEN", !.cmd = Head(bcast[w]), !.k = Len(barriers[w]) + 1])
      BY <1>1, <1>12 DEF TakeLibrary
    <2>2. "LOAD" \in Names
      BY DEF Names
    <2> QED
      BY <1>2, <1>3, <1>4, <1>6, <1>8, <1>9, <2>1, <2>2, HandlerGoes DEF Forms
  <1>13. CASE KeepLibrary(h)
    BY <1>1, <1>3, <1>7, <1>9, <1>13 DEF Forms, KeepLibrary, MeetsLast, Names
  <1>14. CASE TakeTask(h)
    <2>1. Takes(h) /\ Barrier(w, "TASK") /\ UNCHANGED sends
          /\ Becomes(h, [h EXCEPT !.at = "TASK", !.cmd = Head(bcast[w]), !.k = Len(barriers[w]) + 1])
      BY <1>1, <1>14 DEF TakeTask
    <2>2. "TASK" \in Names
      BY DEF Names
    <2> QED
      BY <1>2, <1>3, <1>4, <1>6, <1>8, <1>9, <2>1, <2>2, HandlerGoes DEF Forms
  <1>15. ASSUME NEW at \in {"SENT", "RAN"}, Meets(h, at, at), UNCHANGED <<bcast, sends>>
         PROVE  Forms'
    <2>1. Barrier(w, at) /\ at \in Names
          /\ Becomes(h, [h EXCEPT !.at = at, !.k = Len(barriers[w]) + 1])
      BY <1>1, <1>15 DEF Meets, Names
    <2> QED
      BY <1>2, <1>3, <1>6, <1>8, <1>9, <1>15, <2>1, HandlerGoes DEF Forms
  <1>16. CASE CopyTask(h)
    BY <1>15, <1>16 DEF CopyTask
  <1>17. CASE RunTaskHere(h)
    <2>1. UNCHANGED <<bcast, sends>> /\ (Meets(h, "RAN", "RAN") \/ UNCHANGED <<handlers, barriers>>)
      BY <1>17 DEF RunTaskHere
    <2> QED
      BY <1>9, <1>15, <2>1 DEF Forms
  <1>18. CASE CountResults(h)
    <2>1. /\ Tells(h, h.cmd.results) /\ UNCHANGED bcast
          /\ \/ Barrier(w, "DONE") /\ Done(h)
             \/ Becomes(h, [h EXCEPT !.at = "INFO"]) /\ UNCHANGED barriers
      BY <1>1, <1>18 DEF CountResults, MeetsLast
    <2>2. "DONE" \in Names
      BY DEF Names
    <2>3. [h EXCEPT !.at = "INFO"] \in Handlers
      BY <1>2, HandlerGoes
    <2>4. handlers' \subseteq Handlers /\ barriers' \in [Ranks -> Seq(Names)]
      BY <1>3, <1>6, <1>7, <2>1, <2>2, <2>3 DEF Forms
    <2> QED
      BY <1>2, <1>5, <1>9, <2>1, <2>4 DEF Forms
  <1>19. CASE SendResult(h)
    <2>1. /\ Tells(h, 0) /\ Barrier(w, "RESULT") /\ UNCHANGED bcast
          /\ Becomes(h, [h EXCEPT !.at = "RESULT", !.i = @ + 1, !.k = Len(barriers[w]) + 1])
      BY <1>1, <1>19 DEF SendResult
    <2>2. "RESULT" \in Names
      BY DEF Names
    <2> QED
      BY <1>2, <1>3, <1>5, <1>6, <1>8, <1>9, <2>1, <2>2, HandlerGoes DEF Forms
  <1>20. CASE KeepResults(h)
    <2>1. Takes(h) /\ Barrier(w, "DONE") /\ Done(h) /\ UNCHANGED sends /\ "DONE" \in Names
      BY <1>1, <1>20 DEF KeepResults, MeetsLast, Names
    <2> QED
      BY <1>3, <1>4, <1>7, <1>9, <2>1 DEF Forms
  <1> QED
    BY <1>1, <1>10, <1>11, <1>12, <1>13, <1>14, <1>16, <1>17, <1>18, <1>19, <1>20

\* A command begins: what the driver broadcasts, and where it then is.
LEMMA StartsIs ==
    ASSUME Forms, NEW cmd \in Asked, cmd.op \in Codes, Starts(cmd)
    PROVE  /\ ibcast' \in [Workers -> Seq(Codes)] /\ bcast' \in [Workers -> Seq(Asked)]
           /\ \A w \in Workers :
                  /\ ibcast'[w] = IF w \in Members THEN Append(ibcast[w], cmd.op) ELSE ibcast[w]
                  /\ bcast'[w] = IF w \in Members THEN Append(bcast[w], cmd) ELSE bcast[w]
           /\ job = Running /\ driver = Idle /\ size > 0
  <1>1. /\ ibcast' = ToMembers(ibcast, cmd.op) /\ bcast' = ToMembers(bcast, cmd)
        /\ job = Running /\ driver = Idle /\ size > 0
    BY DEF Starts, Broadcast
  <1>2. /\ ibcast' \in [Workers -> Seq(Codes)]
        /\ \A w \in Workers :
               ibcast'[w] = IF w \in Members THEN Append(ibcast[w], cmd.op) ELSE ibcast[w]
    <2>1. ibcast \in [Workers -> Seq(Codes)] /\ cmd.op \in Codes
      BY DEF Forms
    <2> QED
      BY <1>1, <2>1, SentToMembers
  <1>3. /\ bcast' \in [Workers -> Seq(Asked)]
        /\ \A w \in Workers : bcast'[w] = IF w \in Members THEN Append(bcast[w], cmd) ELSE bcast[w]
    <2>1. bcast \in [Workers -> Seq(Asked)] /\ cmd \in Asked
      BY DEF Forms
    <2> QED
      BY <1>1, <2>1, SentToMembers
  <1> QED
    BY <1>1, <1>2, <1>3

LEMMA NewMatrixIs ==
    ASSUME Forms, NewMatrix
    PROVE  \E cmd \in Asked :
               /\ IsAsked(cmd, "NEW_MATRIX", next_matrixID, made + 1, {}, 0, 0, <<>>)
               /\ Starts(cmd) /\ driver' \in Drivers
               /\ driver'.at = "GRID" /\ driver'.cmd = cmd /\ driver'.ids = <<>>
               /\ made' = made + 1 /\ next_matrixID' = next_matrixID + 1 /\ made < MaxMade
               /\ UNCHANGED <<groupVars, runs, loads, next_libraryID, assigned, known, matrices,
                              libraries, barriers, sends, handlers, current_matrixID, job>>
  <1> DEFINE cmd == [NoCommand EXCEPT !.op = "NEW_MATRIX", !.id = next_matrixID, !.thing = made + 1]
  <1>1. IsAsked(cmd, "NEW_MATRIX", next_matrixID, made + 1, {}, 0, 0, <<>>)
    <2>1. next_matrixID \in Nat /\ made + 1 \in Nat /\ {} \in SUBSET Ranks /\ <<>> \in Seq(Kept)
      BY DEF Forms
    <2> QED
      BY <2>1, AskedIs
  <1>2. /\ Starts(cmd) /\ driver' = [Idle EXCEPT !.at = "GRID", !.cmd = cmd]
        /\ made' = made + 1 /\ next_matrixID' = next_matrixID + 1 /\ made < MaxMade
        /\ UNCHANGED <<groupVars, runs, loads, next_libraryID, assigned, known, matrices,
                       libraries, barriers, sends, handlers, current_matrixID, job>>
    BY DEF NewMatrix
  <1> HIDE DEF cmd
  <1>3. cmd \in Asked /\ driver \in Drivers /\ 0 \in Nat /\ <<>> \in Seq(Kept)
    BY <1>1 DEF IsAsked, Forms
  <1>4. IsDriver([Idle EXCEPT !.at = "GRID", !.cmd = cmd], "GRID", cmd, 0, <<>>)
    BY <1>3, DriverBegins DEF Places
  <1> QED
    BY <1>1, <1>2, <1>3, <1>4 DEF IsDriver

LEMMA LoadLibraryIs ==
    ASSUME Forms, NEW fails \in NotLoadable, LoadLibrary(fails)
    PROVE  \E cmd \in Asked :
               /\ IsAsked(cmd, "LOAD", next_libraryID', made + 1, fails, 0, 0, <<>>)
               /\ Starts(cmd) /\ driver' \in Drivers /\ Barrier(0, "LOAD")
               /\ driver'.at = "LOAD" /\ driver'.cmd = cmd /\ driver'.ids = <<>>
               /\ driver'.k = Len(barriers[0]) + 1
               /\ made' = made + 1 /\ loads' = loads + 1 /\ made < MaxMade
               /\ next_libraryID' = (next_libraryID + 1) % LibraryIDSpan /\ next_libraryID' \in LibraryIDs
               /\ UNCHANGED <<groupVars, runs, next_matrixID, assigned, known, matrices, libraries,
                              sends, handlers, current_matrixID, job>>
  <1> DEFINE id  == (next_libraryID + 1) % LibraryIDSpan
             cmd == [NoCommand EXCEPT !.op = "LOAD", !.id = id, !.thing = made + 1, !.fails = fails]
  <1>1. /\ Starts(cmd) /\ Barrier(0, "LOAD")
        /\ driver' = [Idle EXCEPT !.at = "LOAD", !.cmd = cmd, !.k = Len(barriers[0]) + 1]
        /\ made' = made + 1 /\ loads' = loads + 1 /\ made < MaxMade /\ next_libraryID' = id
        /\ UNCHANGED <<groupVars, runs, next_matrixID, assigned, known, matrices, libraries,
                       sends, handlers, current_matrixID, job>>
    BY DEF LoadLibrary
  <1>2. id \in LibraryIDs /\ id \in Nat
    BY SpanIs DEF Forms
  <1> HIDE DEF id
  <1>3. IsAsked(cmd, "LOAD", id, made + 1, fails, 0, 0, <<>>)
    <2>1. made + 1 \in Nat /\ fails \in SUBSET Ranks /\ <<>> \in Seq(Kept)
      BY CommandsAssumption DEF Forms
    <2> QED
      BY <1>2, <2>1, AskedIs
  <1> HIDE DEF cmd
  <1>4. cmd \in Asked /\ driver \in Drivers /\ <<>> \in Seq(Kept) /\ Len(barriers[0]) + 1 \in Nat
    <2>1. barriers[0] \in Seq(Names)
      BY SpanIs DEF Forms
    <2> QED
      BY <1>3, <2>1, Joining DEF IsAsked, Forms
  <1>5. PICK k \in Nat : k = Len(barriers[0]) + 1
    BY <1>4
  <1>6. IsDriver([Idle EXCEPT !.at = "LOAD", !.cmd = cmd, !.k = k], "LOAD", cmd, k, <<>>)
    BY <1>4, DriverBegins DEF Places
  <1> QED
    BY <1>1, <1>2, <1>3, <1>4, <1>5, <1>6 DEF id, IsDriver

LEMMA RunTaskIs ==
    ASSUME Forms, NEW lib \in known, NEW arg \in Nat, NEW results \in Nat, RunTask(lib, arg, results)
    PROVE  \E cmd \in Asked :
               /\ IsAsked(cmd, "RUN", lib.id, lib.thing, {}, arg, results, <<>>)
               /\ Starts(cmd) /\ driver' \in Drivers /\ Barrier(0, "TASK")
               /\ driver'.at = "TASK" /\ driver'.cmd = cmd /\ driver'.ids = <<>>
               /\ driver'.k = Len(barriers[0]) + 1
               /\ runs < MaxRuns /\ runs' = runs + 1 /\ made + results <= MaxMade
               /\ arg \in {0} \cup {id \in MatrixIDs : assigned[id] # {}}
               /\ UNCHANGED <<groupVars, made, clientVars, matrices, libraries, sends, handlers,
                              current_matrixID, job>>
  <1> DEFINE cmd == [NoCommand EXCEPT !.op = "RUN", !.id = lib.id, !.thing = lib.thing,
                                      !.arg = arg, !.results = results]
  <1>1. /\ Starts(cmd) /\ Barrier(0, "TASK")
        /\ driver' = [Idle EXCEPT !.at = "TASK", !.cmd = cmd, !.k = Len(barriers[0]) + 1]
        /\ runs < MaxRuns /\ runs' = runs + 1 /\ made + results <= MaxMade
        /\ arg \in {0} \cup {id \in MatrixIDs : assigned[id] # {}}
        /\ UNCHANGED <<groupVars, made, clientVars, matrices, libraries, sends, handlers,
                       current_matrixID, job>>
    BY DEF RunTask
  <1>2. IsAsked(cmd, "RUN", lib.id, lib.thing, {}, arg, results, <<>>)
    <2>1. lib.id \in Nat /\ lib.thing \in Nat /\ {} \in SUBSET Ranks /\ <<>> \in Seq(Kept)
      BY DEF Forms, Kept
    <2> QED
      BY <2>1, AskedIs
  <1> HIDE DEF cmd
  <1>3. cmd \in Asked /\ driver \in Drivers /\ <<>> \in Seq(Kept) /\ Len(barriers[0]) + 1 \in Nat
    <2>1. barriers[0] \in Seq(Names)
      BY SpanIs DEF Forms
    <2> QED
      BY <1>2, <2>1, Joining DEF IsAsked, Forms
  <1>4. PICK k \in Nat : k = Len(barriers[0]) + 1
    BY <1>3
  <1>5. IsDriver([Idle EXCEPT !.at = "TASK", !.cmd = cmd, !.k = k], "TASK", cmd, k, <<>>)
    BY <1>3, DriverBegins DEF Places
  <1> QED
    BY <1>1, <1>2, <1>3, <1>4, <1>5 DEF IsDriver

LEMMA EntersIs ==
    ASSUME Forms, NEW at \in Places, NEW name \in Names, Enters(at, name)
    PROVE  /\ IsDriver(driver', at, driver.cmd, Len(barriers[0]) + 1, driver.ids)
           /\ Barrier(0, name) /\ barriers' \in [Ranks -> Seq(Names)]
  <1>1. Barrier(0, name) /\ barriers' \in [Ranks -> Seq(Names)] /\ Len(barriers[0]) \in Nat
    BY SpanIs, BarrierIs DEF Enters
  <1>2. PICK k \in Nat : k = Len(barriers[0]) + 1
    BY <1>1
  <1>3. IsDriver([driver EXCEPT !.at = at, !.k = k], at, driver.cmd, k, driver.ids)
    <2>1. driver \in Drivers
      BY DEF Forms
    <2>2. driver.ids \in Seq(Kept)
      BY <2>1 DEF Drivers
    <2> QED
      BY <1>2, <2>1, <2>2, DriverGoes
  <1> QED
    BY <1>1, <1>2, <1>3 DEF Enters

\* The broadcast of the IDs of results.
TheIDs(ids) == [NoCommand EXCEPT !.op = "IDS", !.ids = ids]

LEMMA FinishIs ==
    ASSUME Forms, NEW ids \in Seq(Kept), Finish(ids)
    PROVE  /\ IsDriver(driver', "DONE", driver.cmd, Len(barriers[0]) + 1, ids)
           /\ Barrier(0, "DONE") /\ barriers' \in [Ranks -> Seq(Names)]
           /\ bcast' \in [Workers -> Seq(Asked)]
           /\ \A w \in Workers :
                  bcast'[w] = IF ids # <<>> /\ w \in Members THEN Append(bcast[w], TheIDs(ids))
                              ELSE bcast[w]
  <1>1. /\ bcast' = IF ids = <<>> THEN bcast ELSE ToMembers(bcast, TheIDs(ids))
        /\ Barrier(0, "DONE")
        /\ driver' = [driver EXCEPT !.at = "DONE", !.ids = ids, !.k = Len(barriers[0]) + 1]
    BY DEF Finish, TheIDs
  <1>2. barriers' \in [Ranks -> Seq(Names)] /\ Len(barriers[0]) \in Nat
    BY <1>1, SpanIs, BarrierIs DEF Names
  <1>3. PICK k \in Nat : k = Len(barriers[0]) + 1
    BY <1>2
  <1>4. IsDriver([driver EXCEPT !.at = "DONE", !.ids = ids, !.k = k], "DONE", driver.cmd, k, ids)
    <2>1. driver \in Drivers /\ "DONE" \in Places
      BY DEF Forms, Places
    <2> QED
      BY <1>3, <2>1, DriverGoes
  <1>5. bcast \in [Workers -> Seq(Asked)] /\ TheIDs(ids) \in Asked
    <2>1. IsAsked(TheIDs(ids), "IDS", 0, 0, {}, 0, 0, ids)
      <3>1. 0 \in Nat /\ {} \in SUBSET Ranks
        OBVIOUS
      <3> QED
        BY <3>1, AskedIs DEF TheIDs
    <2> QED
      BY <2>1 DEF Forms, IsAsked
  <1>6. CASE ids = <<>>
    BY <1>1, <1>2, <1>3, <1>4, <1>5, <1>6
  <1>7. CASE ids # <<>>
    <2>1. /\ ToMembers(bcast, TheIDs(ids)) \in [Workers -> Seq(Asked)]
          /\ \A w \in Workers : ToMembers(bcast, TheIDs(ids))[w] =
                                  IF w \in Members THEN Append(bcast[w], TheIDs(ids)) ELSE bcast[w]
      BY <1>5, SentToMembers
    <2>2. bcast' = ToMembers(bcast, TheIDs(ids))
      BY <1>1, <1>7
    <2>3. /\ bcast' \in [Workers -> Seq(Asked)]
          /\ \A w \in Workers : bcast'[w] = IF w \in Members THEN Append(bcast[w], TheIDs(ids))
                                                              ELSE bcast[w]
      BY <2>1, <2>2
    <2>4. IsDriver(driver', "DONE", driver.cmd, Len(barriers[0]) + 1, ids)
      BY <1>1, <1>3, <1>4
    <2> QED
      BY <1>1, <1>2, <1>7, <2>3, <2>4
  <1> QED
    BY <1>6, <1>7

\* Between commands the driver's state is that of the beginning.
LEMMA KeepResultIs ==
    ASSUME Forms, KeepResult
    PROVE  \E new \in Kept, ids \in Seq(Kept) :
               /\ new.id = next_matrixID /\ new.thing = made + 1 /\ ids = Append(driver.ids, new)
               /\ Through("RESULT") /\ made' = made + 1 /\ next_matrixID' = next_matrixID + 1
               /\ matrices' = Insert(matrices, 0, next_matrixID, made + 1)
               /\ \/ Len(ids) = driver.cmd.results /\ Finish(ids)
                  \/ /\ Len(ids) # driver.cmd.results
                     /\ IsDriver(driver', "INFO", driver.cmd, driver.k, ids)
                     /\ UNCHANGED <<bcast, barriers>>
               /\ UNCHANGED <<groupVars, runs, loads, next_libraryID, assigned, known, libraries,
                              ibcast, sends, handlers, current_matrixID, job>>
  <1> DEFINE new == [id |-> next_matrixID, thing |-> made + 1]
             ids == Append(driver.ids, new)
  <1>1. /\ Through("RESULT") /\ made' = made + 1 /\ next_matrixID' = next_matrixID + 1
        /\ matrices' = Insert(matrices, 0, next_matrixID, made + 1)
        /\ IF Len(ids) = driver.cmd.results THEN Finish(ids)
           ELSE driver' = [driver EXCEPT !.at = "INFO", !.ids = ids] /\ UNCHANGED <<bcast, barriers>>
        /\ UNCHANGED <<groupVars, runs, loads, next_libraryID, assigned, known, libraries,
                       ibcast, sends, handlers, current_matrixID, job>>
    BY DEF KeepResult
  <1>2. new \in Kept /\ new.id = next_matrixID /\ new.thing = made + 1
    BY DEF Forms, Kept
  <1> HIDE DEF new
  <1>3. ids \in Seq(Kept)
    <2>1. driver.ids \in Seq(Kept)
      BY DEF Forms, Drivers
    <2> QED
      BY <1>2, <2>1, Joining
  <1>4. ids = Append(driver.ids, new)
    OBVIOUS
  <1> HIDE DEF ids
  <1>5. IsDriver([driver EXCEPT !.at = "INFO", !.ids = ids], "INFO", driver.cmd, driver.k, ids)
    <2>1. driver \in Drivers /\ "INFO" \in Places /\ 0 \in Nat
      BY DEF Forms, Places
    <2> QED
      BY <1>3, <2>1, DriverGoes
  <1> QED
    BY <1>1, <1>2, <1>3, <1>4, <1>5

LEMMA DriverForms ==
    ASSUME Forms, DriverStep
    PROVE  Forms'
  <1>1. /\ driver \in Drivers /\ Idle \in Drivers /\ UNCHANGED <<size, ibcast, handlers>>
        /\ barriers \in [Ranks -> Seq(Names)] /\ bcast \in [Workers -> Seq(Asked)] /\ sends \in Seq(Nat)
    BY NoCommandIs DEF Forms, DriverStep, ReceiveGrid, AnswerMatrix, OpenLibrary, AnswerLibrary,
                       TaskSent, RunHere, ReceiveCount, ReceiveResult, KeepResult, AnswerTask,
                       Crash, groupVars, mpiVars
  <1>2. ASSUME NEW at \in Places, NEW name \in Names, Enters(at, name)
        PROVE  driver' \in Drivers /\ barriers' \in [Ranks -> Seq(Names)]
    BY <1>2, EntersIs DEF IsDriver
  <1>3. ASSUME NEW ids \in Seq(Kept), Finish(ids)
        PROVE  /\ driver' \in Drivers /\ barriers' \in [Ranks -> Seq(Names)]
               /\ bcast' \in [Workers -> Seq(Asked)]
    BY <1>3, FinishIs DEF IsDriver
  <1>4. sends # <<>> => Tail(sends) \in Seq(Nat)
    BY <1>1, Popping
  <1>5. CASE ReceiveGrid
    <2>1. Enters("MADE", "NEW_MATRIX") /\ "MADE" \in Places /\ "NEW_MATRIX" \in Names
      BY <1>5 DEF ReceiveGrid, Places, Names
    <2>2. driver' \in Drivers /\ barriers' \in [Ranks -> Seq(Names)]
      BY <1>2, <2>1
    <2> QED
      BY <1>1, <1>4, <1>5, <2>2 DEF Forms, ReceiveGrid, clientVars
  <1>6. CASE AnswerMatrix
    BY <1>1, <1>6 DEF Forms, AnswerMatrix, mpiVars
  <1>7. CASE OpenLibrary
    <2>1. \/ driver' = Idle /\ UNCHANGED barriers
          \/ Enters("LOADED", "LOADED") /\ "LOADED" \in Places /\ "LOADED" \in Names
      BY <1>7 DEF OpenLibrary, Places, Names
    <2>2. driver' \in Drivers /\ barriers' \in [Ranks -> Seq(Names)]
      BY <1>1, <1>2, <2>1
    <2> QED
      BY <1>1, <1>7, <2>2 DEF Forms, OpenLibrary, clientVars
  <1>8. CASE AnswerLibrary
    <2>1. known' \subseteq Kept
      BY <1>8, SpanIs DEF Forms, AnswerLibrary, Kept, Drivers, Asked
    <2> QED
      BY <1>1, <1>8, <2>1 DEF Forms, AnswerLibrary, mpiVars
  <1>9. CASE TaskSent
    <2>1. Enters("SENT", "SENT") /\ "SENT" \in Places /\ "SENT" \in Names
      BY <1>9 DEF TaskSent, Places, Names
    <2>2. driver' \in Drivers /\ barriers' \in [Ranks -> Seq(Names)]
      BY <1>2, <2>1
    <2> QED
      BY <1>1, <1>9, <2>2 DEF Forms, TaskSent, clientVars
  <1>10. CASE RunHere
    <2>1. \/ UNCHANGED <<driver, barriers>>
          \/ Enters("RAN", "RAN") /\ "RAN" \in Places /\ "RAN" \in Names
      BY <1>10 DEF RunHere, Crash, mpiVars, Places, Names
    <2>2. driver' \in Drivers /\ barriers' \in [Ranks -> Seq(Names)]
      BY <1>1, <1>2, <2>1
    <2> QED
      BY <1>1, <1>10, <2>2 DEF Forms, RunHere, Crash, mpiVars, clientVars
  <1>11. CASE ReceiveCount
    <2>1. \/ Finish(<<>>)
          \/ driver' = [driver EXCEPT !.at = "INFO"] /\ UNCHANGED <<bcast, barriers>>
      BY <1>11 DEF ReceiveCount
    <2>2. [driver EXCEPT !.at = "INFO"] \in Drivers
      BY <1>1 DEF Drivers
    <2>3. <<>> \in Seq(Kept)
      OBVIOUS
    <2>4. /\ driver' \in Drivers /\ barriers' \in [Ranks -> Seq(Names)]
          /\ bcast' \in [Workers -> Seq(Asked)]
      BY <1>1, <1>3, <2>1, <2>2, <2>3
    <2> QED
      BY <1>1, <1>4, <1>11, <2>4 DEF Forms, ReceiveCount, clientVars
  <1>12. CASE ReceiveResult
    <2>1. Enters("RESULT", "RESULT") /\ "RESULT" \in Places /\ "RESULT" \in Names
      BY <1>12 DEF ReceiveResult, Places, Names
    <2>2. driver' \in Drivers /\ barriers' \in [Ranks -> Seq(Names)]
      BY <1>2, <2>1
    <2> QED
      BY <1>1, <1>4, <1>12, <2>2 DEF Forms, ReceiveResult, clientVars
  <1>13. CASE KeepResult
    <2>1. PICK new \in Kept, ids \in Seq(Kept) :
              /\ made' = made + 1 /\ next_matrixID' = next_matrixID + 1
              /\ Finish(ids) \/ (driver' \in Drivers /\ UNCHANGED <<bcast, barriers>>)
              /\ UNCHANGED <<next_libraryID, known, sends>>
      BY <1>13, KeepResultIs DEF IsDriver
    <2>2. /\ driver' \in Drivers /\ barriers' \in [Ranks -> Seq(Names)]
          /\ bcast' \in [Workers -> Seq(Asked)]
      BY <1>1, <1>3, <2>1
    <2> QED
      BY <1>1, <2>1, <2>2 DEF Forms
  <1>14. CASE AnswerTask
    BY <1>1, <1>14 DEF Forms, AnswerTask, mpiVars
  <1> QED
    BY <1>5, <1>6, <1>7, <1>8, <1>9, <1>10, <1>11, <1>12, <1>13, <1>14 DEF DriverStep

LEMMA GroupCommandIs ==
    ASSUME Forms, NEW w \in Workers, GroupCommand(w)
    PROVE  \E h \in Handlers :
               /\ IsThread(h, w, Head(ibcast[w]), "START", NoCommand, h.k, 0)
               /\ handlers' = handlers \cup {h} /\ ibcast[w] # <<>> /\ job = Running
               /\ ibcast' \in [Workers -> Seq(Codes)] /\ ibcast'[w] = Tail(ibcast[w])
               /\ \A v \in Workers \ {w} : ibcast'[v] = ibcast[v]
               /\ UNCHANGED <<groupVars, runs, made, clientVars, matrices, libraries, driver, bcast,
                              barriers, sends, current_matrixID, job>>
  <1>1. /\ ibcast \in [Workers -> Seq(Codes)] /\ ibcast[w] # <<>> /\ job = Running
        /\ ibcast' = [ibcast EXCEPT ![w] = Tail(@)]
    BY DEF Forms, GroupCommand
  <1>2. Tail(ibcast[w]) \in Seq(Codes) /\ Head(ibcast[w]) \in Codes
    BY <1>1, Popping
  <1> DEFINE number == CHOOSE k \in Unused(w) : TRUE
             h == [w |-> w, op |-> Head(ibcast[w]), at |-> "START", cmd |-> NoCommand,
                   k |-> number, i |-> 0]
  <1>3. number \in Nat
    BY CommandsAssumption DEF GroupCommand, Unused
  <1>4. handlers' = handlers \cup {h}
    BY DEF GroupCommand
  <1>5. UNCHANGED <<groupVars, runs, made, clientVars, matrices, libraries, driver, bcast,
                    barriers, sends, current_matrixID, job>>
    BY DEF GroupCommand
  <1> HIDE DEF number
  <1>6. h \in Handlers /\ IsThread(h, w, Head(ibcast[w]), "START", NoCommand, h.k, 0)
    BY <1>2, <1>3, NoCommandIs DEF Handlers, IsThread
  <1> HIDE DEF h
  <1> QED
    BY <1>1, <1>2, <1>4, <1>5, <1>6

LEMMA ChangeForms ==
    ASSUME Forms, NEW n \in 0 .. NumWorkers, NEW newClient \in BOOLEAN, ChangeGroup(n, newClient)
    PROVE  Forms'
  <1>1. /\ size' = n /\ barriers' = [p \in Ranks |-> <<>>]
        /\ handlers' = {[h EXCEPT !.k = 0] : h \in handlers}
        /\ UNCHANGED <<made, driver, ibcast, bcast, sends>>
    BY DEF ChangeGroup
  <1>2. <<>> \in Seq(Names)
    OBVIOUS
  <1>3. handlers' \subseteq Handlers
    <2>1. ASSUME NEW h \in handlers
          PROVE  [h EXCEPT !.k = 0] \in Handlers
      BY DEF Forms, Handlers
    <2> QED
      BY <1>1, <2>1
  <1>4. next_matrixID' \in Nat /\ next_libraryID' \in LibraryIDs /\ known' \subseteq Kept
    <2>1. 2 \in LibraryIDs
      BY CommandsAssumption DEF LibraryIDs
    <2> QED
      BY <2>1 DEF Forms, ChangeGroup, clientVars
  <1> QED
    BY <1>1, <1>2, <1>3, <1>4 DEF Forms

LEMMA NextForms ==
    ASSUME Forms, [Next]_vars
    PROVE  Forms'
  <1>1. CASE NewMatrix
    BY <1>1, NewMatrixIs, StartsIs DEF Forms, IsAsked, Codes, groupVars
  <1>2. ASSUME NEW fails \in NotLoadable, LoadLibrary(fails)
        PROVE  Forms'
    <2>1. PICK cmd \in Asked :
              /\ cmd.op = "LOAD" /\ Starts(cmd) /\ driver' \in Drivers /\ Barrier(0, "LOAD")
              /\ made' = made + 1 /\ next_libraryID' \in LibraryIDs
              /\ UNCHANGED <<size, next_matrixID, known, sends, handlers>>
      BY <1>2, LoadLibraryIs DEF IsAsked, groupVars
    <2>2. "LOAD" \in Names /\ "LOAD" \in Codes /\ 0 \in Ranks
      BY SpanIs DEF Names, Codes
    <2>3. barriers' \in [Ranks -> Seq(Names)]
      BY <2>1, <2>2, BarrierIs
    <2>4. ibcast' \in [Workers -> Seq(Codes)] /\ bcast' \in [Workers -> Seq(Asked)]
      BY <2>1, <2>2, StartsIs
    <2> QED
      BY <2>1, <2>3, <2>4 DEF Forms
  <1>3. ASSUME NEW lib \in known, NEW arg \in 0 .. MaxMade + 1, NEW n \in 0 .. MaxResults,
               RunTask(lib, arg, n)
        PROVE  Forms'
    <2>1. arg \in Nat /\ n \in Nat
      BY CommandsAssumption
    <2>2. PICK cmd \in Asked :
              /\ cmd.op = "RUN" /\ Starts(cmd) /\ driver' \in Drivers /\ Barrier(0, "TASK")
              /\ UNCHANGED <<size, made, next_libraryID, next_matrixID, known, sends, handlers>>
      BY <1>3, <2>1, RunTaskIs DEF IsAsked, groupVars, clientVars
    <2>3. "TASK" \in Names /\ "RUN" \in Codes /\ 0 \in Ranks
      BY SpanIs DEF Names, Codes
    <2>4. barriers' \in [Ranks -> Seq(Names)]
      BY <2>2, <2>3, BarrierIs
    <2>5. ibcast' \in [Workers -> Seq(Codes)] /\ bcast' \in [Workers -> Seq(Asked)]
      BY <2>2, <2>3, StartsIs
    <2> QED
      BY <2>2, <2>4, <2>5 DEF Forms
  <1>4. CASE DriverStep
    BY <1>4, DriverForms
  <1>5. ASSUME NEW w \in Workers, GroupCommand(w)
        PROVE  Forms'
    BY <1>5, GroupCommandIs DEF Forms, groupVars, clientVars
  <1>6. ASSUME NEW w \in Workers, HandlerStep(w)
        PROVE  Forms'
    BY <1>6, HandlerForms
  <1>7. ASSUME NEW w \in Workers, NEW id \in MatrixIDs, AccessMatrix(w, id)
        PROVE  Forms'
    BY <1>7 DEF Forms, AccessMatrix, Crash, vars, groupVars, clientVars, mpiVars
  <1>8. ASSUME NEW n \in 0 .. NumWorkers, NEW newClient \in BOOLEAN, ChangeGroup(n, newClient)
        PROVE  Forms'
    BY <1>8, ChangeForms
  <1>9. CASE UNCHANGED vars
    BY <1>9 DEF Forms, vars, groupVars, clientVars, mpiVars
  <1> QED
    BY <1>1, <1>2, <1>3, <1>4, <1>5, <1>6, <1>7, <1>8, <1>9 DEF Next

-----------------------------------------------------------------------------
(* Until the IDs come round, a library's ID is above all those before it, and *)
(* what the driver keeps under them is theirs.                               *)
LibrariesHeld ==
    /\ libraries \in [Ranks -> [LibraryIDs -> Nat]] /\ loads \in Nat
    /\ loads <= LibraryIDSpan - 3 =>
           /\ next_libraryID = 2 + loads
           /\ \A id \in LibraryIDs : id > next_libraryID => libraries[0][id] = 0
           /\ \A lib \in known : lib \in [id: 3 .. next_libraryID, thing: Nat]
                                 /\ libraries[0][lib.id] = lib.thing
           /\ driver.at \in {"LOAD", "LOADED"} => /\ driver.cmd.id = next_libraryID /\ loads > 0
                                                  /\ \A lib \in known : lib.id < next_libraryID
           /\ driver.at = "LOAD" => libraries[0][next_libraryID] = 0
           /\ driver.at = "LOADED" => libraries[0][next_libraryID] = driver.cmd.thing

LEMMA InsertIs ==
    ASSUME NEW map \in [Ranks -> [LibraryIDs -> Nat]], NEW p \in Ranks, NEW id, NEW thing \in Nat
    PROVE  /\ Insert(map, p, id, thing) \in [Ranks -> [LibraryIDs -> Nat]]
           /\ \A q \in Ranks : \A i \in LibraryIDs :
                  Insert(map, p, id, thing)[q][i] =
                      IF q = p /\ i = id /\ map[p][i] = 0 THEN thing ELSE map[q][i]
  BY DEF Insert

LEMMA HeldStays ==
    ASSUME Forms, LibrariesHeld,
           UNCHANGED <<libraries, loads, next_libraryID, known>>,
           driver'.at \notin {"LOAD", "LOADED"} \/ UNCHANGED driver
    PROVE  LibrariesHeld'
  BY DEF LibrariesHeld

LEMMA LoadHeld ==
    ASSUME Forms, LibrariesHeld, NEW fails \in NotLoadable, LoadLibrary(fails)
    PROVE  LibrariesHeld'
  <1>1. PICK cmd \in Asked :
            /\ cmd.id = (next_libraryID + 1) % LibraryIDSpan
            /\ driver'.at = "LOAD" /\ driver'.cmd = cmd
            /\ loads' = loads + 1 /\ next_libraryID' = (next_libraryID + 1) % LibraryIDSpan
            /\ next_libraryID' \in LibraryIDs /\ UNCHANGED <<libraries, known>>
    BY LoadLibraryIs DEF IsAsked
  <1>2. ASSUME loads' <= LibraryIDSpan - 3
        PROVE  /\ loads <= LibraryIDSpan - 3 /\ next_libraryID = 2 + loads
               /\ next_libraryID' = next_libraryID + 1
    <2>1. loads \in Nat /\ loads + 1 <= LibraryIDSpan - 3 /\ LibraryIDSpan \in Nat
      BY <1>1, <1>2, SpanIs DEF LibrariesHeld
    <2>2. loads <= LibraryIDSpan - 3
      BY <2>1
    <2>3. next_libraryID = 2 + loads
      BY <2>2 DEF LibrariesHeld
    <2>4. next_libraryID + 1 \in 0 .. LibraryIDSpan - 1
      BY <2>1, <2>3
    <2>5. \A n \in 0 .. LibraryIDSpan - 1 : n % LibraryIDSpan = n
      BY <2>1
    <2> QED
      BY <1>1, <2>2, <2>3, <2>4, <2>5
  <1>3. loads' \in Nat /\ (libraries \in [Ranks -> [LibraryIDs -> Nat]])'
    BY <1>1 DEF LibrariesHeld
  <1>4. next_libraryID \in Nat /\ next_libraryID' \in LibraryIDs /\ LibraryIDs \subseteq Nat
    BY <1>1, SpanIs DEF Forms
  <1> SUFFICES ASSUME loads' <= LibraryIDSpan - 3
               PROVE  LibrariesHeld'
    BY <1>3 DEF LibrariesHeld
  <1>5. next_libraryID' = next_libraryID + 1 /\ loads <= LibraryIDSpan - 3 /\ next_libraryID = 2 + loads
    BY <1>2
  <1>6. /\ \A id \in LibraryIDs : id > next_libraryID => libraries[0][id] = 0
        /\ \A lib \in known : lib \in [id: 3 .. next_libraryID, thing: Nat]
                              /\ libraries[0][lib.id] = lib.thing
    BY <1>5 DEF LibrariesHeld
  <1>7. \A lib \in known : lib \in [id: 3 .. next_libraryID + 1, thing: Nat]
                           /\ lib.id < next_libraryID + 1
    BY <1>4, <1>6
  <1>8. libraries[0][next_libraryID + 1] = 0
    BY <1>4, <1>5, <1>6
  <1>9. \A id \in LibraryIDs : id > next_libraryID + 1 => libraries[0][id] = 0
    BY <1>4, <1>6
  <1>10. loads + 1 > 0 /\ 2 + (loads + 1) = next_libraryID + 1
    BY <1>5 DEF LibrariesHeld
  <1> QED
    BY <1>1, <1>3, <1>5, <1>6, <1>7, <1>8, <1>9, <1>10 DEF LibrariesHeld

LEMMA OpenHeld ==
    ASSUME Forms, LibrariesHeld, OpenLibrary
    PROVE  LibrariesHeld'
  <1>1. CASE 0 \in driver.cmd.fails
    BY <1>1, HeldStays, NoCommandIs DEF OpenLibrary, clientVars
  <1>2. CASE 0 \notin driver.cmd.fails
    <2>1. /\ libraries' = Insert(libraries, 0, driver.cmd.id, driver.cmd.thing)
          /\ Enters("LOADED", "LOADED") /\ driver.at = "LOAD"
          /\ UNCHANGED <<loads, next_libraryID, known>>
      BY <1>2 DEF OpenLibrary, clientVars, Through
    <2>2. driver'.at = "LOADED" /\ driver'.cmd = driver.cmd
      BY <2>1, EntersIs DEF IsDriver, Places, Names
    <2>3. driver.cmd.thing \in Nat /\ 0 \in Ranks
      BY SpanIs DEF Forms, Drivers, Asked
    <2>4. /\ libraries' \in [Ranks -> [LibraryIDs -> Nat]]
          /\ \A i \in LibraryIDs :
                 libraries'[0][i] = IF i = driver.cmd.id /\ libraries[0][i] = 0 THEN driver.cmd.thing
                                    ELSE libraries[0][i]
      <3>1. libraries \in [Ranks -> [LibraryIDs -> Nat]]
        BY DEF LibrariesHeld
      <3> QED
        BY <2>1, <2>3, <3>1, InsertIs
    <2>5. next_libraryID \in LibraryIDs /\ LibraryIDs \subseteq Nat
      BY SpanIs DEF Forms
    <2> SUFFICES ASSUME loads <= LibraryIDSpan - 3
                 PROVE  LibrariesHeld'
      BY <2>1, <2>4 DEF LibrariesHeld
    <2>6. /\ next_libraryID = 2 + loads /\ loads > 0 /\ driver.cmd.id = next_libraryID
          /\ \A id \in LibraryIDs : id > next_libraryID => libraries[0][id] = 0
          /\ \A lib \in known : /\ lib \in [id: 3 .. next_libraryID, thing: Nat]
                                /\ libraries[0][lib.id] = lib.thing /\ lib.id < next_libraryID
          /\ libraries[0][next_libraryID] = 0 /\ loads \in Nat
      BY <2>1 DEF LibrariesHeld
    <2>7. \A id \in LibraryIDs : id > next_libraryID => libraries'[0][id] = 0
      <3> TAKE id \in LibraryIDs
      <3> HAVE id > next_libraryID
      <3>1. libraries[0][id] = 0 /\ id # driver.cmd.id
        BY <2>5, <2>6
      <3> QED
        BY <2>4, <3>1
    <2>8. libraries'[0][next_libraryID] = driver.cmd.thing
      BY <2>4, <2>5, <2>6
    <2>9. \A lib \in known : lib.id \in LibraryIDs /\ libraries'[0][lib.id] = lib.thing
      <3> TAKE lib \in known
      <3>1. lib.id \in 3 .. next_libraryID /\ lib.id < next_libraryID
        BY <2>6
      <3>2. lib.id \in LibraryIDs
        BY <2>5, <3>1, SpanIs DEF LibraryIDs
      <3> QED
        BY <2>4, <2>6, <3>1, <3>2
    <2> QED
      BY <2>1, <2>2, <2>4, <2>6, <2>7, <2>8, <2>9 DEF LibrariesHeld
  <1> QED
    BY <1>1, <1>2

LEMMA HeldAlways ==
    ASSUME Forms, LibrariesHeld, [Next]_vars
    PROVE  LibrariesHeld'
  <1>1. CASE NewMatrix
    BY <1>1, HeldStays, NewMatrixIs
  <1>2. ASSUME NEW fails \in NotLoadable, LoadLibrary(fails)
        PROVE  LibrariesHeld'
    BY <1>2, LoadHeld
  <1>3. ASSUME NEW lib \in known, NEW arg \in 0 .. MaxMade + 1, NEW n \in 0 .. MaxResults,
               RunTask(lib, arg, n)
        PROVE  LibrariesHeld'
    <2>1. arg \in Nat /\ n \in Nat
      BY CommandsAssumption
    <2>2. driver'.at = "TASK" /\ UNCHANGED <<libraries, loads, next_libraryID, known>>
      BY <1>3, <2>1, RunTaskIs DEF clientVars
    <2> QED
      BY <2>2, HeldStays
  <1>4. CASE OpenLibrary
    BY <1>4, OpenHeld
  <1>5. CASE AnswerLibrary
    <2>1. /\ known' = known \cup {[id |-> next_libraryID, thing |-> driver.cmd.thing]}
          /\ driver.at = "LOADED" /\ driver'.at = "IDLE"
          /\ UNCHANGED <<libraries, loads, next_libraryID>>
      BY <1>5, NoCommandIs DEF AnswerLibrary, Through
    <2>2. driver.cmd.thing \in Nat
      BY DEF Forms, Drivers, Asked
    <2>3. loads <= LibraryIDSpan - 3 => next_libraryID \in 3 .. next_libraryID
      BY <2>1 DEF LibrariesHeld
    <2> QED
      BY <2>1, <2>2, <2>3 DEF LibrariesHeld
  <1>6. CASE \/ ReceiveGrid \/ TaskSent \/ RunHere \/ ReceiveResult
    <2>1. /\ UNCHANGED <<libraries, loads, next_libraryID, known>>
          /\ \/ UNCHANGED driver
             \/ \E at \in {"MADE", "SENT", "RAN", "RESULT"} : \E name \in Names : Enters(at, name)
      BY <1>6 DEF ReceiveGrid, TaskSent, RunHere, ReceiveResult, Crash, Names, clientVars
    <2>2. UNCHANGED driver \/ driver'.at \notin {"LOAD", "LOADED"}
      BY <2>1, EntersIs DEF IsDriver, Places
    <2> QED
      BY <2>1, <2>2, HeldStays
  <1>7. CASE AnswerMatrix \/ AnswerTask
    BY <1>7, HeldStays, NoCommandIs DEF AnswerMatrix, AnswerTask
  <1>8. CASE ReceiveCount
    <2>1. /\ UNCHANGED <<libraries, loads, next_libraryID, known>>
          /\ Finish(<<>>) \/ driver' = [driver EXCEPT !.at = "INFO"]
      BY <1>8 DEF ReceiveCount, clientVars
    <2>2. CASE Finish(<<>>)
      <3>1. <<>> \in Seq(Kept)
        OBVIOUS
      <3>2. driver'.at = "DONE"
        BY <2>2, <3>1, FinishIs DEF IsDriver
      <3> QED
        BY <2>1, <3>2, HeldStays
    <2>3. CASE driver' = [driver EXCEPT !.at = "INFO"]
      <3>1. driver'.at = "INFO"
        BY <2>3 DEF Forms, Drivers
      <3> QED
        BY <2>1, <3>1, HeldStays
    <2> QED
      BY <2>1, <2>2, <2>3
  <1>9. CASE KeepResult
    <2>1. /\ UNCHANGED <<libraries, loads, next_libraryID, known>>
          /\ \/ \E ids \in Seq(Kept) : Finish(ids)
             \/ driver'.at = "INFO"
      BY <1>9, KeepResultIs DEF IsDriver
    <2>2. driver'.at \notin {"LOAD", "LOADED"}
      BY <2>1, FinishIs DEF IsDriver
    <2> QED
      BY <2>1, <2>2, HeldStays
  <1>10. ASSUME NEW w \in Workers, GroupCommand(w)
         PROVE  LibrariesHeld'
    BY <1>10, HeldStays DEF GroupCommand, clientVars
  <1>11. ASSUME NEW w \in Workers, HandlerStep(w)
         PROVE  LibrariesHeld'
    <2>1. /\ UNCHANGED <<driver, loads, next_libraryID, known>>
          /\ \/ UNCHANGED libraries
             \/ \E h \in handlers : h.w = w /\ libraries' = Insert(libraries, w, h.cmd.id, h.cmd.thing)
      BY <1>11 DEF HandlerStep, clientVars, TakeMatrix, MakeMatrix, TakeLibrary, KeepLibrary,
                   TakeTask, CopyTask, RunTaskHere, CountResults, SendResult, KeepResults
    <2>2. CASE UNCHANGED libraries
      BY <2>1, <2>2, HeldStays
    <2>3. ASSUME NEW h \in handlers, h.w = w, libraries' = Insert(libraries, w, h.cmd.id, h.cmd.thing)
          PROVE  LibrariesHeld'
      <3>1. h.cmd.thing \in Nat /\ w \in Ranks /\ w # 0 /\ 0 \in Ranks
        BY SpanIs DEF Forms, Handlers, Asked
      <3>2. libraries \in [Ranks -> [LibraryIDs -> Nat]]
        BY DEF LibrariesHeld
      <3>3. /\ libraries' \in [Ranks -> [LibraryIDs -> Nat]]
            /\ \A i \in LibraryIDs : libraries'[0][i] = libraries[0][i]
        BY <2>3, <3>1, <3>2, InsertIs
      <3>4. /\ next_libraryID \in LibraryIDs /\ 3 .. next_libraryID \subseteq LibraryIDs
        BY SpanIs DEF Forms, LibraryIDs
      <3> QED
        BY <2>1, <3>3, <3>4 DEF LibrariesHeld
    <2> QED
      BY <2>1, <2>2, <2>3
  <1>12. ASSUME NEW w \in Workers, NEW id \in MatrixIDs, AccessMatrix(w, id)
         PROVE  LibrariesHeld'
    BY <1>12, HeldStays DEF AccessMatrix, Crash, vars, clientVars
  <1>13. ASSUME NEW n \in 0 .. NumWorkers, NEW newClient \in BOOLEAN, ChangeGroup(n, newClient)
         PROVE  LibrariesHeld'
    <2>1. CASE ~ newClient
      BY <1>13, <2>1, HeldStays DEF ChangeGroup, clientVars
    <2>2. CASE newClient
      <3>1. /\ loads' = 0 /\ next_libraryID' = 2 /\ known' = {}
            /\ libraries' = [libraries EXCEPT ![0] = [id \in LibraryIDs |-> 0]]
            /\ driver' = Idle
        BY <1>13, <2>2 DEF ChangeGroup
      <3>2. libraries \in [Ranks -> [LibraryIDs -> Nat]] /\ 0 \in Ranks
        BY SpanIs DEF LibrariesHeld
      <3>3. /\ libraries' \in [Ranks -> [LibraryIDs -> Nat]]
            /\ \A i \in LibraryIDs : libraries'[0][i] = 0
        BY <3>1, <3>2
      <3> QED
        BY <3>1, <3>3, NoCommandIs DEF LibrariesHeld
    <2> QED
      BY <2>1, <2>2
  <1>14. CASE UNCHANGED vars
    BY <1>14, HeldStays DEF vars, clientVars
  <1> QED
    BY <1>1, <1>2, <1>3, <1>4, <1>5, <1>6, <1>7, <1>8, <1>9, <1>10, <1>11, <1>12, <1>13, <1>14
    DEF Next, DriverStep

LEMMA Beginning == Init => Forms /\ LibrariesHeld
  <1> SUFFICES ASSUME Init PROVE Forms /\ LibrariesHeld
    OBVIOUS
  <1>1. 2 \in LibraryIDs
    BY CommandsAssumption DEF LibraryIDs
  <1> QED
    BY <1>1, NoCommandIs, SpanIs DEF Init, Forms, LibrariesHeld

(* Whatever the workers do, and whichever libraries go astray: as long as the *)
(* 8 bits of next_libraryID have not come round, an ID that load_library told *)
(* the client stands for that library in GroupDriver's libraries, and no two  *)
(* libraries have the same.                                                  *)
THEOREM LibrariesAreKept == Spec => []LibraryKept
  <1>1. Init => Forms /\ LibrariesHeld
    BY Beginning
  <1>2. (Forms /\ LibrariesHeld) /\ [Next]_vars => (Forms /\ LibrariesHeld)'
    BY NextForms, HeldAlways
  <1>3. Forms /\ LibrariesHeld => LibraryKept
    <2> SUFFICES ASSUME Forms, LibrariesHeld, loads <= LibraryIDSpan - 3
                 PROVE  /\ \A lib \in known : libraries[0][lib.id] = lib.thing /\ lib.id # 0
                        /\ \A a, b \in known : a.id = b.id => a = b
      BY DEF LibraryKept
    <2>1. \A lib \in known : lib \in [id: 3 .. next_libraryID, thing: Nat]
                             /\ libraries[0][lib.id] = lib.thing
      BY DEF LibrariesHeld
    <2>2. next_libraryID \in Nat
      BY SpanIs DEF Forms
    <2> QED
      BY <2>1, <2>2
  <1> QED
    BY <1>1, <1>2, <1>3, PTL DEF Spec

-----------------------------------------------------------------------------
LEMMA StepsIn ==
    ASSUME Forms
    PROVE  /\ Steps \in Nat /\ Ears \in Nat /\ Len(driver.ids) \in Nat /\ driver.cmd.results \in Nat
           /\ \A w \in Workers, at \in Ats, i \in Nat :
                  /\ WorkerEntered(driver.cmd, w, at, i) \in Nat /\ Said(driver.cmd, at, i) \in Nat
           /\ \A p \in Ranks : barriers[p] \in Seq(Names) /\ Len(barriers[p]) \in Nat
           /\ Members \subseteq Workers
           /\ \A k \in Nat : Nth(driver.cmd, k) \in Names
  <1>1. driver.ids \in Seq(Kept) /\ driver.cmd.results \in Nat /\ driver \in Drivers
    BY DEF Forms, Drivers, Asked
  <1>2. Len(driver.ids) \in Nat
    BY <1>1
  <1>3. Steps \in Nat
    BY <1>1, <1>2 DEF Steps, DriverEntered
  <1>4. Ears \in Nat
    BY <1>1, <1>2 DEF Ears, Heard
  <1>5. ASSUME NEW w \in Workers, NEW at \in Ats, NEW i \in Nat
        PROVE  WorkerEntered(driver.cmd, w, at, i) \in Nat
    BY <1>1 DEF WorkerEntered
  <1>6. ASSUME NEW at \in Ats, NEW i \in Nat
        PROVE  Said(driver.cmd, at, i) \in Nat
    BY <1>1 DEF Said
  <1>7. Members \subseteq Workers
    BY SpanIs DEF Forms, Members, Workers
  <1>8. \A p \in Ranks : barriers[p] \in Seq(Names) /\ Len(barriers[p]) \in Nat
    <2> TAKE p \in Ranks
    <2>1. barriers[p] \in Seq(Names)
      BY DEF Forms
    <2> QED
      BY <2>1, LenProperties
  <1>9. \A k \in Nat : Nth(driver.cmd, k) \in Names
    BY DEF Nth, Names
  <1> QED
    BY <1>1, <1>2, <1>3, <1>4, <1>5, <1>6, <1>7, <1>8, <1>9

LEMMA LevelUp ==
    ASSUME NEW w \in Workers, NEW n \in Nat, Steps \in Nat, Level(w, n), n <= Steps,
           UNCHANGED driver, barriers'[0] = barriers[0],
           barriers'[w] = Append(barriers[w], Nth(driver.cmd, n + 1))
    PROVE  Level(w, n + 1)'
  <1>1. Steps' = Steps
    BY DEF Steps
  <1>2. CASE n = Steps
    BY <1>1, <1>2 DEF Level
  <1>3. CASE n + 1 = Steps
    <2>1. barriers[0] = Append(barriers[w], Nth(driver.cmd, Steps))
      BY <1>3 DEF Level
    <2> QED
      BY <1>1, <1>3, <2>1 DEF Level
  <1> QED
    BY <1>2, <1>3 DEF Level

\* A process that all have met in its last barrier is not ahead.
LEMMA MetWorker ==
    ASSUME Forms, NEW w \in Workers, NEW n \in Nat, Level(w, n), NEW k \in Nat, k = Len(barriers[w]), Met(k)
    PROVE  n <= Steps
  <1>1. Len(barriers[0]) >= Len(barriers[w])
    BY DEF Met
  <1>2. /\ barriers[0] \in Seq(Names) /\ Len(barriers[0]) \in Nat /\ Steps \in Nat
        /\ \A m \in Nat : Nth(driver.cmd, m) \in Names
    BY StepsIn, SpanIs
  <1>3. ASSUME n = Steps + 1, barriers[w] = Append(barriers[0], Nth(driver.cmd, n))
        PROVE  FALSE
    <2>1. Nth(driver.cmd, n) \in Names
      BY <1>2
    <2>2. Len(barriers[w]) = Len(barriers[0]) + 1
      BY <1>2, <1>3, <2>1, Joining
    <2> QED
      BY <1>1, <1>2, <2>2
  <1> QED
    BY <1>2, <1>3 DEF Level

LEMMA MetDriver ==
    ASSUME Forms, NEW w \in Members, NEW n \in Nat, Level(w, n), Met(driver.k),
           driver.k = Len(barriers[0])
    PROVE  n >= Steps
  <1>1. Len(barriers[w]) >= Len(barriers[0])
    BY DEF Met
  <1>2. /\ w \in Ranks /\ barriers[w] \in Seq(Names) /\ Len(barriers[w]) \in Nat /\ Steps \in Nat
        /\ \A m \in Nat : Nth(driver.cmd, m) \in Names
    BY StepsIn, SpanIs
  <1>3. ASSUME Steps = n + 1, barriers[0] = Append(barriers[w], Nth(driver.cmd, Steps))
        PROVE  FALSE
    <2>1. Nth(driver.cmd, Steps) \in Names
      BY <1>2
    <2>2. Len(barriers[0]) = Len(barriers[w]) + 1
      BY <1>2, <1>3, <2>1, Joining
    <2> QED
      BY <1>1, <1>2, <2>2
  <1> QED
    BY <1>2, <1>3 DEF Level

LEMMA ToldMore ==
    ASSUME NEW n \in Nat, NEW x \in Nat, Ears \in Nat, Told(n), x = Message(driver.cmd, n + 1),
           UNCHANGED driver, sends' = Append(sends, x)
    PROVE  Told(n + 1)'
  <1>1. Ears' = Ears /\ n >= Ears /\ sends \in Seq(Nat) /\ Len(sends) = n - Ears
    BY DEF Ears, Told
  <1>2. /\ sends' \in Seq(Nat) /\ Len(sends') = n + 1 - Ears
        /\ \A k \in 1 .. Len(sends) : sends'[k] = sends[k]
        /\ sends'[Len(sends) + 1] = x
    BY <1>1, Joining
  <1>3. \A k \in 1 .. n + 1 - Ears : sends'[k] = Message(driver.cmd, Ears + k)
    <2> TAKE k \in 1 .. n + 1 - Ears
    <2>1. CASE k \in 1 .. n - Ears
      BY <1>1, <1>2, <2>1 DEF Told
    <2>2. CASE k = n + 1 - Ears
      BY <1>1, <1>2, <2>2
    <2> QED
      BY <1>1, <2>1, <2>2
  <1> QED
    BY <1>1, <1>2, <1>3 DEF Told

LEMMA ToldLess ==
    ASSUME NEW n \in Nat, Ears \in Nat, Told(n), driver'.cmd = driver.cmd, sends # <<>>,
           sends' = Tail(sends), Ears' = Ears + 1
    PROVE  Told(n)' /\ Head(sends) = Message(driver.cmd, Ears + 1)
  <1>1. n >= Ears /\ sends \in Seq(Nat) /\ Len(sends) = n - Ears
    BY DEF Told
  <1>2. /\ sends' \in Seq(Nat) /\ Head(sends) = sends[1] /\ Len(sends) # 0
        /\ Len(sends') = Len(sends) - 1
        /\ \A k \in 1 .. Len(sends) - 1 : sends'[k] = sends[k + 1]
    BY <1>1, Popping
  <1>3. \A k \in 1 .. n - (Ears + 1) : sends'[k] = Message(driver.cmd, Ears + 1 + k)
    <2> TAKE k \in 1 .. n - (Ears + 1)
    <2>1. k + 1 \in 1 .. n - Ears /\ k \in 1 .. Len(sends) - 1 /\ Ears + (k + 1) = Ears + 1 + k
      BY <1>1, <1>2
    <2>2. sends[k + 1] = Message(driver.cmd, Ears + (k + 1))
      BY <2>1 DEF Told
    <2> QED
      BY <1>2, <2>1, <2>2
  <1>4. sends[1] = Message(driver.cmd, Ears + 1)
    BY <1>1, <1>2 DEF Told
  <1> QED
    BY <1>1, <1>2, <1>3, <1>4 DEF Told

LEMMA ThreadsAfter ==
    ASSUME NEW w \in Workers, NEW h \in handlers, h.w = w, Threads[w] = {h}
    PROVE  /\ Done(h) => Threads'[w] = {}
           /\ \A t : Becomes(h, t) /\ t.w = w => Threads'[w] = IF Live(t) THEN {t} ELSE {}
           /\ \A v \in Workers \ {w} : Done(h) => Threads'[v] = Threads[v]
           /\ \A v \in Workers \ {w} : \A t : Becomes(h, t) /\ t.w = w => Threads'[v] = Threads[v]
  <1>1. \A g \in handlers : g.w = w /\ Live(g) <=> g = h
    BY DEF Threads
  <1>2. Done(h) => Threads'[w] = {}
    BY <1>1 DEF Threads, Done
  <1>3. ASSUME NEW t, Becomes(h, t), t.w = w
        PROVE  Threads'[w] = IF Live(t) THEN {t} ELSE {}
    BY <1>1, <1>3 DEF Threads, Becomes
  <1>4. ASSUME NEW v \in Workers \ {w}, Done(h)
        PROVE  Threads'[v] = Threads[v]
    BY <1>4 DEF Threads, Done
  <1>5. ASSUME NEW v \in Workers \ {w}, NEW t, Becomes(h, t), t.w = w
        PROVE  Threads'[v] = Threads[v]
    BY <1>5 DEF Threads, Becomes
  <1> QED
    BY <1>2, <1>3, <1>4, <1>5

\* The step of one worker leaves the others alone.
Aside(w) ==
    /\ \A v \in Workers \ {w} :
           bcast'[v] = bcast[v] /\ Threads'[v] = Threads[v] /\ barriers'[v] = barriers[v]
    /\ \A v \in Workers \ {w} : ibcast'[v] = ibcast[v]
    /\ barriers'[0] = barriers[0] /\ (w # Primary => sends' = sends)
    /\ UNCHANGED <<driver, size, astray>>

LEMMA OthersStay ==
    ASSUME NEW w \in Workers, NEW v \in Workers, v # w, Aside(w), handlers \subseteq Handlers,
           NEW at \in Ats, NEW i \in Nat, Place(v, at, i)
    PROVE  Place(v, at, i)'
  <1>1. Steps' = Steps /\ Ears' = Ears /\ IDs' = IDs /\ UNCHANGED driver
    BY DEF Aside, Steps, Ears, IDs
  <1>2. Stands(v, at, i)'
    <2>1. Thread(v, at, i) => Thread(v, at, i)'
      <3> SUFFICES ASSUME NEW h \in handlers, Threads[v] = {h}, h.w = v, h.at = at, h.i = i,
                          h.op = driver.cmd.op, at # "START" => h.cmd = driver.cmd,
                          at \in Waits => h.k = Len(barriers[v])
                   PROVE  Thread(v, at, i)'
        BY DEF Thread
      <3>1. Threads'[v] = {h} /\ barriers'[v] = barriers[v]
        BY DEF Aside
      <3>2. h \in handlers'
        BY <3>1 DEF Threads
      <3> QED
        BY <1>1, <3>1, <3>2 DEF Thread
    <2> QED
      BY <1>1, <2>1 DEF Aside, Stands, Place
  <1>3. Level(v, WorkerEntered(driver.cmd, v, at, i))'
    BY <1>1 DEF Aside, Level, Place
  <1>4. v = Primary => Told(Said(driver.cmd, at, i))'
    BY <1>1 DEF Aside, Told, Place
  <1> QED
    BY <1>1, <1>2, <1>3, <1>4 DEF Place

LEMMA WorkerMoved ==
    ASSUME Forms, Forms', InTime, astray = {}, NEW w \in Members, Aside(w),
           NEW at \in Ats, NEW i \in Nat, Place(w, at, i)'
    PROVE  InTime'
  <1>1. Driving /\ Members' = Members /\ Members \subseteq Workers /\ handlers \subseteq Handlers
        /\ UNCHANGED <<driver, size>> /\ barriers'[0] = barriers[0]
    BY StepsIn DEF InTime, Aside, Members, Forms
  <1>2. \A v \in Members : InStep(v)'
    <2> TAKE v \in Members
    <2>1. CASE v = w
      BY <2>1 DEF InStep
    <2>2. CASE v # w
      BY <1>1, <2>2, OthersStay DEF InStep, InTime
    <2> QED
      BY <2>1, <2>2
  <1>3. \A v \in Workers \ Members : /\ ibcast'[v] = <<>> /\ bcast'[v] = <<>>
                                     /\ Threads'[v] = {}
    BY DEF InTime, Aside
  <1>4. Driving'
    <2>1. size # 0
      BY SpanIs DEF Members, Forms
    <2> QED
      BY <1>1, <2>1 DEF Driving
  <1> QED
    BY <1>1, <1>2, <1>3, <1>4 DEF InTime

-----------------------------------------------------------------------------
(* A handler's step.                                                         *)
Here(h, w) ==
    /\ h.w = w /\ w \in Members /\ Threads[w] = {h} /\ Place(w, h.at, h.i)
    /\ h.op = driver.cmd.op /\ (h.at # "START" => h.cmd = driver.cmd)
    /\ h.at \in Waits => h.k = Len(barriers[w])
    /\ h \in Handlers /\ w \in Workers /\ h.at \in Ats \ {"TOLD", "OUT"} /\ h.i \in Nat
    /\ Fits(driver.cmd, w, h.at, h.i) /\ ibcast[w] = <<>>
    /\ Level(w, WorkerEntered(driver.cmd, w, h.at, h.i))

LEMMA HandlerHere ==
    ASSUME Forms, InTime, astray = {}, NEW w \in Workers, NEW h \in handlers, h.w = w, Live(h)
    PROVE  Here(h, w)
  <1>1. h \in Threads[w] /\ h \in Handlers
    BY DEF Threads, Forms
  <1>2. w \in Members
    BY <1>1 DEF InTime
  <1>3. PICK at \in Ats, i \in Nat : Place(w, at, i)
    BY <1>2 DEF InTime, InStep
  <1>4. at \notin {"TOLD", "OUT"} /\ Thread(w, at, i) /\ Fits(driver.cmd, w, at, i) /\ ibcast[w] = <<>>
        /\ Level(w, WorkerEntered(driver.cmd, w, at, i))
    BY <1>1, <1>3 DEF Place, Stands
  <1> QED
    BY <1>1, <1>2, <1>3, <1>4 DEF Thread, Here

LEMMA AsideIs ==
    ASSUME Forms, NEW w \in Workers, NEW h \in handlers, Here(h, w),
           Done(h) \/ (\E t : Becomes(h, t) /\ t.w = w),
           barriers' = barriers \/ (\E name \in Names : Barrier(w, name)),
           bcast' = bcast \/ Takes(h), sends' = sends \/ (\E x : Tells(h, x)),
           UNCHANGED <<driver, size, astray, ibcast>>
    PROVE  Aside(w)
  <1>1. \A v \in Workers \ {w} : Threads'[v] = Threads[v]
    BY ThreadsAfter DEF Here
  <1>2. \A q \in Ranks \ {w} : barriers'[q] = barriers[q]
    BY BarrierIs, SpanIs DEF Here
  <1>3. \A v \in Workers \ {w} : bcast'[v] = bcast[v]
    BY DEF Takes, Here, Forms
  <1>4. w # Primary => sends' = sends
    BY DEF Tells, Here
  <1> QED
    BY <1>1, <1>2, <1>3, <1>4, SpanIs DEF Aside

LEMMA Arrives ==
    ASSUME Forms, NEW w \in Workers, NEW at \in Ats, NEW i \in Nat, Place(w, at, i), ibcast[w] = <<>>,
           NEW to \in Ats \ {"TOLD", "START"}, NEW j \in Nat,
           Aside(w), UNCHANGED ibcast, Fits(driver.cmd, w, to, j),
           IF to = "OUT" THEN Threads'[w] = {}
           ELSE \E t \in handlers' :
                    /\ Threads'[w] = {t} /\ t.w = w /\ t.at = to /\ t.i = j /\ t.op = driver.cmd.op
                    /\ t.cmd = driver.cmd
                    /\ to \in Waits => t.k = Len(barriers'[w]),
           bcast'[w] = IF driver.at = "DONE" /\ to = "RESULT" THEN <<IDs>> ELSE <<>>,
           to = "INFO" => Steps >= 3,
           to = "OUT" /\ driver.cmd.op = "RUN" /\ driver.cmd.results > 0 => driver.at = "DONE",
           NEW n \in Nat, n = WorkerEntered(driver.cmd, w, at, i),
           NEW m \in Nat, m = WorkerEntered(driver.cmd, w, to, j),
           \/ m = n /\ barriers'[w] = barriers[w]
           \/ m = n + 1 /\ n <= Steps /\ barriers'[w] = Append(barriers[w], Nth(driver.cmd, n + 1)),
           NEW s \in Nat, s = Said(driver.cmd, at, i),
           NEW r \in Nat, r = Said(driver.cmd, to, j),
           \/ w # Primary
           \/ r = s /\ sends' = sends
           \/ r = s + 1 /\ sends' = Append(sends, Message(driver.cmd, r))
    PROVE  Place(w, to, j)'
  <1>1. Steps' = Steps /\ Ears' = Ears /\ IDs' = IDs /\ UNCHANGED driver /\ barriers'[0] = barriers[0]
        /\ Steps \in Nat /\ Ears \in Nat
    BY StepsIn DEF Aside, Steps, Ears, IDs
  <1>2. Stands(w, to, j)'
    <2>1. to # "OUT" => Thread(w, to, j)'
      BY <1>1 DEF Thread
    <2> QED
      BY <1>1, <2>1 DEF Stands
  <1>3. Level(w, m)'
    <2>1. Level(w, n)
      BY DEF Place
    <2>2. CASE m = n /\ barriers'[w] = barriers[w]
      BY <1>1, <2>1, <2>2 DEF Level
    <2>3. CASE m = n + 1 /\ n <= Steps /\ barriers'[w] = Append(barriers[w], Nth(driver.cmd, n + 1))
      BY <1>1, <2>1, <2>3, LevelUp
    <2> QED
      BY <2>2, <2>3
  <1>4. ASSUME w = Primary
        PROVE  Told(r)'
    <2>1. Told(s)
      BY <1>4 DEF Place
    <2>2. CASE r = s /\ sends' = sends
      BY <1>1, <2>1, <2>2 DEF Told
    <2>3. CASE r = s + 1 /\ sends' = Append(sends, Message(driver.cmd, r))
      <3>1. Message(driver.cmd, s + 1) \in Nat
        BY StepsIn DEF Message
      <3> QED
        BY <1>1, <2>1, <2>3, <3>1, ToldMore
    <2> QED
      BY <1>4, <2>2, <2>3
  <1>5. driver.at = "INFO" => m >= Steps
    BY <1>1 DEF Place
  <1> QED
    BY <1>1, <1>2, <1>3, <1>4, <1>5 DEF Place

LEMMA TakeMatrixInTime ==
    ASSUME Forms, Forms', InTime, astray = {}, NEW w \in Workers, NEW h \in handlers, Here(h, w),
           TakeMatrix(h), UNCHANGED <<driver, size, astray, ibcast>>
    PROVE  InTime'
  <1>1. /\ h.op = "NEW_MATRIX" /\ h.at = "START" /\ Takes(h) /\ Tells(h, 0) /\ UNCHANGED barriers
        /\ Becomes(h, [h EXCEPT !.at = "MAKE", !.cmd = Head(bcast[w])])
    BY DEF TakeMatrix, Here
  <1>2. bcast[w] = <<driver.cmd>> /\ driver.cmd \in Asked /\ bcast'[w] = Tail(bcast[w]) /\ h.i = 0
        /\ driver.cmd.op = "NEW_MATRIX"
    BY <1>1 DEF Here, Place, Stands, Forms, Drivers, Takes, Fits
  <1>3. Head(bcast[w]) = driver.cmd /\ bcast'[w] = <<>>
    BY <1>2, OfOne
  <1>4. PICK t \in Handlers : /\ Becomes(h, t)
                              /\ IsThread(t, w, h.op, "MAKE", driver.cmd, h.k, 0)
    BY <1>1, <1>2, <1>3, HandlerGoes DEF Here
  <1>5. Threads'[w] = {t} /\ t \in handlers'
    BY ZenonT(40), <1>1, <1>4, ThreadsAfter DEF Here, IsThread, Live, Becomes
  <1>6. Aside(w)
    BY <1>1, <1>4, AsideIs DEF IsThread
  <1>7. /\ WorkerEntered(driver.cmd, w, "START", 0) = 0 /\ WorkerEntered(driver.cmd, w, "MAKE", 0) = 0
        /\ Said(driver.cmd, "START", 0) = 0 /\ Said(driver.cmd, "MAKE", 0) = 1
        /\ Message(driver.cmd, 1) = 0 /\ Fits(driver.cmd, w, "MAKE", 0)
    BY <1>2 DEF WorkerEntered, Said, Message, Fits
  <1>8. w = Primary => sends' = Append(sends, 0)
    BY <1>1 DEF Tells, Here
  <1>9. Place(w, "MAKE", 0)'
    <2>1. "MAKE" \in Ats \ {"TOLD", "START"} /\ "START" \in Ats /\ "MAKE" \notin Waits
          /\ Place(w, "START", 0) /\ ibcast[w] = <<>> /\ h.op = driver.cmd.op
      BY <1>1, <1>2 DEF Ats, Waits, Here
    <2> QED
      BY <1>1, <1>2, <1>3, <1>4, <1>5, <1>6, <1>7, <1>8, <2>1, Arrives DEF IsThread
  <1> QED
    BY <1>6, <1>9, WorkerMoved DEF Here, Ats

LEMMA MakeMatrixInTime ==
    ASSUME Forms, Forms', InTime, astray = {}, NEW w \in Workers, NEW h \in handlers, Here(h, w),
           MakeMatrix(h), UNCHANGED <<driver, size, astray, ibcast>>
    PROVE  InTime'
  <1>1. /\ h.op = "NEW_MATRIX" /\ h.at = "MAKE" /\ Barrier(w, "NEW_MATRIX") /\ Done(h)
        /\ UNCHANGED <<bcast, sends>>
    BY DEF MakeMatrix, MeetsLast, Here
  <1>2. bcast[w] = <<>> /\ driver.cmd \in Asked /\ h.i = 0 /\ driver.cmd.op = "NEW_MATRIX"
    BY <1>1 DEF Here, Place, Stands, Forms, Drivers, Fits
  <1>3. Threads'[w] = {}
    BY <1>1, ThreadsAfter DEF Here
  <1>4. barriers'[w] = Append(barriers[w], "NEW_MATRIX")
    BY <1>1, SpanIs, BarrierIs DEF Names
  <1>5. Aside(w)
    BY <1>1, AsideIs DEF Names
  <1>6. /\ WorkerEntered(driver.cmd, w, "MAKE", 0) = 0 /\ WorkerEntered(driver.cmd, w, "OUT", 0) = 1
        /\ Said(driver.cmd, "MAKE", 0) = 1 /\ Said(driver.cmd, "OUT", 0) = 1
        /\ Nth(driver.cmd, 0 + 1) = "NEW_MATRIX" /\ Fits(driver.cmd, w, "OUT", 0)
    BY <1>2 DEF WorkerEntered, Said, Nth, Fits
  <1>7. Place(w, "OUT", 0)'
    <2>1. "OUT" \in Ats \ {"TOLD", "START"} /\ "MAKE" \in Ats
          /\ Place(w, "MAKE", 0) /\ ibcast[w] = <<>> /\ Steps >= 0
      BY <1>1, <1>2, StepsIn DEF Ats, Waits, Here
    <2> QED
      BY <1>1, <1>2, <1>3, <1>4, <1>5, <1>6, <2>1, Arrives
  <1> QED
    BY <1>5, <1>7, WorkerMoved DEF Here, Ats

LEMMA TakeLibraryInTime ==
    ASSUME Forms, Forms', InTime, astray = {}, NEW w \in Workers, NEW h \in handlers, Here(h, w),
           TakeLibrary(h), UNCHANGED <<driver, size, astray, ibcast>>
    PROVE  InTime'
  <1>1. /\ h.op = "LOAD" /\ h.at = "START" /\ Takes(h) /\ Barrier(w, "LOAD") /\ UNCHANGED sends
        /\ Becomes(h, [h EXCEPT !.at = "OPEN", !.cmd = Head(bcast[w]), !.k = Len(barriers[w]) + 1])
    BY DEF TakeLibrary, Here
  <1>2. bcast[w] = <<driver.cmd>> /\ driver.cmd \in Asked /\ bcast'[w] = Tail(bcast[w]) /\ h.i = 0
        /\ driver.cmd.op = "LOAD"
    BY <1>1 DEF Here, Place, Stands, Forms, Drivers, Takes, Fits
  <1>3. Head(bcast[w]) = driver.cmd /\ bcast'[w] = <<>>
    BY <1>2, OfOne
  <1>4. /\ barriers'[w] = Append(barriers[w], "LOAD") /\ Len(barriers'[w]) \in Nat
        /\ Len(barriers'[w]) = Len(barriers[w]) + 1
    <2>1. w \in Ranks /\ "LOAD" \in Names /\ Barrier(w, "LOAD")
      BY <1>1, SpanIs DEF Names
    <2>2. /\ barriers'[w] = Append(barriers[w], "LOAD") /\ Len(barriers[w]) \in Nat
          /\ Len(barriers'[w]) = Len(barriers[w]) + 1
      BY <2>1, BarrierIs
    <2> QED
      BY <2>2
  <1>5. PICK t \in Handlers : /\ Becomes(h, t)
                              /\ IsThread(t, w, h.op, "OPEN", driver.cmd, Len(barriers'[w]), 0)
    BY <1>1, <1>2, <1>3, <1>4, HandlerGoes DEF Here
  <1>6. Threads'[w] = (IF w \in driver.cmd.fails THEN {} ELSE {t}) /\ t \in handlers'
    <2>1. Live(t) <=> w \notin driver.cmd.fails
      BY <1>1, <1>5 DEF IsThread, Live
    <2>2. Threads'[w] = IF Live(t) THEN {t} ELSE {}
      BY <1>5, ThreadsAfter DEF Here, IsThread
    <2> QED
      BY <1>5, <2>1, <2>2 DEF Becomes
  <1>7. Aside(w)
    BY <1>1, <1>5, AsideIs DEF IsThread, Names
  <1>8. /\ WorkerEntered(driver.cmd, w, "START", 0) = 0 /\ WorkerEntered(driver.cmd, w, "OPEN", 0) = 1
        /\ Said(driver.cmd, "START", 0) = 0 /\ Said(driver.cmd, "OPEN", 0) = 0
        /\ Said(driver.cmd, "OUT", 0) = 0
        /\ w \in driver.cmd.fails => WorkerEntered(driver.cmd, w, "OUT", 0) = 1
        /\ Nth(driver.cmd, 0 + 1) = "LOAD" /\ Fits(driver.cmd, w, "OUT", 0)
        /\ w \notin driver.cmd.fails => Fits(driver.cmd, w, "OPEN", 0)
    BY <1>2 DEF WorkerEntered, Said, Nth, Fits
  <1>9. "OUT" \in Ats \ {"TOLD", "START"} /\ "OPEN" \in Ats \ {"TOLD", "START"} /\ "START" \in Ats
        /\ Place(w, "START", 0) /\ ibcast[w] = <<>> /\ Steps >= 0 /\ h.op = driver.cmd.op
    BY <1>1, <1>2, StepsIn DEF Ats, Here
  <1>10. CASE w \in driver.cmd.fails
    <2>1. Place(w, "OUT", 0)'
      BY SMTT(30), <1>1, <1>2, <1>3, <1>4, <1>6, <1>7, <1>8, <1>9, <1>10, Arrives
    <2> QED
      BY <1>7, <2>1, WorkerMoved DEF Here, Ats
  <1>11. CASE w \notin driver.cmd.fails
    <2>1. \E u \in handlers' :
              /\ Threads'[w] = {u} /\ u.w = w /\ u.at = "OPEN" /\ u.i = 0 /\ u.op = driver.cmd.op
              /\ u.cmd = driver.cmd /\ u.k = Len(barriers'[w])
      BY <1>5, <1>6, <1>9, <1>11 DEF IsThread
    <2>2. /\ WorkerEntered(driver.cmd, w, "START", 0) = 0 /\ WorkerEntered(driver.cmd, w, "OPEN", 0) = 1
          /\ Said(driver.cmd, "START", 0) = 0 /\ Said(driver.cmd, "OPEN", 0) = 0
          /\ Nth(driver.cmd, 0 + 1) = "LOAD" /\ Fits(driver.cmd, w, "OPEN", 0)
      BY <1>8, <1>11
    <2>3. Place(w, "OPEN", 0)'
      BY <1>1, <1>3, <1>4, <1>7, <1>9, <2>1, <2>2, Arrives
    <2> QED
      BY <1>7, <2>3, WorkerMoved DEF Here, Ats
  <1> QED
    BY <1>10, <1>11

LEMMA KeepLibraryInTime ==
    ASSUME Forms, Forms', InTime, astray = {}, NEW w \in Workers, NEW h \in handlers, Here(h, w),
           KeepLibrary(h), UNCHANGED <<driver, size, astray, ibcast>>
    PROVE  InTime'
  <1>1. /\ h.op = "LOAD" /\ h.at = "OPEN" /\ Met(h.k) /\ h.cmd = driver.cmd
        /\ h.k = Len(barriers[w]) /\ h.k \in Nat /\ driver.cmd \in Asked
    BY DEF KeepLibrary, Here, Arrived, Waits, Forms, Drivers, Handlers
  <1>2. bcast[w] = <<>> /\ h.i = 0 /\ driver.cmd.op = "LOAD" /\ w \notin driver.cmd.fails
    BY <1>1 DEF Here, Place, Stands, Fits
  <1>3. Barrier(w, "LOADED") /\ Done(h) /\ UNCHANGED <<bcast, sends>>
    BY <1>1, <1>2 DEF KeepLibrary, MeetsLast, Here
  <1>4. Threads'[w] = {}
    BY <1>3, ThreadsAfter DEF Here
  <1>5. barriers'[w] = Append(barriers[w], "LOADED")
    BY <1>3, SpanIs, BarrierIs DEF Names
  <1>6. Aside(w)
    BY <1>3, AsideIs DEF Names
  <1>7. /\ WorkerEntered(driver.cmd, w, "OPEN", 0) = 1 /\ WorkerEntered(driver.cmd, w, "OUT", 0) = 2
        /\ Said(driver.cmd, "OPEN", 0) = 0 /\ Said(driver.cmd, "OUT", 0) = 0
        /\ Nth(driver.cmd, 1 + 1) = "LOADED" /\ Fits(driver.cmd, w, "OUT", 0)
    BY <1>2 DEF WorkerEntered, Said, Nth, Fits
  <1>8. 1 <= Steps
    BY <1>1, <1>2, <1>7, MetWorker DEF Here
  <1>9. Place(w, "OUT", 0)'
    <2>1. "OUT" \in Ats \ {"TOLD", "START"} /\ "OPEN" \in Ats
          /\ Place(w, "OPEN", 0) /\ ibcast[w] = <<>>
      BY <1>1, <1>2 DEF Ats, Here
    <2> QED
      BY <1>2, <1>3, <1>4, <1>5, <1>6, <1>7, <1>8, <2>1, Arrives
  <1> QED
    BY <1>6, <1>9, WorkerMoved DEF Here, Ats

LEMMA TakeTaskInTime ==
    ASSUME Forms, Forms', InTime, astray = {}, NEW w \in Workers, NEW h \in handlers, Here(h, w),
           TakeTask(h), UNCHANGED <<driver, size, astray, ibcast>>
    PROVE  InTime'
  <1>1. /\ h.op = "RUN" /\ h.at = "START" /\ Takes(h) /\ Barrier(w, "TASK") /\ UNCHANGED sends
        /\ Becomes(h, [h EXCEPT !.at = "TASK", !.cmd = Head(bcast[w]), !.k = Len(barriers[w]) + 1])
    BY DEF TakeTask, Here
  <1>2. bcast[w] = <<driver.cmd>> /\ driver.cmd \in Asked /\ bcast'[w] = Tail(bcast[w]) /\ h.i = 0
        /\ driver.cmd.op = "RUN"
    BY <1>1 DEF Here, Place, Stands, Forms, Drivers, Takes, Fits
  <1>3. Head(bcast[w]) = driver.cmd /\ bcast'[w] = <<>>
    BY <1>2, OfOne
  <1>4. /\ barriers'[w] = Append(barriers[w], "TASK") /\ Len(barriers'[w]) \in Nat
        /\ Len(barriers'[w]) = Len(barriers[w]) + 1
    <2>1. w \in Ranks /\ "TASK" \in Names /\ Barrier(w, "TASK")
      BY <1>1, SpanIs DEF Names
    <2>2. /\ barriers'[w] = Append(barriers[w], "TASK") /\ Len(barriers[w]) \in Nat
          /\ Len(barriers'[w]) = Len(barriers[w]) + 1
      BY <2>1, BarrierIs
    <2> QED
      BY <2>2
  <1>5. PICK t \in Handlers : /\ Becomes(h, t)
                              /\ IsThread(t, w, h.op, "TASK", driver.cmd, Len(barriers'[w]), 0)
    BY <1>1, <1>2, <1>3, <1>4, HandlerGoes DEF Here
  <1>6. Threads'[w] = {t} /\ t \in handlers'
    BY ZenonT(40), <1>1, <1>5, ThreadsAfter DEF Here, IsThread, Live, Becomes
  <1>7. Aside(w)
    BY <1>1, <1>5, AsideIs DEF IsThread, Names
  <1>8. /\ WorkerEntered(driver.cmd, w, "START", 0) = 0 /\ WorkerEntered(driver.cmd, w, "TASK", 0) = 1
        /\ Said(driver.cmd, "START", 0) = 0 /\ Said(driver.cmd, "TASK", 0) = 0
        /\ Nth(driver.cmd, 0 + 1) = "TASK" /\ Fits(driver.cmd, w, "TASK", 0)
    BY <1>2 DEF WorkerEntered, Said, Nth, Fits
  <1>9. "TASK" \in Ats \ {"TOLD", "START"} /\ "START" \in Ats
        /\ Place(w, "START", 0) /\ ibcast[w] = <<>> /\ Steps >= 0 /\ h.op = driver.cmd.op
    BY <1>1, <1>2, StepsIn DEF Ats, Here
  <1>10. Place(w, "TASK", 0)'
    <2>1. \E u \in handlers' :
              /\ Threads'[w] = {u} /\ u.w = w /\ u.at = "TASK" /\ u.i = 0 /\ u.op = driver.cmd.op
              /\ u.cmd = driver.cmd /\ u.k = Len(barriers'[w])
      BY <1>5, <1>6, <1>9 DEF IsThread
    <2> QED
      BY <1>1, <1>2, <1>3, <1>4, <1>7, <1>8, <1>9, <2>1, Arrives
  <1> QED
    BY <1>7, <1>10, WorkerMoved DEF Here, Ats

\* A task's next barrier.
LEMMA MeetsInTime ==
    ASSUME Forms, Forms', InTime, astray = {}, NEW w \in Workers, NEW h \in handlers, Here(h, w),
           h.op = "RUN", NEW from \in {"TASK", "SENT"}, Arrived(h, from),
           NEW to \in {"SENT", "RAN"}, (from = "TASK" <=> to = "SENT"), Meets(h, to, to),
           UNCHANGED <<bcast, sends>>,
           UNCHANGED <<driver, size, astray, ibcast>>
    PROVE  InTime'
  <1>1. /\ h.at = from /\ h.cmd = driver.cmd /\ Barrier(w, to) /\ Met(h.k)
        /\ h.k = Len(barriers[w]) /\ h.k \in Nat /\ driver.cmd \in Asked
        /\ Becomes(h, [h EXCEPT !.at = to, !.k = Len(barriers[w]) + 1])
    BY DEF Meets, Here, Arrived, Waits, Forms, Drivers, Handlers
  <1>2. bcast[w] = <<>> /\ h.i = 0 /\ driver.cmd.op = "RUN"
    BY <1>1 DEF Here, Place, Stands, Fits
  <1>3. /\ barriers'[w] = Append(barriers[w], to) /\ Len(barriers'[w]) \in Nat
        /\ Len(barriers'[w]) = Len(barriers[w]) + 1
    <2>1. w \in Ranks /\ to \in Names /\ Barrier(w, to)
      BY <1>1, SpanIs DEF Names
    <2>2. /\ barriers'[w] = Append(barriers[w], to) /\ Len(barriers[w]) \in Nat
          /\ Len(barriers'[w]) = Len(barriers[w]) + 1
      BY <2>1, BarrierIs
    <2> QED
      BY <2>2
  <1>4. PICK t \in Handlers : /\ Becomes(h, t)
                              /\ IsThread(t, w, h.op, to, driver.cmd, Len(barriers'[w]), 0)
    <2>1. PICK k \in Nat : k = Len(barriers[w]) + 1
      BY <1>3
    <2>2. to \in {"START", "MAKE", "OPEN", "TASK", "SENT", "RAN", "INFO", "RESULT"}
          /\ h \in Handlers /\ h.cmd \in Asked
      BY <1>1 DEF Here
    <2>3. /\ [h EXCEPT !.at = to, !.k = k] \in Handlers
          /\ IsThread([h EXCEPT !.at = to, !.k = k], h.w, h.op, to, h.cmd, k, h.i)
      BY <2>2, HandlerGoes
    <2> QED
      BY <1>1, <1>2, <1>3, <2>1, <2>3 DEF Here
  <1>5. Threads'[w] = {t} /\ t \in handlers'
    BY ZenonT(40), <1>1, <1>4, ThreadsAfter DEF Here, IsThread, Live, Becomes
  <1>6. Aside(w)
    BY <1>1, <1>4, AsideIs DEF IsThread, Names
  <1>7. PICK n \in {1, 2} :
            /\ WorkerEntered(driver.cmd, w, from, 0) = n /\ WorkerEntered(driver.cmd, w, to, 0) = n + 1
            /\ Said(driver.cmd, from, 0) = 0 /\ Said(driver.cmd, to, 0) = 0
            /\ Nth(driver.cmd, n + 1) = to /\ Fits(driver.cmd, w, to, 0)
    <2>1. CASE from = "TASK"
      BY <1>2, <2>1 DEF WorkerEntered, Said, Nth, Fits
    <2>2. CASE from = "SENT"
      BY <1>2, <2>2 DEF WorkerEntered, Said, Nth, Fits
    <2> QED
      BY <2>1, <2>2
  <1>8. n <= Steps
    BY <1>1, <1>2, <1>7, MetWorker DEF Here
  <1>9. Place(w, to, 0)'
    <2>1. to \in Ats \ {"TOLD", "START"} /\ from \in Ats
          /\ Place(w, from, 0) /\ ibcast[w] = <<>> /\ h.op = driver.cmd.op
      BY <1>1, <1>2 DEF Ats, Here
    <2>2. \E u \in handlers' :
              /\ Threads'[w] = {u} /\ u.w = w /\ u.at = to /\ u.i = 0 /\ u.op = driver.cmd.op
              /\ u.cmd = driver.cmd /\ u.k = Len(barriers'[w])
      BY <1>4, <1>5, <2>1 DEF IsThread
    <2>3. bcast'[w] = <<>> /\ to \notin {"OUT", "INFO", "RESULT"} /\ n \in Nat /\ n + 1 \in Nat
      BY <1>2
    <2> QED
      BY SMTT(30), <1>2, <1>3, <1>6, <1>7, <1>8, <2>1, <2>2, <2>3, Arrives
  <1> QED
    BY <1>6, <1>9, WorkerMoved DEF Here, Ats

LEMMA NothingMoves ==
    ASSUME Forms, InTime, UNCHANGED <<driver, size, astray, ibcast, bcast, barriers, sends>>,
           \/ UNCHANGED handlers
           \/ handlers \subseteq Handlers /\ \E h \in handlers : ~ Live(h) /\ Done(h)
    PROVE  InTime'
  <1>1. Threads' = Threads
    <2>1. CASE UNCHANGED handlers
      BY <2>1 DEF Threads
    <2>2. ASSUME NEW h \in handlers, ~ Live(h), Done(h)
          PROVE  Threads' = Threads
      BY <2>2 DEF Threads, Done
    <2> QED
      BY <2>1, <2>2
  <1>2. Steps' = Steps /\ Ears' = Ears /\ IDs' = IDs /\ Members' = Members
    BY DEF Steps, Ears, IDs, Members
  <1>3. ASSUME NEW w, NEW at \in Ats, NEW i \in Nat, w \in Workers, Place(w, at, i)
        PROVE  Place(w, at, i)'
    <2>1. Thread(w, at, i) => Thread(w, at, i)'
      <3> SUFFICES ASSUME NEW h \in handlers, Threads[w] = {h}, h.w = w, h.at = at, h.i = i,
                          h.op = driver.cmd.op, at # "START" => h.cmd = driver.cmd,
                          at \in Waits => h.k = Len(barriers[w])
                   PROVE  Thread(w, at, i)'
        BY DEF Thread
      <3>1. Threads'[w] = {h}
        BY <1>1
      <3>2. h \in handlers'
        BY <1>3, <3>1 DEF Threads
      <3> QED
        BY <3>1, <3>2 DEF Thread
    <2>2. Stands(w, at, i)'
      BY <1>1, <1>2, <1>3, <2>1 DEF Stands, Place
    <2> QED
      BY <1>2, <1>3, <2>2 DEF Place, Level, Told
  <1>4. Driving => Driving'
    BY DEF Driving
  <1>5. astray = {} => \A w \in Members : InStep(w)'
    <2> SUFFICES ASSUME astray = {}, NEW w \in Members
                 PROVE  InStep(w)'
      OBVIOUS
    <2>1. PICK at \in Ats, i \in Nat : Place(w, at, i)
      BY DEF InTime, InStep
    <2>2. w \in Workers
      BY SpanIs DEF Forms, Members, Workers
    <2> QED
      BY <1>3, <2>1, <2>2 DEF InStep
  <1> QED
    BY <1>1, <1>2, <1>4, <1>5 DEF InTime

LEMMA RunTaskInTime ==
    ASSUME Forms, Forms', InTime, astray = {}, NEW w \in Workers, NEW h \in handlers, Here(h, w),
           RunTaskHere(h), UNCHANGED <<driver, size, astray, ibcast>>
    PROVE  InTime'
  <1>1. /\ h.op = "RUN" /\ Arrived(h, "SENT") /\ UNCHANGED <<bcast, sends>>
        /\ Meets(h, "RAN", "RAN") \/ UNCHANGED <<handlers, barriers>>
    BY DEF RunTaskHere
  <1>2. CASE Meets(h, "RAN", "RAN")
    BY <1>1, <1>2, MeetsInTime
  <1>3. CASE UNCHANGED <<handlers, barriers>>
    BY <1>1, <1>3, NothingMoves
  <1> QED
    BY <1>1, <1>2, <1>3

LEMMA CountResultsInTime ==
    ASSUME Forms, Forms', InTime, astray = {}, NEW w \in Workers, NEW h \in handlers, Here(h, w),
           CountResults(h), UNCHANGED <<driver, size, astray, ibcast>>
    PROVE  InTime'
  <1>1. /\ h.op = "RUN" /\ h.at = "RAN" /\ h.cmd = driver.cmd /\ Met(h.k) /\ UNCHANGED bcast
        /\ h.k = Len(barriers[w]) /\ h.k \in Nat /\ driver.cmd \in Asked /\ driver.cmd.results \in Nat
        /\ Tells(h, driver.cmd.results)
    BY DEF CountResults, Here, Arrived, Waits, Forms, Drivers, Handlers, Asked
  <1>2. bcast[w] = <<>> /\ h.i = 0 /\ driver.cmd.op = "RUN"
    BY <1>1 DEF Here, Place, Stands, Fits
  <1>3. /\ WorkerEntered(driver.cmd, w, "RAN", 0) = 3 /\ WorkerEntered(driver.cmd, w, "INFO", 0) = 3
        /\ driver.cmd.results = 0 => WorkerEntered(driver.cmd, w, "OUT", 0) = 3 + 1
        /\ Said(driver.cmd, "RAN", 0) = 0 /\ Said(driver.cmd, "INFO", 0) = 1
        /\ driver.cmd.results = 0 => Said(driver.cmd, "OUT", 0) = 1 /\ Nth(driver.cmd, 3 + 1) = "DONE"
        /\ Fits(driver.cmd, w, "OUT", 0) /\ Message(driver.cmd, 1) = driver.cmd.results
        /\ driver.cmd.results > 0 => Fits(driver.cmd, w, "INFO", 0)
    BY <1>1, <1>2 DEF WorkerEntered, Said, Nth, Fits, Message
  <1>4. 3 <= Steps
    BY <1>1, <1>2, <1>3, MetWorker DEF Here
  <1>5. w = Primary => sends' = Append(sends, driver.cmd.results)
    BY <1>1 DEF Tells, Here
  <1>6. "OUT" \in Ats \ {"TOLD", "START"} /\ "INFO" \in Ats \ {"TOLD", "START"} /\ "RAN" \in Ats
        /\ Place(w, "RAN", 0) /\ ibcast[w] = <<>> /\ h.op = driver.cmd.op /\ "INFO" \notin Waits
    BY <1>1, <1>2 DEF Ats, Here, Waits
  <1>7. CASE driver.cmd.results = 0
    <2>1. Barrier(w, "DONE") /\ Done(h) /\ "DONE" \in Names
      BY <1>1, <1>7 DEF CountResults, MeetsLast, Here, Names
    <2>2. Threads'[w] = {} /\ Aside(w)
      BY <1>1, <2>1, ThreadsAfter, AsideIs DEF Here
    <2>3. barriers'[w] = Append(barriers[w], "DONE")
      BY <2>1, SpanIs, BarrierIs
    <2>4. PICK n \in Nat, m \in Nat, r \in Nat :
              /\ m = n + 1 /\ n <= Steps
              /\ WorkerEntered(driver.cmd, w, "OUT", 0) = m /\ Said(driver.cmd, "OUT", 0) = r
              /\ Said(driver.cmd, "RAN", 0) = 0 /\ WorkerEntered(driver.cmd, w, "RAN", 0) = n
              /\ r = 0 + 1
              /\ sends' = Append(sends, Message(driver.cmd, r)) \/ w # Primary
              /\ barriers'[w] = Append(barriers[w], Nth(driver.cmd, n + 1))
      BY <1>3, <1>4, <1>5, <1>7, <2>3
    <2>5. /\ Fits(driver.cmd, w, "OUT", 0) /\ ~ (driver.cmd.results > 0) /\ bcast'[w] = <<>>
      BY <1>1, <1>2, <1>3, <1>7
    <2>6. Place(w, "OUT", 0)'
      BY <1>6, <2>2, <2>4, <2>5, Arrives
    <2> QED
      BY <2>2, <2>6, WorkerMoved DEF Here, Ats
  <1>8. CASE driver.cmd.results # 0
    <2>1. Becomes(h, [h EXCEPT !.at = "INFO"]) /\ UNCHANGED barriers
      BY <1>1, <1>8 DEF CountResults
    <2>2. PICK t \in Handlers : Becomes(h, t) /\ IsThread(t, w, h.op, "INFO", driver.cmd, h.k, 0)
      BY <1>1, <1>2, <2>1, HandlerGoes DEF Here
    <2>3. Threads'[w] = {t} /\ t \in handlers'
      BY <1>1, <2>2, ThreadsAfter DEF Here, IsThread, Live, Becomes
    <2>4. Aside(w)
      BY <1>1, <2>1, <2>2, AsideIs DEF IsThread
    <2>5. \E u \in handlers' :
              /\ Threads'[w] = {u} /\ u.w = w /\ u.at = "INFO" /\ u.i = 0 /\ u.op = driver.cmd.op
              /\ u.cmd = driver.cmd
      BY <1>6, <2>2, <2>3 DEF IsThread
    <2>6. driver.cmd.results > 0 /\ Fits(driver.cmd, w, "INFO", 0) /\ bcast'[w] = <<>>
      BY <1>1, <1>2, <1>3, <1>8
    <2>7. Place(w, "INFO", 0)'
      BY <1>1, <1>3, <1>4, <1>5, <1>6, <2>1, <2>4, <2>5, <2>6, Arrives
    <2> QED
      BY <2>4, <2>7, WorkerMoved DEF Here, Ats
  <1> QED
    BY <1>7, <1>8

LEMMA SendResultInTime ==
    ASSUME Forms, Forms', InTime, astray = {}, NEW w \in Workers, NEW h \in handlers, Here(h, w),
           SendResult(h), UNCHANGED <<driver, size, astray, ibcast>>
    PROVE  InTime'
  <1>1. /\ h.op = "RUN" /\ h.at \in {"INFO", "RESULT"} /\ h.cmd = driver.cmd /\ UNCHANGED bcast
        /\ h.at = "RESULT" => /\ h.i < driver.cmd.results /\ Met(h.k) /\ h.k = Len(barriers[w])
        /\ h.k \in Nat /\ h.i \in Nat /\ driver.cmd \in Asked /\ driver.cmd.results \in Nat
        /\ Tells(h, 0) /\ Barrier(w, "RESULT")
        /\ Becomes(h, [h EXCEPT !.at = "RESULT", !.i = @ + 1, !.k = Len(barriers[w]) + 1])
    BY DEF SendResult, Here, Arrived, Waits, Forms, Drivers, Handlers, Asked
  <1>2. driver.cmd.op = "RUN" /\ h.i < driver.cmd.results /\ (h.at = "INFO" => h.i = 0)
    BY <1>1 DEF Here, Place, Stands, Fits
  <1>3. PICK n \in Nat : n = 3 + h.i /\ WorkerEntered(driver.cmd, w, h.at, h.i) = n
    BY <1>1, <1>2 DEF WorkerEntered
  <1>4. n <= Steps
    <2>1. CASE h.at = "INFO"
      BY <1>2, <1>3, <2>1 DEF Here, Place
    <2>2. CASE h.at = "RESULT"
      BY <1>1, <1>3, <2>2, MetWorker DEF Here
    <2> QED
      BY <1>1, <2>1, <2>2
  <1>5. driver.at # "DONE"
    <2>1. Level(w, n)
      BY <1>3 DEF Here
    <2>2. driver.at = "DONE" => Steps = driver.cmd.results + 4
      BY DEF Steps, DriverEntered
    <2> QED
      BY SMTT(30), <1>1, <1>2, <1>3, <2>1, <2>2 DEF Level
  <1>6. bcast'[w] = <<>>
    BY <1>1, <1>5 DEF Here, Place, Stands
  <1>7. /\ barriers'[w] = Append(barriers[w], "RESULT") /\ Len(barriers'[w]) \in Nat
        /\ Len(barriers'[w]) = Len(barriers[w]) + 1
    <2>1. w \in Ranks /\ "RESULT" \in Names /\ Barrier(w, "RESULT")
      BY <1>1, SpanIs DEF Names
    <2>2. /\ barriers'[w] = Append(barriers[w], "RESULT") /\ Len(barriers[w]) \in Nat
          /\ Len(barriers'[w]) = Len(barriers[w]) + 1
      BY <2>1, BarrierIs
    <2> QED
      BY <2>2
  <1>8. PICK t \in Handlers : /\ Becomes(h, t)
                              /\ IsThread(t, w, h.op, "RESULT", driver.cmd, Len(barriers'[w]), h.i + 1)
    <2>1. PICK k \in Nat : k = Len(barriers[w]) + 1
      BY <1>7
    <2>2. h \in Handlers /\ h.cmd \in Asked
      BY <1>1 DEF Here
    <2>3. /\ [h EXCEPT !.at = "RESULT", !.i = @ + 1, !.k = k] \in Handlers
          /\ IsThread([h EXCEPT !.at = "RESULT", !.i = @ + 1, !.k = k], h.w, h.op, "RESULT", h.cmd, k,
                      h.i + 1)
      BY <2>2, HandlerGoes
    <2> QED
      BY <1>1, <1>7, <2>1, <2>3 DEF Here
  <1>9. Threads'[w] = {t} /\ t \in handlers'
    BY ZenonT(40), <1>1, <1>8, ThreadsAfter DEF Here, IsThread, Live, Becomes
  <1>10. Aside(w)
    BY <1>1, <1>8, AsideIs DEF IsThread, Names
  <1>11. PICK j \in Nat : j = h.i + 1
    BY <1>1
  <1>12. PICK s \in Nat : /\ s = 1 + h.i /\ Said(driver.cmd, h.at, h.i) = s
    BY <1>1, <1>2 DEF Said
  <1>13. /\ WorkerEntered(driver.cmd, w, "RESULT", j) = n + 1 /\ n + 1 \in Nat
         /\ Said(driver.cmd, "RESULT", j) = s + 1 /\ s + 1 \in Nat
         /\ Nth(driver.cmd, n + 1) = "RESULT" /\ Message(driver.cmd, s + 1) = 0
         /\ Fits(driver.cmd, w, "RESULT", j)
    BY SMTT(30), <1>1, <1>2, <1>3, <1>11, <1>12 DEF WorkerEntered, Said, Nth, Fits, Message
  <1>14. w = Primary => sends' = Append(sends, 0)
    BY <1>1 DEF Tells, Here
  <1>15. Place(w, "RESULT", j)'
    <2>1. "RESULT" \in Ats \ {"TOLD", "START"} /\ h.at \in Ats
          /\ Place(w, h.at, h.i) /\ ibcast[w] = <<>> /\ h.op = driver.cmd.op
      BY <1>1, <1>2 DEF Ats, Here
    <2>2. \E u \in handlers' :
              /\ Threads'[w] = {u} /\ u.w = w /\ u.at = "RESULT" /\ u.i = j /\ u.op = driver.cmd.op
              /\ u.cmd = driver.cmd /\ u.k = Len(barriers'[w])
      BY <1>8, <1>9, <1>11, <2>1 DEF IsThread
    <2>3. PICK at \in Ats, i \in Nat : at = h.at /\ i = h.i
      BY <1>1, <2>1
    <2>4. /\ Place(w, at, i) /\ ibcast[w] = <<>> /\ n = WorkerEntered(driver.cmd, w, at, i)
          /\ s = Said(driver.cmd, at, i)
      BY <1>3, <1>12, <2>1, <2>3
    <2>5. w # Primary \/ (s + 1 = s + 1 /\ sends' = Append(sends, Message(driver.cmd, s + 1)))
      BY <1>13, <1>14
    <2>6. UNCHANGED ibcast /\ bcast'[w] = <<>> /\ driver.at # "DONE"
      BY <1>5, <1>6
    <2>7. "RESULT" # "OUT" /\ "RESULT" # "INFO" /\ "RESULT" \in Ats \ {"TOLD", "START"}
      BY <2>1
    <2> QED
      BY SMTT(30), <1>4, <1>7, <1>10, <1>13, <2>2, <2>4, <2>5, <2>6, <2>7, Arrives
  <1> QED
    BY <1>10, <1>15, WorkerMoved DEF Here, Ats

LEMMA KeepResultsInTime ==
    ASSUME Forms, Forms', InTime, astray = {}, NEW w \in Workers, NEW h \in handlers, Here(h, w),
           KeepResults(h), UNCHANGED <<driver, size, astray, ibcast>>
    PROVE  InTime'
  <1>1. /\ h.op = "RUN" /\ h.at = "RESULT" /\ h.cmd = driver.cmd /\ h.i = driver.cmd.results
        /\ Met(h.k) /\ h.k = Len(barriers[w]) /\ h.k \in Nat /\ h.i \in Nat
        /\ driver.cmd \in Asked /\ Takes(h) /\ bcast[w] # <<>>
        /\ Barrier(w, "DONE") /\ Done(h) /\ UNCHANGED sends /\ "DONE" \in Names
    BY DEF KeepResults, MeetsLast, Here, Arrived, Waits, Forms, Drivers, Handlers, Takes, Names
  <1>2. driver.cmd.op = "RUN" /\ h.i \in 1 .. driver.cmd.results
    BY <1>1 DEF Here, Place, Stands, Fits
  <1>3. driver.at = "DONE" /\ bcast[w] = <<IDs>> /\ bcast'[w] = Tail(bcast[w])
    BY <1>1 DEF Here, Place, Stands, Takes, Forms
  <1>4. bcast'[w] = <<>>
    BY <1>3, OfOne
  <1>5. PICK i \in Nat, n \in Nat, s \in Nat :
            /\ i = h.i /\ n = 3 + i /\ WorkerEntered(driver.cmd, w, "RESULT", i) = n
            /\ n + 1 \in Nat /\ WorkerEntered(driver.cmd, w, "OUT", 0) = n + 1
            /\ s = 1 + i /\ Said(driver.cmd, "RESULT", i) = s /\ Said(driver.cmd, "OUT", 0) = s
            /\ Nth(driver.cmd, n + 1) = "DONE" /\ Fits(driver.cmd, w, "OUT", 0)
    <2>1. PICK i \in Nat : i = h.i /\ i = driver.cmd.results /\ i >= 1
      BY <1>1, <1>2
    <2> QED
      BY <1>2, <2>1 DEF WorkerEntered, Said, Nth, Fits
  <1>6. n <= Steps
    BY <1>1, <1>5, MetWorker DEF Here
  <1>7. Threads'[w] = {} /\ Aside(w)
    BY <1>1, ThreadsAfter, AsideIs DEF Here
  <1>8. barriers'[w] = Append(barriers[w], "DONE")
    BY <1>1, SpanIs, BarrierIs
  <1>9. Place(w, "OUT", 0)'
    <2>1. "OUT" \in Ats \ {"TOLD", "START"} /\ "RESULT" \in Ats
          /\ Place(w, "RESULT", i) /\ ibcast[w] = <<>>
      BY <1>1, <1>5 DEF Ats, Here
    <2> QED
      BY <1>1, <1>3, <1>4, <1>5, <1>6, <1>7, <1>8, <2>1, Arrives
  <1> QED
    BY <1>7, <1>9, WorkerMoved DEF Here, Ats

LEMMA HandlerInTime ==
    ASSUME Forms, InTime, NEW w \in Workers, HandlerStep(w)
    PROVE  InTime'
  <1>1. PICK h \in handlers :
            /\ h.w = w
            /\ \/ TakeMatrix(h) \/ MakeMatrix(h) \/ TakeLibrary(h) \/ KeepLibrary(h)
               \/ TakeTask(h) \/ CopyTask(h) \/ RunTaskHere(h)
               \/ CountResults(h) \/ SendResult(h) \/ KeepResults(h)
    BY DEF HandlerStep
  <1>2. Forms' /\ UNCHANGED <<driver, size, astray, ibcast>>
    BY HandlerForms DEF HandlerStep, groupVars
  <1> SUFFICES ASSUME astray = {} PROVE InTime'
    BY <1>2 DEF InTime
  <1>3. CASE ~ Live(h)
    <2>1. h.op = "LOAD" /\ h.at = "OPEN" /\ h.w \in h.cmd.fails
      BY <1>3 DEF Live
    <2>2. KeepLibrary(h)
      BY <1>1, <2>1 DEF TakeMatrix, MakeMatrix, TakeLibrary, TakeTask, CopyTask, RunTaskHere,
                        CountResults, SendResult, KeepResults
    <2>3. Done(h) /\ UNCHANGED <<barriers, bcast, sends>>
      BY <2>1, <2>2 DEF KeepLibrary
    <2> QED
      BY <1>2, <1>3, <2>3, NothingMoves DEF Forms
  <1>4. CASE Live(h)
    <2>1. Here(h, w)
      BY <1>1, <1>4, HandlerHere
    <2>2. CASE TakeMatrix(h) \/ MakeMatrix(h) \/ TakeLibrary(h) \/ KeepLibrary(h)
      BY <1>2, <2>1, <2>2, TakeMatrixInTime, MakeMatrixInTime, TakeLibraryInTime, KeepLibraryInTime
    <2>3. CASE TakeTask(h)
      BY <1>2, <2>1, <2>3, TakeTaskInTime
    <2>4. CASE CopyTask(h)
      BY <1>2, <2>1, <2>4, MeetsInTime DEF CopyTask
    <2>5. CASE RunTaskHere(h)
      BY <1>2, <2>1, <2>5, RunTaskInTime
    <2>6. CASE CountResults(h) \/ SendResult(h) \/ KeepResults(h)
      BY <1>2, <2>1, <2>6, CountResultsInTime, SendResultInTime, KeepResultsInTime
    <2> QED
      BY <1>1, <2>2, <2>3, <2>4, <2>5, <2>6
  <1> QED
    BY <1>3, <1>4

-----------------------------------------------------------------------------
(* The driver's steps.                                                       *)
LEMMA AllOut ==
    ASSUME Forms, InTime, astray = {}, driver = Idle
    PROVE  /\ \A w \in Workers : Threads[w] = {} /\ ibcast[w] = <<>> /\ bcast[w] = <<>>
           /\ \A w \in Members : barriers[w] = barriers[0]
           /\ sends = <<>>
  <1>1. driver.cmd.op = "NONE" /\ driver.at = "IDLE" /\ driver.cmd.results = 0
    BY NoCommandIs
  <1>2. Steps = 0 /\ Ears = 0
    BY <1>1 DEF Steps, Ears, DriverEntered, Heard
  <1>3. \A w \in Members : Place(w, "OUT", 0)
    <2> TAKE w \in Members
    <2>1. PICK at \in Ats, i \in Nat : Place(w, at, i)
      BY DEF InTime, InStep
    <2>2. at = "OUT" /\ i = 0
      BY <1>1, <2>1 DEF Place, Stands, Fits
    <2> QED
      BY <2>1, <2>2
  <1>4. \A w \in Members : Threads[w] = {} /\ ibcast[w] = <<>> /\ bcast[w] = <<>>
    BY <1>3 DEF Place, Stands
  <1>5. \A w \in Members : Level(w, 0)
    BY <1>1, <1>3 DEF Place, WorkerEntered
  <1>6. \A w \in Members : barriers[w] = barriers[0]
    BY <1>2, <1>5 DEF Level
  <1>7. sends = <<>>
    <2>1. CASE size = 0
      BY <2>1 DEF InTime, Driving
    <2>2. CASE size # 0
      <3>1. Primary \in Members
        BY <2>2 DEF Forms, Members, Primary
      <3>2. Told(0)
        BY <1>1, <1>3, <3>1 DEF Place, Said
      <3> QED
        BY <1>2, <3>2, EmptySeq DEF Told
    <2> QED
      BY <2>1, <2>2
  <1> QED
    BY <1>4, <1>6, <1>7 DEF InTime

LEMMA StartInTime ==
    ASSUME Forms, InTime, NEW cmd \in Asked, cmd.op \in Codes, Starts(cmd),
           driver'.cmd = cmd, driver'.ids = <<>>, UNCHANGED <<sends, handlers, size, astray>>,
           \/ driver'.at = "GRID" /\ cmd.op = "NEW_MATRIX" /\ UNCHANGED barriers
           \/ /\ \/ driver'.at = "LOAD" /\ cmd.op = "LOAD"
                 \/ driver'.at = "TASK" /\ cmd.op = "RUN"
              /\ Barrier(0, driver'.at) /\ driver'.k = Len(barriers[0]) + 1
    PROVE  InTime'
  <1>1. /\ driver = Idle /\ size > 0
        /\ \A w \in Workers :
               /\ ibcast'[w] = IF w \in Members THEN Append(ibcast[w], cmd.op) ELSE ibcast[w]
               /\ bcast'[w] = IF w \in Members THEN Append(bcast[w], cmd) ELSE bcast[w]
    BY StartsIs
  <1> SUFFICES ASSUME astray = {} PROVE InTime'
    BY DEF InTime
  <1>2. /\ \A w \in Workers : Threads[w] = {} /\ ibcast[w] = <<>> /\ bcast[w] = <<>>
        /\ \A w \in Members : barriers[w] = barriers[0]
        /\ sends = <<>>
    BY <1>1, AllOut
  <1>3. /\ \A w \in Workers : Threads'[w] = {}
        /\ \A w \in Members : ibcast'[w] = <<cmd.op>> /\ bcast'[w] = <<cmd>>
        /\ \A w \in Workers \ Members : ibcast'[w] = <<>> /\ bcast'[w] = <<>>
    <2>1. Members \subseteq Workers
      BY StepsIn
    <2>2. Threads' = Threads
      BY DEF Threads
    <2>3. Append(<<>>, cmd.op) = <<cmd.op>> /\ Append(<<>>, cmd) = <<cmd>>
      BY OfOne
    <2> QED
      BY <1>1, <1>2, <2>1, <2>2, <2>3
  <1>4. Ears' = 0 /\ sends' = <<>> /\ sends' \in Seq(Nat) /\ Len(sends') = 0
    BY <1>2 DEF Ears, Heard
  <1>5. /\ \A w \in Members : Level(w, 0)'
        /\ driver'.at # "GRID" => driver'.k = Len(barriers'[0])
    <2>1. CASE driver'.at = "GRID"
      <3>1. Steps' = 0
        BY <2>1 DEF Steps, DriverEntered
      <3> QED
        BY <1>2, <2>1, <3>1, SpanIs DEF Level
    <2>2. CASE driver'.at # "GRID"
      <3>1. Barrier(0, driver'.at) /\ driver'.at \in Names /\ 0 \in Ranks
        BY <2>2, SpanIs DEF Names
      <3>2. /\ barriers'[0] = Append(barriers[0], driver'.at)
            /\ Len(barriers'[0]) = Len(barriers[0]) + 1
            /\ \A w \in Members : barriers'[w] = barriers[w]
        BY <3>1, BarrierIs, StepsIn, SpanIs
      <3>3. Steps' = 1 /\ driver'.at = Nth(driver'.cmd, 1)
        BY <2>2 DEF Steps, DriverEntered, Nth
      <3> QED
        BY <1>2, <2>2, <3>2, <3>3 DEF Level
    <2> QED
      BY <2>1, <2>2
  <1>6. \A w \in Members : Place(w, "TOLD", 0)'
    <2> TAKE w \in Members
    <2>1. w \in Workers
      BY StepsIn
    <2>2. Stands(w, "TOLD", 0)'
      BY <1>3, <2>1 DEF Stands, Fits, Codes
    <2>3. WorkerEntered(driver'.cmd, w, "TOLD", 0) = 0 /\ Said(driver'.cmd, "TOLD", 0) = 0
      BY DEF WorkerEntered, Said
    <2>4. Told(0)'
      BY <1>4 DEF Told
    <2> QED
      BY <1>5, <2>2, <2>3, <2>4 DEF Place
  <1>7. Driving'
    BY <1>1, <1>5, OfOne DEF Driving
  <1> QED
    BY <1>3, <1>6, <1>7 DEF InTime, InStep, Members, Ats

LEMMA CommandInTime ==
    ASSUME Forms, Forms', InTime, NEW w \in Workers, GroupCommand(w)
    PROVE  InTime'
  <1>1. PICK h \in Handlers :
            /\ IsThread(h, w, Head(ibcast[w]), "START", NoCommand, h.k, 0)
            /\ handlers' = handlers \cup {h} /\ ibcast[w] # <<>>
            /\ ibcast'[w] = Tail(ibcast[w])
            /\ \A v \in Workers \ {w} : ibcast'[v] = ibcast[v]
            /\ UNCHANGED <<size, astray, driver, bcast, barriers, sends>>
    BY GroupCommandIs DEF groupVars
  <1> SUFFICES ASSUME astray = {} PROVE InTime'
    BY <1>1 DEF InTime
  <1>2. w \in Members
    BY <1>1 DEF InTime
  <1>3. PICK at \in Ats, i \in Nat : Place(w, at, i)
    BY <1>2 DEF InTime, InStep
  <1>4. at = "TOLD" /\ i = 0 /\ Place(w, "TOLD", 0)
    BY <1>1, <1>3 DEF Place, Stands, Fits
  <1>5. /\ Threads[w] = {} /\ ibcast[w] = <<driver.cmd.op>> /\ bcast[w] = <<driver.cmd>>
        /\ driver.cmd.op # "NONE"
    BY <1>4 DEF Place, Stands, Fits
  <1>6. h.op = driver.cmd.op /\ ibcast'[w] = <<>>
    BY <1>1, <1>5, OfOne DEF IsThread
  <1>7. /\ Threads'[w] = {h}
        /\ \A v \in Workers \ {w} : Threads'[v] = Threads[v]
    BY <1>1, <1>5 DEF Threads, IsThread, Live
  <1>8. Aside(w)
    BY <1>1, <1>7 DEF Aside
  <1>9. Steps' = Steps /\ Ears' = Ears
    BY <1>1 DEF Steps, Ears
  <1>10. Place(w, "START", 0)'
    <2>1. Thread(w, "START", 0)'
      BY <1>1, <1>6, <1>7 DEF Thread, IsThread, Waits
    <2>2. Stands(w, "START", 0)'
      BY <1>1, <1>5, <1>6, <2>1 DEF Stands, Fits
    <2>3. /\ WorkerEntered(driver.cmd, w, "TOLD", 0) = 0 /\ WorkerEntered(driver.cmd, w, "START", 0) = 0
          /\ Said(driver.cmd, "TOLD", 0) = 0 /\ Said(driver.cmd, "START", 0) = 0
      BY DEF WorkerEntered, Said
    <2>4. Level(w, 0)'
      BY <1>1, <1>4, <1>9, <2>3 DEF Level, Place
    <2>5. w = Primary => Told(0)'
      BY <1>1, <1>4, <1>9, <2>3 DEF Told, Place
    <2> QED
      BY <1>1, <1>4, <1>9, <2>2, <2>3, <2>4, <2>5 DEF Place
  <1> QED
    BY <1>2, <1>8, <1>10, WorkerMoved DEF Ats

LEMMA PlaceOn ==
    ASSUME Forms, NEW w \in Members, NEW at \in Ats, NEW i \in Nat, Place(w, at, i),
           NEW n \in Nat, n = WorkerEntered(driver.cmd, w, at, i),
           UNCHANGED <<handlers, ibcast>>, driver'.cmd = driver.cmd, driver.at # "DONE",
           barriers'[w] = barriers[w],
           \/ Steps' = Steps /\ barriers'[0] = barriers[0]
           \/ /\ Steps' = Steps + 1 /\ n >= Steps
              /\ barriers'[0] = Append(barriers[0], Nth(driver.cmd, Steps + 1)),
           \/ Ears' = Ears /\ sends' = sends
           \/ Ears' = Ears + 1 /\ sends # <<>> /\ sends' = Tail(sends),
           bcast'[w] = IF driver'.at = "DONE" /\ at = "RESULT" THEN <<IDs'>> ELSE bcast[w],
           driver'.at = "INFO" => n >= Steps'
    PROVE  Place(w, at, i)'
  <1>1. w \in Workers /\ Steps \in Nat /\ Ears \in Nat /\ Said(driver.cmd, at, i) \in Nat
    BY StepsIn
  <1>2. Threads' = Threads
    BY DEF Threads
  <1>3. Stands(w, at, i)'
    <2>1. Thread(w, at, i) => Thread(w, at, i)'
      BY <1>2 DEF Thread
    <2> QED
      BY <1>2, <2>1 DEF Place, Stands
  <1>4. Level(w, n)'
    <2>1. Level(w, n)
      BY DEF Place
    <2>2. CASE Steps' = Steps /\ barriers'[0] = barriers[0]
      BY <2>1, <2>2 DEF Level
    <2>3. CASE /\ Steps' = Steps + 1 /\ n >= Steps
               /\ barriers'[0] = Append(barriers[0], Nth(driver.cmd, Steps + 1))
      BY SMTT(30), <1>1, <2>1, <2>3 DEF Level
    <2> QED
      BY <2>2, <2>3
  <1>5. ASSUME w = Primary
        PROVE  Told(Said(driver.cmd, at, i))'
    <2>1. PICK s \in Nat : s = Said(driver.cmd, at, i)
      BY <1>1
    <2>2. Told(s)
      BY <1>5, <2>1 DEF Place
    <2>3. CASE Ears' = Ears /\ sends' = sends
      BY <2>1, <2>2, <2>3 DEF Told
    <2>4. CASE Ears' = Ears + 1 /\ sends # <<>> /\ sends' = Tail(sends)
      <3>1. Told(s)'
        BY <1>1, <2>2, <2>4, ToldLess
      <3> QED
        BY <2>1, <3>1
    <2> QED
      BY <2>3, <2>4
  <1>6. at = "INFO" => Steps' >= 3
    BY <1>1 DEF Place
  <1>7. ~ (at = "OUT" /\ driver.cmd.op = "RUN" /\ driver.cmd.results > 0)
    BY DEF Place
  <1> QED
    BY <1>3, <1>4, <1>5, <1>6, <1>7 DEF Place

LEMMA AllOn ==
    ASSUME Forms, InTime, astray = {}, UNCHANGED <<handlers, ibcast, size>>, Driving',
           \A w \in Workers \ Members : bcast'[w] = bcast[w],
           \A w \in Members, at \in Ats, i \in Nat : Place(w, at, i) => Place(w, at, i)'
    PROVE  InTime'
  <1>1. Threads' = Threads /\ Members' = Members
    BY DEF Threads, Members
  <1> QED
    BY <1>1 DEF InTime, InStep

LEMMA GridInTime ==
    ASSUME Forms, InTime, ReceiveGrid
    PROVE  InTime'
  <1> SUFFICES ASSUME astray = {} PROVE InTime'
    BY DEF InTime, ReceiveGrid, groupVars
  <1>1. /\ driver.at = "GRID" /\ sends # <<>> /\ sends' = Tail(sends)
        /\ Enters("MADE", "NEW_MATRIX") /\ "MADE" \in Places /\ "NEW_MATRIX" \in Names
        /\ UNCHANGED <<size, astray, ibcast, bcast, handlers>>
    BY DEF ReceiveGrid, groupVars, Places, Names
  <1>2. /\ IsDriver(driver', "MADE", driver.cmd, Len(barriers[0]) + 1, driver.ids)
        /\ Barrier(0, "NEW_MATRIX")
    BY <1>1, EntersIs
  <1>3. /\ barriers'[0] = Append(barriers[0], "NEW_MATRIX")
        /\ Len(barriers'[0]) = Len(barriers[0]) + 1
        /\ \A q \in Ranks \ {0} : barriers'[q] = barriers[q]
    BY <1>1, <1>2, BarrierIs, SpanIs
  <1>4. driver.cmd.op = "NEW_MATRIX" /\ driver.ids = <<>> /\ Driving
    BY <1>1 DEF InTime, Driving
  <1>5. /\ Steps = 0 /\ Steps' = Steps + 1 /\ Ears' = Ears + 1
        /\ Nth(driver.cmd, Steps + 1) = "NEW_MATRIX"
    BY <1>1, <1>2, <1>4 DEF Steps, Ears, DriverEntered, Heard, IsDriver, Nth
  <1>6. Driving'
    <2>1. size # 0
      BY <1>1, <1>4, NoCommandIs DEF Driving
    <2> QED
      BY <1>1, <1>2, <1>3, <1>4, <2>1 DEF Driving, IsDriver
  <1>7. ASSUME NEW w \in Members, NEW at \in Ats, NEW i \in Nat, Place(w, at, i)
        PROVE  Place(w, at, i)'
    <2>1. PICK n \in Nat : n = WorkerEntered(driver.cmd, w, at, i)
      BY StepsIn
    <2>2. w \in Ranks \ {0}
      BY StepsIn, SpanIs
    <2>3. driver'.cmd = driver.cmd /\ driver'.at = "MADE" /\ n >= Steps
      BY <1>2, <1>5, <2>1 DEF IsDriver
    <2> QED
      BY <1>1, <1>3, <1>5, <1>7, <2>1, <2>2, <2>3, PlaceOn
  <1> QED
    BY <1>1, <1>6, <1>7, AllOn

\* The driver goes from one barrier to the next.
LEMMA EntersInTime ==
    ASSUME Forms, InTime, astray = {}, NEW from \in {"LOAD", "TASK", "SENT"}, Through(from),
           NEW to \in {"LOADED", "SENT", "RAN"}, Enters(to, to),
           from = "LOAD" <=> to = "LOADED", from = "TASK" <=> to = "SENT",
           to = "LOADED" => 0 \notin driver.cmd.fails,
           UNCHANGED <<size, ibcast, bcast, handlers, sends>>
    PROVE  InTime'
  <1>1. driver.at = from /\ Met(driver.k) /\ to \in Places /\ to \in Names
    BY DEF Through, Places, Names
  <1>2. IsDriver(driver', to, driver.cmd, Len(barriers[0]) + 1, driver.ids) /\ Barrier(0, to)
    BY <1>1, EntersIs
  <1>3. /\ barriers'[0] = Append(barriers[0], to)
        /\ Len(barriers'[0]) = Len(barriers[0]) + 1
        /\ \A q \in Ranks \ {0} : barriers'[q] = barriers[q]
    BY <1>1, <1>2, BarrierIs, SpanIs
  <1>4. /\ driver.ids = <<>> /\ Driving /\ driver.k = Len(barriers[0])
        /\ driver.cmd.op = IF to = "LOADED" THEN "LOAD" ELSE "RUN"
    BY <1>1 DEF InTime, Driving
  <1>5. Steps' = Steps + 1 /\ Ears' = Ears /\ Nth(driver.cmd, Steps + 1) = to
    <2>1. CASE from = "LOAD"
      BY <1>1, <1>2, <1>4, <2>1 DEF Steps, Ears, DriverEntered, Heard, IsDriver, Nth
    <2>2. CASE from = "TASK"
      BY <1>1, <1>2, <1>4, <2>2 DEF Steps, Ears, DriverEntered, Heard, IsDriver, Nth
    <2>3. CASE from = "SENT"
      BY <1>1, <1>2, <1>4, <2>3 DEF Steps, Ears, DriverEntered, Heard, IsDriver, Nth
    <2> QED
      BY <2>1, <2>2, <2>3
  <1>6. Driving'
    <2>1. size # 0
      BY <1>1, <1>4, NoCommandIs DEF Driving
    <2> QED
      BY <1>1, <1>2, <1>3, <1>4, <2>1 DEF Driving, IsDriver
  <1>7. ASSUME NEW w \in Members, NEW at \in Ats, NEW i \in Nat, Place(w, at, i)
        PROVE  Place(w, at, i)'
    <2>1. PICK n \in Nat : n = WorkerEntered(driver.cmd, w, at, i)
      BY StepsIn
    <2>2. n >= Steps
      BY <1>1, <1>4, <1>7, <2>1, MetDriver DEF Place
    <2>3. w \in Ranks \ {0} /\ driver'.cmd = driver.cmd /\ driver'.at \notin {"INFO", "DONE"}
      BY <1>2, StepsIn, SpanIs DEF IsDriver
    <2> QED
      BY <1>1, <1>3, <1>5, <1>7, <2>1, <2>2, <2>3, PlaceOn
  <1> QED
    BY <1>6, <1>7, AllOn

LEMMA ReceiveResultInTime ==
    ASSUME Forms, InTime, ReceiveResult
    PROVE  InTime'
  <1> SUFFICES ASSUME astray = {} PROVE InTime'
    BY DEF InTime, ReceiveResult, groupVars
  <1>1. /\ driver.at = "INFO" /\ sends # <<>> /\ sends' = Tail(sends)
        /\ Enters("RESULT", "RESULT") /\ "RESULT" \in Places /\ "RESULT" \in Names
        /\ UNCHANGED <<size, astray, ibcast, bcast, handlers>>
    BY DEF ReceiveResult, groupVars, Places, Names
  <1>2. /\ IsDriver(driver', "RESULT", driver.cmd, Len(barriers[0]) + 1, driver.ids)
        /\ Barrier(0, "RESULT")
    BY <1>1, EntersIs
  <1>3. /\ barriers'[0] = Append(barriers[0], "RESULT")
        /\ Len(barriers'[0]) = Len(barriers[0]) + 1
        /\ \A q \in Ranks \ {0} : barriers'[q] = barriers[q]
    BY <1>1, <1>2, BarrierIs, SpanIs
  <1>4. driver.cmd.op = "RUN" /\ Len(driver.ids) < driver.cmd.results /\ Driving
    BY <1>1 DEF InTime, Driving
  <1>5. PICK j \in Nat : j = Len(driver.ids) /\ j < driver.cmd.results /\ driver.cmd.results \in Nat
    BY <1>4, StepsIn
  <1>6. /\ Steps = 3 + j /\ Steps' = Steps + 1 /\ Ears' = Ears + 1
        /\ Nth(driver.cmd, Steps + 1) = "RESULT"
    BY <1>1, <1>2, <1>4, <1>5 DEF Steps, Ears, DriverEntered, Heard, IsDriver, Nth
  <1>7. Driving'
    <2>1. size # 0
      BY <1>1, <1>4, NoCommandIs DEF Driving
    <2> QED
      BY <1>1, <1>2, <1>3, <1>4, <2>1 DEF Driving, IsDriver
  <1>8. ASSUME NEW w \in Members, NEW at \in Ats, NEW i \in Nat, Place(w, at, i)
        PROVE  Place(w, at, i)'
    <2>1. PICK n \in Nat : n = WorkerEntered(driver.cmd, w, at, i)
      BY StepsIn
    <2>2. n >= Steps
      BY <1>1, <1>8, <2>1 DEF Place
    <2>3. w \in Ranks \ {0} /\ driver'.cmd = driver.cmd /\ driver'.at = "RESULT"
      BY <1>2, StepsIn, SpanIs DEF IsDriver
    <2> QED
      BY <1>1, <1>3, <1>6, <1>8, <2>1, <2>2, <2>3, PlaceOn
  <1> QED
    BY <1>1, <1>7, <1>8, AllOn

\* The driver is at the end of a task's results.
LEMMA FinishInTime ==
    ASSUME Forms, InTime, astray = {}, NEW ids \in Seq(Kept), Finish(ids),
           driver.cmd.op = "RUN", Len(ids) = driver.cmd.results,
           UNCHANGED <<size, ibcast, handlers>>,
           \/ Ears = driver.cmd.results + 1 /\ sends' = sends
           \/ Ears = driver.cmd.results /\ sends # <<>> /\ sends' = Tail(sends),
           Steps = driver.cmd.results + 3, driver.at \in {"RAN", "RESULT"}, Met(driver.k)
    PROVE  InTime'
  <1>1. /\ IsDriver(driver', "DONE", driver.cmd, Len(barriers[0]) + 1, ids)
        /\ Barrier(0, "DONE") /\ "DONE" \in Names
        /\ \A w \in Workers :
               bcast'[w] = IF ids # <<>> /\ w \in Members THEN Append(bcast[w], TheIDs(ids))
                           ELSE bcast[w]
    BY FinishIs DEF Names
  <1>2. /\ barriers'[0] = Append(barriers[0], "DONE")
        /\ Len(barriers'[0]) = Len(barriers[0]) + 1
        /\ \A q \in Ranks \ {0} : barriers'[q] = barriers[q]
    BY <1>1, BarrierIs, SpanIs
  <1>3. Driving /\ driver.k = Len(barriers[0])
    BY DEF InTime, Driving
  <1>4. PICK r \in Nat : r = driver.cmd.results
    BY StepsIn
  <1>5. Steps' = Steps + 1 /\ Ears' = r + 1 /\ Nth(driver.cmd, Steps + 1) = "DONE"
    BY SMTT(30), <1>1, <1>4 DEF Steps, Ears, DriverEntered, Heard, IsDriver, Nth
  <1>6. IDs' = TheIDs(ids)
    BY <1>1 DEF IDs, TheIDs, IsDriver
  <1>7. Driving'
    <2>1. size # 0
      BY <1>3, NoCommandIs DEF Driving
    <2> QED
      BY <1>1, <1>2, <1>3, <2>1 DEF Driving, IsDriver
  <1>8. ASSUME NEW w \in Members, NEW at \in Ats, NEW i \in Nat, Place(w, at, i)
        PROVE  Place(w, at, i)'
    <2>1. PICK n \in Nat : n = WorkerEntered(driver.cmd, w, at, i)
      BY StepsIn
    <2>2. n >= r + 3
      BY <1>3, <1>4, <1>8, <2>1, MetDriver DEF Place
    <2>3. w \in Ranks \ {0} /\ w \in Workers /\ driver'.cmd = driver.cmd /\ driver'.at = "DONE"
      BY <1>1, StepsIn, SpanIs DEF IsDriver
    <2>4. bcast'[w] = IF driver'.at = "DONE" /\ at = "RESULT" THEN <<IDs'>> ELSE bcast[w]
      <3>1. CASE r = 0
        <4>1. ids = <<>> /\ at # "RESULT"
          BY <1>4, <1>8, <3>1, EmptySeq DEF Place, Stands, Fits
        <4> QED
          BY <1>1, <2>3, <4>1
      <3>2. CASE r # 0
        <4>1. at = "RESULT"
          BY <1>4, <1>8, <2>1, <2>2, <3>2 DEF WorkerEntered, Place, Stands, Fits, Ats
        <4>2. bcast[w] = <<>>
          BY <1>8, <4>1 DEF Place, Stands
        <4>3. ids # <<>>
          BY <1>4, <3>2, EmptySeq
        <4>4. bcast'[w] = Append(<<>>, TheIDs(ids))
          BY <1>1, <2>3, <4>2, <4>3
        <4> QED
          BY <1>6, <2>3, <4>1, <4>4, OfOne
      <3> QED
        BY <3>1, <3>2
    <2>5. \/ Ears' = Ears /\ sends' = sends
          \/ Ears' = Ears + 1 /\ sends # <<>> /\ sends' = Tail(sends)
      BY <1>4, <1>5
    <2> QED
      BY <1>2, <1>4, <1>5, <1>8, <2>1, <2>2, <2>3, <2>4, <2>5, PlaceOn
  <1>9. \A w \in Workers \ Members : bcast'[w] = bcast[w]
    BY <1>1
  <1> QED
    BY <1>7, <1>8, <1>9, AllOn

LEMMA CountInTime ==
    ASSUME Forms, InTime, ReceiveCount
    PROVE  InTime'
  <1> SUFFICES ASSUME astray = {} PROVE InTime'
    BY DEF InTime, ReceiveCount, groupVars
  <1>1. /\ driver.at = "RAN" /\ Met(driver.k) /\ sends # <<>> /\ sends' = Tail(sends)
        /\ \/ Head(sends) = 0 /\ Finish(<<>>)
           \/ Head(sends) # 0 /\ driver' = [driver EXCEPT !.at = "INFO"] /\ UNCHANGED <<bcast, barriers>>
        /\ UNCHANGED <<size, astray, ibcast, handlers>>
    BY DEF ReceiveCount, groupVars, Through
  <1>2. /\ driver.cmd.op = "RUN" /\ driver.ids = <<>> /\ Len(driver.ids) = 0 /\ Driving
        /\ driver.k = Len(barriers[0]) /\ size # 0
    BY <1>1, NoCommandIs, OfOne DEF InTime, Driving
  <1>3. Steps = 3 /\ Ears = 0 /\ driver.cmd.results \in Nat /\ Members \subseteq Workers
    BY <1>1, StepsIn DEF Steps, Ears, DriverEntered, Heard
  <1>4. Head(sends) = driver.cmd.results
    <2>1. Primary \in Members
      BY <1>2 DEF Forms, Members, Primary
    <2>2. PICK at \in Ats, i \in Nat : Place(Primary, at, i)
      BY <2>1 DEF InTime, InStep
    <2>3. PICK s \in Nat : s = Said(driver.cmd, at, i)
      BY <1>3, <2>1, StepsIn
    <2>4. Told(s)
      BY <2>2, <2>3 DEF Place
    <2>5. Head(sends) = Message(driver.cmd, Ears + 1)
      <3>1. /\ s >= 0 /\ sends \in Seq(Nat) /\ Len(sends) = s - 0
            /\ \A k \in 1 .. s - 0 : sends[k] = Message(driver.cmd, 0 + k)
        BY <1>3, <2>4 DEF Told
      <3>2. Head(sends) = sends[1] /\ Len(sends) # 0
        BY <1>1, <3>1, Popping
      <3> QED
        BY <1>3, <3>1, <3>2
    <2> QED
      BY <1>2, <1>3, <2>5 DEF Message
  <1>5. CASE Head(sends) = 0
    <2> <<>> \in Seq(Kept)
      OBVIOUS
    <2>1. PICK ids \in Seq(Kept) : ids = <<>> /\ Len(ids) = 0
      BY OfOne
    <2>2. /\ Finish(ids) /\ driver.cmd.op = "RUN" /\ Len(ids) = driver.cmd.results
          /\ Ears = driver.cmd.results /\ Steps = driver.cmd.results + 3
      BY <1>1, <1>2, <1>3, <1>4, <1>5, <2>1
    <2> QED
      BY <1>1, <2>2, FinishInTime
  <1>6. CASE Head(sends) # 0
    <2>1. UNCHANGED <<bcast, barriers>>
      BY <1>1, <1>6
    <2>2. /\ driver'.at = "INFO" /\ driver'.cmd = driver.cmd /\ driver'.ids = driver.ids
          /\ driver'.k = driver.k
      BY <1>1, <1>6 DEF Forms, Drivers
    <2>3. Steps' = Steps /\ Ears' = Ears + 1
      BY <1>2, <1>3, <2>2 DEF Steps, Ears, DriverEntered, Heard
    <2>4. Driving'
      BY <1>1, <1>2, <1>3, <1>4, <1>6, <2>1, <2>2 DEF Driving
    <2>5. ASSUME NEW w \in Members, NEW at \in Ats, NEW i \in Nat, Place(w, at, i)
          PROVE  Place(w, at, i)'
      <3>1. PICK n \in Nat : n = WorkerEntered(driver.cmd, w, at, i)
        BY StepsIn
      <3>2. n >= Steps
        BY <1>1, <1>2, <2>5, <3>1, MetDriver DEF Place
      <3> QED
        BY <1>1, <2>1, <2>2, <2>3, <2>5, <3>1, <3>2, PlaceOn
    <2> QED
      BY <1>1, <2>1, <2>4, <2>5, AllOn
  <1> QED
    BY <1>5, <1>6

LEMMA KeepInTime ==
    ASSUME Forms, InTime, KeepResult
    PROVE  InTime'
  <1>1. PICK new \in Kept, ids \in Seq(Kept) :
            /\ ids = Append(driver.ids, new) /\ Through("RESULT")
            /\ \/ Len(ids) = driver.cmd.results /\ Finish(ids)
               \/ /\ Len(ids) # driver.cmd.results
                  /\ IsDriver(driver', "INFO", driver.cmd, driver.k, ids)
                  /\ UNCHANGED <<bcast, barriers>>
            /\ UNCHANGED <<size, astray, ibcast, sends, handlers>>
    BY KeepResultIs DEF groupVars
  <1> SUFFICES ASSUME astray = {} PROVE InTime'
    BY <1>1 DEF InTime
  <1>2. /\ driver.at = "RESULT" /\ Met(driver.k) /\ driver.cmd.op = "RUN" /\ Driving
        /\ driver.k = Len(barriers[0]) /\ size # 0 /\ Len(driver.ids) < driver.cmd.results
    BY <1>1, NoCommandIs DEF InTime, Driving, Through
  <1>3. PICK j \in Nat, r \in Nat : /\ j = Len(driver.ids) /\ r = driver.cmd.results /\ j < r
                                    /\ Len(ids) = j + 1 /\ j + 1 <= r
    <2>1. driver.ids \in Seq(Kept) /\ driver.cmd.results \in Nat
      BY DEF Forms, Drivers, Asked
    <2>2. Len(ids) = Len(driver.ids) + 1 /\ Len(driver.ids) \in Nat
      BY <1>1, <2>1, Joining
    <2> QED
      BY <1>2, <2>1, <2>2
  <1>4. Steps = 4 + j /\ Ears = 2 + j
    BY <1>2, <1>3 DEF Steps, Ears, DriverEntered, Heard
  <1>5. CASE Len(ids) = driver.cmd.results
    <2>1. /\ Finish(ids) /\ Len(ids) = driver.cmd.results
          /\ Ears = driver.cmd.results + 1 /\ sends' = sends
          /\ Steps = driver.cmd.results + 3
      BY <1>1, <1>3, <1>4, <1>5
    <2> QED
      BY <1>1, <1>2, <2>1, FinishInTime
  <1>6. CASE Len(ids) # driver.cmd.results
    <2>1. /\ driver'.at = "INFO" /\ driver'.cmd = driver.cmd /\ driver'.ids = ids
          /\ driver'.k = driver.k /\ UNCHANGED <<bcast, barriers>>
      BY <1>1, <1>6 DEF IsDriver
    <2>2. Steps' = Steps /\ Ears' = Ears
      BY <1>3, <1>4, <2>1 DEF Steps, Ears, DriverEntered, Heard
    <2>3. Driving'
      BY <1>1, <1>2, <1>3, <1>6, <2>1 DEF Driving
    <2>4. ASSUME NEW w \in Members, NEW at \in Ats, NEW i \in Nat, Place(w, at, i)
          PROVE  Place(w, at, i)'
      <3>1. PICK n \in Nat : n = WorkerEntered(driver.cmd, w, at, i)
        BY StepsIn
      <3>2. n >= Steps
        BY <1>1, <1>2, <2>4, <3>1, MetDriver DEF Place
      <3> QED
        BY <1>1, <1>2, <2>1, <2>2, <2>4, <3>1, <3>2, PlaceOn
    <2> QED
      BY <1>1, <2>1, <2>3, <2>4, AllOn
  <1> QED
    BY <1>5, <1>6

\* The driver answers once its workers are done.
LEMMA AnswerInTime ==
    ASSUME Forms, InTime, astray = {}, driver' = Idle, Met(driver.k),
           UNCHANGED <<size, ibcast, bcast, barriers, sends, handlers>>,
           \/ driver.at \in {"MADE", "LOADED", "DONE"}
           \/ driver.at = "LOAD" /\ Members \subseteq driver.cmd.fails
    PROVE  InTime'
  <1>1. Driving /\ driver.k = Len(barriers[0]) /\ Threads' = Threads /\ Members' = Members
        /\ size # 0
    BY NoCommandIs DEF InTime, Driving, Threads, Members
  <1>2. /\ Steps' = 0 /\ Ears' = 0 /\ driver'.cmd.op = "NONE" /\ driver'.at = "IDLE"
        /\ driver'.cmd.results = 0 /\ driver'.ids = <<>>
    BY NoCommandIs DEF Steps, Ears, DriverEntered, Heard
  <1>3. PICK r \in Nat : r = driver.cmd.results
    BY StepsIn
  <1>4. ASSUME NEW w \in Members
        PROVE  Place(w, "OUT", 0)'
    <2>1. PICK at \in Ats, i \in Nat : Place(w, at, i)
      BY DEF InTime, InStep
    <2>2. PICK n \in Nat : n = WorkerEntered(driver.cmd, w, at, i)
      BY StepsIn
    <2>3. n >= Steps
      BY <1>1, <2>1, <2>2, MetDriver DEF Place
    <2>4. Fits(driver.cmd, w, at, i)
      BY <2>1 DEF Place, Stands
    <2>5. at = "OUT" /\ i = 0 /\ n = Steps /\ Said(driver.cmd, at, i) = Ears
      <3>1. CASE driver.at = "MADE"
        BY <1>1, <2>2, <2>3, <2>4, <3>1 DEF Driving, Fits, WorkerEntered, Steps, DriverEntered,
                                            Said, Ears, Heard
      <3>2. CASE driver.at = "LOADED"
        BY <1>1, <2>2, <2>3, <2>4, <3>2 DEF Driving, Fits, WorkerEntered, Steps, DriverEntered,
                                            Said, Ears, Heard
      <3>3. CASE driver.at = "DONE"
        BY <1>1, <1>3, <2>2, <2>3, <2>4, <3>3 DEF Driving, Fits, WorkerEntered, Steps, DriverEntered,
                                                  Said, Ears, Heard
      <3>4. CASE driver.at = "LOAD" /\ Members \subseteq driver.cmd.fails
        BY <1>1, <2>2, <2>3, <2>4, <3>4 DEF Driving, Fits, WorkerEntered, Steps, DriverEntered,
                                            Said, Ears, Heard
      <3> QED
        BY <3>1, <3>2, <3>3, <3>4
    <2>6. Stands(w, "OUT", 0)'
      BY <1>1, <1>2, <2>1, <2>5 DEF Place, Stands, Fits
    <2>7. WorkerEntered(driver'.cmd, w, "OUT", 0) = 0 /\ Said(driver'.cmd, "OUT", 0) = 0
      BY <1>2 DEF WorkerEntered, Said
    <2>8. Level(w, 0)'
      <3>1. barriers[w] = barriers[0]
        <4>1. Level(w, n) /\ n = Steps
          BY <2>1, <2>2, <2>5 DEF Place
        <4> QED
          BY <4>1 DEF Level
      <3> QED
        BY <1>2, <3>1 DEF Level
    <2>9. w = Primary => Told(0)'
      <3> HAVE w = Primary
      <3>1. PICK s \in Nat : s = Ears
        BY StepsIn
      <3>2. Told(s)
        BY <2>1, <2>5, <3>1 DEF Place
      <3>3. sends \in Seq(Nat) /\ Len(sends) = 0
        BY <3>1, <3>2 DEF Told
      <3> QED
        BY <1>2, <3>3 DEF Told
    <2> QED
      BY <1>2, <2>6, <2>7, <2>8, <2>9 DEF Place
  <1>5. Driving'
    BY <1>1, <1>2 DEF Driving
  <1> QED
    BY <1>1, <1>4, <1>5 DEF InTime, InStep, Ats

LEMMA DriverInTime ==
    ASSUME Forms, InTime, DriverStep
    PROVE  InTime'
  <1> SUFFICES ASSUME astray' = {} PROVE InTime'
    BY DEF InTime
  <1>1. astray = {}
    BY DEF DriverStep, ReceiveGrid, AnswerMatrix, OpenLibrary, AnswerLibrary, TaskSent, RunHere,
           ReceiveCount, ReceiveResult, KeepResult, AnswerTask, Crash, groupVars
  <1>2. CASE ReceiveGrid
    BY <1>2, GridInTime
  <1>3. CASE AnswerMatrix \/ AnswerLibrary \/ AnswerTask
    BY <1>1, <1>3, AnswerInTime DEF AnswerMatrix, AnswerLibrary, AnswerTask, Through, groupVars, mpiVars
  <1>4. CASE OpenLibrary
    <2>1. Through("LOAD") /\ UNCHANGED <<size, ibcast, bcast, sends, handlers>>
      BY <1>4 DEF OpenLibrary
    <2>2. CASE 0 \in driver.cmd.fails
      <3>1. driver' = Idle /\ UNCHANGED barriers /\ Members \subseteq driver.cmd.fails
        BY <1>4, <2>2 DEF OpenLibrary
      <3> QED
        BY <1>1, <2>1, <3>1, AnswerInTime DEF Through
    <2>3. CASE 0 \notin driver.cmd.fails
      <3>1. Enters("LOADED", "LOADED")
        BY <1>4, <2>3 DEF OpenLibrary
      <3> QED
        BY <1>1, <2>1, <2>3, <3>1, EntersInTime
    <2> QED
      BY <2>2, <2>3
  <1>5. CASE TaskSent
    BY <1>1, <1>5, EntersInTime DEF TaskSent, groupVars
  <1>6. CASE RunHere
    <2>1. CASE libraries[0][driver.cmd.id] = 0
      BY <1>6, <2>1, NothingMoves DEF RunHere, Crash, groupVars, mpiVars
    <2>2. CASE libraries[0][driver.cmd.id] # 0
      BY <1>1, <1>6, <2>2, EntersInTime DEF RunHere, groupVars
    <2> QED
      BY <2>1, <2>2
  <1>7. CASE ReceiveCount \/ ReceiveResult \/ KeepResult
    BY <1>7, CountInTime, ReceiveResultInTime, KeepInTime
  <1> QED
    BY <1>2, <1>3, <1>4, <1>5, <1>6, <1>7 DEF DriverStep

LEMMA ChangeInTime ==
    ASSUME Forms, InTime, NEW n \in 0 .. NumWorkers, NEW newClient \in BOOLEAN,
           ChangeGroup(n, newClient)
    PROVE  InTime'
  <1>1. /\ size' = n /\ barriers' = [p \in Ranks |-> <<>>]
        /\ handlers' = {[h EXCEPT !.k = 0] : h \in handlers}
        /\ driver = Idle /\ UNCHANGED <<astray, driver, ibcast, bcast, sends>>
    BY DEF ChangeGroup
  <1> SUFFICES ASSUME astray = {} PROVE InTime'
    BY <1>1 DEF InTime
  <1>2. /\ \A w \in Workers : Threads[w] = {} /\ ibcast[w] = <<>> /\ bcast[w] = <<>>
        /\ sends = <<>>
    BY <1>1, AllOut
  <1>3. \A w \in Workers : Threads'[w] = {}
    <2> SUFFICES ASSUME NEW w \in Workers, NEW g \in handlers', g.w = w, Live(g)
                 PROVE  FALSE
      BY DEF Threads
    <2>1. PICK h \in handlers : g = [h EXCEPT !.k = 0]
      BY <1>1
    <2>2. g.w = h.w /\ g.op = h.op /\ g.at = h.at /\ g.cmd = h.cmd
      BY <2>1 DEF Forms, Handlers
    <2>3. h \in Threads[w]
      BY <2>2 DEF Threads, Live
    <2> QED
      BY <1>2, <2>3
  <1>4. /\ driver'.cmd.op = "NONE" /\ driver'.at = "IDLE" /\ driver'.cmd.results = 0
        /\ driver'.ids = <<>> /\ driver' = Idle
    BY <1>1, NoCommandIs
  <1>5. Steps' = 0 /\ Ears' = 0
    BY <1>4 DEF Steps, Ears, DriverEntered, Heard
  <1>6. n \in Nat /\ Members' = 1 .. n /\ 1 .. n \subseteq Workers
    BY <1>1, SpanIs DEF Members, Workers
  <1>7. ASSUME NEW w \in 1 .. n
        PROVE  Place(w, "OUT", 0)'
    <2>1. w \in Workers /\ w \in Ranks /\ 0 \in Ranks
      BY <1>6, SpanIs
    <2>2. Stands(w, "OUT", 0)'
      BY <1>1, <1>2, <1>3, <2>1 DEF Stands, Fits
    <2>3. WorkerEntered(driver'.cmd, w, "OUT", 0) = 0 /\ Said(driver'.cmd, "OUT", 0) = 0
      BY <1>4 DEF WorkerEntered, Said
    <2>4. Level(w, 0)'
      BY <1>1, <1>5, <2>1 DEF Level
    <2>5. Told(0)'
      <3>1. sends' = <<>> /\ <<>> \in Seq(Nat) /\ Len(<<>>) = 0
        BY <1>1, <1>2, OfOne
      <3> QED
        BY <1>5, <3>1 DEF Told
    <2> QED
      BY <1>4, <2>2, <2>3, <2>4, <2>5 DEF Place
  <1>8. Driving'
    BY <1>1, <1>2, <1>4 DEF Driving
  <1> QED
    BY <1>1, <1>2, <1>3, <1>6, <1>7, <1>8 DEF InTime, InStep, Ats

LEMMA NextInTime ==
    ASSUME Forms, InTime, [Next]_vars
    PROVE  InTime'
  <1> Forms'
    BY NextForms
  <1>1. CASE NewMatrix
    BY <1>1, NewMatrixIs, StartInTime DEF IsAsked, Codes, groupVars
  <1>2. ASSUME NEW fails \in NotLoadable, LoadLibrary(fails)
        PROVE  InTime'
    <2>1. PICK cmd \in Asked :
              /\ cmd.op = "LOAD" /\ Starts(cmd) /\ Barrier(0, "LOAD")
              /\ driver'.at = "LOAD" /\ driver'.cmd = cmd /\ driver'.ids = <<>>
              /\ driver'.k = Len(barriers[0]) + 1
              /\ UNCHANGED <<size, astray, sends, handlers>>
      BY <1>2, LoadLibraryIs DEF IsAsked, groupVars
    <2>2. cmd.op \in Codes
      BY <2>1 DEF Codes
    <2> QED
      BY <2>1, <2>2, StartInTime
  <1>3. ASSUME NEW lib \in known, NEW arg \in 0 .. MaxMade + 1, NEW n \in 0 .. MaxResults,
               RunTask(lib, arg, n)
        PROVE  InTime'
    <2>1. arg \in Nat /\ n \in Nat
      BY CommandsAssumption
    <2>2. PICK cmd \in Asked :
              /\ cmd.op = "RUN" /\ Starts(cmd) /\ Barrier(0, "TASK")
              /\ driver'.at = "TASK" /\ driver'.cmd = cmd /\ driver'.ids = <<>>
              /\ driver'.k = Len(barriers[0]) + 1
              /\ UNCHANGED <<size, astray, sends, handlers>>
      BY <1>3, <2>1, RunTaskIs DEF IsAsked, groupVars
    <2>3. cmd.op \in Codes
      BY <2>2 DEF Codes
    <2> QED
      BY <2>2, <2>3, StartInTime
  <1>4. CASE DriverStep
    BY <1>4, DriverInTime
  <1>5. ASSUME NEW w \in Workers, GroupCommand(w)
        PROVE  InTime'
    BY <1>5, CommandInTime
  <1>6. ASSUME NEW w \in Workers, HandlerStep(w)
        PROVE  InTime'
    BY <1>6, HandlerInTime
  <1>7. ASSUME NEW w \in Workers, NEW id \in MatrixIDs, AccessMatrix(w, id)
        PROVE  InTime'
    BY <1>7, NothingMoves DEF AccessMatrix, Crash, vars, groupVars, mpiVars
  <1>8. ASSUME NEW n \in 0 .. NumWorkers, NEW newClient \in BOOLEAN, ChangeGroup(n, newClient)
        PROVE  InTime'
    BY <1>8, ChangeInTime
  <1>9. CASE UNCHANGED vars
    BY <1>9, NothingMoves DEF vars, groupVars, mpiVars
  <1> QED
    BY <1>1, <1>2, <1>3, <1>4, <1>5, <1>6, <1>7, <1>8, <1>9 DEF Next

LEMMA BeginsInTime == Init => InTime
  <1> SUFFICES ASSUME Init PROVE InTime
    OBVIOUS
  <1>1. /\ driver = Idle /\ sends = <<>> /\ size = 0 /\ handlers = {}
        /\ \A w \in Workers : ibcast[w] = <<>> /\ bcast[w] = <<>>
    BY DEF Init
  <1>2. Members = {}
    BY <1>1 DEF Members
  <1>3. \A w \in Workers : Threads[w] = {}
    BY <1>1 DEF Threads
  <1>4. Driving
    BY <1>1, NoCommandIs DEF Driving
  <1> QED
    BY <1>1, <1>2, <1>3, <1>4 DEF InTime

\* The inductive invariant.
LEMMA AlwaysInTime == Spec => [](Forms /\ InTime)
  <1>1. Init => Forms /\ InTime
    BY Beginning, BeginsInTime
  <1>2. (Forms /\ InTime) /\ [Next]_vars => (Forms /\ InTime)'
    BY NextForms, NextInTime
  <1> QED
    BY <1>1, <1>2, PTL DEF Spec

(* When the client is answered its command is over in every worker: nothing   *)
(* of it is under way, no thread is left that does anything more, and all     *)
(* have entered the same barriers.  Until, that is, a library has loaded in a *)
(* worker and not in the driver, after which load_library answers too early.  *)
THEOREM CommandsEndWhole == Spec => [](astray = {} => CommandOver)
  <1>1. Forms /\ InTime => (astray = {} => CommandOver)
    <2> SUFFICES ASSUME Forms, InTime, astray = {}, driver = Idle
                 PROVE  /\ sends = <<>>
                        /\ \A h \in handlers : h.at = "OPEN" /\ h.w \in h.cmd.fails
                        /\ \A w \in Workers : ibcast[w] = <<>> /\ bcast[w] = <<>>
                        /\ \A w \in Members : barriers[w] = barriers[0]
      BY DEF CommandOver, Answered, Even
    <2>1. /\ \A w \in Workers : Threads[w] = {} /\ ibcast[w] = <<>> /\ bcast[w] = <<>>
          /\ \A w \in Members : barriers[w] = barriers[0]
          /\ sends = <<>>
      BY AllOut
    <2>2. \A h \in handlers : h.at = "OPEN" /\ h.w \in h.cmd.fails
      BY <2>1 DEF Threads, Live, Forms, Handlers
    <2> QED
      BY <2>1, <2>2
  <1> QED
    BY <1>1, AlwaysInTime, PTL

\* All that a process has entered is the beginning of one list.
LEMMA OneList ==
    ASSUME Forms, InTime, astray = {}, NEW p \in Members \cup {0}, NEW k \in DOMAIN barriers[p]
    PROVE  k \in 1 .. Len(barriers[0]) + 1
           /\ barriers[p][k] = Append(barriers[0], Nth(driver.cmd, Steps + 1))[k]
  <1>1. /\ \A q \in Ranks : barriers[q] \in Seq(Names) /\ Len(barriers[q]) \in Nat
        /\ Steps \in Nat /\ \A m \in Nat : Nth(driver.cmd, m) \in Names
        /\ Members \subseteq Workers /\ Workers \subseteq Ranks /\ 0 \in Ranks
    BY StepsIn, SpanIs
  <1>2. PICK x \in Names : x = Nth(driver.cmd, Steps + 1)
    BY <1>1
  <1>3. /\ barriers[0] \in Seq(Names) /\ Len(barriers[0]) \in Nat
        /\ DOMAIN barriers[0] = 1 .. Len(barriers[0])
        /\ \A i \in 1 .. Len(barriers[0]) : Append(barriers[0], x)[i] = barriers[0][i]
    BY <1>1, <1>2, Joining
  <1>4. CASE p = 0 \/ barriers[p] = barriers[0]
    BY <1>2, <1>3, <1>4
  <1>5. CASE p # 0 /\ barriers[p] # barriers[0]
    <2>1. PICK at \in Ats, i \in Nat : Place(p, at, i)
      BY <1>5 DEF InTime, InStep
    <2>2. PICK n \in Nat : n = WorkerEntered(driver.cmd, p, at, i)
      BY <1>1, <1>5, StepsIn
    <2>3. Level(p, n)
      BY <2>1, <2>2 DEF Place
    <2>4. CASE n = Steps + 1 /\ barriers[p] = Append(barriers[0], Nth(driver.cmd, n))
      <3>1. barriers[p] = Append(barriers[0], x)
        BY <1>2, <2>4
      <3>2. DOMAIN Append(barriers[0], x) = 1 .. Len(barriers[0]) + 1
        BY <1>2, <1>3, Joining
      <3> QED
        BY <1>2, <3>1, <3>2
    <2>5. CASE Steps = n + 1 /\ barriers[0] = Append(barriers[p], Nth(driver.cmd, Steps))
      <3>1. PICK y \in Names : y = Nth(driver.cmd, Steps)
        BY <1>1
      <3>2. barriers[p] \in Seq(Names)
        BY <1>1, <1>5
      <3>3. /\ Len(barriers[0]) = Len(barriers[p]) + 1 /\ DOMAIN barriers[p] = 1 .. Len(barriers[p])
            /\ Len(barriers[p]) \in Nat
            /\ \A m \in 1 .. Len(barriers[p]) : barriers[0][m] = barriers[p][m]
        BY <2>5, <3>1, <3>2, Joining
      <3>4. k \in 1 .. Len(barriers[0])
        BY <3>3
      <3> QED
        BY <1>2, <1>3, <3>3, <3>4
    <2> QED
      BY <1>5, <2>3, <2>4, <2>5 DEF Level
  <1> QED
    BY <1>4, <1>5

(* The barriers that new_matrix, load_library and run_task of GroupDriver and *)
(* of GroupWorker spell out apart are the same, one by one, whatever a task   *)
(* returns and whichever processes a library does not load in, until one has  *)
(* gone astray.                                                              *)
THEOREM BarriersAlwaysAgree == Spec => []BarriersAgree
  <1>1. Forms /\ InTime => BarriersAgree
    <2> SUFFICES ASSUME Forms, InTime, astray = {}, NEW p \in Members \cup {0},
                        NEW q \in Members \cup {0},
                        NEW k \in DOMAIN barriers[p] \cap DOMAIN barriers[q]
                 PROVE  barriers[p][k] = barriers[q][k]
      BY DEF BarriersAgree
    <2> QED
      BY OneList
  <1> QED
    BY <1>1, AlwaysInTime, PTL

-----------------------------------------------------------------------------
(* Astray or not, the driver never leaves its workers behind: between its     *)
(* barriers it waits in the last one that it has entered, and it is done with *)
(* that one, in every member's count, when it waits for nothing, for the grid *)
(* or for what a task returns.                                                *)
Waited ==
    IF driver.at \in {"IDLE", "GRID", "INFO"} THEN Met(Len(barriers[0]))
    ELSE driver.k = Len(barriers[0])

\* Who has met stays so, whoever enters what.
LEMMA MetStays ==
    ASSUME Forms, NEW p \in Ranks, NEW name \in Names, Barrier(p, name), size' = size,
           NEW k \in Nat, Met(k)
    PROVE  Met(k)'
  <1>1. /\ Len(barriers'[p]) = Len(barriers[p]) + 1 /\ Len(barriers[p]) \in Nat
        /\ \A q \in Ranks \ {p} : barriers'[q] = barriers[q]
    BY BarrierIs
  <1>2. Members' = Members /\ Members \cup {0} \subseteq Ranks
    BY StepsIn, SpanIs DEF Members
  <1> QED
    BY <1>1, <1>2 DEF Met

\* A worker's threads enter barriers of their own process.
LEMMA HandlerEnters ==
    ASSUME Forms, NEW w \in Workers, HandlerStep(w)
    PROVE  (\E name \in Names : Barrier(w, name)) \/ UNCHANGED barriers
  <1>1. PICK h \in handlers :
            /\ h.w = w
            /\ \/ TakeMatrix(h) \/ MakeMatrix(h) \/ TakeLibrary(h) \/ KeepLibrary(h)
               \/ TakeTask(h) \/ CopyTask(h) \/ RunTaskHere(h)
               \/ CountResults(h) \/ SendResult(h) \/ KeepResults(h)
    BY DEF HandlerStep
  <1>2. CASE TakeMatrix(h)
    BY <1>2 DEF TakeMatrix
  <1>3. CASE MakeMatrix(h)
    BY <1>1, <1>3 DEF MakeMatrix, MeetsLast, Names
  <1>4. CASE TakeLibrary(h)
    BY <1>1, <1>4 DEF TakeLibrary, Names
  <1>5. CASE KeepLibrary(h)
    BY <1>1, <1>5 DEF KeepLibrary, MeetsLast, Names
  <1>6. CASE TakeTask(h)
    BY <1>1, <1>6 DEF TakeTask, Names
  <1>7. CASE CopyTask(h)
    BY <1>1, <1>7 DEF CopyTask, Meets, Names
  <1>8. CASE RunTaskHere(h)
    BY <1>1, <1>8 DEF RunTaskHere, Meets, Names
  <1>9. CASE CountResults(h)
    BY <1>1, <1>9 DEF CountResults, MeetsLast, Names
  <1>10. CASE SendResult(h)
    BY <1>1, <1>10 DEF SendResult, Names
  <1>11. CASE KeepResults(h)
    BY <1>1, <1>11 DEF KeepResults, MeetsLast, Names
  <1> QED
    BY <1>1, <1>2, <1>3, <1>4, <1>5, <1>6, <1>7, <1>8, <1>9, <1>10, <1>11

\* The driver's steps; Enters and Finish leave it waiting in its last barrier.
LEMMA DriverWaits ==
    ASSUME Forms, Waited, DriverStep
    PROVE  Waited'
  <1>1. /\ driver \in Drivers /\ Len(barriers[0]) \in Nat /\ size' = size
        /\ Idle.at = "IDLE"
    BY StepsIn, NoCommandIs
       DEF Forms, DriverStep, ReceiveGrid, AnswerMatrix, OpenLibrary, AnswerLibrary, TaskSent,
           RunHere, ReceiveCount, ReceiveResult, KeepResult, AnswerTask, Crash, groupVars
  <1>2. ASSUME NEW at \in Places \ {"IDLE", "GRID", "INFO"}, NEW name \in Names, Enters(at, name)
        PROVE  Waited'
    <2>1. driver'.at = at /\ driver'.k = Len(barriers[0]) + 1 /\ Barrier(0, name)
      BY <1>2, EntersIs DEF IsDriver
    <2>2. Len(barriers'[0]) = Len(barriers[0]) + 1
      BY <2>1, SpanIs, BarrierIs
    <2> QED
      BY <1>2, <2>1, <2>2 DEF Waited
  <1>3. ASSUME NEW ids \in Seq(Kept), Finish(ids)
        PROVE  Waited'
    <2>1. driver'.at = "DONE" /\ driver'.k = Len(barriers[0]) + 1 /\ Barrier(0, "DONE")
      BY <1>3, FinishIs DEF IsDriver
    <2>2. Len(barriers'[0]) = Len(barriers[0]) + 1
      BY <2>1, SpanIs, BarrierIs DEF Names
    <2> QED
      BY <2>1, <2>2 DEF Waited
  <1>4. ASSUME NEW at \in Places \ {"IDLE", "GRID", "INFO"}, Through(at), UNCHANGED barriers,
               driver'.at \in {"IDLE", "INFO"}
        PROVE  Waited'
    BY <1>1, <1>4 DEF Waited, Through, Met, Members
  <1>5. CASE ReceiveGrid
    BY <1>2, <1>5 DEF ReceiveGrid, Places, Names
  <1>6. CASE AnswerMatrix
    BY <1>1, <1>4, <1>6 DEF AnswerMatrix, Places, mpiVars
  <1>7. CASE OpenLibrary
    BY <1>1, <1>2, <1>4, <1>7 DEF OpenLibrary, Places, Names
  <1>8. CASE AnswerLibrary
    BY <1>1, <1>4, <1>8 DEF AnswerLibrary, Places, mpiVars
  <1>9. CASE TaskSent
    BY <1>2, <1>9 DEF TaskSent, Places, Names
  <1>10. CASE RunHere
    <2>1. CASE Enters("RAN", "RAN")
      BY <1>2, <2>1 DEF Places, Names
    <2>2. CASE UNCHANGED <<driver, barriers>>
      BY <1>1, <2>2 DEF Waited, Met, Members
    <2> QED
      BY <1>10, <2>1, <2>2 DEF RunHere, Crash, mpiVars
  <1>11. CASE ReceiveCount
    <2>1. CASE Finish(<<>>)
      <3>1. <<>> \in Seq(Kept)
        OBVIOUS
      <3> QED
        BY <1>3, <2>1, <3>1
    <2>2. CASE driver' = [driver EXCEPT !.at = "INFO"] /\ UNCHANGED barriers
      <3>1. driver'.at = "INFO"
        BY <1>1, <2>2 DEF Drivers
      <3> QED
        BY <1>4, <1>11, <2>2, <3>1 DEF ReceiveCount, Places
    <2> QED
      BY <1>11, <2>1, <2>2 DEF ReceiveCount
  <1>12. CASE ReceiveResult
    BY <1>2, <1>12 DEF ReceiveResult, Places, Names
  <1>13. CASE KeepResult
    <2>1. PICK ids \in Seq(Kept) :
              /\ Through("RESULT")
              /\ Finish(ids) \/ (driver'.at = "INFO" /\ UNCHANGED barriers)
      BY <1>13, KeepResultIs DEF IsDriver
    <2> QED
      BY <1>3, <1>4, <2>1 DEF Places
  <1>14. CASE AnswerTask
    BY <1>1, <1>4, <1>14 DEF AnswerTask, Places, mpiVars
  <1> QED
    BY <1>5, <1>6, <1>7, <1>8, <1>9, <1>10, <1>11, <1>12, <1>13, <1>14 DEF DriverStep

LEMMA NextWaits ==
    ASSUME Forms, Waited, [Next]_vars
    PROVE  Waited'
  <1>1. Len(barriers[0]) \in Nat /\ 0 \in Ranks /\ Workers \subseteq Ranks /\ 0 \notin Workers
    BY StepsIn, SpanIs
  <1>2. ASSUME UNCHANGED <<size, driver, barriers>>
        PROVE  Waited'
    BY <1>2 DEF Waited, Met, Members
  <1>3. ASSUME driver = Idle, driver'.at \in {"LOAD", "TASK"}, NEW name \in Names, Barrier(0, name),
               driver'.k = Len(barriers[0]) + 1
        PROVE  Waited'
    BY <1>1, <1>3, BarrierIs DEF Waited
  <1>4. CASE NewMatrix
    <2>1. driver = Idle /\ driver'.at = "GRID" /\ UNCHANGED <<size, barriers>>
      BY <1>4, NewMatrixIs DEF Starts, groupVars
    <2> QED
      BY <2>1, NoCommandIs DEF Waited, Met, Members
  <1>5. ASSUME NEW fails \in NotLoadable, LoadLibrary(fails)
        PROVE  Waited'
    BY <1>3, <1>5, LoadLibraryIs DEF Starts, Names
  <1>6. ASSUME NEW lib \in known, NEW arg \in 0 .. MaxMade + 1, NEW n \in 0 .. MaxResults,
               RunTask(lib, arg, n)
        PROVE  Waited'
    <2>1. arg \in Nat /\ n \in Nat
      BY CommandsAssumption
    <2> QED
      BY <1>3, <1>6, <2>1, RunTaskIs DEF Starts, Names
  <1>7. CASE DriverStep
    BY <1>7, DriverWaits
  <1>8. ASSUME NEW w \in Workers, GroupCommand(w)
        PROVE  Waited'
    BY <1>2, <1>8 DEF GroupCommand, groupVars
  <1>9. ASSUME NEW w \in Workers, HandlerStep(w)
        PROVE  Waited'
    <2>1. UNCHANGED <<size, driver>>
      BY <1>9 DEF HandlerStep, groupVars
    <2>2. CASE UNCHANGED barriers
      BY <1>2, <2>1, <2>2
    <2>3. ASSUME NEW name \in Names, Barrier(w, name)
          PROVE  Waited'
      <3>1. barriers'[0] = barriers[0]
        BY <1>1, <2>3, BarrierIs
      <3>2. Met(Len(barriers[0])) => Met(Len(barriers[0]))'
        <4>1. PICK k \in Nat : k = Len(barriers[0])
          BY <1>1
        <4>2. Met(k) => Met(k)'
          BY <1>1, <2>1, <2>3, MetStays
        <4> QED
          BY <3>1, <4>1, <4>2
      <3> QED
        BY <2>1, <3>1, <3>2 DEF Waited
    <2> QED
      BY <1>9, <2>2, <2>3, HandlerEnters
  <1>10. ASSUME NEW w \in Workers, NEW id \in MatrixIDs, AccessMatrix(w, id)
         PROVE  Waited'
    BY <1>2, <1>10 DEF AccessMatrix, Crash, groupVars, mpiVars, vars
  <1>11. ASSUME NEW n \in 0 .. NumWorkers, NEW newClient \in BOOLEAN, ChangeGroup(n, newClient)
         PROVE  Waited'
    <2>1. /\ barriers' = [p \in Ranks |-> <<>>] /\ size' = n /\ driver = Idle /\ driver' = driver
          /\ Members' \cup {0} \subseteq Ranks
      BY <1>11, CommandsAssumption DEF ChangeGroup, Members, Ranks
    <2>2. driver'.at = "IDLE" /\ \A p \in Ranks : Len(barriers'[p]) = 0
      BY <2>1, NoCommandIs, OfOne
    <2> QED
      BY <1>1, <2>1, <2>2 DEF Waited, Met
  <1>12. CASE UNCHANGED vars
    BY <1>2, <1>12 DEF vars, groupVars, mpiVars
  <1> QED
    BY <1>4, <1>5, <1>6, <1>7, <1>8, <1>9, <1>10, <1>11, <1>12 DEF Next

(* When a client is answered, every worker of its group has entered all the   *)
(* barriers that the driver has, and while no library has gone astray no      *)
(* others: what AheadByAstray says but for how far the workers may then be    *)
(* ahead.                                                                     *)
THEOREM WorkersNeverBehind ==
    Spec => [](Answered => \A w \in Members : /\ Len(barriers[w]) >= Len(barriers[0])
                                              /\ astray = {} => barriers[w] = barriers[0])
  <1>1. Init => Forms /\ Waited
    <2>1. Init => Forms
      BY Beginning
    <2>2. ASSUME Init
          PROVE  Waited
      <3>1. /\ driver.at = "IDLE" /\ \A p \in Ranks : barriers[p] = <<>>
            /\ Members \cup {0} \subseteq Ranks /\ Len(<<>>) = 0
        BY <2>2, NoCommandIs, SpanIs, OfOne DEF Init, Members, Ranks
      <3> QED
        BY <3>1, SpanIs DEF Waited, Met
    <2> QED
      BY <2>1, <2>2
  <1>2. (Forms /\ Waited) /\ [Next]_vars => (Forms /\ Waited)'
    BY NextForms, NextWaits
  <1>3. Spec => [](Forms /\ Waited)
    BY <1>1, <1>2, PTL DEF Spec
  <1>4. Forms /\ InTime /\ Waited =>
            (Answered => \A w \in Members : /\ Len(barriers[w]) >= Len(barriers[0])
                                            /\ astray = {} => barriers[w] = barriers[0])
    <2> SUFFICES ASSUME Forms, InTime, Waited, driver = Idle, NEW w \in Members
                 PROVE  /\ Len(barriers[w]) >= Len(barriers[0])
                        /\ astray = {} => barriers[w] = barriers[0]
      BY DEF Answered
    <2>1. Len(barriers[w]) >= Len(barriers[0])
      BY NoCommandIs DEF Waited, Met
    <2>2. astray = {} => barriers[w] = barriers[0]
      BY AllOut
    <2> QED
      BY <2>1, <2>2
  <1> QED
    BY <1>3, <1>4, AlwaysInTime, PTL

-----------------------------------------------------------------------------
(* What driver and workers keep.                                             *)

\* Workers that have no code of the command to take and no thread that does more of it.
Over == {w \in Workers : Threads[w] = {} /\ ibcast[w] = <<>>}

\* Workers between the two steps of new_matrix.
Making == {w \in Workers : \E h \in Threads[w] : h.at = "MAKE"}

\* The IDs of the matrices that the command makes, as far as the driver knows.
Due == IF driver.cmd.op = "NEW_MATRIX" THEN {driver.cmd.id}
       ELSE {driver.ids[i].id : i \in 1 .. Len(driver.ids)}

\* The counters and their bounds.
Counts ==
    /\ base \in Nat /\ formed \in Nat /\ made \in Nat /\ base <= formed
    /\ formed <= made /\ made <= MaxMade
    /\ joined \in [Workers -> 0 .. made]
    /\ changes \in 0 .. MaxChanges /\ runs \in 0 .. MaxRuns /\ loads \in 0 .. made
    /\ next_matrixID \in 1 .. made - base + 1
    /\ known \subseteq [id: LibraryIDs, thing: 1 .. made]

\* What the driver's command is about is new, or the client was told of it.
Commanded ==
    /\ driver.cmd.op = "NEW_MATRIX" =>
           /\ driver.cmd.id \in MatrixIDs /\ driver.cmd.id < next_matrixID
           /\ driver.cmd.thing \in formed + 1 .. made
    /\ driver.cmd.op = "LOAD" =>
           driver.cmd.id = next_libraryID /\ driver.cmd.thing \in 1 .. made
    /\ driver.cmd.op = "RUN" =>
           /\ \E lib \in known : lib.id = driver.cmd.id /\ lib.thing = driver.cmd.thing
           /\ driver.cmd.arg # 0 => driver.cmd.arg \in MatrixIDs /\ assigned[driver.cmd.arg] # {}
           /\ driver.cmd.results <= MaxResults
           /\ made + driver.cmd.results - Len(driver.ids) <= MaxMade
    /\ \A i \in 1 .. Len(driver.ids) :
           /\ driver.ids[i].id \in MatrixIDs /\ driver.ids[i].id < next_matrixID
           /\ driver.ids[i].thing \in 1 .. made

\* The driver's matrices: none under an ID that is still to come; a new one once the
\* driver has its grid; and those of a task under the IDs that the workers are sent.
MatricesForm ==
    /\ matrices \in [Ranks -> [MatrixIDs -> 0 .. made]]
    /\ \A id \in MatrixIDs : id >= next_matrixID => matrices[0][id] = 0
    /\ driver.at = "GRID" => matrices[0][driver.cmd.id] = 0
    /\ driver.at = "MADE" => matrices[0][driver.cmd.id] = driver.cmd.thing
    /\ \A i \in 1 .. Len(driver.ids) : driver.ids[i].thing = matrices[0][driver.ids[i].id]

\* A worker's matrix is one of a client before this, or the driver's under the same ID,
\* or the one whose grid the driver has still to hear of.
MatricesSame ==
    \A w \in Workers, id \in MatrixIDs :
        \/ matrices[w][id] <= base
        \/ matrices[w][id] = matrices[0][id]
        \/ driver.at = "GRID" /\ id = driver.cmd.id /\ matrices[w][id] = driver.cmd.thing

\* A member has what was made since it joined, but for what the command makes, and this
\* too once it is over for it.
MatricesThere ==
    /\ \A w \in Members, id \in MatrixIDs :
           matrices[0][id] > joined[w] => id \in Due \/ matrices[w][id] # 0
    /\ \A w \in Members \cap Over, id \in Due : matrices[w][id] # 0

\* A client is told of a matrix when the workers have it; and a worker puts a new one
\* under the ID it was sent.
MatricesTold ==
    /\ assigned \in [MatrixIDs -> SUBSET Workers]
    /\ \A id \in MatrixIDs : assigned[id] # {} => id < next_matrixID /\ id \notin Due
    /\ \A id \in MatrixIDs : \A w \in assigned[id] : matrices[w][id] # 0
    /\ current_matrixID \in [Workers -> 0 .. MaxMade + 1]
    /\ \A w \in Making : current_matrixID[w] = driver.cmd.id

LibrariesForm ==
    /\ libraries \in [Ranks -> [LibraryIDs -> 0 .. made]]
    /\ driver.at = "LOADED" => libraries[0][driver.cmd.id] # 0
    /\ \A lib \in known : libraries[0][lib.id] # 0

\* The same for libraries.  An ID may come round: what the driver has under it stays,
\* and a worker that has joined since may have a later one.
LibrariesSame ==
    \A w \in Workers, id \in LibraryIDs :
        \/ libraries[w][id] <= base
        \/ libraries[w][id] = libraries[0][id]
        \/ libraries[0][id] # 0 /\ libraries[0][id] <= joined[w]
        \/ /\ driver.at = "LOAD" /\ id = driver.cmd.id /\ libraries[0][id] = 0
           /\ w \in Members \ driver.cmd.fails /\ libraries[w][id] = driver.cmd.thing

LibrariesThere ==
    /\ \A w \in Members, id \in LibraryIDs :
           libraries[0][id] > joined[w] =>
               \/ libraries[w][id] # 0
               \/ driver.at = "LOADED" /\ id = driver.cmd.id /\ libraries[0][id] = driver.cmd.thing
    /\ \A w \in Members \cap Over :
           driver.cmd.op = "LOAD" => w \in driver.cmd.fails \/ libraries[w][driver.cmd.id] # 0
    /\ \A lib \in known : \A w \in Members : joined[w] < lib.thing => libraries[w][lib.id] # 0

Keeping ==
    /\ Counts /\ Commanded
    /\ MatricesForm /\ MatricesSame /\ MatricesThere /\ MatricesTold
    /\ LibrariesForm /\ LibrariesSame /\ LibrariesThere

\* A step that leaves the group and the client as they are.
Untouched ==
    UNCHANGED <<size, joined, formed, base, changes, runs, made, loads, next_matrixID,
                next_libraryID, assigned, known>>

-----------------------------------------------------------------------------
(* What is kept stays right in each kind of step.                            *)
LEMMA MatrixInserted ==
    ASSUME NEW m \in Nat, matrices \in [Ranks -> [MatrixIDs -> 0 .. m]], NEW p \in Ranks,
           NEW id \in MatrixIDs, NEW thing \in 0 .. m, matrices' = Insert(matrices, p, id, thing)
    PROVE  /\ matrices' \in [Ranks -> [MatrixIDs -> 0 .. m]]
           /\ \A q \in Ranks : \A i \in MatrixIDs :
                  matrices'[q][i] = IF q = p /\ i = id /\ matrices[p][i] = 0 THEN thing
                                    ELSE matrices[q][i]
  BY DEF Insert

LEMMA LibraryInserted ==
    ASSUME NEW m \in Nat, libraries \in [Ranks -> [LibraryIDs -> 0 .. m]], NEW p \in Ranks,
           NEW id \in LibraryIDs, NEW thing \in 0 .. m, libraries' = Insert(libraries, p, id, thing)
    PROVE  /\ libraries' \in [Ranks -> [LibraryIDs -> 0 .. m]]
           /\ \A q \in Ranks : \A i \in LibraryIDs :
                  libraries'[q][i] = IF q = p /\ i = id /\ libraries[p][i] = 0 THEN thing
                                     ELSE libraries[q][i]
  BY DEF Insert

\* Nothing is made or told.
Passing ==
    /\ Untouched /\ UNCHANGED <<matrices, libraries, current_matrixID>>
    /\ driver'.cmd = driver.cmd /\ driver'.ids = driver.ids
    /\ \/ driver'.at = driver.at
       \/ {driver.at, driver'.at} \cap {"GRID", "MADE", "LOAD", "LOADED"} = {}
    /\ Making' \subseteq Making
    /\ \A w \in Over' \ Over : Due = {} /\ (driver.cmd.op = "LOAD" => w \in driver.cmd.fails)

LEMMA PassingKeeps ==
    ASSUME Keeping, Passing
    PROVE  Keeping'
  <1>1. /\ Members' = Members /\ Due' = Due
        /\ driver'.at \in {"GRID", "MADE", "LOAD", "LOADED"} => driver'.at = driver.at
        /\ driver.at \in {"GRID", "MADE", "LOAD", "LOADED"} => driver'.at = driver.at
    BY DEF Passing, Untouched, Members, Due
  <1>2. Counts' /\ Commanded'
    BY DEF Keeping, Counts, Commanded, Passing, Untouched
  <1>3. MatricesForm' /\ MatricesSame'
    BY <1>1 DEF Keeping, MatricesForm, MatricesSame, Passing, Untouched
  <1>4. MatricesThere' /\ MatricesTold'
    BY <1>1 DEF Keeping, MatricesThere, MatricesTold, Passing, Untouched
  <1>5. LibrariesForm' /\ LibrariesSame'
    BY <1>1 DEF Keeping, LibrariesForm, LibrariesSame, Passing, Untouched
  <1>6. LibrariesThere'
    BY <1>1 DEF Keeping, LibrariesThere, Passing, Untouched
  <1> QED
    BY <1>2, <1>3, <1>4, <1>5, <1>6 DEF Keeping

LEMMA TakingKeeps ==
    ASSUME Keeping, NEW w \in Workers, Untouched, UNCHANGED <<matrices, libraries, driver>>,
           driver.cmd.op = "NEW_MATRIX", Over' \subseteq Over, Making' \subseteq Making \cup {w},
           current_matrixID' = [current_matrixID EXCEPT ![w] = driver.cmd.id]
    PROVE  Keeping'
  <1>1. Members' = Members /\ Due' = Due
    BY DEF Untouched, Members, Due
  <1>2. Counts' /\ Commanded'
    BY DEF Keeping, Counts, Commanded, Untouched
  <1>3. MatricesForm' /\ MatricesSame' /\ MatricesThere'
    BY <1>1 DEF Keeping, MatricesForm, MatricesSame, MatricesThere, Untouched
  <1>4. MatricesTold'
    <2>1. driver.cmd.id \in 0 .. MaxMade + 1
      BY DEF Keeping, Commanded, MatrixIDs
    <2> QED
      BY <1>1, <2>1 DEF Keeping, MatricesTold, Untouched
  <1>5. LibrariesForm' /\ LibrariesSame' /\ LibrariesThere'
    BY <1>1 DEF Keeping, LibrariesForm, LibrariesSame, LibrariesThere, Untouched
  <1> QED
    BY <1>2, <1>3, <1>4, <1>5 DEF Keeping

LEMMA MakingKeeps ==
    ASSUME Keeping, NEW w \in Workers, Untouched, UNCHANGED <<libraries, current_matrixID, driver>>,
           driver.cmd.op = "NEW_MATRIX", driver.at \in {"GRID", "MADE"},
           Over' \subseteq Over \cup {w}, Making' \subseteq Making,
           matrices' = Insert(matrices, w, driver.cmd.id, driver.cmd.thing), Members \subseteq Workers
    PROVE  Keeping'
  <1>1. Members' = Members /\ Due' = Due /\ Due = {driver.cmd.id}
    BY DEF Untouched, Members, Due
  <1>2. /\ driver.cmd.thing \in 0 .. made /\ driver.cmd.thing # 0 /\ driver.cmd.id \in MatrixIDs
        /\ matrices \in [Ranks -> [MatrixIDs -> 0 .. made]] /\ made \in Nat
        /\ w \in Ranks /\ w # 0 /\ 0 \in Ranks /\ Workers \subseteq Ranks
    <2>1. formed \in Nat /\ made \in Nat
      BY DEF Keeping, Counts
    <2>2. driver.cmd.thing \in 0 .. made /\ driver.cmd.thing # 0
      BY <2>1 DEF Keeping, Commanded
    <2>3. driver.cmd.id \in MatrixIDs
      BY DEF Keeping, Commanded
    <2>4. matrices \in [Ranks -> [MatrixIDs -> 0 .. made]]
      BY DEF Keeping, MatricesForm
    <2>5. w \in Ranks /\ w # 0 /\ 0 \in Ranks /\ Workers \subseteq Ranks
      BY SpanIs
    <2> QED
      BY <2>1, <2>2, <2>3, <2>4, <2>5
  <1>3. /\ matrices' \in [Ranks -> [MatrixIDs -> 0 .. made]]
        /\ \A q \in Ranks : \A i \in MatrixIDs :
               matrices'[q][i] = IF q = w /\ i = driver.cmd.id /\ matrices[w][i] = 0
                                 THEN driver.cmd.thing ELSE matrices[q][i]
    BY <1>2, MatrixInserted
  <1>4. /\ \A i \in MatrixIDs : matrices'[0][i] = matrices[0][i]
        /\ \A q \in Workers : \A i \in MatrixIDs : matrices[q][i] # 0 => matrices'[q][i] # 0
        /\ matrices'[w][driver.cmd.id] # 0
    BY <1>2, <1>3
  <1>5. Counts' /\ Commanded'
    BY DEF Keeping, Counts, Commanded, Untouched
  <1>6. MatricesForm'
    BY <1>2, <1>3, <1>4 DEF Keeping, MatricesForm, Commanded, Untouched
  <1>7. MatricesSame'
    BY SMTT(30), <1>2, <1>3, <1>4 DEF Keeping, MatricesSame, MatricesForm, Untouched
  <1>8. MatricesThere'
    BY <1>1, <1>2, <1>4 DEF Keeping, MatricesThere, Untouched
  <1>9. MatricesTold'
    BY <1>1, <1>4 DEF Keeping, MatricesTold, Untouched
  <1>10. LibrariesForm' /\ LibrariesSame' /\ LibrariesThere'
    BY <1>1 DEF Keeping, LibrariesForm, LibrariesSame, LibrariesThere, Untouched
  <1> QED
    BY <1>5, <1>6, <1>7, <1>8, <1>9, <1>10 DEF Keeping

LEMMA NothingDue ==
    ASSUME driver.cmd.op # "NEW_MATRIX", driver.ids = <<>>
    PROVE  Due = {}
  <1>1. Len(driver.ids) = 0
    BY OfOne
  <1> QED
    BY <1>1 DEF Due

LEMMA NumbersIn ==
    /\ MatrixIDs \subseteq Nat /\ LibraryIDs \subseteq Nat /\ MaxMade \in Nat
    /\ \A n \in Nat : n >= 1 /\ n <= MaxMade + 1 => n \in MatrixIDs
  BY CommandsAssumption DEF MatrixIDs, LibraryIDs

LEMMA LoadingKeeps ==
    ASSUME Keeping, NEW w \in Workers, w \in Members \ driver.cmd.fails, Members \subseteq Workers,
           Untouched, UNCHANGED <<matrices, current_matrixID, driver>>,
           driver.cmd.op = "LOAD", driver.at \in {"LOAD", "LOADED"}, driver.ids = <<>>,
           Over' \subseteq Over \cup {w}, Making' \subseteq Making,
           libraries' = Insert(libraries, w, driver.cmd.id, driver.cmd.thing),
           next_libraryID \in LibraryIDs
    PROVE  Keeping'
  <1>1. Members' = Members /\ Due' = Due /\ Due = {}
    BY NothingDue DEF Untouched, Members, Due
  <1>2. /\ driver.cmd.thing \in 0 .. made /\ driver.cmd.thing # 0 /\ driver.cmd.id \in LibraryIDs
        /\ libraries \in [Ranks -> [LibraryIDs -> 0 .. made]] /\ made \in Nat
        /\ w \in Ranks /\ w # 0 /\ 0 \in Ranks /\ Workers \subseteq Ranks
    <2>1. formed \in Nat /\ made \in Nat
      BY DEF Keeping, Counts
    <2>2. driver.cmd.thing \in 0 .. made /\ driver.cmd.thing # 0
      BY <2>1 DEF Keeping, Commanded
    <2>3. driver.cmd.id \in LibraryIDs
      BY DEF Keeping, Commanded, Counts
    <2>4. libraries \in [Ranks -> [LibraryIDs -> 0 .. made]]
      BY DEF Keeping, LibrariesForm
    <2>5. w \in Ranks /\ w # 0 /\ 0 \in Ranks /\ Workers \subseteq Ranks
      BY SpanIs
    <2> QED
      BY <2>1, <2>2, <2>3, <2>4, <2>5
  <1>3. /\ libraries' \in [Ranks -> [LibraryIDs -> 0 .. made]]
        /\ \A q \in Ranks : \A i \in LibraryIDs :
               libraries'[q][i] = IF q = w /\ i = driver.cmd.id /\ libraries[w][i] = 0
                                  THEN driver.cmd.thing ELSE libraries[q][i]
    <2>1. PICK id \in LibraryIDs : id = driver.cmd.id
      BY <1>2
    <2>2. PICK thing \in 0 .. made : thing = driver.cmd.thing
      BY <1>2
    <2>3. libraries' = Insert(libraries, w, id, thing)
      BY <2>1, <2>2
    <2>4. /\ libraries' \in [Ranks -> [LibraryIDs -> 0 .. made]]
          /\ \A q \in Ranks : \A i \in LibraryIDs :
                 libraries'[q][i] = IF q = w /\ i = id /\ libraries[w][i] = 0 THEN thing
                                    ELSE libraries[q][i]
      BY SMTT(30), <1>2, <2>3 DEF Insert
    <2> QED
      BY <2>1, <2>2, <2>4
  <1>4. /\ \A i \in LibraryIDs : libraries'[0][i] = libraries[0][i]
        /\ \A q \in Workers : \A i \in LibraryIDs : libraries[q][i] # 0 => libraries'[q][i] # 0
        /\ libraries'[w][driver.cmd.id] # 0
    <2> DEFINE id == driver.cmd.id
               thing == driver.cmd.thing
    <2>1. /\ id \in LibraryIDs /\ thing # 0
          /\ w # 0 /\ w \in Ranks /\ 0 \in Ranks /\ Workers \subseteq Ranks
          /\ \A q \in Ranks : \A i \in LibraryIDs :
                 libraries'[q][i] = IF q = w /\ i = id /\ libraries[w][i] = 0 THEN thing
                                    ELSE libraries[q][i]
      BY <1>2, <1>3
    <2> HIDE DEF id, thing
    <2>2. \A i \in LibraryIDs : libraries'[0][i] = libraries[0][i]
      BY <2>1
    <2>3. \A q \in Workers : \A i \in LibraryIDs : libraries[q][i] # 0 => libraries'[q][i] # 0
      BY <2>1
    <2>4. libraries'[w][id] # 0
      BY <2>1
    <2> QED
      BY <2>2, <2>3, <2>4 DEF id
  <1>5. Counts' /\ Commanded'
    BY DEF Keeping, Counts, Commanded, Untouched
  <1>6. LibrariesForm'
    BY <1>2, <1>3, <1>4 DEF Keeping, LibrariesForm, Counts, Untouched
  <1>7. LibrariesSame'
    <2> SUFFICES ASSUME NEW q \in Workers, NEW i \in LibraryIDs
                 PROVE  \/ libraries'[q][i] <= base
                        \/ libraries'[q][i] = libraries'[0][i]
                        \/ libraries'[0][i] # 0 /\ libraries'[0][i] <= joined[q]
                        \/ /\ driver.at = "LOAD" /\ i = driver.cmd.id /\ libraries'[0][i] = 0
                           /\ q \in Members \ driver.cmd.fails /\ libraries'[q][i] = driver.cmd.thing
      BY <1>1 DEF LibrariesSame, Untouched
    <2>1. CASE libraries'[q][i] = libraries[q][i]
      BY <1>4, <2>1 DEF Keeping, LibrariesSame
    <2>2. CASE libraries'[q][i] # libraries[q][i]
      <3>1. q = w /\ i = driver.cmd.id /\ libraries[w][i] = 0 /\ libraries'[w][i] = driver.cmd.thing
        BY <1>2, <1>3, <2>2
      <3>2. /\ libraries[0][i] \in 0 .. made /\ joined[w] \in 0 .. made
            /\ libraries'[0][i] = libraries[0][i]
        BY <1>2, <1>4 DEF Keeping, Counts
      <3>3. libraries[0][i] > joined[w] => driver.at = "LOADED" /\ libraries[0][i] = driver.cmd.thing
        BY <3>1 DEF Keeping, LibrariesThere
      <3>4. libraries[0][i] = 0 => driver.at = "LOAD"
        BY <3>1 DEF Keeping, LibrariesForm
      <3> QED
        BY <1>2, <3>1, <3>2, <3>3, <3>4
    <2> QED
      BY <2>1, <2>2
  <1>8. LibrariesThere'
    <2>1. \A lib \in known : lib.id \in LibraryIDs
      BY DEF Keeping, Counts
    <2> QED
      BY SMTT(30), <1>1, <1>2, <1>4, <2>1 DEF Keeping, LibrariesThere, Untouched
  <1>9. MatricesForm' /\ MatricesSame' /\ MatricesThere' /\ MatricesTold'
    BY <1>1 DEF Keeping, MatricesForm, MatricesSame, MatricesThere, MatricesTold, Untouched
  <1> QED
    BY <1>5, <1>6, <1>7, <1>8, <1>9 DEF Keeping

\* A worker puts the matrices of a task, which the driver has, under the IDs it was sent.
LEMMA CollectingKeeps ==
    ASSUME Keeping, NEW w \in Workers, Members \subseteq Workers,
           Untouched, UNCHANGED <<libraries, current_matrixID, driver>>,
           driver.cmd.op = "RUN", driver.at = "DONE",
           Over' \subseteq Over \cup {w}, Making' \subseteq Making,
           matrices' \in [Ranks -> [MatrixIDs -> 0 .. made]],
           \A q \in Ranks \ {w} : matrices'[q] = matrices[q],
           \A id \in MatrixIDs : matrices'[w][id] = IF matrices[w][id] = 0 /\ id \in Due
                                                    THEN matrices[0][id] ELSE matrices[w][id]
    PROVE  Keeping'
  <1>1. /\ Members' = Members /\ Due' = Due
        /\ Due = {driver.ids[i].id : i \in 1 .. Len(driver.ids)}
        /\ w \in Ranks /\ w # 0 /\ 0 \in Ranks /\ Workers \subseteq Ranks
    BY SpanIs DEF Untouched, Members, Due
  <1>2. \A id \in Due : id \in MatrixIDs /\ matrices[0][id] # 0
    <2> TAKE id \in Due
    <2>1. PICK i \in 1 .. Len(driver.ids) : id = driver.ids[i].id
      BY <1>1
    <2>2. driver.ids[i].thing # 0 /\ driver.ids[i].id \in MatrixIDs
      BY DEF Keeping, Commanded, Counts
    <2> QED
      BY <2>1, <2>2 DEF Keeping, MatricesForm
  <1>3. /\ \A i \in MatrixIDs : matrices'[0][i] = matrices[0][i]
        /\ \A q \in Workers : \A i \in MatrixIDs : matrices[q][i] # 0 => matrices'[q][i] # 0
        /\ \A i \in Due : matrices'[w][i] # 0
    BY <1>1, <1>2
  <1>4. Counts' /\ Commanded'
    BY DEF Keeping, Counts, Commanded, Untouched
  <1>5. MatricesForm'
    <2>1. \A i \in 1 .. Len(driver.ids) : driver.ids[i].id \in MatrixIDs
      BY DEF Keeping, Commanded
    <2> QED
      BY <1>3, <2>1 DEF Keeping, MatricesForm, Untouched
  <1>6. MatricesSame'
    BY SMTT(30), <1>1, <1>3 DEF Keeping, MatricesSame, Untouched
  <1>7. MatricesThere'
    <2>1. \A q \in Members, i \in MatrixIDs :
              matrices'[0][i] > joined[q] => i \in Due \/ matrices'[q][i] # 0
      BY <1>3 DEF Keeping, MatricesThere
    <2>2. \A q \in Members \cap Over', i \in Due : matrices'[q][i] # 0
      BY <1>2, <1>3 DEF Keeping, MatricesThere
    <2> QED
      BY <1>1, <2>1, <2>2 DEF MatricesThere, Untouched
  <1>8. MatricesTold'
    BY <1>1, <1>3 DEF Keeping, MatricesTold, Untouched
  <1>9. LibrariesForm' /\ LibrariesSame' /\ LibrariesThere'
    <2>1. driver.cmd.op # "LOAD"
      OBVIOUS
    <2> QED
      BY <1>1, <2>1 DEF Keeping, LibrariesForm, LibrariesSame, LibrariesThere, Untouched
  <1> QED
    BY <1>4, <1>5, <1>6, <1>7, <1>8, <1>9 DEF Keeping

\* The driver has the grid of a new matrix.
LEMMA GridKeeps ==
    ASSUME Keeping, Untouched, UNCHANGED <<libraries, current_matrixID>>, Over' = Over, Making' = Making,
           driver.cmd.op = "NEW_MATRIX", driver.at = "GRID",
           driver'.at = "MADE", driver'.cmd = driver.cmd, driver'.ids = driver.ids,
           driver.ids = <<>>, Members \subseteq Workers,
           matrices' = Insert(matrices, 0, driver.cmd.id, driver.cmd.thing)
    PROVE  Keeping'
  <1>1. /\ Members' = Members /\ Due' = Due /\ Due = {driver.cmd.id}
        /\ Workers \subseteq Ranks /\ 0 \in Ranks /\ 0 \notin Workers /\ Len(driver.ids) = 0
    BY SpanIs, OfOne DEF Untouched, Members, Due
  <1>2. /\ driver.cmd.thing \in 0 .. made /\ driver.cmd.thing # 0 /\ driver.cmd.id \in MatrixIDs
        /\ matrices \in [Ranks -> [MatrixIDs -> 0 .. made]] /\ made \in Nat
        /\ matrices[0][driver.cmd.id] = 0 /\ driver.cmd.id < next_matrixID /\ next_matrixID \in Nat
    BY SMTT(30), SpanIs DEF Keeping, Commanded, Counts, MatricesForm
  <1>3. /\ matrices' \in [Ranks -> [MatrixIDs -> 0 .. made]]
        /\ \A q \in Ranks : \A i \in MatrixIDs :
               matrices'[q][i] = IF q = 0 /\ i = driver.cmd.id /\ matrices[0][i] = 0
                                 THEN driver.cmd.thing ELSE matrices[q][i]
    BY SMTT(30), <1>1, <1>2, MatrixInserted
  <1>4. /\ \A q \in Workers : \A i \in MatrixIDs : matrices'[q][i] = matrices[q][i]
        /\ \A i \in MatrixIDs \ {driver.cmd.id} : matrices'[0][i] = matrices[0][i]
        /\ matrices'[0][driver.cmd.id] = driver.cmd.thing
    BY <1>1, <1>2, <1>3
  <1>5. Counts' /\ Commanded'
    BY DEF Keeping, Counts, Commanded, Untouched
  <1>6. MatricesForm'
    BY SMTT(30), <1>1, <1>2, <1>3, <1>4, NumbersIn DEF Keeping, MatricesForm, Untouched
  <1>7. MatricesSame'
    <2> SUFFICES ASSUME NEW w \in Workers, NEW id \in MatrixIDs
                 PROVE  matrices[w][id] <= base \/ matrices[w][id] = matrices'[0][id]
      BY <1>4 DEF MatricesSame, Untouched
    <2>1. CASE id = driver.cmd.id
      BY SMTT(30), <1>2, <1>4, <2>1 DEF Keeping, MatricesSame, Counts
    <2>2. CASE id # driver.cmd.id
      BY <1>4, <2>2 DEF Keeping, MatricesSame
    <2> QED
      BY <2>1, <2>2
  <1>8. MatricesThere'
    BY SMTT(30), <1>1, <1>2, <1>4 DEF Keeping, MatricesThere, Untouched
  <1>9. MatricesTold'
    BY <1>1, <1>4 DEF Keeping, MatricesTold, Untouched
  <1>10. LibrariesForm' /\ LibrariesSame' /\ LibrariesThere'
    BY <1>1 DEF Keeping, LibrariesForm, LibrariesSame, LibrariesThere, Untouched
  <1> QED
    BY <1>5, <1>6, <1>7, <1>8, <1>9, <1>10 DEF Keeping

\* The driver has loaded the library.
LEMMA OpeningKeeps ==
    ASSUME Keeping, Untouched, UNCHANGED <<matrices, current_matrixID>>, Over' = Over, Making' = Making,
           driver.cmd.op = "LOAD", driver.at = "LOAD",
           driver'.at = "LOADED", driver'.cmd = driver.cmd, driver'.ids = driver.ids,
           Members \subseteq Workers, next_libraryID \in LibraryIDs,
           libraries' = Insert(libraries, 0, driver.cmd.id, driver.cmd.thing)
    PROVE  Keeping'
  <1>1. /\ Members' = Members /\ Due' = Due
        /\ Workers \subseteq Ranks /\ 0 \in Ranks /\ 0 \notin Workers
    BY SpanIs DEF Untouched, Members, Due
  <1>2. /\ driver.cmd.thing \in 0 .. made /\ driver.cmd.thing # 0 /\ driver.cmd.id \in LibraryIDs
        /\ libraries \in [Ranks -> [LibraryIDs -> 0 .. made]] /\ made \in Nat
    BY SpanIs DEF Keeping, Commanded, Counts, LibrariesForm
  <1>3. /\ libraries' \in [Ranks -> [LibraryIDs -> 0 .. made]]
        /\ \A q \in Ranks : \A i \in LibraryIDs :
               libraries'[q][i] = IF q = 0 /\ i = driver.cmd.id /\ libraries[0][i] = 0
                                  THEN driver.cmd.thing ELSE libraries[q][i]
    BY <1>1, <1>2, LibraryInserted
  <1>4. /\ \A q \in Workers : \A i \in LibraryIDs : libraries'[q][i] = libraries[q][i]
        /\ \A i \in LibraryIDs \ {driver.cmd.id} : libraries'[0][i] = libraries[0][i]
        /\ libraries'[0][driver.cmd.id] =
               IF libraries[0][driver.cmd.id] = 0 THEN driver.cmd.thing ELSE libraries[0][driver.cmd.id]
    BY <1>1, <1>2, <1>3
  <1>5. Counts' /\ Commanded'
    BY DEF Keeping, Counts, Commanded, Untouched
  <1>6. LibrariesForm'
    <2>1. \A lib \in known : lib.id \in LibraryIDs
      BY DEF Keeping, Counts
    <2> QED
      BY SMTT(30), <1>1, <1>2, <1>3, <1>4, <2>1 DEF Keeping, LibrariesForm, Untouched
  <1>7. LibrariesSame'
    BY <1>1, <1>2, <1>4 DEF Keeping, LibrariesSame, Counts, Untouched
  <1>8. LibrariesThere'
    <2>1. \A w \in Members, id \in LibraryIDs :
              libraries'[0][id] > joined[w] =>
                  \/ libraries[w][id] # 0
                  \/ id = driver.cmd.id /\ libraries'[0][id] = driver.cmd.thing
      BY <1>1, <1>2, <1>4 DEF Keeping, LibrariesThere
    <2>2. \A lib \in known : lib.id \in LibraryIDs
      BY DEF Keeping, Counts
    <2>3. \A w \in Members, id \in LibraryIDs :
              libraries'[0][id] > joined[w] =>
                  \/ libraries'[w][id] # 0
                  \/ driver'.at = "LOADED" /\ id = driver'.cmd.id /\ libraries'[0][id] = driver'.cmd.thing
      BY <1>4, <2>1
    <2>4. \A w \in Members \cap Over :
              driver'.cmd.op = "LOAD" => w \in driver'.cmd.fails \/ libraries'[w][driver'.cmd.id] # 0
      BY <1>2, <1>4 DEF Keeping, LibrariesThere
    <2>5. \A lib \in known : \A w \in Members : joined[w] < lib.thing => libraries'[w][lib.id] # 0
      BY <1>4, <2>2 DEF Keeping, LibrariesThere
    <2> QED
      BY <1>1, <2>3, <2>4, <2>5 DEF LibrariesThere, Untouched
  <1>9. MatricesForm' /\ MatricesSame' /\ MatricesThere' /\ MatricesTold'
    BY <1>1 DEF Keeping, MatricesForm, MatricesSame, MatricesThere, MatricesTold, Untouched
  <1> QED
    BY <1>5, <1>6, <1>7, <1>8, <1>9 DEF Keeping

\* The driver makes a matrix for a result, of which no worker has been sent the ID.
LEMMA ResultKeeps ==
    ASSUME Keeping, UNCHANGED <<size, joined, formed, base, changes, runs, loads, next_libraryID,
                                assigned, known, libraries, current_matrixID>>,
           Over' = Over, Making' = Making, Members \cap Over = {}, Members \subseteq Workers,
           driver.cmd.op = "RUN", driver.at = "RESULT", driver.ids \in Seq(Kept),
           Len(driver.ids) < driver.cmd.results, driver.cmd.results \in Nat,
           driver'.at \in {"INFO", "DONE"}, driver'.cmd = driver.cmd,
           NEW new \in Kept, new.id = next_matrixID, new.thing = made + 1,
           driver'.ids = Append(driver.ids, new),
           made' = made + 1, next_matrixID' = next_matrixID + 1,
           matrices' = Insert(matrices, 0, next_matrixID, made + 1)
    PROVE  Keeping'
  <1>1. PICK m \in Nat : m = Len(driver.ids)
    BY LenProperties
  <1>2. /\ made \in Nat /\ made + 1 <= MaxMade /\ base \in Nat /\ base <= made /\ MaxMade \in Nat
        /\ next_matrixID \in Nat /\ next_matrixID \in MatrixIDs /\ next_matrixID <= made - base + 1
        /\ made + 1 \in Nat /\ MatrixIDs \subseteq Nat
    BY NumbersIn, <1>1, CommandsAssumption DEF Keeping, Commanded, Counts, MatrixIDs
  <1>3. /\ Len(driver'.ids) = m + 1
        /\ \A i \in 1 .. m : driver'.ids[i] = driver.ids[i]
        /\ driver'.ids[m + 1] = new
    BY <1>1, Joining
  <1>4. /\ Len(driver'.ids) = m + 1
        /\ \A i \in 1 .. m : driver'.ids[i] = driver.ids[i]
        /\ driver'.ids[m + 1].id = next_matrixID /\ driver'.ids[m + 1].thing = made + 1
    BY <1>3
  <1>5. /\ Members' = Members /\ Workers \subseteq Ranks /\ 0 \in Ranks /\ 0 \notin Workers
        /\ Due = {driver.ids[i].id : i \in 1 .. m}
    BY <1>1, SpanIs DEF Members, Due
  <1>6. Due' = Due \cup {next_matrixID}
    <2>1. driver'.cmd.op # "NEW_MATRIX"
      OBVIOUS
    <2>2. Due' = {driver'.ids[i].id : i \in 1 .. m + 1}
      BY <1>4, <2>1 DEF Due
    <2>3. 1 .. m + 1 = (1 .. m) \cup {m + 1}
      BY <1>1
    <2> QED
      BY <1>4, <1>5, <2>2, <2>3
  <1>7. /\ matrices \in [Ranks -> [MatrixIDs -> 0 .. made]] /\ matrices[0][next_matrixID] = 0
    BY <1>2 DEF Keeping, MatricesForm
  <1>8. /\ matrices' \in [Ranks -> [MatrixIDs -> 0 .. made']]
        /\ \A q \in Ranks : \A i \in MatrixIDs :
               matrices'[q][i] = IF q = 0 /\ i = next_matrixID /\ matrices[0][i] = 0
                                 THEN made + 1 ELSE matrices[q][i]
    <2>1. PICK n \in Nat : n = made + 1
      BY <1>2
    <2>2. matrices \in [Ranks -> [MatrixIDs -> 0 .. n]] /\ n \in 0 .. n
      BY SMTT(30), <1>2, <1>7, <2>1
    <2>3. matrices' = Insert(matrices, 0, next_matrixID, n)
      BY <2>1
    <2>4. /\ matrices' \in [Ranks -> [MatrixIDs -> 0 .. n]]
          /\ \A q \in Ranks : \A i \in MatrixIDs :
                 matrices'[q][i] = IF q = 0 /\ i = next_matrixID /\ matrices[0][i] = 0 THEN n
                                   ELSE matrices[q][i]
      BY <1>2, <1>5, <2>2, <2>3 DEF Insert
    <2> QED
      BY <2>1, <2>4
  <1>9. /\ \A q \in Workers : \A i \in MatrixIDs : matrices'[q][i] = matrices[q][i]
        /\ \A i \in MatrixIDs \ {next_matrixID} : matrices'[0][i] = matrices[0][i]
        /\ matrices'[0][next_matrixID] = made + 1
    BY <1>2, <1>5, <1>7, <1>8
  <1>10. Counts'
    <2>1. joined' \in [Workers -> 0 .. made']
      BY <1>2 DEF Keeping, Counts
    <2>2. known' \subseteq [id: LibraryIDs, thing: 1 .. made']
      BY <1>2 DEF Keeping, Counts
    <2>3. /\ base' \in Nat /\ formed' \in Nat /\ made' \in Nat /\ base' <= formed'
          /\ formed' <= made' /\ made' <= MaxMade
      BY <1>2 DEF Keeping, Counts
    <2>4. changes' \in 0 .. MaxChanges /\ runs' \in 0 .. MaxRuns /\ loads' \in 0 .. made'
      BY <1>2 DEF Keeping, Counts
    <2>5. next_matrixID' \in 1 .. made' - base' + 1
      BY <1>2 DEF Keeping, Counts
    <2> QED
      BY <2>1, <2>2, <2>3, <2>4, <2>5 DEF Counts
  <1>11. \A i \in 1 .. m : /\ driver.ids[i].id \in MatrixIDs /\ driver.ids[i].id < next_matrixID
                           /\ driver.ids[i].thing \in 1 .. made
    BY <1>1 DEF Keeping, Commanded
  <1>12. Commanded'
    <2>1. \A i \in 1 .. m + 1 : /\ driver'.ids[i].id \in MatrixIDs /\ driver'.ids[i].id < next_matrixID'
                                /\ driver'.ids[i].thing \in 1 .. made'
      <3> TAKE i \in 1 .. m + 1
      <3>1. CASE i = m + 1
        BY <1>2, <1>4, <3>1
      <3>2. CASE i # m + 1
        <4>1. i \in 1 .. m
          BY <1>1, <3>2
        <4>2. driver.ids[i].thing \in 1 .. made'
          BY <1>2, <1>11, <4>1
        <4>3. driver.ids[i].id < next_matrixID'
          <5>1. PICK id \in Nat : id = driver.ids[i].id
            BY <1>2, <1>11, <4>1
          <5>2. id < next_matrixID
            BY <1>11, <4>1, <5>1
          <5> QED
            BY <1>2, <5>1, <5>2
        <4> QED
          BY <1>4, <1>11, <4>1, <4>2, <4>3
      <3> QED
        BY <3>1, <3>2
    <2>2. made' + driver.cmd.results - Len(driver'.ids) <= MaxMade
      BY <1>1, <1>2, <1>4 DEF Keeping, Commanded
    <2> QED
      BY <1>4, <2>1, <2>2 DEF Keeping, Commanded
  <1>13. MatricesForm'
    <2>1. \A i \in 1 .. m + 1 : driver'.ids[i].thing = matrices'[0][driver'.ids[i].id]
      <3> TAKE i \in 1 .. m + 1
      <3>1. CASE i = m + 1
        BY <1>4, <1>9, <3>1
      <3>2. CASE i # m + 1
        <4>1. i \in 1 .. m
          BY <1>1, <3>2
        <4>2. driver.ids[i].id # next_matrixID /\ driver.ids[i].thing = matrices[0][driver.ids[i].id]
          BY <1>1, <1>2, <1>11, <4>1 DEF Keeping, MatricesForm
        <4> QED
          BY <1>4, <1>9, <1>11, <4>1, <4>2
      <3> QED
        BY <3>1, <3>2
    <2>2. \A id \in MatrixIDs : id >= next_matrixID' => matrices'[0][id] = 0
      <3> TAKE id \in MatrixIDs
      <3> HAVE id >= next_matrixID'
      <3>1. id >= next_matrixID /\ id # next_matrixID
        BY <1>2
      <3>2. matrices[0][id] = 0
        BY <3>1 DEF Keeping, MatricesForm
      <3> QED
        BY <1>9, <3>1, <3>2
    <2> QED
      BY <1>4, <1>8, <2>1, <2>2 DEF MatricesForm
  <1>14. MatricesSame'
    <2> SUFFICES ASSUME NEW w \in Workers, NEW id \in MatrixIDs
                 PROVE  matrices[w][id] <= base \/ matrices[w][id] = matrices'[0][id]
      BY <1>9 DEF MatricesSame
    <2>1. matrices[w][id] <= base \/ matrices[w][id] = matrices[0][id]
      BY DEF Keeping, MatricesSame
    <2>2. CASE id = next_matrixID
      BY <1>2, <1>7, <2>1, <2>2
    <2>3. CASE id # next_matrixID
      BY <1>9, <2>1, <2>3
    <2> QED
      BY <2>2, <2>3
  <1>15. MatricesThere'
    <2> SUFFICES ASSUME NEW w \in Members, NEW id \in MatrixIDs, matrices'[0][id] > joined[w],
                        id \notin Due'
                 PROVE  matrices'[w][id] # 0
      BY <1>5 DEF MatricesThere
    <2>1. id # next_matrixID /\ id \notin Due
      BY <1>6
    <2>2. matrices'[0][id] = matrices[0][id] /\ matrices'[w][id] = matrices[w][id]
      BY <1>9, <2>1
    <2> QED
      BY <2>1, <2>2 DEF Keeping, MatricesThere
  <1>16. MatricesTold'
    <2>1. \A id \in MatrixIDs : assigned[id] # {} => id < next_matrixID
      BY DEF Keeping, MatricesTold
    <2> QED
      <3>1. \A id \in MatrixIDs : assigned[id] # {} => id < next_matrixID' /\ id \notin Due'
        <4> TAKE id \in MatrixIDs
        <4> HAVE assigned[id] # {}
        <4>1. id < next_matrixID /\ id \notin Due
          BY DEF Keeping, MatricesTold
        <4> QED
          BY <1>2, <1>6, <4>1
      <3>2. \A id \in MatrixIDs : \A w \in assigned[id] : matrices'[w][id] # 0
        BY <1>9 DEF Keeping, MatricesTold
      <3> QED
        BY <3>1, <3>2 DEF Keeping, MatricesTold
  <1>17. LibrariesForm'
    <2>1. libraries' \in [Ranks -> [LibraryIDs -> 0 .. made']]
      BY <1>2 DEF Keeping, LibrariesForm
    <2> QED
      BY <2>1 DEF Keeping, LibrariesForm
  <1>18. LibrariesSame' /\ LibrariesThere'
    BY <1>5 DEF Keeping, LibrariesSame, LibrariesThere
  <1> QED
    BY <1>10, <1>12, <1>13, <1>14, <1>15, <1>16, <1>17, <1>18 DEF Keeping

\* The driver answers: the client is told of the matrices the command made, and of the
\* library if it loaded everywhere.
LEMMA AnswerKeeps ==
    ASSUME Keeping, UNCHANGED <<size, joined, formed, base, changes, runs, made, loads, next_matrixID,
                                next_libraryID, matrices, libraries, current_matrixID>>,
           Members \subseteq Workers, Over = Workers, Over' = Workers, Making' = {},
           driver' = Idle, driver.at # "GRID", next_libraryID \in LibraryIDs,
           assigned' = [id \in MatrixIDs |-> IF id \in Due THEN Members ELSE assigned[id]],
           \A id \in Due : id \in MatrixIDs /\ id < next_matrixID,
           \/ driver.cmd.op # "LOAD" /\ known' = known
           \/ /\ driver.cmd.op = "LOAD" /\ driver.at = "LOAD" /\ known' = known
              /\ Members \subseteq driver.cmd.fails
           \/ /\ driver.cmd.op = "LOAD" /\ driver.at = "LOADED"
              /\ Members \cap driver.cmd.fails = {}
              /\ known' = known \cup {[id |-> next_libraryID, thing |-> driver.cmd.thing]},
           driver.at \in {"LOAD", "LOADED"} => driver.cmd.op = "LOAD"
    PROVE  Keeping'
  <1>1. /\ Members' = Members /\ driver'.at = "IDLE" /\ driver'.cmd.op = "NONE" /\ driver'.ids = <<>>
        /\ Len(driver'.ids) = 0
    BY NoCommandIs, OfOne DEF Members
  <1>2. Due' = {}
    BY <1>1 DEF Due
  <1>3. driver.at = "LOADED" => /\ driver.cmd.id = next_libraryID /\ driver.cmd.thing \in 1 .. made
                                /\ libraries[0][driver.cmd.id] # 0
                                /\ \A w \in Members : libraries[w][driver.cmd.id] # 0
    BY DEF Keeping, Commanded, LibrariesForm, LibrariesThere
  <1>4. Counts'
    <2>1. known' \subseteq [id: LibraryIDs, thing: 1 .. made]
      BY <1>3 DEF Keeping, Counts
    <2> QED
      BY <2>1 DEF Keeping, Counts
  <1>5. Commanded'
    BY <1>1 DEF Commanded
  <1>6. MatricesForm' /\ MatricesSame'
    BY <1>1 DEF Keeping, MatricesForm, MatricesSame
  <1>7. MatricesThere'
    BY <1>1, <1>2 DEF Keeping, MatricesThere
  <1>8. MatricesTold'
    <2>1. assigned' \in [MatrixIDs -> SUBSET Workers]
      BY DEF Keeping, MatricesTold
    <2>2. \A id \in MatrixIDs : assigned'[id] # {} => id < next_matrixID
      BY DEF Keeping, MatricesTold
    <2>3. \A id \in MatrixIDs : \A w \in assigned'[id] : matrices[w][id] # 0
      BY DEF Keeping, MatricesTold, MatricesThere
    <2> QED
      BY <1>2, <2>1, <2>2, <2>3 DEF Keeping, MatricesTold
  <1>9. LibrariesForm'
    BY <1>1, <1>3 DEF Keeping, LibrariesForm
  <1>10. LibrariesSame'
    <2>1. driver.at = "LOAD" => Members \subseteq driver.cmd.fails
      OBVIOUS
    <2> QED
      BY <1>1, <2>1 DEF Keeping, LibrariesSame
  <1>11. LibrariesThere'
    <2>1. \A w \in Members, id \in LibraryIDs :
              libraries[0][id] > joined[w] => libraries[w][id] # 0
      BY <1>3 DEF Keeping, LibrariesThere
    <2>2. \A lib \in known' : \A w \in Members : joined[w] < lib.thing => libraries[w][lib.id] # 0
      BY <1>3 DEF Keeping, LibrariesThere
    <2> QED
      BY <1>1, <2>1, <2>2 DEF LibrariesThere
  <1> QED
    BY <1>4, <1>5, <1>6, <1>7, <1>8, <1>9, <1>10, <1>11 DEF Keeping

\* A command starts: all have still to do what it is about.
LEMMA StartKeeps ==
    ASSUME Keeping, UNCHANGED <<size, joined, formed, base, changes, assigned, known, matrices, libraries,
                                current_matrixID>>,
           Counts', Commanded', driver = Idle, Members \subseteq Workers, Members \cap Over' = {},
           Making' = {}, made' >= made, driver'.ids = <<>>,
           \/ driver'.at = "GRID" /\ driver'.cmd.op = "NEW_MATRIX" /\ driver'.cmd.id = next_matrixID
              /\ next_matrixID' = next_matrixID + 1
           \/ driver'.at \in {"LOAD", "TASK"} /\ driver'.cmd.op \in {"LOAD", "RUN"}
              /\ next_matrixID' = next_matrixID
    PROVE  Keeping'
  <1>1. /\ Members' = Members /\ driver.at = "IDLE" /\ driver.cmd.op = "NONE" /\ driver.ids = <<>>
        /\ Len(driver.ids) = 0 /\ Len(driver'.ids) = 0
    BY NoCommandIs, OfOne DEF Members
  <1>2. Due' = IF driver'.at = "GRID" THEN {next_matrixID} ELSE {}
    <2>1. CASE driver'.cmd.op = "NEW_MATRIX"
      <3>1. Due' = {driver'.cmd.id}
        BY <2>1 DEF Due
      <3> QED
        BY <2>1, <3>1
    <2>2. CASE driver'.cmd.op # "NEW_MATRIX"
      <3>1. Due' = {}
        BY <1>1, <2>2 DEF Due
      <3> QED
        BY <2>2, <3>1
    <2> QED
      BY <2>1, <2>2
  <1>3. /\ made \in Nat /\ made' \in Nat /\ next_matrixID \in Nat /\ next_matrixID' \in Nat
        /\ MatrixIDs \subseteq Nat /\ 0 .. made \subseteq 0 .. made'
    BY NumbersIn DEF Keeping, Counts
  <1>4. /\ \A id \in MatrixIDs : id >= next_matrixID => matrices[0][id] = 0
        /\ driver'.at = "GRID" => next_matrixID \in MatrixIDs
    BY DEF Keeping, MatricesForm, Commanded
  <1>5. MatricesForm'
    <2>1. matrices \in [Ranks -> [MatrixIDs -> 0 .. made']]
      BY <1>3 DEF Keeping, MatricesForm
    <2>2. \A id \in MatrixIDs : id >= next_matrixID' => matrices[0][id] = 0
      BY <1>3, <1>4
    <2> QED
      BY <1>1, <1>3, <1>4, <2>1, <2>2 DEF MatricesForm
  <1>6. MatricesSame'
    BY <1>1 DEF Keeping, MatricesSame
  <1>7. MatricesThere'
    <2>1. Due = {}
      BY <1>1 DEF Due
    <2> QED
      BY <1>1, <2>1 DEF Keeping, MatricesThere
  <1>8. MatricesTold'
    BY <1>2, <1>3 DEF Keeping, MatricesTold
  <1>9. LibrariesForm'
    <2>1. libraries \in [Ranks -> [LibraryIDs -> 0 .. made']]
      BY <1>3 DEF Keeping, LibrariesForm
    <2> QED
      BY <1>1, <2>1 DEF Keeping, LibrariesForm
  <1>10. LibrariesSame' /\ LibrariesThere'
    BY <1>1 DEF Keeping, LibrariesSame, LibrariesThere
  <1> QED
    BY <1>5, <1>6, <1>7, <1>8, <1>9, <1>10 DEF Keeping

\* The group changes: what a new member has not, was made before it joined; and what
\* there is when another client comes, was made before its time.
LEMMA ChangeKeeps ==
    ASSUME Keeping, Forms, NEW n \in 0 .. NumWorkers, NEW newClient \in BOOLEAN, ChangeGroup(n, newClient),
           Making' = {}
    PROVE  Keeping'
  <1>1. /\ driver.at = "IDLE" /\ driver.cmd.op = "NONE" /\ driver.ids = <<>> /\ Len(driver.ids) = 0
        /\ driver' = driver /\ Members' = 1 .. n /\ Members' \subseteq Workers
        /\ UNCHANGED <<runs, made, current_matrixID>> /\ formed' = made /\ changes' = changes + 1
        /\ changes < MaxChanges
        /\ joined' = [w \in Workers |-> IF w <= size /\ ~ newClient THEN joined[w] ELSE made]
    <2>1. /\ UNCHANGED <<runs, made, current_matrixID, driver>> /\ formed' = made
          /\ changes' = changes + 1 /\ changes < MaxChanges /\ driver = Idle /\ size' = n
          /\ joined' = [w \in Workers |-> IF w <= size /\ ~ newClient THEN joined[w] ELSE made]
      BY DEF ChangeGroup
    <2>2. 1 .. n \subseteq Workers
      BY CommandsAssumption DEF Workers
    <2>3. /\ driver.at = "IDLE" /\ driver.cmd.op = "NONE" /\ driver.ids = <<>>
          /\ Len(driver.ids) = 0
      BY <2>1, NoCommandIs, OfOne
    <2> QED
      BY <2>1, <2>2, <2>3 DEF Members
  <1>2. Due = {} /\ Due' = {}
    BY <1>1 DEF Due
  <1>3. made \in Nat /\ joined \in [Workers -> 0 .. made] /\ base \in Nat /\ base <= made
    BY DEF Keeping, Counts
  <1>4. /\ joined' \in [Workers -> 0 .. made]
        /\ \A w \in Workers : joined'[w] >= joined[w] /\ (w \notin Members => joined'[w] = made)
    <2>1. \A w \in Workers : w \notin Members => ~ (w <= size)
      BY DEF Members, Workers, Forms
    <2> QED
      BY <1>1, <1>3, <2>1
  <1>5. Commanded'
    BY <1>1 DEF Commanded
  <1>6. CASE ~ newClient
    <2>1. UNCHANGED <<base, loads, next_matrixID, next_libraryID, assigned, known, matrices, libraries>>
      BY <1>6 DEF ChangeGroup, clientVars
    <2>2. Counts'
      BY <1>1, <1>3, <1>4, <2>1, CommandsAssumption DEF Keeping, Counts
    <2>3. MatricesForm' /\ MatricesSame'
      BY <1>1, <2>1 DEF Keeping, MatricesForm, MatricesSame
    <2>4. matrices[0] \in [MatrixIDs -> 0 .. made] /\ libraries[0] \in [LibraryIDs -> 0 .. made]
      BY SpanIs DEF Keeping, MatricesForm, LibrariesForm
    <2>5. MatricesThere'
      <3> SUFFICES ASSUME NEW w \in Members', NEW id \in MatrixIDs, matrices[0][id] > joined'[w]
                   PROVE  matrices[w][id] # 0
        BY <1>2, <2>1 DEF MatricesThere
      <3>1. w \in Members /\ matrices[0][id] > joined[w]
        BY <1>1, <1>3, <1>4, <2>4
      <3> QED
        BY <1>2, <3>1 DEF Keeping, MatricesThere
    <2>6. MatricesTold'
      BY <1>1, <1>2, <2>1 DEF Keeping, MatricesTold
    <2>7. LibrariesForm'
      BY <1>1, <2>1 DEF Keeping, LibrariesForm
    <2>8. LibrariesSame'
      <3> SUFFICES ASSUME NEW w \in Workers, NEW id \in LibraryIDs
                   PROVE  \/ libraries[w][id] <= base
                          \/ libraries[w][id] = libraries[0][id]
                          \/ libraries[0][id] # 0 /\ libraries[0][id] <= joined'[w]
        BY <2>1 DEF LibrariesSame
      <3>1. \/ libraries[w][id] <= base
            \/ libraries[w][id] = libraries[0][id]
            \/ libraries[0][id] # 0 /\ libraries[0][id] <= joined[w]
        BY <1>1 DEF Keeping, LibrariesSame
      <3> QED
        BY <1>3, <1>4, <2>4, <3>1
    <2>9. LibrariesThere'
      <3>1. ASSUME NEW w \in Members', NEW id \in LibraryIDs, libraries[0][id] > joined'[w]
            PROVE  libraries[w][id] # 0
        <4>1. w \in Members /\ libraries[0][id] > joined[w]
          BY <1>1, <1>3, <1>4, <2>4, <3>1
        <4> QED
          BY <1>1, <4>1 DEF Keeping, LibrariesThere
      <3>2. ASSUME NEW lib \in known, NEW w \in Members', joined'[w] < lib.thing
            PROVE  libraries[w][lib.id] # 0
        <4>1. lib.thing \in 1 .. made
          BY DEF Keeping, Counts
        <4>2. w \in Members /\ joined[w] < lib.thing
          BY <1>1, <1>3, <1>4, <3>2, <4>1
        <4> QED
          BY <4>2 DEF Keeping, LibrariesThere
      <3> QED
        BY <1>1, <2>1, <3>1, <3>2 DEF LibrariesThere
    <2> QED
      BY <1>5, <2>2, <2>3, <2>5, <2>6, <2>7, <2>8, <2>9 DEF Keeping
  <1>7. CASE newClient
    <2>1. /\ base' = made /\ loads' = 0 /\ next_matrixID' = 1
          /\ matrices' = [matrices EXCEPT ![0] = [id \in MatrixIDs |-> 0]]
          /\ libraries' = [libraries EXCEPT ![0] = [id \in LibraryIDs |-> 0]]
          /\ assigned' = [id \in MatrixIDs |-> {}]
          /\ known' = {}
      BY <1>7 DEF ChangeGroup
    <2>2. Counts'
      BY <1>1, <1>3, <1>4, <2>1, CommandsAssumption DEF Keeping, Counts
    <2>3. /\ matrices' \in [Ranks -> [MatrixIDs -> 0 .. made]]
          /\ libraries' \in [Ranks -> [LibraryIDs -> 0 .. made]]
          /\ \A id \in MatrixIDs : matrices'[0][id] = 0
          /\ \A id \in LibraryIDs : libraries'[0][id] = 0
          /\ Workers \subseteq Ranks /\ 0 \in Ranks
      BY <1>3, <2>1, SpanIs DEF Keeping, MatricesForm, LibrariesForm
    <2>4. MatricesForm' /\ LibrariesForm'
      BY <1>1, <2>1, <2>3 DEF MatricesForm, LibrariesForm
    <2>5. MatricesSame'
      <3>1. \A w \in Workers, id \in MatrixIDs : matrices'[w][id] <= made
        BY <1>3, <2>3
      <3> QED
        BY <2>1, <3>1 DEF MatricesSame
    <2>6. LibrariesSame'
      <3>1. \A w \in Workers, id \in LibraryIDs : libraries'[w][id] <= made
        BY <1>3, <2>3
      <3> QED
        BY <2>1, <3>1 DEF LibrariesSame
    <2>7. MatricesThere' /\ LibrariesThere'
      BY <1>1, <1>2, <1>3, <1>4, <2>1, <2>3 DEF MatricesThere, LibrariesThere
    <2>8. MatricesTold'
      BY <1>1, <2>1 DEF Keeping, MatricesTold
    <2> QED
      BY <1>5, <2>2, <2>4, <2>5, <2>6, <2>7, <2>8 DEF Keeping
  <1> QED
    BY <1>6, <1>7

-----------------------------------------------------------------------------
(* A handler's step.                                                         *)
LEMMA OpAt ==
    ASSUME Forms, Driving
    PROVE  /\ driver.cmd.op = "NEW_MATRIX" => driver.at \in {"GRID", "MADE"} /\ driver.ids = <<>>
           /\ driver.cmd.op = "LOAD" => driver.at \in {"LOAD", "LOADED"} /\ Due = {} /\ driver.ids = <<>>
           /\ driver.cmd.op = "RUN" /\ driver.cmd.results = 0 => Due = {}
  <1>1. driver.at \in Places /\ driver.ids \in Seq(Kept) /\ driver.cmd.results \in Nat
    BY DEF Forms, Drivers, Places, Asked
  <1>2. driver.cmd.op = "NEW_MATRIX" => driver.at \in {"GRID", "MADE"}
    BY <1>1, NoCommandIs DEF Driving, Places
  <1>3. driver.cmd.op = "LOAD" => driver.at \in {"LOAD", "LOADED"}
    BY <1>1, NoCommandIs DEF Driving, Places
  <1>4. driver.at \in {"GRID", "MADE", "LOAD", "LOADED"} => driver.ids = <<>>
    BY DEF Driving
  <1>5. driver.cmd.op = "RUN" /\ driver.cmd.results = 0 => driver.ids = <<>>
    <2> HAVE driver.cmd.op = "RUN" /\ driver.cmd.results = 0
    <2>1. Len(driver.ids) \in Nat
      BY <1>1, LenProperties
    <2>2. driver.ids = <<>> \/ Len(driver.ids) = 0
      BY <2>1 DEF Driving
    <2> QED
      BY <1>1, <2>2, EmptySeq
  <1> QED
    BY <1>2, <1>3, <1>4, <1>5, NothingDue

LEMMA MovesOn ==
    ASSUME NEW w \in Workers, NEW h \in handlers, h.w = w, Threads[w] = {h}, UNCHANGED ibcast
    PROVE  /\ Done(h) => Over' \subseteq Over \cup {w} /\ Making' \subseteq Making
           /\ \A t : Becomes(h, t) /\ t.w = w =>
                  /\ Making' \subseteq Making \cup {w}
                  /\ t.at # "MAKE" => Making' \subseteq Making
                  /\ Over' \subseteq Over \cup {w}
                  /\ Live(t) => Over' \subseteq Over
  <1>1. ASSUME Done(h)
        PROVE  Over' \subseteq Over \cup {w} /\ Making' \subseteq Making
    <2>1. Threads'[w] = {} /\ \A v \in Workers \ {w} : Threads'[v] = Threads[v]
      BY <1>1, ThreadsAfter
    <2> QED
      BY <2>1 DEF Over, Making
  <1>2. ASSUME NEW t, Becomes(h, t), t.w = w
        PROVE  /\ Making' \subseteq Making \cup {w}
               /\ t.at # "MAKE" => Making' \subseteq Making
               /\ Over' \subseteq Over \cup {w}
               /\ Live(t) => Over' \subseteq Over
    <2>1. /\ Threads'[w] = IF Live(t) THEN {t} ELSE {}
          /\ \A v \in Workers \ {w} : Threads'[v] = Threads[v]
      BY <1>2, ThreadsAfter
    <2> QED
      BY <2>1 DEF Over, Making
  <1> QED
    BY <1>1, <1>2

\* A thread goes on and keeps nothing yet.
LEMMA GoingKeeps ==
    ASSUME Forms, Keeping, NEW w \in Workers, NEW h \in handlers, Here(h, w), UNCHANGED ibcast,
           Untouched, UNCHANGED <<matrices, libraries, current_matrixID, driver>>,
           NEW t, Becomes(h, t), t.w = w, t.at # "MAKE",
           Live(t) \/ (t.op = "LOAD" /\ t.cmd = driver.cmd /\ driver.cmd.op = "LOAD" /\ Due = {})
    PROVE  Keeping'
  <1>1. Making' \subseteq Making /\ Over' \subseteq Over \cup {w} /\ (Live(t) => Over' \subseteq Over)
    BY MovesOn DEF Here
  <1>2. \A v \in Over' \ Over : Due = {} /\ (driver.cmd.op = "LOAD" => v \in driver.cmd.fails)
    <2> SUFFICES ASSUME NEW v \in Over' \ Over
                 PROVE  Due = {} /\ v \in driver.cmd.fails
      OBVIOUS
    <2>1. v = w /\ ~ Live(t)
      BY <1>1
    <2> QED
      BY <2>1 DEF Live
  <1>3. Passing
    BY <1>1, <1>2 DEF Passing
  <1> QED
    BY <1>3, PassingKeeps

LEMMA TakeMatrixKeeps ==
    ASSUME Forms, Keeping, NEW w \in Workers, NEW h \in handlers, Here(h, w), UNCHANGED <<driver, ibcast>>,
           Untouched, TakeMatrix(h)
    PROVE  Keeping'
  <1>1. /\ h.op = "NEW_MATRIX" /\ h.at = "START" /\ h.w = w
        /\ Becomes(h, [h EXCEPT !.at = "MAKE", !.cmd = Head(bcast[w])])
        /\ current_matrixID' = [current_matrixID EXCEPT ![w] = Head(bcast[w]).id]
        /\ UNCHANGED <<matrices, libraries>>
    BY DEF TakeMatrix, Here
  <1>2. bcast[w] = <<driver.cmd>> /\ driver.cmd.op = "NEW_MATRIX" /\ driver.cmd \in Asked /\ h.i = 0
    BY <1>1 DEF Here, Place, Stands, Forms, Drivers, Fits
  <1>3. Head(bcast[w]) = driver.cmd
    BY <1>2, OfOne
  <1>4. PICK t \in Handlers : Becomes(h, t) /\ IsThread(t, w, h.op, "MAKE", driver.cmd, h.k, 0)
    <2>1. Becomes(h, [h EXCEPT !.at = "MAKE", !.cmd = driver.cmd])
      BY <1>1, <1>3
    <2>2. /\ [h EXCEPT !.at = "MAKE", !.cmd = driver.cmd] \in Handlers
          /\ IsThread([h EXCEPT !.at = "MAKE", !.cmd = driver.cmd], h.w, h.op, "MAKE", driver.cmd, h.k, h.i)
      BY <1>2, HandlerGoes DEF Here
    <2> QED
      BY <1>1, <1>2, <2>1, <2>2
  <1>5. Making' \subseteq Making \cup {w} /\ (Live(t) => Over' \subseteq Over)
    BY <1>4, MovesOn DEF Here, IsThread
  <1>6. Live(t)
    BY <1>1, <1>4 DEF Live, IsThread
  <1> QED
    BY <1>1, <1>2, <1>3, <1>5, <1>6, TakingKeeps

LEMMA MakeMatrixKeeps ==
    ASSUME Forms, InTime, astray = {}, Keeping, NEW w \in Workers, NEW h \in handlers, Here(h, w),
           UNCHANGED <<driver, ibcast>>, Untouched, MakeMatrix(h)
    PROVE  Keeping'
  <1>1. /\ h.op = "NEW_MATRIX" /\ h.at = "MAKE" /\ h.w = w /\ Done(h)
        /\ matrices' = Insert(matrices, w, current_matrixID[w], h.cmd.thing)
        /\ UNCHANGED <<libraries, current_matrixID>>
    BY DEF MakeMatrix, Here, MeetsLast
  <1>2. h.cmd = driver.cmd /\ driver.cmd.op = "NEW_MATRIX"
    BY <1>1 DEF Here
  <1>3. w \in Making
    BY <1>1 DEF Making, Here
  <1>4. matrices' = Insert(matrices, w, driver.cmd.id, driver.cmd.thing)
    BY <1>1, <1>2, <1>3 DEF Keeping, MatricesTold
  <1>5. Over' \subseteq Over \cup {w} /\ Making' \subseteq Making
    BY <1>1, MovesOn DEF Here
  <1>6. driver.at \in {"GRID", "MADE"} /\ Members \subseteq Workers
    BY <1>2, OpAt, StepsIn DEF InTime
  <1> QED
    BY <1>1, <1>2, <1>4, <1>5, <1>6, MakingKeeps

LEMMA KeepLibraryKeeps ==
    ASSUME Forms, InTime, astray = {}, Keeping, NEW w \in Workers, NEW h \in handlers, Here(h, w),
           UNCHANGED <<driver, ibcast>>, Untouched, Live(h), KeepLibrary(h)
    PROVE  Keeping'
  <1>1. h.op = "LOAD" /\ h.at = "OPEN" /\ h.w = w /\ h.w \notin h.cmd.fails
    BY DEF KeepLibrary, Arrived, Here, Live
  <1>2. /\ h.cmd = driver.cmd /\ driver.cmd.op = "LOAD" /\ w \in Members
        /\ Done(h) /\ libraries' = Insert(libraries, w, driver.cmd.id, driver.cmd.thing)
        /\ UNCHANGED <<matrices, current_matrixID>>
    BY <1>1 DEF KeepLibrary, Here, MeetsLast
  <1>3. Over' \subseteq Over \cup {w} /\ Making' \subseteq Making
    BY <1>2, MovesOn DEF Here
  <1>4. /\ driver.at \in {"LOAD", "LOADED"} /\ driver.ids = <<>> /\ Members \subseteq Workers
        /\ next_libraryID \in LibraryIDs
    BY <1>2, OpAt, StepsIn DEF InTime, Forms
  <1> QED
    BY <1>1, <1>2, <1>3, <1>4, LoadingKeeps

\* The broadcast of a task's IDs names the matrices that the driver keeps.
LEMMA KeepResultsKeeps ==
    ASSUME Forms, InTime, astray = {}, Keeping, NEW w \in Workers, NEW h \in handlers, Here(h, w),
           UNCHANGED <<driver, ibcast>>, Untouched, KeepResults(h)
    PROVE  Keeping'
  <1>1. /\ h.op = "RUN" /\ h.at = "RESULT" /\ h.w = w /\ Done(h) /\ bcast[w] # <<>>
        /\ UNCHANGED <<libraries, current_matrixID>>
    BY DEF KeepResults, Here, MeetsLast, Arrived, Takes
  <1>2. driver.cmd.op = "RUN" /\ driver.at = "DONE" /\ bcast[w] = <<IDs>>
    BY <1>1 DEF Here, Place, Stands
  <1>3. driver.ids \in Seq(Kept) /\ DOMAIN driver.ids = 1 .. Len(driver.ids)
        /\ Due = {driver.ids[i].id : i \in 1 .. Len(driver.ids)}
    BY <1>2, LenProperties DEF Forms, Drivers, Due
  <1>4. Head(bcast[w]).ids = driver.ids
    <2>1. IDs.ids = driver.ids
      BY DEF IDs, NoCommand
    <2> QED
      BY <1>2, <2>1, OfOne
  <1> DEFINE ids == Head(bcast[h.w]).ids
             got(id) == {ids[i].thing : i \in {j \in DOMAIN ids : ids[j].id = id}}
  <1>5. matrices' = [matrices EXCEPT ![h.w] =
               [id \in MatrixIDs |->
                   IF @[id] = 0 /\ got(id) # {} THEN CHOOSE t \in got(id) : TRUE ELSE @[id]]]
    BY DEF KeepResults
  <1>6. \A id \in MatrixIDs : /\ got(id) # {} <=> id \in Due
                              /\ \A t \in got(id) : t = matrices[0][id]
    <2>1. ids = driver.ids
      BY <1>1, <1>4
    <2>2. ASSUME NEW id \in MatrixIDs
          PROVE  got(id) = {driver.ids[i].thing :
                                i \in {j \in 1 .. Len(driver.ids) : driver.ids[j].id = id}}
      BY <1>3, <2>1
    <2>3. \A i \in 1 .. Len(driver.ids) : driver.ids[i].thing = matrices[0][driver.ids[i].id]
      BY DEF Keeping, MatricesForm
    <2> HIDE DEF got
    <2>4. ASSUME NEW id \in MatrixIDs, NEW t \in got(id)
          PROVE  id \in Due /\ t = matrices[0][id]
      <3>1. PICK i \in 1 .. Len(driver.ids) : driver.ids[i].id = id /\ t = driver.ids[i].thing
        BY <2>2, <2>4
      <3> QED
        BY <1>3, <2>3, <3>1
    <2>5. ASSUME NEW id \in MatrixIDs, id \in Due
          PROVE  got(id) # {}
      <3>1. PICK i \in 1 .. Len(driver.ids) : driver.ids[i].id = id
        BY <1>3, <2>5
      <3>2. driver.ids[i].thing \in got(id)
        BY <2>2, <3>1
      <3> QED
        BY <3>2
    <2> QED
      BY <2>4, <2>5
  <1> HIDE DEF got
  <1>7. \A id \in MatrixIDs : id \in Due => (CHOOSE t \in got(id) : TRUE) = matrices[0][id]
    BY <1>6
  <1>8. matrices \in [Ranks -> [MatrixIDs -> 0 .. made]] /\ w \in Ranks /\ 0 \in Ranks
    BY SpanIs DEF Keeping, MatricesForm
  <1>9. matrices'[w] = [id \in MatrixIDs |->
                            IF matrices[w][id] = 0 /\ id \in Due THEN matrices[0][id]
                            ELSE matrices[w][id]]
    BY <1>1, <1>5, <1>6, <1>7, <1>8
  <1>10. matrices'[w] \in [MatrixIDs -> 0 .. made] /\ \A q \in Ranks \ {w} : matrices'[q] = matrices[q]
    BY <1>1, <1>5, <1>8, <1>9
  <1>11. /\ matrices' \in [Ranks -> [MatrixIDs -> 0 .. made]]
         /\ \A id \in MatrixIDs : matrices'[w][id] = IF matrices[w][id] = 0 /\ id \in Due
                                                     THEN matrices[0][id] ELSE matrices[w][id]
    <2>1. DOMAIN matrices' = Ranks /\ matrices' = [q \in Ranks |-> matrices'[q]]
      BY <1>1, <1>5, <1>8
    <2> QED
      BY <1>8, <1>9, <1>10, <2>1
  <1>12. Over' \subseteq Over \cup {w} /\ Making' \subseteq Making /\ Members \subseteq Workers
    BY <1>1, MovesOn, StepsIn DEF Here
  <1> QED
    BY <1>1, <1>2, <1>10, <1>11, <1>12, CollectingKeeps

LEMMA HandlerKeeps ==
    ASSUME Forms, InTime, astray = {}, Keeping, NEW w \in Workers, HandlerStep(w)
    PROVE  Keeping'
  <1>1. PICK h \in handlers :
            /\ h.w = w
            /\ \/ TakeMatrix(h) \/ MakeMatrix(h) \/ TakeLibrary(h) \/ KeepLibrary(h)
               \/ TakeTask(h) \/ CopyTask(h) \/ RunTaskHere(h)
               \/ CountResults(h) \/ SendResult(h) \/ KeepResults(h)
    BY DEF HandlerStep
  <1>2. Untouched /\ UNCHANGED <<driver, ibcast>>
    BY DEF HandlerStep, groupVars, clientVars, Untouched
  <1>3. CASE ~ Live(h)
    <2>1. h.op = "LOAD" /\ h.at = "OPEN" /\ h.w \in h.cmd.fails
      BY <1>3 DEF Live
    <2>2. KeepLibrary(h)
      BY <1>1, <2>1 DEF TakeMatrix, MakeMatrix, TakeLibrary, TakeTask, CopyTask, RunTaskHere,
                        CountResults, SendResult, KeepResults
    <2>3. Done(h) /\ UNCHANGED <<matrices, libraries, current_matrixID>>
      BY <2>1, <2>2 DEF KeepLibrary
    <2>4. Threads' = Threads
      BY <1>3, <2>3 DEF Threads, Done
    <2>5. Over' = Over /\ Making' = Making
      BY <1>2, <2>4 DEF Over, Making
    <2> QED
      BY <1>2, <2>3, <2>5, PassingKeeps DEF Passing
  <1>4. CASE Live(h)
    <2>1. Here(h, w)
      BY <1>1, <1>4, HandlerHere
    <2>2. CASE TakeMatrix(h)
      BY <1>2, <2>1, <2>2, TakeMatrixKeeps
    <2>3. CASE MakeMatrix(h)
      BY <1>2, <2>1, <2>3, MakeMatrixKeeps
    <2>4. CASE KeepLibrary(h)
      BY <1>2, <1>4, <2>1, <2>4, KeepLibraryKeeps
    <2>5. CASE KeepResults(h)
      BY <1>2, <2>1, <2>5, KeepResultsKeeps
    <2>6. CASE TakeLibrary(h)
      <3>1. /\ h.op = "LOAD" /\ h.at = "START" /\ UNCHANGED <<matrices, libraries, current_matrixID>>
            /\ Becomes(h, [h EXCEPT !.at = "OPEN", !.cmd = Head(bcast[w]), !.k = Len(barriers[w]) + 1])
        BY <1>1, <2>6 DEF TakeLibrary
      <3>2. bcast[w] = <<driver.cmd>> /\ driver.cmd.op = "LOAD"
        BY <2>1, <3>1 DEF Here, Place, Stands
      <3>3. Head(bcast[w]) = driver.cmd
        BY <3>2, OfOne
      <3> DEFINE t == [h EXCEPT !.at = "OPEN", !.cmd = driver.cmd, !.k = Len(barriers[w]) + 1]
      <3>4. Becomes(h, t)
        BY <3>1, <3>3
      <3>5. t.w = w /\ t.op = "LOAD" /\ t.at = "OPEN" /\ t.cmd = driver.cmd
        BY <2>1, <3>1 DEF Here, Handlers
      <3> HIDE DEF t
      <3>6. Due = {}
        BY <3>2, OpAt DEF InTime
      <3> QED
        BY <1>2, <2>1, <3>1, <3>2, <3>4, <3>5, <3>6, GoingKeeps
    <2>7. ASSUME NEW t, Becomes(h, t), t.w = w, t.op = "RUN", t.at # "MAKE",
                 UNCHANGED <<matrices, libraries, current_matrixID>>
          PROVE  Keeping'
      <3>1. Live(t)
        BY <2>7 DEF Live
      <3> QED
        BY <1>2, <2>1, <2>7, <3>1, GoingKeeps
    <2>8. CASE TakeTask(h)
      <3>1. /\ h.op = "RUN" /\ UNCHANGED <<matrices, libraries, current_matrixID>>
            /\ Becomes(h, [h EXCEPT !.at = "TASK", !.cmd = Head(bcast[w]), !.k = Len(barriers[w]) + 1])
        BY <1>1, <2>8 DEF TakeTask
      <3> DEFINE t == [h EXCEPT !.at = "TASK", !.cmd = Head(bcast[w]), !.k = Len(barriers[w]) + 1]
      <3>2. Becomes(h, t)
        BY <3>1
      <3>3. t.w = w /\ t.op = "RUN" /\ t.at = "TASK"
        BY <2>1, <3>1 DEF Here, Handlers
      <3> HIDE DEF t
      <3> QED
        BY <2>7, <3>1, <3>2, <3>3
    <2>9. ASSUME NEW at \in {"SENT", "RAN"}, h.op = "RUN", Meets(h, at, at),
                 UNCHANGED <<matrices, libraries, current_matrixID>>
          PROVE  Keeping'
      <3>1. Becomes(h, [h EXCEPT !.at = at, !.k = Len(barriers[w]) + 1])
        BY <1>1, <2>9 DEF Meets
      <3> DEFINE t == [h EXCEPT !.at = at, !.k = Len(barriers[w]) + 1]
      <3>2. Becomes(h, t)
        BY <3>1
      <3>3. t.w = w /\ t.op = "RUN" /\ t.at = at
        BY <2>1, <2>9 DEF Here, Handlers
      <3> HIDE DEF t
      <3> QED
        BY <2>7, <2>9, <3>2, <3>3
    <2>10. CASE CopyTask(h)
      BY <2>9, <2>10 DEF CopyTask
    <2>11. CASE RunTaskHere(h)
      <3>1. /\ h.op = "RUN" /\ UNCHANGED <<matrices, libraries, current_matrixID>>
            /\ Meets(h, "RAN", "RAN") \/ UNCHANGED handlers
        BY <2>11 DEF RunTaskHere
      <3>2. CASE UNCHANGED handlers
        <4>1. Over' = Over /\ Making' = Making
          BY <1>2, <3>2 DEF Over, Making, Threads
        <4> QED
          BY <1>2, <3>1, <4>1, PassingKeeps DEF Passing
      <3> QED
        BY <2>9, <3>1, <3>2
    <2>12. CASE CountResults(h)
      <3>1. /\ h.op = "RUN" /\ h.at = "RAN" /\ UNCHANGED <<matrices, libraries, current_matrixID>>
            /\ \/ h.cmd.results = 0 /\ Done(h)
               \/ Becomes(h, [h EXCEPT !.at = "INFO"])
        BY <2>12 DEF CountResults, Arrived, MeetsLast
      <3>2. CASE h.cmd.results = 0 /\ Done(h)
        <4>1. driver.cmd.op = "RUN" /\ driver.cmd.results = 0
          BY <2>1, <3>1, <3>2 DEF Here
        <4>2. Due = {}
          BY <4>1, OpAt DEF InTime
        <4>3. Making' \subseteq Making
          BY <1>1, <1>2, <2>1, <3>2, MovesOn DEF Here
        <4> QED
          BY <1>2, <3>1, <4>1, <4>2, <4>3, PassingKeeps DEF Passing
      <3>3. CASE Becomes(h, [h EXCEPT !.at = "INFO"])
        <4>1. PICK t : Becomes(h, t) /\ t.w = w /\ t.op = "RUN" /\ t.at = "INFO"
          BY <2>1, <3>1, <3>3 DEF Here, Handlers
        <4> QED
          BY <2>7, <3>1, <4>1
      <3> QED
        BY <3>1, <3>2, <3>3
    <2>13. CASE SendResult(h)
      <3>1. /\ h.op = "RUN" /\ UNCHANGED <<matrices, libraries, current_matrixID>>
            /\ Becomes(h, [h EXCEPT !.at = "RESULT", !.i = @ + 1, !.k = Len(barriers[w]) + 1])
        BY <1>1, <2>13 DEF SendResult
      <3> DEFINE t == [h EXCEPT !.at = "RESULT", !.i = @ + 1, !.k = Len(barriers[w]) + 1]
      <3>2. Becomes(h, t)
        BY <3>1
      <3>3. t.w = w /\ t.op = "RUN" /\ t.at = "RESULT"
        BY <2>1, <3>1 DEF Here, Handlers
      <3> HIDE DEF t
      <3> QED
        BY <2>7, <3>1, <3>2, <3>3
    <2> QED
      BY <1>1, <2>2, <2>3, <2>4, <2>5, <2>6, <2>8, <2>10, <2>11, <2>12, <2>13
  <1> QED
    BY <1>3, <1>4

LEMMA CommandKeeps ==
    ASSUME Forms, Keeping, NEW w \in Workers, GroupCommand(w)
    PROVE  Keeping'
  <1>1. PICK h \in Handlers :
            /\ IsThread(h, w, Head(ibcast[w]), "START", NoCommand, h.k, 0)
            /\ handlers' = handlers \cup {h} /\ ibcast[w] # <<>>
            /\ \A v \in Workers \ {w} : ibcast'[v] = ibcast[v]
            /\ UNCHANGED <<groupVars, runs, made, clientVars, matrices, libraries, driver,
                           current_matrixID>>
    BY GroupCommandIs
  <1>2. Live(h) /\ h.w = w /\ h.at = "START"
    BY <1>1 DEF Live, IsThread
  <1>3. /\ \A v \in Workers \ {w} : Threads'[v] = Threads[v]
        /\ Threads'[w] = Threads[w] \cup {h}
    BY <1>1, <1>2 DEF Threads
  <1>4. Over' \subseteq Over /\ Making' \subseteq Making
    BY <1>1, <1>2, <1>3 DEF Over, Making
  <1>5. Untouched
    BY <1>1 DEF groupVars, clientVars, Untouched
  <1> QED
    BY <1>1, <1>4, <1>5, PassingKeeps DEF Passing

-----------------------------------------------------------------------------
(* The driver's steps and the group's.                                       *)
AtRest  == astray = {} /\ driver = Idle
AllDone == Over = Workers /\ Making = {}

LEMMA AllOver == Forms /\ InTime /\ AtRest => AllDone
  BY AllOut DEF AtRest, AllDone, Over, Making

LEMMA StayOver ==
    ASSUME UNCHANGED <<handlers, ibcast>>
    PROVE  Over' = Over /\ Making' = Making
  BY DEF Over, Making, Threads

\* The driver goes on and keeps nothing.
LEMMA DriverPasses ==
    ASSUME Forms, Keeping, Untouched, UNCHANGED <<matrices, libraries, current_matrixID, handlers, ibcast>>,
           driver'.cmd = driver.cmd, driver'.ids = driver.ids,
           \/ driver'.at = driver.at
           \/ {driver.at, driver'.at} \cap {"GRID", "MADE", "LOAD", "LOADED"} = {}
    PROVE  Keeping'
  <1>1. Over' = Over /\ Making' = Making
    BY StayOver
  <1> QED
    BY <1>1, PassingKeeps DEF Passing

LEMMA ReceiveGridKeeps ==
    ASSUME Forms, InTime, astray = {}, Keeping, ReceiveGrid
    PROVE  Keeping'
  <1>1. /\ driver.at = "GRID" /\ Enters("MADE", "NEW_MATRIX")
        /\ matrices' = Insert(matrices, 0, driver.cmd.id, driver.cmd.thing)
        /\ UNCHANGED <<groupVars, runs, made, clientVars, libraries, ibcast, handlers, current_matrixID>>
    BY DEF ReceiveGrid
  <1>2. driver'.at = "MADE" /\ driver'.cmd = driver.cmd /\ driver'.ids = driver.ids
    BY <1>1, EntersIs DEF IsDriver, Places, Names
  <1>3. driver.cmd.op = "NEW_MATRIX" /\ driver.ids = <<>> /\ Members \subseteq Workers
    BY <1>1, StepsIn DEF InTime, Driving
  <1>4. Over' = Over /\ Making' = Making
    BY <1>1, StayOver
  <1>5. Untouched
    BY <1>1 DEF groupVars, clientVars, Untouched
  <1> QED
    BY <1>1, <1>2, <1>3, <1>4, <1>5, GridKeeps

\* All are done when the driver answers.
LEMMA AnswerOver ==
    ASSUME Forms', InTime', astray' = {}, driver' = Idle, UNCHANGED <<handlers, ibcast>>
    PROVE  Over = Workers /\ Over' = Workers /\ Making' = {}
  <1>1. AtRest'
    BY DEF AtRest
  <1>2. AllDone'
    BY <1>1, AllOver, PTL
  <1> QED
    BY <1>2, StayOver DEF AllDone

LEMMA AnswerMatrixKeeps ==
    ASSUME Forms, InTime, Forms', InTime', astray = {}, astray' = {}, Keeping, AnswerMatrix
    PROVE  Keeping'
  <1>1. /\ driver.at = "MADE" /\ driver' = Idle
        /\ assigned' = [assigned EXCEPT ![driver.cmd.id] = Members]
        /\ UNCHANGED <<size, joined, formed, base, changes, runs, made, loads, next_matrixID,
                       next_libraryID, known, matrices, libraries, ibcast, handlers, current_matrixID>>
    BY DEF AnswerMatrix, Through, groupVars, mpiVars
  <1>2. driver.cmd.op = "NEW_MATRIX" /\ Members \subseteq Workers /\ next_libraryID \in LibraryIDs
    BY <1>1, StepsIn DEF InTime, Driving, Forms
  <1>3. Due = {driver.cmd.id} /\ driver.cmd.id \in MatrixIDs /\ driver.cmd.id < next_matrixID
    BY <1>2 DEF Due, Keeping, Commanded
  <1>4. assigned' = [id \in MatrixIDs |-> IF id \in Due THEN Members ELSE assigned[id]]
    BY <1>1, <1>3 DEF Keeping, MatricesTold
  <1>5. Over = Workers /\ Over' = Workers /\ Making' = {}
    BY <1>1, AnswerOver
  <1> QED
    BY <1>1, <1>2, <1>3, <1>4, <1>5, AnswerKeeps

LEMMA AnswerTaskKeeps ==
    ASSUME Forms, InTime, Forms', InTime', astray = {}, astray' = {}, Keeping, AnswerTask
    PROVE  Keeping'
  <1>1. /\ driver.at = "DONE" /\ driver' = Idle
        /\ assigned' = [id \in MatrixIDs |->
                           IF \E i \in DOMAIN driver.ids : driver.ids[i].id = id THEN Members
                                                                                 ELSE assigned[id]]
        /\ UNCHANGED <<size, joined, formed, base, changes, runs, made, loads, next_matrixID,
                       next_libraryID, known, matrices, libraries, ibcast, handlers, current_matrixID>>
    BY DEF AnswerTask, Through, groupVars, mpiVars
  <1>2. driver.cmd.op = "RUN" /\ Members \subseteq Workers /\ next_libraryID \in LibraryIDs
    BY <1>1, StepsIn DEF InTime, Driving, Forms
  <1>3. /\ Due = {driver.ids[i].id : i \in 1 .. Len(driver.ids)}
        /\ DOMAIN driver.ids = 1 .. Len(driver.ids)
        /\ \A id \in Due : id \in MatrixIDs /\ id < next_matrixID
    <2>1. driver.ids \in Seq(Kept)
      BY DEF Forms, Drivers
    <2>2. Due = {driver.ids[i].id : i \in 1 .. Len(driver.ids)}
      BY <1>2 DEF Due
    <2> QED
      BY <2>1, <2>2, LenProperties DEF Keeping, Commanded
  <1>4. assigned' = [id \in MatrixIDs |-> IF id \in Due THEN Members ELSE assigned[id]]
    <2>1. \A id \in MatrixIDs : (\E i \in DOMAIN driver.ids : driver.ids[i].id = id) <=> id \in Due
      BY <1>3
    <2> QED
      BY <1>1, <2>1
  <1>5. Over = Workers /\ Over' = Workers /\ Making' = {}
    BY <1>1, AnswerOver
  <1> QED
    BY <1>1, <1>2, <1>3, <1>4, <1>5, AnswerKeeps

LEMMA OpenLibraryKeeps ==
    ASSUME Forms, InTime, Forms', InTime', astray = {}, astray' = {}, Keeping, OpenLibrary
    PROVE  Keeping'
  <1>1. /\ driver.at = "LOAD" /\ driver.cmd.op = "LOAD" /\ Due = {} /\ Members \subseteq Workers
        /\ next_libraryID \in LibraryIDs
    BY OpAt, StepsIn DEF OpenLibrary, Through, InTime, Driving, Forms
  <1>2. UNCHANGED <<size, joined, formed, base, changes, runs, made, loads, next_matrixID,
                    next_libraryID, assigned, known, matrices, ibcast, handlers, current_matrixID>>
    BY DEF OpenLibrary, clientVars
  <1>3. CASE 0 \in driver.cmd.fails
    <2>1. driver' = Idle /\ libraries' = libraries /\ Members \subseteq driver.cmd.fails
      BY <1>3 DEF OpenLibrary
    <2>2. assigned' = [id \in MatrixIDs |-> IF id \in Due THEN Members ELSE assigned[id]]
      BY <1>1, <1>2 DEF Keeping, MatricesTold
    <2>3. Over = Workers /\ Over' = Workers /\ Making' = {}
      BY <1>2, <2>1, AnswerOver
    <2> QED
      BY <1>1, <1>2, <2>1, <2>2, <2>3, AnswerKeeps
  <1>4. CASE 0 \notin driver.cmd.fails
    <2>1. Enters("LOADED", "LOADED") /\ libraries' = Insert(libraries, 0, driver.cmd.id, driver.cmd.thing)
      BY <1>4 DEF OpenLibrary
    <2>2. driver'.at = "LOADED" /\ driver'.cmd = driver.cmd /\ driver'.ids = driver.ids
      BY <2>1, EntersIs DEF IsDriver, Places, Names
    <2>3. Over' = Over /\ Making' = Making
      BY <1>2, StayOver
    <2> QED
      BY <1>1, <1>2, <2>1, <2>2, <2>3, OpeningKeeps DEF Untouched
  <1> QED
    BY <1>3, <1>4

\* No member comes to the second barrier of load_library if the library does not load there.
LEMMA LoadedAll ==
    ASSUME Forms, InTime, astray = {}, driver.at = "LOADED", Met(driver.k)
    PROVE  Members \cap driver.cmd.fails = {}
  <1>1. Driving /\ driver.cmd.op = "LOAD" /\ driver.k = Len(barriers[0]) /\ Steps = 2
    BY DEF InTime, Driving, Steps, DriverEntered
  <1>2. ASSUME NEW w \in Members, w \in driver.cmd.fails
        PROVE  FALSE
    <2>1. PICK at \in Ats, i \in Nat : Place(w, at, i)
      BY DEF InTime, InStep
    <2>2. PICK n \in Nat : n = WorkerEntered(driver.cmd, w, at, i)
      BY StepsIn
    <2>3. n >= Steps
      BY <1>1, <2>1, <2>2, MetDriver DEF Place
    <2>4. Fits(driver.cmd, w, at, i)
      BY <2>1 DEF Place, Stands
    <2> QED
      BY <1>1, <1>2, <2>2, <2>3, <2>4 DEF Fits, WorkerEntered
  <1> QED
    BY <1>2

LEMMA AnswerLibraryKeeps ==
    ASSUME Forms, InTime, Forms', InTime', astray = {}, astray' = {}, Keeping, AnswerLibrary
    PROVE  Keeping'
  <1>1. /\ driver.at = "LOADED" /\ driver' = Idle /\ Met(driver.k)
        /\ known' = known \cup {[id |-> next_libraryID, thing |-> driver.cmd.thing]}
        /\ UNCHANGED <<size, joined, formed, base, changes, runs, made, loads, next_matrixID,
                       next_libraryID, assigned, matrices, libraries, ibcast, handlers, current_matrixID>>
    BY DEF AnswerLibrary, Through, groupVars, mpiVars
  <1>2. /\ driver.cmd.op = "LOAD" /\ Due = {} /\ Members \subseteq Workers /\ next_libraryID \in LibraryIDs
        /\ Members \cap driver.cmd.fails = {}
    BY <1>1, OpAt, StepsIn, LoadedAll DEF InTime, Driving, Forms
  <1>3. assigned' = [id \in MatrixIDs |-> IF id \in Due THEN Members ELSE assigned[id]]
    BY <1>1, <1>2 DEF Keeping, MatricesTold
  <1>4. Over = Workers /\ Over' = Workers /\ Making' = {}
    BY <1>1, AnswerOver
  <1> QED
    BY <1>1, <1>2, <1>3, <1>4, AnswerKeeps

LEMMA KeepResultKeeps ==
    ASSUME Forms, InTime, astray = {}, Keeping, KeepResult
    PROVE  Keeping'
  <1>1. PICK new \in Kept, ids \in Seq(Kept) :
            /\ new.id = next_matrixID /\ new.thing = made + 1 /\ ids = Append(driver.ids, new)
            /\ Through("RESULT") /\ made' = made + 1 /\ next_matrixID' = next_matrixID + 1
            /\ matrices' = Insert(matrices, 0, next_matrixID, made + 1)
            /\ Finish(ids) \/ IsDriver(driver', "INFO", driver.cmd, driver.k, ids)
            /\ UNCHANGED <<groupVars, runs, loads, next_libraryID, assigned, known, libraries, ibcast,
                           handlers, current_matrixID>>
    BY KeepResultIs
  <1>2. /\ driver.at = "RESULT" /\ driver.cmd.op = "RUN" /\ Len(driver.ids) < driver.cmd.results
        /\ driver.ids \in Seq(Kept) /\ driver.cmd.results \in Nat /\ Members \subseteq Workers
    BY <1>1, StepsIn DEF Through, InTime, Driving, Forms, Drivers
  <1>3. driver'.at \in {"INFO", "DONE"} /\ driver'.cmd = driver.cmd /\ driver'.ids = Append(driver.ids, new)
    BY <1>1, FinishIs DEF IsDriver
  <1>4. Over' = Over /\ Making' = Making
    BY <1>1, StayOver
  <1>5. Members \cap Over = {}
    <2> SUFFICES ASSUME NEW w \in Members, w \in Over
                 PROVE  FALSE
      OBVIOUS
    <2>1. PICK at \in Ats, i \in Nat : Place(w, at, i)
      BY DEF InTime, InStep
    <2>2. Threads[w] = {} /\ ibcast[w] = <<>>
      BY DEF Over
    <2>3. at = "OUT"
      <3>1. <<driver.cmd.op>> # <<>>
        BY OfOne
      <3> QED
        BY <2>1, <2>2, <3>1 DEF Place, Stands, Thread
    <2>4. Len(driver.ids) \in Nat
      BY <1>2, LenProperties
    <2> QED
      BY <1>2, <2>1, <2>3, <2>4 DEF Place
  <1>6. UNCHANGED <<size, joined, formed, base, changes, runs, loads, next_libraryID, assigned, known,
                    libraries, current_matrixID>>
    BY <1>1 DEF groupVars
  <1> QED
    BY <1>1, <1>2, <1>3, <1>4, <1>5, <1>6, ResultKeeps

LEMMA DriverKeeps ==
    ASSUME Forms, InTime, Forms', InTime', astray = {}, astray' = {}, Keeping, DriverStep
    PROVE  Keeping'
  <1>1. CASE TaskSent \/ RunHere
    <2>1. CASE driver' = driver
      <3>1. Untouched /\ UNCHANGED <<matrices, libraries, current_matrixID, handlers, ibcast>>
        BY <1>1 DEF TaskSent, RunHere, Crash, groupVars, clientVars, mpiVars, Untouched
      <3> QED
        BY <2>1, <3>1, DriverPasses
    <2>2. CASE driver' # driver
      <3>1. /\ driver.at \in {"TASK", "SENT"} /\ (Enters("SENT", "SENT") \/ Enters("RAN", "RAN"))
            /\ UNCHANGED <<matrices, libraries, current_matrixID, handlers, ibcast>> /\ Untouched
        BY <1>1, <2>2 DEF TaskSent, RunHere, Crash, Through, groupVars, clientVars, Untouched
      <3>2. driver'.at \in {"SENT", "RAN"} /\ driver'.cmd = driver.cmd /\ driver'.ids = driver.ids
        BY <3>1, EntersIs DEF IsDriver, Places, Names
      <3> QED
        BY <3>1, <3>2, DriverPasses
    <2> QED
      BY <2>1, <2>2
  <1>2. CASE ReceiveCount
    <2>1. /\ driver.at = "RAN" /\ Untouched
          /\ UNCHANGED <<matrices, libraries, current_matrixID, handlers, ibcast>>
          /\ Finish(<<>>) \/ driver' = [driver EXCEPT !.at = "INFO"]
      BY <1>2 DEF ReceiveCount, Through, groupVars, clientVars, Untouched
    <2>2. driver.ids = <<>> /\ driver \in Drivers /\ <<>> \in Seq(Kept)
      BY <2>1 DEF InTime, Driving, Forms
    <2>3. driver'.at \in {"DONE", "INFO"} /\ driver'.cmd = driver.cmd /\ driver'.ids = driver.ids
      <3>1. CASE Finish(<<>>)
        BY <2>2, <3>1, FinishIs DEF IsDriver
      <3>2. CASE driver' = [driver EXCEPT !.at = "INFO"]
        BY <2>2, <3>2 DEF Drivers
      <3> QED
        BY <2>1, <3>1, <3>2
    <2> QED
      BY <2>1, <2>3, DriverPasses
  <1>3. CASE ReceiveResult
    <2>1. /\ driver.at = "INFO" /\ Enters("RESULT", "RESULT") /\ Untouched
          /\ UNCHANGED <<matrices, libraries, current_matrixID, handlers, ibcast>>
      BY <1>3 DEF ReceiveResult, groupVars, clientVars, Untouched
    <2>2. driver'.at = "RESULT" /\ driver'.cmd = driver.cmd /\ driver'.ids = driver.ids
      BY <2>1, EntersIs DEF IsDriver, Places, Names
    <2> QED
      BY <2>1, <2>2, DriverPasses
  <1> QED
    BY <1>1, <1>2, <1>3, ReceiveGridKeeps, AnswerMatrixKeeps, OpenLibraryKeeps, AnswerLibraryKeeps,
       KeepResultKeeps, AnswerTaskKeeps DEF DriverStep

\* What a command's start leaves to do for all members.
LEMMA StartsAll ==
    ASSUME Forms, InTime, astray = {}, NEW cmd \in Asked, cmd.op \in Codes, Starts(cmd), UNCHANGED handlers
    PROVE  Members \cap Over' = {} /\ Making' = {} /\ driver = Idle /\ Members \subseteq Workers
  <1>1. /\ driver = Idle
        /\ \A w \in Workers : ibcast'[w] = IF w \in Members THEN Append(ibcast[w], cmd.op) ELSE ibcast[w]
    BY StartsIs
  <1>2. Members \subseteq Workers /\ \A w \in Workers : Threads[w] = {} /\ ibcast[w] = <<>>
    BY <1>1, AllOut, StepsIn
  <1>3. \A w \in Members : ibcast'[w] # <<>>
    <2>1. ASSUME NEW w \in Members
          PROVE  ibcast'[w] = Append(<<>>, cmd.op)
      BY <1>1, <1>2
    <2> QED
      BY <2>1, OfOne
  <1>4. Making' = {}
    BY <1>2 DEF Making, Threads
  <1> QED
    BY <1>1, <1>2, <1>3, <1>4 DEF Over

LEMMA NewMatrixKeeps ==
    ASSUME Forms, InTime, astray = {}, Keeping, NewMatrix
    PROVE  Keeping'
  <1>1. PICK cmd \in Asked :
            /\ cmd.op = "NEW_MATRIX" /\ cmd.id = next_matrixID /\ cmd.thing = made + 1
            /\ Starts(cmd) /\ driver'.at = "GRID" /\ driver'.cmd = cmd /\ driver'.ids = <<>>
            /\ made' = made + 1 /\ next_matrixID' = next_matrixID + 1 /\ made < MaxMade
            /\ UNCHANGED <<groupVars, runs, loads, next_libraryID, assigned, known, matrices,
                           libraries, handlers, current_matrixID>>
    BY NewMatrixIs DEF IsAsked
  <1>2. UNCHANGED <<size, joined, formed, base, changes, runs, loads, next_libraryID, assigned, known,
                    matrices, libraries, handlers, current_matrixID>>
    BY <1>1 DEF groupVars
  <1>3. Members \cap Over' = {} /\ Making' = {} /\ driver = Idle /\ Members \subseteq Workers
    BY <1>1, StartsAll DEF Codes
  <1>4. /\ made \in Nat /\ base \in Nat /\ base <= formed /\ formed \in Nat /\ formed <= made
        /\ next_matrixID \in 1 .. made - base + 1 /\ MaxMade \in Nat
    BY NumbersIn DEF Keeping, Counts
  <1>5. Counts'
    <2>1. joined \in [Workers -> 0 .. made'] /\ known \subseteq [id: LibraryIDs, thing: 1 .. made']
          /\ loads \in 0 .. made'
      BY <1>1, <1>4 DEF Keeping, Counts
    <2>2. next_matrixID' \in 1 .. made' - base + 1
      BY <1>1, <1>4
    <2> QED
      BY <1>1, <1>2, <1>4, <2>1, <2>2 DEF Keeping, Counts
  <1>6. Commanded'
    <2>1. next_matrixID \in MatrixIDs /\ next_matrixID < next_matrixID' /\ made + 1 \in formed + 1 .. made'
      BY <1>1, <1>4, NumbersIn
    <2>2. Len(driver'.ids) = 0
      BY <1>1, OfOne
    <2> QED
      BY <1>1, <1>2, <2>1, <2>2 DEF Commanded
  <1> QED
    BY <1>1, <1>2, <1>3, <1>4, <1>5, <1>6, StartKeeps

LEMMA LoadLibraryKeeps ==
    ASSUME Forms, InTime, astray = {}, Keeping, NEW fails \in NotLoadable, LoadLibrary(fails)
    PROVE  Keeping'
  <1>1. PICK cmd \in Asked :
            /\ cmd.op = "LOAD" /\ cmd.id = next_libraryID' /\ cmd.thing = made + 1
            /\ Starts(cmd) /\ driver'.at = "LOAD" /\ driver'.cmd = cmd /\ driver'.ids = <<>>
            /\ made' = made + 1 /\ loads' = loads + 1 /\ made < MaxMade
            /\ UNCHANGED <<groupVars, runs, next_matrixID, assigned, known, matrices,
                           libraries, handlers, current_matrixID>>
    BY LoadLibraryIs DEF IsAsked
  <1>2. UNCHANGED <<size, joined, formed, base, changes, runs, next_matrixID, assigned, known,
                    matrices, libraries, handlers, current_matrixID>>
    BY <1>1 DEF groupVars
  <1>3. Members \cap Over' = {} /\ Making' = {} /\ driver = Idle /\ Members \subseteq Workers
    BY <1>1, StartsAll DEF Codes
  <1>4. /\ made \in Nat /\ base \in Nat /\ base <= formed /\ formed \in Nat /\ formed <= made
        /\ next_matrixID \in 1 .. made - base + 1 /\ MaxMade \in Nat /\ loads \in 0 .. made
    BY NumbersIn DEF Keeping, Counts
  <1>5. Counts'
    <2>1. joined \in [Workers -> 0 .. made'] /\ known \subseteq [id: LibraryIDs, thing: 1 .. made']
          /\ loads' \in 0 .. made'
      BY <1>1, <1>4 DEF Keeping, Counts
    <2>2. next_matrixID' \in 1 .. made' - base + 1
      BY <1>1, <1>4
    <2> QED
      BY <1>1, <1>2, <1>4, <2>1, <2>2 DEF Keeping, Counts
  <1>6. Commanded'
    <2>1. made + 1 \in 1 .. made'
      BY <1>1, <1>4
    <2>2. Len(driver'.ids) = 0
      BY <1>1, OfOne
    <2> QED
      BY <1>1, <2>1, <2>2 DEF Commanded
  <1> QED
    BY <1>1, <1>2, <1>3, <1>4, <1>5, <1>6, StartKeeps

LEMMA RunTaskKeeps ==
    ASSUME Forms, InTime, astray = {}, Keeping, NEW lib \in known, NEW arg \in Nat,
           NEW n \in 0 .. MaxResults, RunTask(lib, arg, n)
    PROVE  Keeping'
  <1>1. PICK cmd \in Asked :
            /\ cmd.op = "RUN" /\ cmd.id = lib.id /\ cmd.thing = lib.thing /\ cmd.arg = arg
            /\ cmd.results = n
            /\ Starts(cmd) /\ driver'.at = "TASK" /\ driver'.cmd = cmd /\ driver'.ids = <<>>
            /\ runs < MaxRuns /\ runs' = runs + 1 /\ made + n <= MaxMade
            /\ arg \in {0} \cup {id \in MatrixIDs : assigned[id] # {}}
            /\ UNCHANGED <<groupVars, made, clientVars, matrices, libraries, handlers, current_matrixID>>
    <2>1. n \in Nat
      BY CommandsAssumption
    <2> QED
      BY <2>1, RunTaskIs DEF IsAsked
  <1>2. UNCHANGED <<size, joined, formed, base, changes, made, loads, next_matrixID, next_libraryID,
                    assigned, known, matrices, libraries, handlers, current_matrixID>>
    BY <1>1 DEF groupVars, clientVars
  <1>3. Members \cap Over' = {} /\ Making' = {} /\ driver = Idle /\ Members \subseteq Workers
    BY <1>1, StartsAll DEF Codes
  <1>4. Counts'
    BY SMTT(30), <1>1, <1>2, CommandsAssumption DEF Keeping, Counts
  <1>5. Commanded'
    <2>1. Len(driver'.ids) = 0 /\ made \in Nat /\ MaxResults \in Nat
      BY <1>1, OfOne, CommandsAssumption DEF Forms
    <2>2. made' + n - Len(driver'.ids) <= MaxMade /\ n <= MaxResults
      BY <1>1, <1>2, <2>1, NumbersIn
    <2> QED
      BY <1>1, <1>2, <2>1, <2>2 DEF Commanded
  <1>6. made' >= made
    BY <1>2 DEF Forms
  <1> QED
    BY <1>1, <1>2, <1>3, <1>4, <1>5, <1>6, StartKeeps

LEMMA NextKeeps ==
    ASSUME Forms, InTime, Forms', InTime', astray' = {}, Keeping, [Next]_vars
    PROVE  astray = {} /\ Keeping'
  <1>1. astray = {}
    BY DEF Next, NewMatrix, LoadLibrary, RunTask, DriverStep, ReceiveGrid, AnswerMatrix, OpenLibrary,
           AnswerLibrary, TaskSent, RunHere, ReceiveCount, ReceiveResult, KeepResult, AnswerTask,
           GroupCommand, HandlerStep, AccessMatrix, ChangeGroup, Crash, groupVars, vars
  <1>2. CASE NewMatrix
    BY <1>1, <1>2, NewMatrixKeeps
  <1>3. ASSUME NEW fails \in NotLoadable, LoadLibrary(fails)
        PROVE  Keeping'
    BY <1>1, <1>3, LoadLibraryKeeps
  <1>4. ASSUME NEW lib \in known, NEW arg \in 0 .. MaxMade + 1, NEW n \in 0 .. MaxResults,
               RunTask(lib, arg, n)
        PROVE  Keeping'
    <2>1. arg \in Nat
      BY CommandsAssumption
    <2> QED
      BY <1>1, <1>4, <2>1, RunTaskKeeps
  <1>5. CASE DriverStep
    BY <1>1, <1>5, DriverKeeps
  <1>6. ASSUME NEW w \in Workers, GroupCommand(w)
        PROVE  Keeping'
    BY <1>6, CommandKeeps
  <1>7. ASSUME NEW w \in Workers, HandlerStep(w)
        PROVE  Keeping'
    BY <1>1, <1>7, HandlerKeeps
  <1>8. ASSUME NEW w \in Workers, NEW id \in MatrixIDs, AccessMatrix(w, id)
        PROVE  Keeping'
    <2>1. Untouched /\ UNCHANGED <<matrices, libraries, current_matrixID, handlers, ibcast, driver>>
      BY <1>8 DEF AccessMatrix, Crash, vars, groupVars, clientVars, mpiVars, Untouched
    <2> QED
      BY <2>1, DriverPasses
  <1>9. ASSUME NEW n \in 0 .. NumWorkers, NEW newClient \in BOOLEAN, ChangeGroup(n, newClient)
        PROVE  Keeping'
    <2>1. AtRest'
      BY <1>9 DEF ChangeGroup, AtRest
    <2>2. AllDone'
      BY <2>1, AllOver, PTL
    <2>3. Making' = {}
      BY <2>2 DEF AllDone
    <2> QED
      BY <1>9, <2>3, ChangeKeeps
  <1>10. CASE UNCHANGED vars
    <2>1. Untouched /\ UNCHANGED <<matrices, libraries, current_matrixID, handlers, ibcast, driver>>
      BY <1>10 DEF vars, groupVars, clientVars, mpiVars, Untouched
    <2> QED
      BY <1>1, <2>1, DriverPasses
  <1> QED
    BY <1>1, <1>2, <1>3, <1>4, <1>5, <1>6, <1>7, <1>8, <1>9, <1>10 DEF Next

LEMMA BeginsKeeping == Init => Keeping
  <1> SUFFICES ASSUME Init PROVE Keeping
    OBVIOUS
  <1>1. /\ size = 0 /\ joined = [w \in Workers |-> 0] /\ formed = 0 /\ base = 0 /\ changes = 0
        /\ runs = 0 /\ made = 0 /\ loads = 0 /\ next_matrixID = 1
        /\ matrices = [p \in Ranks |-> [id \in MatrixIDs |-> 0]]
        /\ libraries = [p \in Ranks |-> [id \in LibraryIDs |-> 0]]
        /\ assigned = [id \in MatrixIDs |-> {}] /\ known = {} /\ driver = Idle /\ handlers = {}
        /\ current_matrixID = [w \in Workers |-> 0]
    BY DEF Init
  <1>2. /\ driver.at = "IDLE" /\ driver.cmd.op = "NONE" /\ Len(driver.ids) = 0
        /\ 0 \in Ranks /\ Workers \subseteq Ranks /\ Members = {} /\ MaxMade \in Nat
    BY <1>1, NoCommandIs, OfOne, SpanIs, NumbersIn DEF Members
  <1>3. Due = {} /\ Making = {}
    BY <1>1, <1>2 DEF Due, Making, Threads
  <1>4. Counts
    BY <1>1, CommandsAssumption DEF Counts
  <1>5. Commanded /\ MatricesForm /\ MatricesSame /\ LibrariesForm /\ LibrariesSame
    BY <1>1, <1>2 DEF Commanded, MatricesForm, MatricesSame, LibrariesForm, LibrariesSame
  <1>6. MatricesThere /\ LibrariesThere
    BY <1>1, <1>2 DEF MatricesThere, LibrariesThere
  <1>7. MatricesTold
    BY <1>1, <1>2, <1>3 DEF MatricesTold
  <1> QED
    BY <1>4, <1>5, <1>6, <1>7 DEF Keeping

-----------------------------------------------------------------------------
(* What ends the job.                                                        *)
JobForm == job \in [why: {"running", "null_library", "null_matrix", "freed_grid"}, p: Ranks,
                    id: {0} \cup MatrixIDs]

\* The job ended by something older than the last change of its group.
ByOldThings ==
    \/ job.why = "null_library" /\ joined[job.p] >= driver.cmd.thing
    \/ job.why = "null_matrix" /\ joined[job.p] >= matrices[0][job.id]
    \/ /\ job.why = "freed_grid"
       /\ matrices[0][job.id] <= formed \/ matrices[job.p][job.id] <= base

Sound == astray = {} => Keeping /\ JobForm /\ (job # Running => ByOldThings)

LEMMA EndedIs ==
    ASSUME NEW why \in {"running", "null_library", "null_matrix", "freed_grid"}, NEW p \in Ranks,
           NEW id \in {0} \cup MatrixIDs
    PROVE  /\ Ended(why, p, id).why = why /\ Ended(why, p, id).p = p /\ Ended(why, p, id).id = id
           /\ Ended(why, p, id) \in [why: {"running", "null_library", "null_matrix", "freed_grid"},
                                     p: Ranks, id: {0} \cup MatrixIDs]
  BY DEF Ended

\* A job that has ended does nothing.
LEMMA EndsThere ==
    ASSUME [Next]_vars, job # Running
    PROVE  UNCHANGED vars
  BY DEF Next, NewMatrix, LoadLibrary, RunTask, Starts, DriverStep, ReceiveGrid, AnswerMatrix,
         OpenLibrary, AnswerLibrary, TaskSent, RunHere, ReceiveCount, ReceiveResult, KeepResult,
         AnswerTask, Through, GroupCommand, HandlerStep, AccessMatrix, ChangeGroup

\* How it can end: in the driver's or a worker's call of a library, or in a worker's access
\* to a matrix.
CallsHere == Through("SENT") /\ libraries[0][driver.cmd.id] = 0

CallsThere(w, h, why) ==
    /\ h.w = w /\ h.op = "RUN" /\ h.at = "SENT" /\ job' = Ended(why, w, h.cmd.arg)
    /\ \/ why = "null_library" /\ libraries[w][h.cmd.id] = 0
       \/ h.cmd.arg # 0 /\ why \in Trouble(w, h.cmd.arg) \ {"none"}

Accesses(w, id, why) ==
    w \in assigned[id] /\ why \in Trouble(w, id) \ {"none"} /\ job' = Ended(why, w, id)

LEMMA HowItEnds ==
    ASSUME [Next]_vars, job' # job
    PROVE  /\ UNCHANGED <<joined, formed, base, driver, matrices>>
           /\ \/ CallsHere
              \/ \E w \in Workers, h \in handlers : \E why : CallsThere(w, h, why)
              \/ \E w \in Workers, id \in MatrixIDs : \E why : Accesses(w, id, why)
  <1>1. CASE DriverStep
    <2>1. RunHere /\ libraries[0][driver.cmd.id] = 0
      BY <1>1 DEF DriverStep, ReceiveGrid, AnswerMatrix, OpenLibrary, AnswerLibrary, TaskSent, RunHere,
                  ReceiveCount, ReceiveResult, KeepResult, AnswerTask
    <2> QED
      BY <2>1 DEF RunHere, Crash, CallsHere, groupVars
  <1>2. ASSUME NEW w \in Workers, HandlerStep(w)
        PROVE  /\ UNCHANGED <<joined, formed, base, driver, matrices>>
               /\ \E h \in handlers : \E why : CallsThere(w, h, why)
    <2>1. PICK h \in handlers :
              /\ h.w = w
              /\ \/ TakeMatrix(h) \/ MakeMatrix(h) \/ TakeLibrary(h) \/ KeepLibrary(h)
                 \/ TakeTask(h) \/ CopyTask(h) \/ RunTaskHere(h)
                 \/ CountResults(h) \/ SendResult(h) \/ KeepResults(h)
      BY <1>2 DEF HandlerStep
    <2>2. RunTaskHere(h)
      BY <2>1 DEF TakeMatrix, MakeMatrix, TakeLibrary, KeepLibrary, TakeTask, CopyTask,
                  CountResults, SendResult, KeepResults
    <2>3. UNCHANGED <<joined, formed, base, driver, matrices>>
      BY <1>2, <2>2 DEF HandlerStep, RunTaskHere, groupVars
    <2>4. PICK why \in IF libraries[w][h.cmd.id] = 0 THEN {"null_library"}
                       ELSE IF h.cmd.arg = 0 THEN {"none"} ELSE Trouble(w, h.cmd.arg) :
              why # "none" /\ job' = Ended(why, w, h.cmd.arg)
      BY <2>1, <2>2 DEF RunTaskHere
    <2>5. CallsThere(w, h, why)
      BY <2>1, <2>2, <2>4 DEF CallsThere, RunTaskHere, Arrived
    <2> QED
      BY <2>3, <2>5
  <1>3. ASSUME NEW w \in Workers, NEW id \in MatrixIDs, AccessMatrix(w, id)
        PROVE  /\ UNCHANGED <<joined, formed, base, driver, matrices>>
               /\ \E why : Accesses(w, id, why)
    <2>1. PICK why \in Trouble(w, id) : why # "none" /\ Crash(why, w, id)
      BY <1>3 DEF AccessMatrix, vars
    <2>2. Accesses(w, id, why) /\ UNCHANGED <<joined, formed, base, driver, matrices>>
      BY <1>3, <2>1 DEF Accesses, AccessMatrix, Crash, groupVars
    <2> QED
      BY <2>2
  <1>4. \/ DriverStep
        \/ \E w \in Workers : HandlerStep(w)
        \/ \E w \in Workers, id \in MatrixIDs : AccessMatrix(w, id)
    BY DEF Next, NewMatrix, LoadLibrary, RunTask, GroupCommand, ChangeGroup, vars
  <1> QED
    BY <1>1, <1>2, <1>3, <1>4

LEMMA TroubleIs ==
    ASSUME InTime, astray = {}, Keeping, NEW w \in Workers, NEW id \in MatrixIDs,
           NEW why \in Trouble(w, id) \ {"none"}
    PROVE  \/ why = "null_matrix" /\ matrices[w][id] = 0
           \/ why = "freed_grid" /\ (matrices[0][id] <= formed \/ matrices[w][id] <= base)
  <1>1. CASE matrices[w][id] = 0
    BY <1>1 DEF Trouble
  <1>2. CASE matrices[w][id] # 0
    <2>1. why = "freed_grid" /\ matrices[w][id] <= formed
      BY <1>2 DEF Trouble
    <2>2. driver.at = "GRID" => driver.cmd.thing \in formed + 1 .. made
      BY DEF InTime, Driving, Keeping, Commanded
    <2>3. formed \in Nat /\ made \in Nat
      BY DEF Keeping, Counts
    <2>4. ~ (driver.at = "GRID" /\ matrices[w][id] = driver.cmd.thing)
      BY <2>1, <2>2, <2>3
    <2> QED
      BY <2>1, <2>4 DEF Keeping, MatricesSame
  <1> QED
    BY <1>1, <1>2

\* Neither the driver nor a worker of the group since then has trouble with what is known.
LEMMA EndsByOldThings ==
    ASSUME Forms, InTime, astray = {}, Keeping, [Next]_vars, job' # job
    PROVE  JobForm' /\ ByOldThings'
  <1>1. UNCHANGED <<joined, formed, base, driver, matrices>>
    BY HowItEnds
  <1>2. Workers \subseteq Ranks /\ 0 \in Ranks
    BY SpanIs
  <1>3. ~ CallsHere
    <2> SUFFICES ASSUME CallsHere PROVE FALSE
      OBVIOUS
    <2>1. driver.cmd.op = "RUN" /\ libraries[0][driver.cmd.id] = 0
      BY DEF CallsHere, Through, InTime, Driving
    <2> QED
      BY <2>1 DEF Keeping, Commanded, LibrariesForm
  <1>4. ASSUME NEW w \in Workers, NEW id \in {0} \cup MatrixIDs,
               NEW why \in {"null_library", "null_matrix", "freed_grid"}, job' = Ended(why, w, id),
               \/ why = "null_library" /\ joined[w] >= driver.cmd.thing
               \/ why = "null_matrix" /\ joined[w] >= matrices[0][id]
               \/ why = "freed_grid" /\ (matrices[0][id] <= formed \/ matrices[w][id] <= base)
        PROVE  JobForm' /\ ByOldThings'
    <2>1. job'.why = why /\ job'.p = w /\ job'.id = id
      BY <1>2, <1>4, EndedIs
    <2>2. JobForm'
      BY <1>2, <1>4, EndedIs DEF JobForm
    <2> QED
      BY <1>1, <1>4, <2>1, <2>2 DEF ByOldThings
  <1>5. ASSUME NEW w \in Workers, NEW h \in handlers, NEW why, CallsThere(w, h, why)
        PROVE  JobForm' /\ ByOldThings'
    <2>1. Live(h) /\ h.w = w /\ h.op = "RUN" /\ h.at = "SENT" /\ job' = Ended(why, w, h.cmd.arg)
      BY <1>5 DEF CallsThere, Live
    <2>2. Here(h, w)
      BY <2>1, HandlerHere
    <2>3. h.cmd = driver.cmd /\ driver.cmd.op = "RUN" /\ w \in Members
      BY <2>1, <2>2 DEF Here
    <2>4. joined[w] \in Nat /\ driver.cmd.thing \in Nat /\ matrices \in [Ranks -> [MatrixIDs -> 0 .. made]]
      <3>1. made \in Nat /\ joined \in [Workers -> 0 .. made]
        BY DEF Keeping, Counts
      <3>2. joined[w] \in Nat
        BY <3>1
      <3>3. driver.cmd.thing \in Nat
        BY DEF Forms, Drivers, Asked
      <3> QED
        BY <3>2, <3>3 DEF Keeping, MatricesForm
    <2>5. CASE why = "null_library" /\ libraries[w][driver.cmd.id] = 0
      <3>1. ~ (joined[w] < driver.cmd.thing)
        BY <2>3, <2>5 DEF Keeping, Commanded, LibrariesThere
      <3>2. driver.cmd.arg \in {0} \cup MatrixIDs
        BY <2>3 DEF Keeping, Commanded
      <3>3. joined[w] >= driver.cmd.thing
        BY <2>4, <3>1
      <3>4. job' = Ended(why, w, driver.cmd.arg)
        BY <2>1, <2>3
      <3>5. why \in {"null_library", "null_matrix", "freed_grid"}
        BY <2>5
      <3> QED
        BY <1>4, <2>5, <3>2, <3>3, <3>4, <3>5
    <2>6. CASE driver.cmd.arg # 0 /\ why \in Trouble(w, driver.cmd.arg) \ {"none"}
      <3>1. PICK arg \in MatrixIDs : arg = driver.cmd.arg /\ assigned[arg] # {}
        BY <2>3, <2>6 DEF Keeping, Commanded
      <3>2. \/ why = "null_matrix" /\ matrices[w][arg] = 0
            \/ why = "freed_grid" /\ (matrices[0][arg] <= formed \/ matrices[w][arg] <= base)
        BY <2>6, <3>1, TroubleIs
      <3>3. matrices[w][arg] = 0 => ~ (matrices[0][arg] > joined[w])
        BY <2>3, <3>1 DEF Keeping, MatricesThere, MatricesTold
      <3>4. matrices[0][arg] \in 0 .. made
        BY <1>2, <2>4
      <3>5. matrices[w][arg] = 0 => joined[w] >= matrices[0][arg]
        BY <2>4, <3>3, <3>4
      <3> QED
        BY <1>4, <2>1, <2>3, <3>1, <3>2, <3>5
    <2> QED
      BY <1>5, <2>3, <2>5, <2>6 DEF CallsThere
  <1>6. ASSUME NEW w \in Workers, NEW id \in MatrixIDs, NEW why, Accesses(w, id, why)
        PROVE  JobForm' /\ ByOldThings'
    <2>1. w \in assigned[id] /\ why \in Trouble(w, id) \ {"none"} /\ job' = Ended(why, w, id)
      BY <1>6 DEF Accesses
    <2>2. matrices[w][id] # 0
      BY <2>1 DEF Keeping, MatricesTold
    <2>3. why = "freed_grid" /\ (matrices[0][id] <= formed \/ matrices[w][id] <= base)
      BY <2>1, <2>2, TroubleIs
    <2> QED
      BY <1>4, <2>1, <2>3
  <1> QED
    BY <1>3, <1>5, <1>6, HowItEnds

\* The inductive invariant.
LEMMA AlwaysSound == Spec => [](Forms /\ InTime /\ Sound)
  <1>1. Init => Forms /\ InTime /\ Sound
    <2> SUFFICES ASSUME Init PROVE Sound
      BY Beginning, BeginsInTime
    <2>1. JobForm /\ job = Running
      BY SpanIs, EndedIs DEF Init, JobForm, Running
    <2> QED
      BY <2>1, BeginsKeeping DEF Sound
  <1>2. Forms /\ InTime /\ Sound /\ [Next]_vars => (Forms /\ InTime /\ Sound)'
    <2> SUFFICES ASSUME Forms, InTime, Sound, [Next]_vars
                 PROVE  (Forms /\ InTime /\ Sound)'
      OBVIOUS
    <2>1. Forms' /\ InTime'
      BY NextForms, NextInTime
    <2>2. ASSUME astray' = {}, astray = {}
          PROVE  JobForm' /\ (job' # Running => ByOldThings')
      <3>1. CASE job' # job
        BY <2>2, <3>1, EndsByOldThings DEF Sound
      <3>2. CASE job' = job /\ job = Running
        BY <2>2, <3>2 DEF Sound, JobForm
      <3>3. CASE job' = job /\ job # Running
        <4>1. UNCHANGED <<job, joined, formed, base, driver, matrices>>
          BY <3>3, EndsThere DEF vars, groupVars
        <4> QED
          BY <2>2, <3>3, <4>1 DEF Sound, JobForm, ByOldThings
      <3> QED
        BY <3>1, <3>2, <3>3
    <2>3. Sound'
      <3> SUFFICES ASSUME astray' = {}
                   PROVE  Keeping' /\ JobForm' /\ (job' # Running => ByOldThings')
        BY DEF Sound
      <3>1. astray = {}
        BY DEF Next, NewMatrix, LoadLibrary, RunTask, DriverStep, ReceiveGrid, AnswerMatrix, OpenLibrary,
               AnswerLibrary, TaskSent, RunHere, ReceiveCount, ReceiveResult, KeepResult, AnswerTask,
               GroupCommand, HandlerStep, AccessMatrix, ChangeGroup, Crash, groupVars, vars
      <3>2. Keeping
        BY <3>1 DEF Sound
      <3> QED
        BY <2>1, <2>2, <3>1, <3>2, NextKeeps
    <2> QED
      BY <2>1, <2>3
  <1> QED
    BY <1>1, <1>2, PTL DEF Spec

(* Once the client is answered, its workers have under every ID what the     *)
(* driver has there: matrices of new_matrix and of tasks, which driver and    *)
(* workers number in two places, and libraries, on every worker that was in   *)
(* the group when they were made; or what map::insert found there of an       *)
(* earlier client.  Until a library has gone astray.                          *)
THEOREM ThingsAreTheSame == Spec => [](astray = {} => SameThings)
  <1>1. Forms /\ InTime /\ Sound => (astray = {} => SameThings)
    <2> SUFFICES ASSUME Forms, Sound, astray = {}, driver = Idle, NEW w \in Members
                 PROVE  /\ \A id \in MatrixIDs : matrices[0][id] > joined[w] =>
                              matrices[w][id] = matrices[0][id] \/ matrices[w][id] \in 1 .. base
                        /\ \A id \in LibraryIDs : libraries[0][id] > joined[w] =>
                              libraries[w][id] = libraries[0][id] \/ libraries[w][id] \in 1 .. base
      BY DEF SameThings, Answered
    <2>1. /\ driver.at = "IDLE" /\ Due = {} /\ w \in Workers /\ w \in Ranks /\ 0 \in Ranks /\ Keeping
          /\ base \in Nat /\ made \in Nat /\ joined[w] \in Nat
      <3>1. driver.at = "IDLE" /\ Due = {}
        BY NoCommandIs, NothingDue
      <3>2. w \in Workers /\ w \in Ranks /\ 0 \in Ranks
        BY StepsIn, SpanIs
      <3>3. Keeping
        BY DEF Sound
      <3>4. base \in Nat /\ made \in Nat /\ joined \in [Workers -> 0 .. made]
        BY <3>3 DEF Keeping, Counts
      <3>5. joined[w] \in Nat
        BY <3>2, <3>4
      <3> QED
        BY <3>1, <3>2, <3>3, <3>4, <3>5
    <2>2. ASSUME NEW id \in MatrixIDs, matrices[0][id] > joined[w]
          PROVE  matrices[w][id] = matrices[0][id] \/ matrices[w][id] \in 1 .. base
      <3>1. matrices[w][id] # 0 /\ matrices[w][id] \in 0 .. made
        BY <2>1, <2>2 DEF Keeping, MatricesThere, MatricesForm
      <3>2. matrices[w][id] <= base \/ matrices[w][id] = matrices[0][id]
        BY <2>1 DEF Keeping, MatricesSame
      <3> QED
        BY <2>1, <3>1, <3>2
    <2>3. ASSUME NEW id \in LibraryIDs, libraries[0][id] > joined[w]
          PROVE  libraries[w][id] = libraries[0][id] \/ libraries[w][id] \in 1 .. base
      <3>1. libraries[w][id] # 0 /\ libraries[w][id] \in 0 .. made /\ libraries[0][id] \in 0 .. made
        BY <2>1, <2>3 DEF Keeping, LibrariesThere, LibrariesForm
      <3>2. \/ libraries[w][id] <= base \/ libraries[w][id] = libraries[0][id]
            \/ libraries[0][id] <= joined[w]
        BY <2>1 DEF Keeping, LibrariesSame
      <3> QED
        BY <2>1, <2>3, <3>1, <3>2
    <2> QED
      BY <2>2, <2>3
  <1> QED
    BY <1>1, AlwaysSound, PTL

(* Null pointers of the libraries and matrices maps and freed grids are met   *)
(* only with what is older than the group's last change: a library or matrix  *)
(* that a worker joined too late for, or a matrix on a grid of the group as   *)
(* it was.  Whatever else a client does with what it was told of, in whatever *)
(* order of the workers, does not end the job.                                *)
THEOREM OnlyOldThings == Spec => []OnlyOldThingsFail
  <1>1. Sound => OnlyOldThingsFail
    BY DEF Sound, OnlyOldThingsFail, ByOldThings
  <1> QED
    BY <1>1, AlwaysSound, PTL

\* What the primary has sent is a number of results or nothing.
LEMMA SendsForm ==
    ASSUME Forms, InTime, astray = {}, Keeping
    PROVE  sends \in Seq(0 .. MaxResults)
  <1>1. MaxResults \in Nat /\ sends \in Seq(Nat)
    BY CommandsAssumption DEF Forms
  <1>2. CASE size = 0
    BY <1>2 DEF InTime, Driving
  <1>3. CASE size # 0
    <2>1. Primary \in Members
      BY <1>3 DEF Forms, Members, Primary
    <2>2. PICK at \in Ats, i \in Nat : Place(Primary, at, i)
      BY <2>1 DEF InTime, InStep
    <2>3. PICK n \in Nat : n = Said(driver.cmd, at, i)
      BY <2>1, StepsIn
    <2>4. Told(n)
      BY <2>2, <2>3 DEF Place
    <2>5. \A k : Message(driver.cmd, k) \in 0 .. MaxResults
      <3>1. driver.cmd.results \in Nat /\ (driver.cmd.op = "RUN" => driver.cmd.results <= MaxResults)
        BY DEF Forms, Drivers, Asked, Keeping, Commanded
      <3> QED
        BY <1>1, <3>1 DEF Message
    <2>6. \A k \in 1 .. Len(sends) : sends[k] \in 0 .. MaxResults
      BY <2>4, <2>5 DEF Told
    <2> QED
      BY <1>1, <2>6, LenProperties, IsASeq
  <1> QED
    BY <1>2, <1>3

(* TypeOK.  The IDs that driver and workers give out and send each other are  *)
(* IDs, also when next_libraryID comes round, and the messages of a task are  *)
(* counts of its results, until a library has gone astray.                    *)
THEOREM TypeCorrect == Spec => [](astray = {} => TypeOK)
  <1>1. Forms /\ InTime /\ Sound => (astray = {} => TypeOK)
    <2> SUFFICES ASSUME Forms, InTime, Sound, astray = {}
                 PROVE  TypeOK
      OBVIOUS
    <2>1. Keeping /\ JobForm
      BY DEF Sound
    <2>2. /\ size \in 0 .. NumWorkers /\ changes \in 0 .. MaxChanges /\ runs \in 0 .. MaxRuns
          /\ next_libraryID \in LibraryIDs /\ astray \subseteq Things
      BY <2>1 DEF Forms, Keeping, Counts
    <2>3. /\ base \in Nat /\ formed \in Nat /\ made \in Nat /\ base <= formed /\ formed <= made
          /\ made <= MaxMade /\ MaxMade \in Nat
      BY <2>1, NumbersIn DEF Keeping, Counts
    <2>4. /\ base \in 0 .. MaxMade /\ formed \in base .. MaxMade /\ made \in 0 .. MaxMade
          /\ 0 .. made \subseteq 0 .. MaxMade /\ 1 .. made \subseteq Things
          /\ 1 .. made - base + 1 \subseteq MatrixIDs
      BY <2>3 DEF Things, MatrixIDs
    <2>5. /\ joined \in [Workers -> 0 .. MaxMade] /\ loads \in 0 .. MaxMade /\ next_matrixID \in MatrixIDs
          /\ known \subseteq [id: LibraryIDs, thing: Things]
      BY <2>1, <2>4 DEF Keeping, Counts
    <2>6. /\ matrices \in [Ranks -> [MatrixIDs -> 0 .. MaxMade]]
          /\ libraries \in [Ranks -> [LibraryIDs -> 0 .. MaxMade]]
      BY <2>1, <2>4 DEF Keeping, MatricesForm, LibrariesForm
    <2>7. /\ assigned \in [MatrixIDs -> SUBSET Workers]
          /\ current_matrixID \in [Workers -> 0 .. MaxMade + 1]
      BY <2>1 DEF Keeping, MatricesTold
    <2>8. /\ driver.at \in {"IDLE", "GRID", "MADE", "LOAD", "LOADED", "TASK", "SENT", "RAN",
                            "INFO", "RESULT", "DONE"}
          /\ ibcast \in [Workers -> Seq({"NEW_MATRIX", "LOAD", "RUN"})]
          /\ \A h \in handlers : h.w \in Workers
      BY DEF Forms, Drivers, Handlers, Codes
    <2>9. sends \in Seq(0 .. MaxResults)
      BY <2>1, SendsForm
    <2>10. job \in [why: {"running", "null_library", "null_matrix", "freed_grid"}, p: Ranks,
                    id: {0} \cup MatrixIDs]
      BY <2>1 DEF JobForm
    <2> QED
      BY <2>2, <2>4, <2>5, <2>6, <2>7, <2>8, <2>9, <2>10 DEF TypeOK
  <1> QED
    BY <1>1, AlwaysSound, PTL

=============================================================================
