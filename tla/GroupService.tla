----------------------------- MODULE GroupService -----------------------------
(***************************************************************************)
(* What a client gets from set_group_communicator, with no communicator,   *)
(* barrier, broadcast or thread in sight: a change of its group first has  *)
(* every worker stop serving the group, then has every worker it holds by  *)
(* then start, and is answered when just those serve it.  Other groups     *)
(* notice nothing.  The service may end when a group holds workers that    *)
(* are not the lowest ones, and at any time once it has stopped a worker;  *)
(* until then it does not.  GroupLifecycle, the message passing of driver  *)
(* and workers, is checked to implement it.                                *)
(***************************************************************************)
EXTENDS Integers

CONSTANTS Workers,   \* 1 .. the number of workers
          Groups     \* group IDs

VARIABLES
    members,    \* members[g]: the workers group g holds
    serving,    \* serving[g]: the workers that accept g's client and take its commands
    change,     \* the group that is changing, and how far it is
    worn,       \* a group that was served has been changed
    up          \* the job is running

vars == <<members, serving, change, worn, up>>

Still == [g |-> 0, phase |-> "none"]

Lease == INSTANCE WorkerLease WITH held <- members, GroupIDs <- Groups

Init ==
    /\ members = [g \in Groups |-> {}] /\ serving = [g \in Groups |-> {}]
    /\ change = Still
    /\ worn = FALSE
    /\ up = TRUE

\* A client is granted workers or gives some back; its first ones have none before
\* them that could be serving.
Begin(g, S) ==
    /\ change = Still
    /\ Lease!Grant(g, S) \/ Lease!Return(g, S)
    /\ \E phase \in {"stop", "start"} :
           /\ phase = "start" => serving[g] = {}
           /\ change' = [g |-> g, phase |-> phase]
           /\ worn' = (worn \/ phase = "stop")
    /\ UNCHANGED <<serving, up>>

Stop(w) ==
    /\ change.phase = "stop" /\ w \in serving[change.g]
    /\ serving' = [serving EXCEPT ![change.g] = @ \ {w}]
    /\ UNCHANGED <<members, change, worn, up>>

AllStopped ==
    /\ change.phase = "stop" /\ serving[change.g] = {}
    /\ change' = [change EXCEPT !.phase = "start"]
    /\ UNCHANGED <<members, serving, worn, up>>

Start(w) ==
    /\ change.phase = "start" /\ w \in members[change.g] \ serving[change.g]
    /\ serving' = [serving EXCEPT ![change.g] = @ \cup {w}]
    /\ UNCHANGED <<members, change, worn, up>>

\* The client is answered.
Complete ==
    /\ change.phase = "start" /\ serving[change.g] = members[change.g]
    /\ change' = Still
    /\ UNCHANGED <<members, serving, worn, up>>

\* get_process_grid takes the workers' IDs for their ranks, which they are only for
\* the lowest workers.
Fail ==
    /\ change.phase = "start" /\ serving[change.g] = members[change.g]
    /\ \E w \in members[change.g], v \in Workers \ members[change.g] : v < w
    /\ up' = FALSE
    /\ UNCHANGED <<members, serving, change, worn>>

\* The threads that free a group are not in step with those of the next one.
Break ==
    /\ worn
    /\ up' = FALSE
    /\ UNCHANGED <<members, serving, change, worn>>

Next ==
    /\ up
    /\ \/ \E g \in Groups, S \in SUBSET Workers : Begin(g, S)
       \/ \E w \in Workers : Stop(w) \/ Start(w)
       \/ AllStopped \/ Complete \/ Fail \/ Break

\* Every change comes to its end, or the service does.
Ended == change # Still ~> (change = Still \/ ~ up)

Spec == Init /\ [][Next]_vars /\ Ended

-----------------------------------------------------------------------------
(* A client that has no change of its group under way is served by the       *)
(* workers it holds, all of them and no others.                              *)
Whole == \A g \in Groups : change = Still \/ g # change.g => serving[g] = members[g]

(* No worker ever serves two groups, nor one group while another one has     *)
(* already been granted it: a change that takes workers away is over for     *)
(* them before anybody is granted them.                                      *)
NeverShared == \A g, h \in Groups : g # h => serving[g] \cap (members[h] \cup serving[h]) = {}
=============================================================================
