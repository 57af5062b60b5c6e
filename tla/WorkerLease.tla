----------------------------- MODULE WorkerLease -----------------------------
(***************************************************************************)
(* What the driver promises about its workers, with no vectors, maps or    *)
(* communicators in sight: a worker is leased to at most one group, a      *)
(* grant takes the lowest free worker IDs, a worker that a group gives     *)
(* back is free again, and nothing else moves a worker.  WorkerPool is the *)
(* bookkeeping of Driver.cpp that is checked and proved to implement it.   *)
(***************************************************************************)
EXTENDS Naturals

CONSTANTS Workers,   \* worker IDs, a set of naturals
          GroupIDs   \* group IDs

VARIABLE held        \* held[g]: the workers group g holds

\* The workers no group holds.
Free == {w \in Workers : \A g \in GroupIDs : w \notin held[g]}

Init == held = [g \in GroupIDs |-> {}]

\* Group g is granted S: free workers, and no free worker below them is left out.
Grant(g, S) ==
    /\ S # {} /\ S \subseteq Free
    /\ \A a \in S, b \in Free \ S : a < b
    /\ held' = [held EXCEPT ![g] = @ \cup S]

\* Group g gives back S, all of it its own.
Return(g, S) ==
    /\ S # {} /\ S \subseteq held[g]
    /\ held' = [held EXCEPT ![g] = @ \ S]

Next == \E g \in GroupIDs, S \in SUBSET Workers : Grant(g, S) \/ Return(g, S)

Spec == Init /\ [][Next]_held
=============================================================================
