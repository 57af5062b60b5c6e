-------------------------- MODULE GroupServiceProofs --------------------------
(***************************************************************************)
(* What GroupService promises, proved for any workers and groups; by       *)
(* GroupLifecycle!ServiceSpec the driver and the workers keep it.          *)
(***************************************************************************)
EXTENDS GroupService, TLAPS

Types ==
    /\ members \in [Groups -> SUBSET Workers]
    /\ serving \in [Groups -> SUBSET Workers]
    /\ change = Still \/ change \in [g : Groups, phase : {"stop", "start"}]

\* No worker is held by two groups.
Disjoint == \A g, h \in Groups : g # h => members[g] \cap members[h] = {}

\* While a group's workers stop, those it gave back may serve it still, but nobody
\* else holds them; when they start, none but its own do.
Changing ==
    /\ change.phase = "stop" =>
           \A h \in Groups \ {change.g} : serving[change.g] \cap members[h] = {}
    /\ change.phase = "start" => serving[change.g] \subseteq members[change.g]

Inv == Types /\ Disjoint /\ Whole /\ Changing

LEMMA InitInv == Init => Inv
  BY DEF Init, Inv, Types, Disjoint, Whole, Changing, Still

(* Grants and returns keep the groups' workers apart.                        *)
LEMMA LeaseKeeps ==
    ASSUME Inv, NEW g \in Groups, NEW S \in SUBSET Workers,
           Lease!Grant(g, S) \/ Lease!Return(g, S)
    PROVE  /\ members' \in [Groups -> SUBSET Workers]
           /\ Disjoint'
           /\ \A h \in Groups \ {g} : members'[h] = members[h]
           /\ \A h \in Groups \ {g} : members[g] \cap members'[h] = {}
  <1>1. CASE Lease!Grant(g, S)
    <2>1. members' = [members EXCEPT ![g] = @ \cup S]
      BY <1>1 DEF Lease!Grant
    <2>2. \A h \in Groups : S \cap members[h] = {}
      BY <1>1 DEF Lease!Grant, Lease!Free
    <2> QED
      BY <2>1, <2>2 DEF Inv, Types, Disjoint
  <1>2. CASE Lease!Return(g, S)
    <2>1. members' = [members EXCEPT ![g] = @ \ S]
      BY <1>2 DEF Lease!Return
    <2> QED
      BY <2>1 DEF Inv, Types, Disjoint
  <1> QED
    BY <1>1, <1>2

LEMMA NextInv == Inv /\ [Next]_vars => Inv'
  <1> SUFFICES ASSUME Inv, [Next]_vars
               PROVE  Inv'
    OBVIOUS
  <1>1. ASSUME NEW g \in Groups, NEW S \in SUBSET Workers, Begin(g, S)
        PROVE  Inv'
    <2>1. /\ members' \in [Groups -> SUBSET Workers]
          /\ Disjoint'
          /\ \A h \in Groups \ {g} : members'[h] = members[h]
          /\ \A h \in Groups \ {g} : members[g] \cap members'[h] = {}
      BY <1>1, LeaseKeeps DEF Begin
    <2>2. PICK phase \in {"stop", "start"} :
              /\ phase = "start" => serving[g] = {}
              /\ change' = [g |-> g, phase |-> phase]
      BY <1>1 DEF Begin
    <2>3. change = Still /\ serving' = serving /\ \A h \in Groups : serving[h] = members[h]
      BY <1>1 DEF Begin, Inv, Whole, Still
    <2>4. Types'
      BY <2>1, <2>2, <2>3 DEF Inv, Types
    <2>5. Whole'
      <3>1. change'.g = g /\ change' # Still
        BY <2>2 DEF Still
      <3> QED
        BY <2>1, <2>3, <3>1 DEF Whole, Still
    <2>6. Changing'
      BY <2>1, <2>2, <2>3 DEF Changing
    <2> QED
      BY <2>1, <2>4, <2>5, <2>6 DEF Inv
  <1>2. ASSUME NEW w \in Workers, Stop(w)
        PROVE  Inv'
    BY <1>2 DEF Stop, Inv, Types, Disjoint, Whole, Changing, Still
  <1>3. ASSUME NEW w \in Workers, Start(w)
        PROVE  Inv'
    BY <1>3 DEF Start, Inv, Types, Disjoint, Whole, Changing, Still
  <1>4. CASE AllStopped
    BY <1>4 DEF AllStopped, Inv, Types, Disjoint, Whole, Changing, Still
  <1>5. CASE Complete
    BY <1>5 DEF Complete, Inv, Types, Disjoint, Whole, Changing, Still
  <1>6. CASE Fail
    BY <1>6 DEF Fail, Inv, Types, Disjoint, Whole, Changing
  <1>7. CASE Break
    BY <1>7 DEF Break, Inv, Types, Disjoint, Whole, Changing
  <1>8. CASE UNCHANGED vars
    BY <1>8 DEF vars, Inv, Types, Disjoint, Whole, Changing
  <1> QED
    BY <1>1, <1>2, <1>3, <1>4, <1>5, <1>6, <1>7, <1>8 DEF Next

LEMMA Invariant == Spec => []Inv
  BY InitInv, NextInv, PTL DEF Spec

(* A client that is not waiting for a change of its group has it whole.      *)
THEOREM WholeGroups == Spec => []Whole
  <1>1. Inv => Whole
    BY DEF Inv
  <1> QED
    BY <1>1, Invariant, PTL

(* A worker serves one client at a time, and none while another one has been *)
(* granted it.                                                               *)
THEOREM OneClientEach == Spec => []NeverShared
  <1>1. Inv => NeverShared
    <2> SUFFICES ASSUME Inv, NEW g \in Groups, NEW h \in Groups, g # h
                 PROVE  serving[g] \cap (members[h] \cup serving[h]) = {}
      BY DEF NeverShared
    <2>1. members[g] \cap members[h] = {}
      BY DEF Inv, Disjoint
    <2>2. \A k \in Groups : change = Still \/ k # change.g => serving[k] = members[k]
      BY DEF Inv, Whole
    <2>3. CASE change = Still
      BY <2>1, <2>2, <2>3
    <2>4. CASE change \in [g : Groups, phase : {"stop", "start"}]
      <3>1. g = change.g => serving[g] \cap members[h] = {}
        BY <2>1, <2>4 DEF Inv, Changing
      <3>2. h = change.g => serving[h] \cap members[g] = {}
        BY <2>1, <2>4 DEF Inv, Changing
      <3> QED
        BY <2>1, <2>2, <3>1, <3>2
    <2> QED
      BY <2>3, <2>4 DEF Inv, Types
  <1> QED
    BY <1>1, Invariant, PTL

(* The service grants and takes back workers as the lease of WorkerLease.    *)
THEOREM ServiceIsLease == Spec => Lease!Spec
  <1>1. Init => Lease!Init
    BY DEF Init, Lease!Init
  <1>2. [Next]_vars => [Lease!Next]_members
    BY DEF Next, vars, Begin, Stop, AllStopped, Start, Complete, Fail, Break, Lease!Next
  <1> QED
    BY <1>1, <1>2, PTL DEF Spec, Lease!Spec
=============================================================================
