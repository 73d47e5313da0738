------------------------ MODULE ChangeDetectionProofs -----------------------
(***************************************************************************)
(* The two detection functions return at the first difference they find;   *)
(* proved here: they find one exactly when the states differ.              *)
(***************************************************************************)
EXTENDS ChangeDetection, FiniteSetTheorems, TLAPS

(* The states of machines that differ in no compared field are the same.   *)
LEMMA SameMachineState ==
    ASSUME NEW m, NEW n,
           MachineState(m).online = MachineState(n).online,
           MachineState(m).subnets = MachineState(n).subnets,
           MachineState(m).exit = MachineState(n).exit,
           MachineState(m).tags = MachineState(n).tags
    PROVE  MachineState(m) = MachineState(n)
  BY DEF MachineState

(* detectMachineChanges is exact: it reports a change if and only if a     *)
(* machine came, went, or has another state than before.                   *)
THEOREM MachineDetectionExact ==
    ASSUME NEW current, NEW previous
    PROVE  DetectMachineChanges(MachineStates(current), MachineStates(previous))
             <=> MachineStates(current) # MachineStates(previous)
<1> DEFINE C == MachineStates(current)
           P == MachineStates(previous)
<1>1. /\ C = [id \in DOMAIN current |-> MachineState(current[id])]
      /\ P = [id \in DOMAIN previous |-> MachineState(previous[id])]
      /\ DOMAIN C = DOMAIN current /\ DOMAIN P = DOMAIN previous
  BY DEF MachineStates
<1>2. ASSUME DetectMachineChanges(C, P), C = P PROVE FALSE
  BY <1>2 DEF DetectMachineChanges
<1>3. ASSUME ~DetectMachineChanges(C, P) PROVE C = P
  <2>1. DOMAIN C = DOMAIN P
    BY <1>3 DEF DetectMachineChanges
  <2>2. ASSUME NEW id \in DOMAIN C PROVE C[id] = P[id]
    <3>1. C[id] = MachineState(current[id]) /\ P[id] = MachineState(previous[id])
      BY <1>1, <2>1
    <3>2. /\ C[id].online = P[id].online /\ C[id].subnets = P[id].subnets
          /\ C[id].exit = P[id].exit /\ C[id].tags = P[id].tags
      BY <1>3, <2>1 DEF DetectMachineChanges
    <3> QED
      BY <3>1, <3>2, SameMachineState
  <2> HIDE DEF C, P
  <2> QED
    BY <1>1, <2>1, <2>2
<1> QED
  BY <1>2, <1>3

(* detectUserChanges is exact as well, although it looks only for current  *)
(* users: with equal numbers of users, none can have gone unless another   *)
(* came.                                                                   *)
THEOREM UserDetectionExact ==
    ASSUME NEW users, NEW nodes, NEW oldUsers, NEW oldNodes,
           IsFiniteSet(DOMAIN users), IsFiniteSet(DOMAIN oldUsers)
    PROVE  DetectUserChanges(UserStates(users, nodes), UserStates(oldUsers, oldNodes))
             <=> UserStates(users, nodes) # UserStates(oldUsers, oldNodes)
<1> DEFINE C == UserStates(users, nodes)
           P == UserStates(oldUsers, oldNodes)
<1>1. /\ C = [id \in DOMAIN users |->
                [name |-> users[id], count |-> MachineCount(nodes, users[id])]]
      /\ P = [id \in DOMAIN oldUsers |->
                [name |-> oldUsers[id], count |-> MachineCount(oldNodes, oldUsers[id])]]
      /\ DOMAIN C = DOMAIN users /\ DOMAIN P = DOMAIN oldUsers
  BY DEF UserStates
<1>2. ASSUME DetectUserChanges(C, P), C = P PROVE FALSE
  BY <1>2 DEF DetectUserChanges
<1>3. ASSUME ~DetectUserChanges(C, P) PROVE C = P
  <2>1. DOMAIN C \subseteq DOMAIN P /\ Cardinality(DOMAIN C) = Cardinality(DOMAIN P)
    BY <1>3 DEF DetectUserChanges
  <2>2. DOMAIN C = DOMAIN P
    BY <1>1, <2>1, FS_Subset
  <2>3. ASSUME NEW id \in DOMAIN C PROVE C[id] = P[id]
    <3>1. /\ C[id] = [name |-> users[id], count |-> MachineCount(nodes, users[id])]
          /\ P[id] = [name |-> oldUsers[id], count |-> MachineCount(oldNodes, oldUsers[id])]
      BY <1>1, <2>2
    <3>2. C[id].name = P[id].name /\ C[id].count = P[id].count
      BY <1>3 DEF DetectUserChanges
    <3> QED
      BY <3>1, <3>2
  <2> HIDE DEF C, P
  <2> QED
    BY <1>1, <2>2, <2>3
<1> QED
  BY <1>2, <1>3
=============================================================================
