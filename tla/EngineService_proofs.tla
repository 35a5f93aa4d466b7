------------------------- MODULE EngineService_proofs -------------------------
(***************************************************************************)
(* Proof that the engine runtime never holds more executions than its     *)
(* capacity, for every finite set of execution ids and every capacity.     *)
(***************************************************************************)
EXTENDS EngineService, FiniteSetTheorems, TLAPS

(* An execution is in the table exactly while its goroutine has not done  *)
(* the deferred delete.                                                    *)
TableMatchesPC == \A x \in Exec : x \in active <=> pc[x] \in {"running", "finished"}

IInv == TypeOK /\ TableMatchesPC /\ WithinCapacity

(* The table is a finite set with a natural size.                         *)
LEMMA ActiveFinite ==
    ASSUME TypeOK
    PROVE  IsFiniteSet(active) /\ Cardinality(active) \in Nat
<1>1. IsFiniteSet(active)
    BY ExecAssumption, FS_Subset DEF TypeOK
<1> QED
    BY <1>1, FS_CardinalityType

LEMMA IInvInit == Init => IInv
<1> SUFFICES ASSUME Init PROVE IInv
    OBVIOUS
<1>1. TypeOK
    BY DEF Init, TypeOK, ExecStatus, PC
<1>2. TableMatchesPC
    BY DEF Init, TableMatchesPC
<1>3. WithinCapacity
    BY FS_EmptySet, CapacityAssumption DEF Init, WithinCapacity
<1> QED
    BY <1>1, <1>2, <1>3 DEF IInv

(* Admission adds a new id only below capacity.                           *)
LEMMA ExecuteStep ==
    ASSUME IInv, NEW x \in Exec, ExecuteWorkflow(x)
    PROVE  IInv'
<1>0. TypeOK /\ TableMatchesPC /\ WithinCapacity
    BY DEF IInv
<1>1. x \notin active
    BY <1>0 DEF ExecuteWorkflow, TableMatchesPC
<1>2. CASE AtCapacity(Cardinality(active))
    <2>1. active' = active /\ pc' = [pc EXCEPT ![x] = "rejected"]
        BY <1>2 DEF ExecuteWorkflow
    <2> QED
        BY <2>1, <1>0 DEF ExecuteWorkflow, IInv, TypeOK, PC, TableMatchesPC,
                          WithinCapacity
<1>3. CASE ~AtCapacity(Cardinality(active))
    <2>1. /\ active' = active \cup {x}
          /\ status' = [status EXCEPT ![x] = "RUNNING"]
          /\ pc' = [pc EXCEPT ![x] = "running"]
          /\ cancelled' = cancelled
        BY <1>3 DEF ExecuteWorkflow
    <2>2. Cardinality(active') = Cardinality(active) + 1
        BY <2>1, <1>1, <1>0, ActiveFinite, FS_AddElement
    <2>3. Cardinality(active) < Capacity
        BY <1>3, <1>0, ActiveFinite, CapacityAssumption DEF AtCapacity
    <2>4. WithinCapacity'
        BY <2>2, <2>3, <1>0, ActiveFinite, CapacityAssumption DEF WithinCapacity
    <2>5. TypeOK'
        BY <2>1, <1>0 DEF TypeOK, ExecStatus, PC
    <2>6. TableMatchesPC'
        BY <2>1, <1>0 DEF TableMatchesPC, TypeOK
    <2> QED
        BY <2>4, <2>5, <2>6 DEF IInv
<1> QED
    BY <1>2, <1>3

LEMMA IInvStep == IInv /\ [Next]_vars => IInv'
<1> SUFFICES ASSUME IInv, [Next]_vars PROVE IInv'
    OBVIOUS
<1>0. TypeOK /\ TableMatchesPC /\ WithinCapacity
    BY DEF IInv
<1>1. CASE UNCHANGED vars
    BY <1>1 DEF vars, IInv, TypeOK, TableMatchesPC, WithinCapacity
<1>2. ASSUME NEW x \in Exec, ExecuteWorkflow(x) PROVE IInv'
    BY <1>2, ExecuteStep
<1>3. ASSUME NEW x \in Exec, RunReturns(x) PROVE IInv'
    BY <1>3, <1>0 DEF RunReturns, IInv, TypeOK, ExecStatus, PC, TableMatchesPC,
                      WithinCapacity
<1>4. ASSUME NEW x \in Exec, Release(x) PROVE IInv'
    <2>1. active' \subseteq active
        BY <1>4 DEF Release
    <2>2. /\ Cardinality(active') <= Cardinality(active)
          /\ Cardinality(active') \in Nat
        <3>1. IsFiniteSet(active') /\ Cardinality(active') <= Cardinality(active)
            BY <2>1, <1>0, ActiveFinite, FS_Subset
        <3> QED
            BY <3>1, FS_CardinalityType
    <2>3. WithinCapacity'
        BY <2>2, <1>0, ActiveFinite, CapacityAssumption DEF WithinCapacity
    <2>4. TypeOK' /\ TableMatchesPC'
        BY <1>4, <1>0 DEF Release, TypeOK, PC, TableMatchesPC
    <2> QED
        BY <2>3, <2>4 DEF IInv
<1>5. ASSUME NEW x \in Exec, StopWorkflow(x) PROVE IInv'
    BY <1>5, <1>0 DEF StopWorkflow, IInv, TypeOK, ExecStatus, TableMatchesPC,
                      WithinCapacity
<1> QED
    BY <1>1, <1>2, <1>3, <1>4, <1>5 DEF Next, Goroutine

(* Capacity enforcement: ExecuteWorkflow's check and insertion under one   *)
(* es.mu section keep the table within es.capacity, for every capacity and *)
(* every number of concurrent executions.                                  *)
THEOREM CapacityRespected == Spec => []WithinCapacity
<1>1. Init => IInv
    BY IInvInit
<1>2. IInv /\ [Next]_vars => IInv'
    BY IInvStep
<1>3. IInv => WithinCapacity
    BY DEF IInv
<1> QED
    BY <1>1, <1>2, <1>3, PTL DEF Spec
=============================================================================
