------------------------ MODULE VersionRegistry_proofs ------------------------
(***************************************************************************)
(* Proofs that the two registry invariants checked by the registry_safety  *)
(* run hold for every set of workflow ids and versions.  The string order  *)
(* of isNewerVersion is never expanded: both results hold whatever order   *)
(* the comparison implements.                                              *)
(***************************************************************************)
EXTENDS VersionRegistry, TLAPS

(* An id has a latest version exactly when it has a registered version.    *)
LatestDefined == \A w \in WfId : (versions[w] = {}) <=> (latest[w] = NoVersion)

(* The inductive invariant.                                                *)
IInv == TypeOK /\ LatestDefined /\ BuilderMatchesLatest /\ NoSpuriousDependents

(* CanUpdate never lets a version string be registered twice.             *)
LEMMA CanUpdateFresh ==
    ASSUME NEW w \in WfId, NEW v \in Version, CanUpdate(w, v)
    PROVE  v \notin versions[w]
BY DEF CanUpdate

LEMMA IInvInit == Init => IInv
<1> SUFFICES ASSUME Init PROVE IInv
    OBVIOUS
<1>1. TypeOK
    BY NoVersionAssumption DEF Init, TypeOK
<1>2. LatestDefined
    BY DEF Init, LatestDefined
<1>3. BuilderMatchesLatest
    BY DEF Init, BuilderMatchesLatest
<1>4. NoSpuriousDependents
    BY DEF Init, NoSpuriousDependents
<1> QED
    BY <1>1, <1>2, <1>3, <1>4 DEF IInv

LEMMA IInvStep == IInv /\ [Next]_vars => IInv'
<1> SUFFICES ASSUME IInv, [Next]_vars PROVE IInv'
    OBVIOUS
<1>0. TypeOK
    BY DEF IInv
<1>1. CASE UNCHANGED vars
    BY <1>1 DEF IInv, vars, TypeOK, LatestDefined, BuilderMatchesLatest,
                NoSpuriousDependents
<1>2. ASSUME NEW w \in WfId, NEW v \in Version, NEW d \in SUBSET WfId,
             RegisterWorkflow(w, v, d)
      PROVE  IInv'
    <2>0. /\ versions' = [versions EXCEPT ![w] = @ \cup {v}]
          /\ latest' = [latest EXCEPT ![w] =
                           IF @ = NoVersion \/ IsNewerVersion(v, @) THEN v ELSE @]
          /\ dependencies' = [dependencies EXCEPT ![<<w, v>>] = d]
          /\ dependents' = [dependents EXCEPT ![<<w, v>>] =
                               DependentsIn(w, versions', dependencies')]
          /\ builders' = [builders EXCEPT ![w] = v]
          /\ CanUpdate(w, v)
        BY <1>2 DEF RegisterWorkflow, RegisterVersion
    <2>1. v \notin versions[w]
        BY <2>0, CanUpdateFresh
    <2>2. latest'[w] = v
        <3>1. CASE versions[w] = {}
            BY <3>1, <2>0, <1>0 DEF IInv, LatestDefined, TypeOK
        <3>2. CASE versions[w] # {}
            <4>1. IsNewerVersion(v, latest[w])
                BY <3>2, <2>0 DEF CanUpdate
            <4> QED
                BY <4>1, <2>0, <1>0 DEF TypeOK
        <3> QED
            BY <3>1, <3>2
    <2>3. TypeOK'
        <3>1. DependentsIn(w, versions', dependencies') \in SUBSET WfId
            BY DEF DependentsIn
        <3> QED
            BY <3>1, <2>0, <1>0 DEF TypeOK
    <2>4. LatestDefined'
        BY <2>0, <2>2, <1>0, NoVersionAssumption DEF IInv, LatestDefined, TypeOK
    <2>5. BuilderMatchesLatest'
        BY <2>0, <2>2, <1>0 DEF IInv, BuilderMatchesLatest, TypeOK
    <2>6. NoSpuriousDependents'
        <3> SUFFICES ASSUME NEW w0 \in WfId, NEW v0 \in versions'[w0],
                            NEW x \in dependents'[<<w0, v0>>]
                     PROVE  /\ x # w0
                            /\ \E u \in versions'[x] : w0 \in dependencies'[<<x, u>>]
            BY DEF NoSpuriousDependents
        <3>1. CASE <<w0, v0>> = <<w, v>>
            <4>1. x \in DependentsIn(w, versions', dependencies')
                BY <3>1, <2>0, <1>0 DEF TypeOK
            <4> QED
                BY <4>1, <3>1 DEF DependentsIn
        <3>2. CASE <<w0, v0>> # <<w, v>>
            <4>1. v0 \in versions[w0]
                BY <3>2, <2>0, <1>0 DEF TypeOK
            <4>2. x \in dependents[<<w0, v0>>]
                BY <3>2, <4>1, <2>0, <1>0 DEF TypeOK
            <4>3. /\ x # w0
                  /\ \E u \in versions[x] : w0 \in dependencies[<<x, u>>]
                BY <4>1, <4>2 DEF IInv, NoSpuriousDependents
            <4>4. PICK u \in versions[x] : w0 \in dependencies[<<x, u>>]
                BY <4>3
            <4>5. <<x, u>> # <<w, v>>
                BY <2>1
            <4>6. x \in WfId /\ u \in Version
                <5>1. v0 \in Version /\ <<w0, v0>> \in WfId \X Version
                    BY <4>1, <1>0 DEF TypeOK
                <5>2. x \in WfId
                    BY <5>1, <4>2, <1>0 DEF TypeOK
                <5> QED
                    BY <5>2, <4>4, <1>0 DEF TypeOK
            <4>7. u \in versions'[x] /\ dependencies'[<<x, u>>] = dependencies[<<x, u>>]
                BY <4>5, <4>6, <2>0, <1>0 DEF TypeOK
            <4> QED
                BY <4>3, <4>4, <4>7
        <3> QED
            BY <3>1, <3>2
    <2> QED
        BY <2>3, <2>4, <2>5, <2>6 DEF IInv
<1> QED
    BY <1>1, <1>2 DEF Next

(* The version ExecuteWorkflow reports (GetLatestVersion) and the builder  *)
(* BuildWorkflow runs belong to the same registration, for every set of    *)
(* ids and versions and every sequence of RegisterWorkflow calls.          *)
THEOREM BuilderAlwaysMatchesLatest == Spec => []BuilderMatchesLatest
<1>1. Init => IInv
    BY IInvInit
<1>2. IInv /\ [Next]_vars => IInv'
    BY IInvStep
<1>3. IInv => BuilderMatchesLatest
    BY DEF IInv
<1> QED
    BY <1>1, <1>2, <1>3, PTL DEF Spec

(* CanUpdate's HAS_DEPENDENTS refusal never rests on a workflow that does  *)
(* not depend: every recorded dependent has a registered version naming    *)
(* the id, for every set of ids and versions.                              *)
THEOREM DependentsAlwaysReal == Spec => []NoSpuriousDependents
<1>1. Init => IInv
    BY IInvInit
<1>2. IInv /\ [Next]_vars => IInv'
    BY IInvStep
<1>3. IInv => NoSpuriousDependents
    BY DEF IInv
<1> QED
    BY <1>1, <1>2, <1>3, PTL DEF Spec
=============================================================================
