--------------------------- MODULE VersionRegistry ---------------------------
(***************************************************************************)
(* The versioned workflow registry: WorkflowManager.RegisterWorkflow       *)
(* (orchestrator/workflow_manager.go) over the VersionManager of           *)
(* orchestrator/message.go.  RegisterWorkflow holds wm.mu for its whole    *)
(* body, so a registration is one atomic step: CanUpdate, the builder      *)
(* call, RegisterVersion (store, latest, updateDependencies), and the      *)
(* builder kept for BuildWorkflow.                                         *)
(*                                                                         *)
(* A version is a triple <<major, minor, patch>>; the code compares the    *)
(* version strings byte by byte (isNewerVersion: v1 > v2), so the string   *)
(* "major.minor.patch" is built and compared as a sequence of byte codes.  *)
(* A definition is abstracted to the set of workflow ids its nodes name    *)
(* as sub-workflows (what extractDependencies returns) and whether the     *)
(* builder succeeds.                                                       *)
(***************************************************************************)
EXTENDS Integers, Sequences

CONSTANTS
    WfId,        \* workflow ids
    Version,     \* the version triples clients may register
    NoVersion    \* "no entry" in latest and builders

ASSUME VersionAssumption == Version \subseteq (0..99) \X (0..99) \X (0..99)
ASSUME NoVersionAssumption == NoVersion \notin Version

VARIABLES
    versions,      \* vm.versions: the registered versions of each id
    latest,        \* vm.latest
    dependencies,  \* WorkflowVersion.Dependencies of each (id, version)
    dependents,    \* WorkflowVersion.Dependents of each (id, version)
    builders       \* wm.builders: the version whose builder is kept

vars == <<versions, latest, dependencies, dependents, builders>>

-----------------------------------------------------------------------------
(* fmt's %d of a number below 100, as ASCII byte codes.                    *)
Digits(n) == IF n < 10 THEN <<48 + n>> ELSE <<48 + (n \div 10), 48 + (n % 10)>>

(* The version string "major.minor.patch" (46 is the byte of ".").         *)
VersionString(v) == Digits(v[1]) \o <<46>> \o Digits(v[2]) \o <<46>> \o Digits(v[3])

(* Go's s > t on strings: bytewise lexicographic order.                    *)
StringGreater(s, t) ==
    \E i \in 1..Len(s) :
        /\ \A j \in 1..(i - 1) : j <= Len(t) /\ s[j] = t[j]
        /\ i > Len(t) \/ s[i] > t[i]

(* isNewerVersion(v1, v2): "assume lexicographic comparison".              *)
IsNewerVersion(v1, v2) == StringGreater(VersionString(v1), VersionString(v2))

-----------------------------------------------------------------------------
(* A plausible bug of CanUpdate, used to show that BuilderMatchesLatest    *)
(* can fail: the "is it newer" check dropped.                              *)
CanUpdateWithoutNewerCheck(w, v) ==
    IF versions[w] = {} THEN TRUE
    ELSE /\ dependents[<<w, latest[w]>>] = {}
         /\ v \notin versions[w]

(* A plausible bug of updateDependencies: the wfID == version.WorkflowID  *)
(* skip dropped, so a self-reference counts as a dependent.                *)
DependentsInWithSelf(w, vs, ds) ==
    {x \in WfId : \E u \in vs[x] : w \in ds[<<x, u>>]}

-----------------------------------------------------------------------------
(* CanUpdate(workflowID, newVersion): a new id is always accepted;         *)
(* otherwise the current latest must have no dependents, the version must  *)
(* be newer than it and not registered yet.                                *)
CanUpdate(w, v) ==
    IF versions[w] = {} THEN TRUE
    ELSE /\ dependents[<<w, latest[w]>>] = {}
         /\ IsNewerVersion(v, latest[w])
         /\ v \notin versions[w]

(* updateDependencies: every other id with a version in vs whose          *)
(* dependency list ds names w.                                             *)
DependentsIn(w, vs, ds) ==
    {x \in WfId \ {w} : \E u \in vs[x] : w \in ds[<<x, u>>]}

Init ==
    /\ versions = [w \in WfId |-> {}]
    /\ latest = [w \in WfId |-> NoVersion]
    /\ dependencies = [k \in WfId \X Version |-> {}]
    /\ dependents = [k \in WfId \X Version |-> {}]
    /\ builders = [w \in WfId |-> NoVersion]

(* RegisterVersion: store the version (replacing an entry of the same     *)
(* string), make it latest if there is none or it is newer, then           *)
(* updateDependencies, which already sees the version in vm.versions.      *)
RegisterVersion(w, v, d) ==
    /\ versions' = [versions EXCEPT ![w] = @ \cup {v}]
    /\ latest' = [latest EXCEPT ![w] =
                     IF @ = NoVersion \/ IsNewerVersion(v, @) THEN v ELSE @]
    /\ dependencies' = [dependencies EXCEPT ![<<w, v>>] = d]
    /\ dependents' = [dependents EXCEPT ![<<w, v>>] =
                         DependentsIn(w, versions', dependencies')]

(* RegisterWorkflow(w, v, builder, metadata) whose builder succeeds with a *)
(* definition naming the sub-workflows d (extractDependencies).  A refused *)
(* CanUpdate or a failing builder returns before any state changes, so it  *)
(* is a stuttering step.                                                   *)
RegisterWorkflow(w, v, d) ==
    /\ CanUpdate(w, v)
    /\ RegisterVersion(w, v, d)
    /\ builders' = [builders EXCEPT ![w] = v]

Next ==
    \E w \in WfId, v \in Version, d \in SUBSET WfId : RegisterWorkflow(w, v, d)

Spec == Init /\ [][Next]_vars

-----------------------------------------------------------------------------
(* Properties                                                              *)

TypeOK ==
    /\ versions \in [WfId -> SUBSET Version]
    /\ latest \in [WfId -> Version \cup {NoVersion}]
    /\ dependencies \in [WfId \X Version -> SUBSET WfId]
    /\ dependents \in [WfId \X Version -> SUBSET WfId]
    /\ builders \in [WfId -> Version \cup {NoVersion}]

(* ExecuteWorkflow sends the version GetLatestVersion reports and the      *)
(* definition BuildWorkflow builds from wm.builders: the two must be those *)
(* of the same registration, after any sequence of registrations.          *)
BuilderMatchesLatest == \A w \in WfId : builders[w] = latest[w]

(* CanUpdate refuses with HAS_DEPENDENTS only on real dependents: the     *)
(* Dependents list of every registered version names only other ids that   *)
(* do have a registered version depending on it now.                       *)
NoSpuriousDependents ==
    \A w \in WfId : \A v \in versions[w] :
        \A x \in dependents[<<w, v>>] :
            x # w /\ \E u \in versions[x] : w \in dependencies[<<x, u>>]

(* Dependent safety (spec 4.3, 8.6 and seed scenario 3): a registration    *)
(* never replaces the latest version of w while another registered         *)
(* workflow names w as a sub-workflow.                                     *)
DependentSafety ==
    [][\A w \in WfId :
          (latest[w] # NoVersion /\ latest'[w] # latest[w])
              => \A x \in WfId \ {w} :
                     \A u \in versions[x] : w \notin dependencies[<<x, u>>]]_vars

=============================================================================
