----------------------------- MODULE SubWorkflow -----------------------------
(***************************************************************************)
(* The sub-workflow coordinator: SubWorkflowCoordinator (src/unnamed/part_005). *)
(*                                                                         *)
(* ExecuteSubWorkflow names the child "<parent>-sub-<UnixNano>", records   *)
(* it PENDING in activeSubWorkflows and appends it to the parent's         *)
(* children under swc.mu, and starts a goroutine that sets RUNNING, calls  *)
(* the dispatcher's ExecuteWorkflow and writes COMPLETED or FAILED into    *)
(* the record it created (a pointer, not a map lookup).  CancelChildren    *)
(* snapshots the parent's children, then for each one looks the record up  *)
(* and reads its status, and in a later critical section writes            *)
(* CANCELLED; nothing is sent to the engine (a TODO in the code).          *)
(*                                                                         *)
(* An id is the pair <<parent, clock reading>>; the clock is              *)
(* non-decreasing and two readings may be equal.  The goroutine's deferred *)
(* EndTime write touches nothing modelled and is left out.                 *)
(***************************************************************************)
EXTENDS Integers, Sequences

CONSTANTS
    Parent,      \* parent execution ids
    Call,        \* ExecuteSubWorkflow calls
    CallParent,  \* the parent execution each call is made for
    MaxTime,     \* bound on the clock
    NoCall       \* "no record" in the table

(* CallParent \in [Call -> Parent], NoCall \notin Call, MaxTime \in Nat.    *)

Id == Parent \X (0..MaxTime)

Terminal == {"COMPLETED", "FAILED", "CANCELLED"}

VARIABLES
    now,       \* time.Now().UnixNano()
    pc,        \* stage of each call and its goroutine
    stamp,     \* the clock reading in the id of each call
    status,    \* exec.Status of each call's record
    table,     \* activeSubWorkflows: the call whose record an id maps to
    children,  \* parentToChildren
    cpc,       \* stage of CancelChildren(p)
    todo,      \* children CancelChildren(p) has yet to look at
    target     \* the record CancelChildren(p) found RUNNING and will cancel

vars == <<now, pc, stamp, status, table, children, cpc, todo, target>>

(* The id ExecuteSubWorkflow minted for call c.                            *)
IdOf(c) == <<CallParent[c], stamp[c]>>

-----------------------------------------------------------------------------
Init ==
    /\ now = 0
    /\ pc = [c \in Call |-> "idle"]
    /\ stamp = [c \in Call |-> 0]
    /\ status = [c \in Call |-> "none"]
    /\ table = [i \in Id |-> NoCall]
    /\ children = [p \in Parent |-> <<>>]
    /\ cpc = [p \in Parent |-> "idle"]
    /\ todo = [p \in Parent |-> <<>>]
    /\ target = [p \in Parent |-> NoCall]

(* The clock advances.                                                     *)
Tick ==
    /\ now < MaxTime
    /\ now' = now + 1
    /\ UNCHANGED <<pc, stamp, status, table, children, cpc, todo, target>>

(* ExecuteSubWorkflow: mint the id, store the PENDING record (replacing    *)
(* any record with the same id), append to the parent's children, start   *)
(* the goroutine.                                                          *)
ExecuteSubWorkflow(c) ==
    /\ pc[c] = "idle"
    /\ stamp' = [stamp EXCEPT ![c] = now]
    /\ table' = [table EXCEPT ![<<CallParent[c], now>>] = c]
    /\ children' = [children EXCEPT ![CallParent[c]] = Append(@, <<CallParent[c], now>>)]
    /\ status' = [status EXCEPT ![c] = "PENDING"]
    /\ pc' = [pc EXCEPT ![c] = "spawned"]
    /\ UNCHANGED <<now, cpc, todo, target>>

(* The goroutine sets RUNNING and calls the dispatcher.                    *)
StartChild(c) ==
    /\ pc[c] = "spawned"
    /\ status' = [status EXCEPT ![c] = "RUNNING"]
    /\ pc' = [pc EXCEPT ![c] = "calling"]
    /\ UNCHANGED <<now, stamp, table, children, cpc, todo, target>>

(* exec.Status = "FAILED" if the call returned an error, else "COMPLETED". *)
FinalStatus(c, failed) ==
    status' = [status EXCEPT ![c] = IF failed THEN "FAILED" ELSE "COMPLETED"]

(* ExecuteWorkflow returns; the final status is written whatever           *)
(* CancelChildren wrote meanwhile.                                         *)
ChildReturns(c) ==
    /\ pc[c] = "calling"
    /\ \E failed \in BOOLEAN : FinalStatus(c, failed)
    /\ pc' = [pc EXCEPT ![c] = "done"]
    /\ UNCHANGED <<now, stamp, table, children, cpc, todo, target>>

(* CancelChildren(p): copy the children list under RLock.                  *)
CancelChildren(p) ==
    /\ cpc[p] = "idle"
    /\ todo' = [todo EXCEPT ![p] = children[p]]
    /\ cpc' = [cpc EXCEPT ![p] = "scan"]
    /\ UNCHANGED <<now, pc, stamp, status, table, children, target>>

(* One loop iteration's lookup under RLock and its status test after it:   *)
(* a RUNNING record becomes the target of the write that follows.          *)
CancelCheck(p) ==
    /\ cpc[p] = "scan"
    /\ todo[p] # <<>>
    /\ LET exec == table[Head(todo[p])] IN
          IF exec # NoCall /\ status[exec] = "RUNNING"
             THEN /\ target' = [target EXCEPT ![p] = exec]
                  /\ cpc' = [cpc EXCEPT ![p] = "write"]
             ELSE UNCHANGED <<target, cpc>>
    /\ todo' = [todo EXCEPT ![p] = Tail(@)]
    /\ UNCHANGED <<now, pc, stamp, status, table, children>>

(* exec.Status = "CANCELLED" under swc.mu, whatever the status is now.     *)
CancelWrite(p) ==
    /\ cpc[p] = "write"
    /\ status' = [status EXCEPT ![target[p]] = "CANCELLED"]
    /\ cpc' = [cpc EXCEPT ![p] = "scan"]
    /\ UNCHANGED <<now, pc, stamp, table, children, todo, target>>

(* The loop is over; CancelChildren returns nil.                           *)
CancelDone(p) ==
    /\ cpc[p] = "scan"
    /\ todo[p] = <<>>
    /\ cpc' = [cpc EXCEPT ![p] = "done"]
    /\ UNCHANGED <<now, pc, stamp, status, table, children, todo, target>>

(* The goroutine of call c.                                                *)
Child(c) == StartChild(c) \/ ChildReturns(c)

Next ==
    \/ Tick
    \/ \E c \in Call : ExecuteSubWorkflow(c) \/ Child(c)
    \/ \E p \in Parent : CancelChildren(p) \/ CancelCheck(p) \/ CancelWrite(p)
                         \/ CancelDone(p)

Spec == Init /\ [][Next]_vars

-----------------------------------------------------------------------------
(* Properties                                                              *)

TypeOK ==
    /\ now \in 0..MaxTime
    /\ pc \in [Call -> {"idle", "spawned", "calling", "done"}]
    /\ stamp \in [Call -> 0..MaxTime]
    /\ status \in [Call -> {"none", "PENDING", "RUNNING"} \cup Terminal]
    /\ table \in [Id -> Call \cup {NoCall}]
    /\ children \in [Parent -> Seq(Id)]
    /\ cpc \in [Parent -> {"idle", "scan", "write", "done"}]
    /\ todo \in [Parent -> Seq(Id)]
    /\ target \in [Parent -> Call \cup {NoCall}]

(* Execution id uniqueness (spec 3, ExecutionRecord: execution_id is      *)
(* globally unique): no two calls of ExecuteSubWorkflow mint the same id   *)
(* "<parent>-sub-<UnixNano>", which keys activeSubWorkflows and the        *)
(* parent's children list.                                                 *)
ExecutionIdsUnique ==
    \A c, d \in Call :
        c # d /\ pc[c] # "idle" /\ pc[d] # "idle" => IdOf(c) # IdOf(d)

(* Status monotonicity (spec 3): a terminal status is never replaced,      *)
(* neither CANCELLED by the goroutine's final write nor COMPLETED/FAILED   *)
(* by CancelChildren's write.                                              *)
TerminalStatusStable ==
    [][\A c \in Call : status[c] \in Terminal => status'[c] = status[c]]_vars

=============================================================================
