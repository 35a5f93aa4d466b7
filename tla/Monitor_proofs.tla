---------------------------- MODULE Monitor_proofs ----------------------------
(***************************************************************************)
(* Stop's m.wg.Wait() covers every goroutine of the monitor: the counter   *)
(* always equals the number of goroutines started and not yet returned.   *)
(***************************************************************************)
EXTENDS Monitor, FiniteSetTheorems, TLAPS

(* The stream goroutines that have started and not yet returned. *)
Running == {s \in Stream : spc[s] \in {"loop", "record"}}

(* m.wg counts processEvents while it loops and every running stream      *)
(* goroutine: each Add(1) precedes its goroutine and each return calls     *)
(* Done() once.                                                            *)
WgInv == wg = (IF ppc = "loop" THEN 1 ELSE 0) + Cardinality(Running)

IInv == TypeOK /\ WgInv /\ StopQuiescent

(* The set of running stream goroutines is finite, now and after a step   *)
(* that keeps spc a function on Stream.                                    *)
LEMMA RunningFinite ==
    ASSUME NEW f \in [Stream -> {"detached", "loop", "record", "exited"}]
    PROVE  /\ IsFiniteSet({s \in Stream : f[s] \in {"loop", "record"}})
           /\ Cardinality({s \in Stream : f[s] \in {"loop", "record"}}) \in Nat
BY StreamAssumption, FS_Subset, FS_CardinalityType

LEMMA IInvInit == Init => IInv
<1> SUFFICES ASSUME Init PROVE IInv
    OBVIOUS
<1>1. Running = {}
    BY DEF Init, Running
<1>2. Cardinality(Running) = 0
    BY <1>1, FS_EmptySet
<1>3. TypeOK
    <2>1. subBuf \in [Sub -> 0..SubCap] /\ received \in [Stream -> 0..MaxEvents]
        BY CapacityAssumption DEF Init
    <2>2. evBuf \in 0..EvCap /\ wg \in Int
        BY CapacityAssumption DEF Init
    <2>3. stopPc \in StopPC /\ ppc \in {"init", "loop", "exited"}
        BY DEF Init, StopPC
    <2> QED
        BY <2>1, <2>2, <2>3 DEF Init, TypeOK
<1> QED
    BY <1>2, <1>3 DEF Init, IInv, WgInv, StopQuiescent

(* A step that leaves the goroutines and the counter alone. *)
LEMMA FrameStep ==
    ASSUME IInv, TypeOK', ppc' = ppc, spc' = spc, wg' = wg,
           stopPc' \in {"waited", "stopped"} => stopPc \in {"waited", "stopped"}
    PROVE  IInv'
<1>1. Running' = Running
    BY DEF Running
<1> QED
    BY <1>1 DEF IInv, WgInv, StopQuiescent

(* A step of a stream goroutine that moves it between its loop and its    *)
(* RecordEvent call keeps it running.                                      *)
LEMMA StreamInnerStep ==
    ASSUME IInv, TypeOK', NEW s \in Stream,
           spc[s] \in {"loop", "record"}, spc'[s] \in {"loop", "record"},
           spc' = [spc EXCEPT ![s] = spc'[s]],
           ppc' = ppc, wg' = wg, stopPc' = stopPc
    PROVE  IInv'
<1>1. Running' = Running
    BY DEF Running, IInv, TypeOK
<1> QED
    BY <1>1 DEF IInv, WgInv, StopQuiescent

LEMMA TypeStep == TypeOK /\ [Next]_vars => TypeOK'
<1> SUFFICES ASSUME TypeOK, [Next]_vars PROVE TypeOK'
    OBVIOUS
<1>1. CASE Start
    BY <1>1, CapacityAssumption DEF TypeOK, StopPC, Start
<1>2. CASE StopCancel
    BY <1>2, CapacityAssumption DEF TypeOK, StopPC, StopCancel
<1>3. CASE StopClose
    BY <1>3, CapacityAssumption DEF TypeOK, StopPC, StopClose
<1>4. CASE StopWait
    BY <1>4, CapacityAssumption DEF TypeOK, StopPC, StopWait
<1>5. CASE StopCloseSubscribers
    BY <1>5, CapacityAssumption DEF TypeOK, StopPC, StopCloseSubscribers
<1>6. CASE ProcessorExit
    BY <1>6, CapacityAssumption DEF TypeOK, StopPC, ProcessorExit
<1>7. CASE Distribute
    BY <1>7, CapacityAssumption DEF TypeOK, StopPC, Distribute
<1>8. ASSUME NEW s \in Stream, Attach(s) PROVE TypeOK'
    BY <1>8, CapacityAssumption DEF TypeOK, StopPC, Attach
<1>9. ASSUME NEW s \in Stream, StreamReceive(s) PROVE TypeOK'
    BY <1>9, CapacityAssumption DEF TypeOK, StopPC, StreamReceive
<1>10. ASSUME NEW s \in Stream, StreamExit(s) PROVE TypeOK'
    BY <1>10, CapacityAssumption DEF TypeOK, StopPC, StreamExit
<1>11. ASSUME NEW s \in Stream, RecordEvent(s) PROVE TypeOK'
    BY <1>11, CapacityAssumption DEF TypeOK, StopPC, RecordEvent
<1>12. ASSUME NEW u \in Sub, Subscribe(u) PROVE TypeOK'
    BY <1>12, CapacityAssumption DEF TypeOK, StopPC, Subscribe
<1>13. ASSUME NEW u \in Sub, Consume(u) PROVE TypeOK'
    BY <1>13, CapacityAssumption DEF TypeOK, StopPC, Consume
<1>14. CASE UNCHANGED vars
    BY <1>14 DEF TypeOK, vars
<1> QED
    BY <1>1, <1>2, <1>3, <1>4, <1>5, <1>6, <1>7, <1>8, <1>9, <1>10, <1>11,
       <1>12, <1>13, <1>14
    DEF Next, Processor, StopSteps, StreamGoroutine, StreamEOF, StreamCancelled

LEMMA IInvStep == IInv /\ [Next]_vars => IInv'
<1> SUFFICES ASSUME IInv, [Next]_vars PROVE IInv'
    OBVIOUS
<1>0. TypeOK'
    BY TypeStep DEF IInv
<1>r. /\ IsFiniteSet(Running) /\ Cardinality(Running) \in Nat
      /\ IsFiniteSet(Running') /\ Cardinality(Running') \in Nat
    BY <1>0, RunningFinite DEF IInv, TypeOK, Running
<1>1. CASE Start
    <2>1. Running' = Running
        BY <1>1 DEF Start, Running
    <2> QED
        BY <1>1, <2>1, <1>r, <1>0 DEF Start, IInv, WgInv, StopQuiescent
<1>2. ASSUME NEW s \in Stream, Attach(s) PROVE IInv'
    <2>1. s \notin Running /\ Running' = Running \cup {s}
        BY <1>2 DEF Attach, Running, IInv, TypeOK
    <2>2. Cardinality(Running') = Cardinality(Running) + 1
        BY <2>1, <1>r, FS_AddElement
    <2> QED
        BY <1>2, <2>2, <1>r, <1>0 DEF Attach, IInv, WgInv, StopQuiescent
<1>3. ASSUME NEW s \in Stream, StreamExit(s) PROVE IInv'
    <2>1. s \in Running /\ Running' = Running \ {s}
        BY <1>3 DEF StreamExit, Running, IInv, TypeOK
    <2>2. Cardinality(Running') = Cardinality(Running) - 1
        BY <2>1, <1>r, FS_RemoveElement
    <2> QED
        BY <1>3, <2>2, <1>r, <1>0 DEF StreamExit, IInv, WgInv, StopQuiescent
<1>4. ASSUME NEW s \in Stream, StreamReceive(s) \/ RecordEvent(s) PROVE IInv'
    BY <1>4, <1>0, StreamInnerStep DEF StreamReceive, RecordEvent, IInv, TypeOK
<1>5. CASE ProcessorExit
    <2>1. Running' = Running
        BY <1>5 DEF ProcessorExit, Running
    <2> QED
        BY <1>5, <2>1, <1>r, <1>0 DEF ProcessorExit, IInv, WgInv, StopQuiescent
<1>6. CASE StopWait
    <2>1. ppc # "loop" /\ Cardinality(Running) = 0
        BY <1>6, <1>r DEF StopWait, IInv, WgInv
    <2>2. Running = {}
        BY <2>1, <1>r, FS_EmptySet
    <2> QED
        BY <1>6, <2>1, <2>2, <1>0 DEF StopWait, IInv, TypeOK, WgInv, StopQuiescent,
                                     Running
<1>7. CASE StopCancel \/ StopClose \/ StopCloseSubscribers \/ Distribute
           \/ (\E u \in Sub : Subscribe(u) \/ Consume(u)) \/ UNCHANGED vars
    BY <1>7, <1>0, FrameStep
    DEF StopCancel, StopClose, StopCloseSubscribers, Distribute, Subscribe,
        Consume, vars
<1> QED
    BY <1>1, <1>2, <1>3, <1>4, <1>5, <1>6, <1>7
    DEF Next, StopSteps, Processor, StreamGoroutine, StreamEOF, StreamCancelled

(* Stop's Wait returns only when processEvents and every stream goroutine *)
(* have returned, for every number of streams and every channel capacity. *)
THEOREM StopWaitsForAll == Spec => []StopQuiescent
<1>1. Init => IInv
    BY IInvInit
<1>2. IInv /\ [Next]_vars => IInv'
    BY IInvStep
<1>3. IInv => StopQuiescent
    BY DEF IInv
<1> QED
    BY <1>1, <1>2, <1>3, PTL DEF Spec

=============================================================================
