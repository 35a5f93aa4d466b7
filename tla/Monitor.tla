------------------------------- MODULE Monitor -------------------------------
(***************************************************************************)
(* The monitoring system of src/unnamed/part_001: Start, Stop, Subscribe,  *)
(* RecordEvent, the stream goroutine of AttachToEngineGRPC and the         *)
(* processEvents goroutine.  A buffered channel is abstracted to the       *)
(* number of events it holds, since no property tells events apart; a      *)
(* send to a full channel in a select with a default branch is a drop.     *)
(* A send on a closed channel panics, which ends the process: the model    *)
(* records the panic and takes no further step.                            *)
(***************************************************************************)
EXTENDS Integers, FiniteSets

CONSTANTS
    Stream,     \* engines whose event stream is attached
    Sub,        \* subscriptions a client may create
    EvCap,      \* capacity of m.events (1000 in NewMonitor)
    SubCap,     \* capacity of a subscriber channel (100 in Subscribe)
    MaxEvents   \* events an engine stream delivers, a bound of the model

ASSUME StreamAssumption == IsFiniteSet(Stream)

ASSUME CapacityAssumption ==
    /\ EvCap \in Nat \ {0}
    /\ SubCap \in Nat \ {0}
    /\ MaxEvents \in Nat

VARIABLES
    ctxDone,    \* m.ctx cancelled (every streamCtx derives from it)
    evBuf,      \* events buffered in m.events
    evClosed,   \* close(m.events) has happened
    subState,   \* per subscription: none, open (in m.subscribers), closed
    subBuf,     \* events buffered in a subscriber channel
    ppc,        \* processEvents: init, loop, exited
    spc,        \* stream goroutine: detached, loop, record, exited
    received,   \* events a stream goroutine took from its engine stream
    wg,         \* m.wg counter
    stopPc,     \* position in Stop
    panicked    \* none, or the channel a send panicked on

vars == <<ctxDone, evBuf, evClosed, subState, subBuf, ppc, spc, received,
          wg, stopPc, panicked>>

StopPC == {"running", "cancelled", "closed", "waited", "stopped"}

TypeOK ==
    /\ ctxDone \in BOOLEAN
    /\ evBuf \in 0..EvCap
    /\ evClosed \in BOOLEAN
    /\ subState \in [Sub -> {"none", "open", "closed"}]
    /\ subBuf \in [Sub -> 0..SubCap]
    /\ ppc \in {"init", "loop", "exited"}
    /\ spc \in [Stream -> {"detached", "loop", "record", "exited"}]
    /\ received \in [Stream -> 0..MaxEvents]
    /\ wg \in Int
    /\ stopPc \in StopPC
    /\ panicked \in {"none", "events"}

Init ==
    /\ ctxDone = FALSE
    /\ evBuf = 0
    /\ evClosed = FALSE
    /\ subState = [u \in Sub |-> "none"]
    /\ subBuf = [u \in Sub |-> 0]
    /\ ppc = "init"
    /\ spc = [s \in Stream |-> "detached"]
    /\ received = [s \in Stream |-> 0]
    /\ wg = 0
    /\ stopPc = "running"
    /\ panicked = "none"

(* Start: m.wg.Add(1) and go m.processEvents().  main.go calls it once,    *)
(* before the deferred Stop.                                               *)
Start ==
    /\ ppc = "init" /\ stopPc = "running"
    /\ ppc' = "loop"
    /\ wg' = wg + 1
    /\ UNCHANGED <<ctxDone, evBuf, evClosed, subState, subBuf, spc, received,
                   stopPc, panicked>>

(* A bug that moves m.wg.Add(1) into the started goroutine: the counter    *)
(* does not cover the stream goroutine when Stop reaches Wait.             *)
AttachWithoutAdd(s) ==
    /\ spc[s] = "detached" /\ stopPc = "running"
    /\ spc' = [spc EXCEPT ![s] = "loop"]
    /\ UNCHANGED <<ctxDone, evBuf, evClosed, subState, subBuf, ppc, received,
                   wg, stopPc, panicked>>

(* AttachToEngineGRPC: registers the stream's cancel function, then        *)
(* m.wg.Add(1) and the goroutine.  Engines are attached at start-up,       *)
(* before Stop (once Stop has set m.grpcStreams to nil the map write       *)
(* would panic).                                                           *)
Attach(s) ==
    /\ spc[s] = "detached" /\ stopPc = "running"
    /\ spc' = [spc EXCEPT ![s] = "loop"]
    /\ wg' = wg + 1
    /\ UNCHANGED <<ctxDone, evBuf, evClosed, subState, subBuf, ppc, received,
                   stopPc, panicked>>

(* The stream goroutine's select takes an event from the engine stream;    *)
(* Go picks it even when streamCtx is done, if both cases are ready.       *)
StreamReceive(s) ==
    /\ spc[s] = "loop" /\ received[s] < MaxEvents
    /\ spc' = [spc EXCEPT ![s] = "record"]
    /\ received' = [received EXCEPT ![s] = @ + 1]
    /\ UNCHANGED <<ctxDone, evBuf, evClosed, subState, subBuf, ppc, wg,
                   stopPc, panicked>>

(* m.RecordEvent(monitorEvent): a select that sends on m.events or drops   *)
(* the event when the buffer is full.  A send on the closed channel        *)
(* panics even inside a select with a default branch.                      *)
RecordEvent(s) ==
    /\ spc[s] = "record"
    /\ spc' = [spc EXCEPT ![s] = "loop"]
    /\ IF evClosed
         THEN /\ panicked' = "events"
              /\ UNCHANGED evBuf
         ELSE /\ evBuf' = IF evBuf < EvCap THEN evBuf + 1 ELSE evBuf
              /\ UNCHANGED panicked
    /\ UNCHANGED <<ctxDone, evClosed, subState, subBuf, ppc, received, wg,
                   stopPc>>

(* The goroutine returns, on streamCtx.Done() or on the engine closing its *)
(* stream (!ok); its defers delete the map entry and call m.wg.Done().     *)
StreamExit(s) ==
    /\ spc[s] = "loop"
    /\ spc' = [spc EXCEPT ![s] = "exited"]
    /\ wg' = wg - 1
    /\ UNCHANGED <<ctxDone, evBuf, evClosed, subState, subBuf, ppc, received,
                   stopPc, panicked>>

(* A bug that writes the loop as a range over eventStream, without the     *)
(* streamCtx.Done() case: cancellation never ends the goroutine.           *)
StreamCancelledWithoutCtxCase(s) == FALSE /\ StreamExit(s)

StreamCancelled(s) == ctxDone /\ StreamExit(s)

StreamEOF(s) == StreamExit(s)

(* Subscribe: a new channel appended to m.subscribers under the lock.      *)
(* After Stop the list is nil and the append makes a fresh one.            *)
Subscribe(u) ==
    /\ subState[u] = "none"
    /\ subState' = [subState EXCEPT ![u] = "open"]
    /\ UNCHANGED <<ctxDone, evBuf, evClosed, subBuf, ppc, spc, received, wg,
                   stopPc, panicked>>

(* A subscriber's consumer (main.go ranges over its channel) takes one.    *)
Consume(u) ==
    /\ subBuf[u] > 0
    /\ subBuf' = [subBuf EXCEPT ![u] = @ - 1]
    /\ UNCHANGED <<ctxDone, evBuf, evClosed, subState, ppc, spc, received, wg,
                   stopPc, panicked>>

(* processEvents takes an event and, under subscribersMu.RLock, offers it  *)
(* to every listed subscriber without blocking: a full one misses it.      *)
Distribute ==
    /\ ppc = "loop" /\ evBuf > 0
    /\ evBuf' = evBuf - 1
    /\ subBuf' = [u \in Sub |->
                    IF subState[u] = "open" /\ subBuf[u] < SubCap
                      THEN subBuf[u] + 1 ELSE subBuf[u]]
    /\ UNCHANGED <<ctxDone, evClosed, subState, ppc, spc, received, wg,
                   stopPc, panicked>>

(* processEvents returns on m.ctx.Done() or once m.events is closed and    *)
(* drained; the deferred m.wg.Done() follows.                              *)
ProcessorExit ==
    /\ ppc = "loop"
    /\ ctxDone \/ (evClosed /\ evBuf = 0)
    /\ ppc' = "exited"
    /\ wg' = wg - 1
    /\ UNCHANGED <<ctxDone, evBuf, evClosed, subState, subBuf, spc, received,
                   stopPc, panicked>>

(* Stop, line 72: m.cancel().                                              *)
StopCancel ==
    /\ stopPc = "running"
    /\ stopPc' = "cancelled"
    /\ ctxDone' = TRUE
    /\ UNCHANGED <<evBuf, evClosed, subState, subBuf, ppc, spc, received, wg,
                   panicked>>

(* Stop, lines 73-81: close(m.events), then the stream cancel functions    *)
(* under grpcStreamsMu, which only repeat the cancellation every streamCtx *)
(* already inherited from m.ctx, and m.grpcStreams = nil.                  *)
StopClose ==
    /\ stopPc = "cancelled"
    /\ stopPc' = "closed"
    /\ evClosed' = TRUE
    /\ UNCHANGED <<ctxDone, evBuf, subState, subBuf, ppc, spc, received, wg,
                   panicked>>

(* Stop, line 83: m.wg.Wait() returns once the counter is zero.            *)
StopWait ==
    /\ stopPc = "closed" /\ wg = 0
    /\ stopPc' = "waited"
    /\ UNCHANGED <<ctxDone, evBuf, evClosed, subState, subBuf, ppc, spc,
                   received, wg, panicked>>

(* Stop, lines 86-91: close every listed subscriber channel and set the   *)
(* list to nil, under subscribersMu.                                       *)
StopCloseSubscribers ==
    /\ stopPc = "waited"
    /\ stopPc' = "stopped"
    /\ subState' = [u \in Sub |->
                      IF subState[u] = "open" THEN "closed" ELSE subState[u]]
    /\ UNCHANGED <<ctxDone, evBuf, evClosed, subBuf, ppc, spc, received, wg,
                   panicked>>

StreamGoroutine(s) == RecordEvent(s) \/ StreamCancelled(s)

StopSteps == StopClose \/ StopWait \/ StopCloseSubscribers

Processor == Distribute \/ ProcessorExit

(* A panic ends the process: no goroutine takes another step.              *)
Next ==
    /\ panicked = "none"
    /\ \/ Start \/ StopCancel \/ StopSteps \/ Processor
       \/ \E s \in Stream : Attach(s) \/ StreamReceive(s) \/ StreamEOF(s)
                            \/ StreamGoroutine(s)
       \/ \E u \in Sub : Subscribe(u) \/ Consume(u)

Spec == Init /\ [][Next]_vars

(* Go runs every runnable goroutine: processEvents, each stream goroutine  *)
(* and the goroutine inside Stop.  Engines, clients and consumers get no   *)
(* fairness.                                                               *)
FairSpec ==
    /\ Spec
    /\ WF_vars(panicked = "none" /\ Processor)
    /\ WF_vars(panicked = "none" /\ StopSteps)
    /\ \A s \in Stream : WF_vars(panicked = "none" /\ StreamGoroutine(s))

-----------------------------------------------------------------------------
(* Properties *)

(* Stop's Wait covers every goroutine: once m.wg.Wait() has returned,      *)
(* processEvents and every attached stream goroutine have exited, so       *)
(* closing the subscriber channels and returning leaves no goroutine of    *)
(* the monitor running.                                                    *)
StopQuiescent ==
    stopPc \in {"waited", "stopped"} =>
        /\ ppc # "loop"
        /\ \A s \in Stream : spc[s] \in {"detached", "exited"}

(* A Stop that has begun returns (or the process has crashed): the         *)
(* cancellation reaches processEvents and every stream goroutine, each     *)
(* returns through its deferred wg.Done(), and Wait is released.           *)
StopCompletes ==
    stopPc # "running" ~> (stopPc = "stopped" \/ panicked # "none")

(* RecordEvent never sends on a closed channel: no stream goroutine is     *)
(* still between its receive and RecordEvent when Stop closes m.events.   *)
EventsSendSafe == panicked # "events"

=============================================================================
