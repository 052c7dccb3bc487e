-------------------------- MODULE WriteQueueProofs --------------------------
(***************************************************************************)
(* Proofs about WriteQueue for any set of producers, any capacity and any  *)
(* number of calls.                                                        *)
(***************************************************************************)
EXTENDS WriteQueue, TLAPS

Labels == {"idle", "tryguard", "guard", "trypush", "push", "seal", "sealfull", "notify", "wake",
           "seen", "enable", "check", "await"}
Closing == {"close", "wakeall", "drain", "count", "final", "closed"}

(* The state the argument is about is a function on the producers, and the fence is up
   exactly from mark_closed_and_wake on. *)
QueueBase ==
    /\ qpc \in [Producers -> Labels]
    /\ qfence \in BOOLEAN
    /\ qfence = TRUE <=> wpc \in Closing

(* The wake-up argument.  Cleared by prepare_park, the flag is only set again by a producer
   that stores a permit or is about to; a command pushed since the last look of the writer
   has set it or belongs to a producer that will. *)
WakeInv ==
    /\ QueueBase
    /\ wpc \in {"recheck", "park"} /\ qflag
       => qdata \/ \E p \in Producers : qpc[p] = "wake"
    /\ wpc = "park" /\ qbuf # <<>>
       => qflag \/ \E p \in Producers : Unflagged(p)

(* The reclaim argument.  Whoever may still push is counted, and the last drain runs only
   once nobody is. *)
ReclaimInv ==
    /\ QueueBase
    /\ \A p \in Producers : qpc[p] \in {"trypush", "push"} => p \in qguards
    /\ wpc \in {"final", "closed"} => qguards = {}
    /\ wpc = "closed" => qbuf = <<>>

USE DEF Closing, Labels

(* Every step of the module is a call, a step of a producer or a step of the writer. *)
LEMMA StepCases ==
    ASSUME QueueNext
    PROVE \/ \E p \in Producers : \/ Enqueue(p) \/ Guard(p) \/ TryPush(p) \/ Seal(p)
                                  \/ Notify(p) \/ Wake(p) \/ Push(p) \/ Seen(p) \/ Enable(p)
                                  \/ CheckClosed(p) \/ Await(p) \/ CancelPush(p)
          \/ Drain \/ Process \/ ClearFlag \/ Recheck \/ Rearm \/ Park \/ Fault
          \/ Fence \/ Close \/ WakeAll \/ Reclaim \/ CountGuards \/ SignalShutdown
BY DEF QueueNext, ProducerStep, WriterStep

(* A new queue is well typed and its flag, fence and guards agree. *)
LEMMA BaseInit == QueueInit => QueueBase
BY DEF QueueInit, QueueBase

(* A producer's step changes its own label only, and neither the fence nor the writer's. *)
LEMMA ProducerFrame ==
    ASSUME NEW p \in Producers, QueueBase,
           \/ Enqueue(p) \/ Guard(p) \/ TryPush(p) \/ Seal(p) \/ Notify(p) \/ Wake(p) \/ Push(p)
           \/ Seen(p) \/ Enable(p) \/ CheckClosed(p) \/ Await(p) \/ CancelPush(p)
    PROVE /\ \E l \in Labels : qpc' = [qpc EXCEPT ![p] = l]
          /\ qfence' = qfence /\ wpc' = wpc /\ qplan' = qplan
PROOF
<1>1. CASE Enqueue(p) BY <1>1 DEF Enqueue, Goto, writerVars
<1>2. CASE Guard(p) BY <1>2 DEF Guard, Goto, Return, writerVars
<1>3. CASE TryPush(p) BY <1>3 DEF TryPush, Goto, writerVars
<1>4. CASE Seal(p) BY <1>4 DEF Seal, Goto, Return, writerVars
<1>5. CASE Notify(p) BY <1>5 DEF Notify, Notified, Goto, Return, writerVars
<1>6. CASE Wake(p) BY <1>6 DEF Wake, Notified, Goto, Return, writerVars
<1>7. CASE Push(p) BY <1>7 DEF Push, Goto, writerVars
<1>8. CASE Seen(p) BY <1>8 DEF Seen, Goto, Return, writerVars
<1>9. CASE Enable(p) BY <1>9 DEF Enable, Goto, writerVars
<1>10. CASE CheckClosed(p) BY <1>10 DEF CheckClosed, Goto, Return, writerVars
<1>11. CASE Await(p) BY <1>11 DEF Await, Goto, Return, writerVars
<1>12. CASE CancelPush(p) BY <1>12 DEF CancelPush, Goto, Return, writerVars
<1> QED BY <1>1, <1>2, <1>3, <1>4, <1>5, <1>6, <1>7, <1>8, <1>9, <1>10, <1>11, <1>12

(* Every step keeps the types and the agreement of flag, fence and guards. *)
LEMMA BaseStep == QueueBase /\ [QueueNext]_qvars => QueueBase'
PROOF
<1> SUFFICES ASSUME QueueBase, [QueueNext]_qvars PROVE QueueBase'
    OBVIOUS
<1>1. CASE UNCHANGED qvars BY <1>1 DEF QueueBase, qvars, producerVars, writerVars
<1>2. ASSUME NEW p \in Producers,
             \/ Enqueue(p) \/ Guard(p) \/ TryPush(p) \/ Seal(p) \/ Notify(p) \/ Wake(p)
             \/ Push(p) \/ Seen(p) \/ Enable(p) \/ CheckClosed(p) \/ Await(p) \/ CancelPush(p)
      PROVE QueueBase'
  BY <1>2, ProducerFrame DEF QueueBase
<1>3. CASE Drain \/ Process \/ ClearFlag \/ Recheck \/ Rearm \/ Park \/ Fault
  BY <1>3 DEF Drain, Process, ClearFlag, Recheck, Rearm, Park, Fault, QueueBase, WriterGoto,
              producerVars
<1>4. CASE Fence \/ Close \/ WakeAll \/ Reclaim \/ CountGuards \/ SignalShutdown
  BY <1>4 DEF Fence, Close, WakeAll, Reclaim, CountGuards, SignalShutdown, QueueBase, WriterGoto,
              producerVars, writerVars
<1> QED BY <1>1, <1>2, <1>3, <1>4, StepCases
-----------------------------------------------------------------------------
(* Nobody sleeps on a new queue. *)
LEMMA WakeInit == QueueInit => WakeInv
BY BaseInit DEF QueueInit, WakeInv

(* A producer's step keeps the wake-up argument. *)
LEMMA WakeProducer ==
    ASSUME NEW p \in Producers, WakeInv, QueueBase',
           \/ Enqueue(p) \/ Guard(p) \/ TryPush(p) \/ Seal(p) \/ Notify(p) \/ Wake(p) \/ Push(p)
           \/ Seen(p) \/ Enable(p) \/ CheckClosed(p) \/ Await(p) \/ CancelPush(p)
    PROVE WakeInv'
PROOF
<1> USE DEF WakeInv, QueueBase, Unflagged
<1>1. PICK l \in Labels : qpc' = [qpc EXCEPT ![p] = l] BY ProducerFrame
<1>2. wpc' = wpc /\ qplan' = qplan BY ProducerFrame
<1>3. qpc'[p] = l /\ \A o \in Producers \ {p} : qpc'[o] = qpc[o] BY <1>1
<1>4. CASE Enqueue(p) BY <1>2, <1>3, <1>4 DEF Enqueue
<1>5. CASE Guard(p) BY <1>2, <1>3, <1>5 DEF Guard
<1>6. CASE TryPush(p) BY <1>2, <1>3, <1>6 DEF TryPush, Goto
<1>7. CASE Seal(p) BY <1>2, <1>3, <1>7 DEF Seal, Goto, Return
<1>8. CASE Notify(p) BY <1>2, <1>3, <1>8 DEF Notify, Notified, Goto, Return
<1>9. CASE Wake(p) BY <1>2, <1>3, <1>9 DEF Wake
<1>10. CASE Push(p) BY <1>2, <1>3, <1>10 DEF Push, Goto
<1>11. CASE Seen(p) BY <1>2, <1>3, <1>11 DEF Seen
<1>12. CASE Enable(p) BY <1>2, <1>3, <1>12 DEF Enable
<1>13. CASE CheckClosed(p) BY <1>2, <1>3, <1>13 DEF CheckClosed
<1>14. CASE Await(p) BY <1>2, <1>3, <1>14 DEF Await
<1>15. CASE CancelPush(p) BY <1>2, <1>3, <1>15 DEF CancelPush
<1> QED BY <1>4, <1>5, <1>6, <1>7, <1>8, <1>9, <1>10, <1>11, <1>12, <1>13, <1>14, <1>15

(* Every step keeps a queued command's wakeup pending until the writer is awake. *)
LEMMA WakeStep == WakeInv /\ [QueueNext]_qvars => WakeInv'
PROOF
<1> SUFFICES ASSUME WakeInv, [QueueNext]_qvars PROVE WakeInv'
    OBVIOUS
<1>1. QueueBase' BY BaseStep DEF WakeInv
<1>2. CASE UNCHANGED qvars
  BY <1>1, <1>2 DEF WakeInv, Unflagged, qvars, producerVars, writerVars
<1>3. CASE Drain \/ Process \/ Rearm \/ Park \/ Fault
  BY <1>1, <1>3 DEF Drain, Process, Rearm, Park, Fault, WriterGoto, WakeInv
<1>4. CASE ClearFlag BY <1>1, <1>4 DEF ClearFlag, WriterGoto, WakeInv
<1>5. CASE Recheck BY <1>1, <1>5 DEF Recheck, WriterGoto, WakeInv, producerVars
<1>6. CASE Fence \/ Close \/ WakeAll \/ Reclaim \/ CountGuards
  BY <1>1, <1>6 DEF Fence, Close, WakeAll, Reclaim, CountGuards, WriterGoto, WakeInv
<1>7. CASE SignalShutdown
  BY <1>1, <1>7 DEF SignalShutdown, WakeInv, Unflagged, producerVars, writerVars
<1> QED BY <1>1, <1>2, <1>3, <1>4, <1>5, <1>6, <1>7, StepCases, WakeProducer

(* The writer task never sleeps on queued data (notify_data against prepare_park): while it
   is parked without a permit, the producer of a queued command is about to notify it. *)
THEOREM NoLostWakeup == QueueSpec => []NoSleepingWriter
PROOF
<1>1. WakeInv => NoSleepingWriter BY DEF WakeInv, NoSleepingWriter
<1> QED BY <1>1, WakeInit, WakeStep, PTL DEF QueueSpec

-----------------------------------------------------------------------------
(* Nobody is counted on a new queue. *)
LEMMA ReclaimInit == QueueInit => ReclaimInv
BY BaseInit DEF QueueInit, ReclaimInv

(* A producer's step keeps the reclaim argument. *)
LEMMA ReclaimProducer ==
    ASSUME NEW p \in Producers, ReclaimInv, QueueBase',
           \/ Enqueue(p) \/ Guard(p) \/ TryPush(p) \/ Seal(p) \/ Notify(p) \/ Wake(p) \/ Push(p)
           \/ Seen(p) \/ Enable(p) \/ CheckClosed(p) \/ Await(p) \/ CancelPush(p)
    PROVE ReclaimInv'
PROOF
<1> USE DEF ReclaimInv, QueueBase
<1>1. PICK l \in Labels : qpc' = [qpc EXCEPT ![p] = l] BY ProducerFrame
<1>2. wpc' = wpc BY ProducerFrame
<1>3. qpc'[p] = l /\ \A o \in Producers \ {p} : qpc'[o] = qpc[o] BY <1>1
<1>4. CASE Enqueue(p) BY <1>2, <1>3, <1>4 DEF Enqueue, Goto
<1>5. CASE Guard(p) BY <1>2, <1>3, <1>5 DEF Guard, Goto, Return
<1>6. CASE TryPush(p) BY <1>2, <1>3, <1>6 DEF TryPush, Goto
<1>7. CASE Seal(p) BY <1>2, <1>3, <1>7 DEF Seal, Goto, Return
<1>8. CASE Notify(p) BY <1>2, <1>3, <1>8 DEF Notify, Notified, Goto, Return
<1>9. CASE Wake(p) BY <1>2, <1>3, <1>9 DEF Wake, Notified, Goto, Return
<1>10. CASE Push(p) BY <1>2, <1>3, <1>10 DEF Push, Goto
<1>11. CASE Seen(p) BY <1>2, <1>3, <1>11 DEF Seen, Goto, Return
<1>12. CASE Enable(p) BY <1>2, <1>3, <1>12 DEF Enable, Goto
<1>13. CASE CheckClosed(p) BY <1>2, <1>3, <1>13 DEF CheckClosed, Goto, Return
<1>14. CASE Await(p) BY <1>2, <1>3, <1>14 DEF Await, Goto, Return
<1>15. CASE CancelPush(p) BY <1>2, <1>3, <1>15 DEF CancelPush, Goto, Return
<1> QED BY <1>4, <1>5, <1>6, <1>7, <1>8, <1>9, <1>10, <1>11, <1>12, <1>13, <1>14, <1>15

(* Every step keeps whoever may push counted, and the last drain last. *)
LEMMA ReclaimStep == ReclaimInv /\ [QueueNext]_qvars => ReclaimInv'
PROOF
<1> SUFFICES ASSUME ReclaimInv, [QueueNext]_qvars PROVE ReclaimInv'
    OBVIOUS
<1>1. QueueBase' BY BaseStep DEF ReclaimInv
<1>2. CASE UNCHANGED qvars BY <1>1, <1>2 DEF ReclaimInv, qvars, producerVars, writerVars
<1>3. CASE Drain \/ Process \/ ClearFlag \/ Recheck \/ Rearm \/ Park \/ Fault
  BY <1>1, <1>3 DEF Drain, Process, ClearFlag, Recheck, Rearm, Park, Fault, WriterGoto,
                    ReclaimInv, producerVars
<1>4. CASE Fence \/ Close \/ WakeAll \/ Reclaim \/ CountGuards \/ SignalShutdown
  BY <1>1, <1>4 DEF Fence, Close, WakeAll, Reclaim, CountGuards, SignalShutdown, WriterGoto,
                    ReclaimInv, producerVars, writerVars
<1> QED BY <1>1, <1>2, <1>3, <1>4, StepCases, ReclaimProducer

(* Once close_and_reclaim has returned, the queue is empty and stays empty. *)
THEOREM NothingRetained == QueueSpec => []ReclaimedAfterClose
PROOF
<1>1. ReclaimInv => ReclaimedAfterClose BY DEF ReclaimInv, ReclaimedAfterClose
<1> QED BY <1>1, ReclaimInit, ReclaimStep, PTL DEF QueueSpec
=============================================================================
