----------------------------- MODULE WriteQueue -----------------------------
(***************************************************************************)
(* The bounded queues between the callers of a connection and its writer   *)
(* task (constants.rs): WriteQueue, which the ordinary and the immediate   *)
(* lane use, and StreamingQueue.  Each step is one atomic operation of the *)
(* code.  A tokio Notify (external) keeps at most one permit, hands        *)
(* notify_one to the oldest registered waiter, and stores nothing for      *)
(* notify_waiters.                                                         *)
(***************************************************************************)
EXTENDS Integers, Sequences

CONSTANTS
    Producers,     \* callers holding a handle of the connection
    QueueCapacity, \* capacity of the ArrayQueue
    Calls,         \* bound: calls each producer makes
    QueueScenarios \* bounds: [kind: the queue; call: what each producer calls; exit: how
                   \* the writer task may end]

ASSUME QueueAssumption ==
    /\ QueueCapacity \in Nat \ {0} /\ Calls \in Nat
    /\ QueueScenarios \subseteq [kind : {"write", "stream"},
                                call : [Producers -> {"none", "block", "try", "push"}],
                                exit : {"none", "fault", "shutdown"}]

VARIABLES
    qplan,   \* the scenario: kind is "write" (WriteQueue) or "stream" (StreamingQueue)
    qbuf,    \* queue: commands <<producer, call>>
    qflag,   \* data_pending
    qdata,   \* the permit stored in data_notify
    qspace,  \* the permit stored in space_notify
    qwait,   \* producers registered on space_notify, oldest first
    qwoken,  \* how each producer's Notified future was completed: "no", "permit", "one", "all"
    qfence,  \* the STREAMING_QUEUE_CLOSED bit of try_push_state
    qguards, \* producers counted in try_push_state
    qclosed, \* closed
    qpc,     \* where each producer is
    qcalls,  \* how many calls it has made
    qok,     \* commands whose call returned Ok
    qout,    \* commands the writer has processed
    qcmd,    \* the command the writer holds
    wpc,     \* where the writer task is
    qshut    \* signal_shutdown: "no", "stored", "done"

producerVars == <<qpc, qcalls, qok>>
writerVars == <<qcmd, wpc, qout>>
spaceVars == <<qspace, qwait, qwoken>>
qvars == <<qplan, qbuf, qflag, qdata, spaceVars, qfence, qguards, qclosed, producerVars,
           writerVars, qshut>>

NoCommand == <<>>
Command(p) == <<p, qcalls[p]>>

QueueInit ==
    /\ qplan \in QueueScenarios
    /\ qbuf = <<>> /\ qflag = FALSE /\ qdata = FALSE
    /\ qspace = FALSE /\ qwait = <<>> /\ qwoken = [p \in Producers |-> "no"]
    /\ qfence = FALSE /\ qguards = {} /\ qclosed = FALSE
    /\ qpc = [p \in Producers |-> "idle"]
    /\ qcalls = [p \in Producers |-> 0] /\ qok = {}
    /\ qcmd = NoCommand /\ wpc = "loop" /\ qout = {}
    /\ qshut = "no"

Goto(p, label) == qpc' = [qpc EXCEPT ![p] = label]
Return(p, ok) ==
    /\ Goto(p, "idle")
    /\ qok' = IF ok THEN qok \cup {Command(p)} ELSE qok

-----------------------------------------------------------------------------
(* A call.  enqueue_write, enqueue_ask_write and enqueue_immediate_write: try_push, then
   push when it is full ("block"); their nonblocking forms and flush_immediately ("try");
   the streaming writes push at once ("push").  exit_flag is stored before the fence. *)
Exited == wpc \in {"fence", "close", "wakeall", "drain", "count", "final", "closed"}
Enqueue(p) ==
    /\ qpc[p] = "idle" /\ qcalls[p] < Calls /\ qplan.call[p] # "none"
    /\ qcalls' = [qcalls EXCEPT ![p] = @ + 1]
    /\ Goto(p, IF qplan.kind = "write" /\ (Exited \/ qshut # "no") THEN "idle"
               ELSE IF qplan.call[p] = "push" THEN "guard" ELSE "tryguard")
    /\ UNCHANGED <<qplan, qbuf, qflag, qdata, spaceVars, qfence, qguards, qclosed, qok,
                   writerVars, qshut>>

(* enqueue_guard *)
Guard(p) ==
    /\ qpc[p] \in {"tryguard", "guard"}
    /\ \/ /\ qfence /\ Return(p, FALSE) /\ UNCHANGED qguards
       \/ /\ ~qfence
          /\ qguards' = qguards \cup {p}
          /\ Goto(p, IF qpc[p] = "guard" THEN "push" ELSE "trypush")
          /\ UNCHANGED qok
    /\ UNCHANGED <<qplan, qbuf, qflag, qdata, spaceVars, qfence, qclosed, qcalls,
                   writerVars, qshut>>

(* try_push: the push.  StreamingQueue notifies at once, WriteQueue's caller does so after
   the guard is dropped. *)
TryPush(p) ==
    /\ qpc[p] = "trypush"
    /\ \/ /\ Len(qbuf) < QueueCapacity
          /\ qbuf' = Append(qbuf, Command(p))
          /\ Goto(p, IF qplan.kind = "stream" THEN "notify" ELSE "seal")
       \/ /\ Len(qbuf) = QueueCapacity
          /\ Goto(p, "sealfull")
          /\ UNCHANGED qbuf
    /\ UNCHANGED <<qplan, qflag, qdata, spaceVars, qfence, qguards, qclosed, qcalls, qok,
                   writerVars, qshut>>

(* try_push: the closed bit is read again under the guard, which is then dropped. *)
Seal(p) ==
    /\ qpc[p] \in {"seal", "sealfull"}
    /\ qguards' = qguards \ {p}
    /\ \/ qfence /\ Return(p, FALSE)
       \/ /\ ~qfence /\ qpc[p] = "seal"
          /\ IF qplan.kind = "stream" THEN Return(p, TRUE)
             ELSE Goto(p, "notify") /\ UNCHANGED qok
       \/ /\ ~qfence /\ qpc[p] = "sealfull"
          /\ IF qplan.call[p] = "block" THEN Goto(p, "guard") /\ UNCHANGED qok ELSE Return(p, FALSE)
    /\ UNCHANGED <<qplan, qbuf, qflag, qdata, spaceVars, qfence, qclosed, qcalls,
                   writerVars, qshut>>

(* Where a call goes on after notify_data. *)
Notified(p) ==
    IF p \notin qguards THEN Return(p, TRUE)
    ELSE Goto(p, IF qplan.call[p] = "try" THEN "seal" ELSE "seen") /\ UNCHANGED qok

(* notify_data: the swap, and notify_one by the producer that found the flag clear. *)
Notify(p) ==
    /\ qpc[p] = "notify"
    /\ qflag' = TRUE
    /\ IF qflag THEN Notified(p) ELSE Goto(p, "wake") /\ UNCHANGED qok
    /\ UNCHANGED <<qplan, qbuf, qdata, spaceVars, qfence, qguards, qclosed, qcalls,
                   writerVars, qshut>>
Wake(p) ==
    /\ qpc[p] = "wake"
    /\ qdata' = TRUE
    /\ Notified(p)
    /\ UNCHANGED <<qplan, qbuf, qflag, spaceVars, qfence, qguards, qclosed, qcalls,
                   writerVars, qshut>>

(* push: the publication under the guard; when the queue is full the guard is dropped
   before the wait. *)
Push(p) ==
    /\ qpc[p] = "push"
    /\ \/ /\ Len(qbuf) < QueueCapacity
          /\ qbuf' = Append(qbuf, Command(p))
          /\ Goto(p, "notify")
          /\ UNCHANGED qguards
       \/ /\ Len(qbuf) = QueueCapacity
          /\ qguards' = qguards \ {p}
          /\ Goto(p, "enable")
          /\ UNCHANGED qbuf
    /\ UNCHANGED <<qplan, qflag, qdata, spaceVars, qfence, qclosed, qcalls, qok,
                   writerVars, qshut>>
Seen(p) ==
    /\ qpc[p] = "seen"
    /\ qguards' = qguards \ {p}
    /\ Return(p, ~qclosed)
    /\ UNCHANGED <<qplan, qbuf, qflag, qdata, spaceVars, qfence, qclosed, qcalls,
                   writerVars, qshut>>

(* push: enable() takes the stored permit or registers the waiter. *)
Enable(p) ==
    /\ qpc[p] = "enable"
    /\ qspace' = FALSE
    /\ IF qspace THEN qwoken' = [qwoken EXCEPT ![p] = "permit"] /\ UNCHANGED qwait
       ELSE qwait' = Append(qwait, p) /\ UNCHANGED qwoken
    /\ Goto(p, "check")
    /\ UNCHANGED <<qplan, qbuf, qflag, qdata, qfence, qguards, qclosed, qcalls, qok,
                   writerVars, qshut>>

(* space_notify.notify_one *)
NotifyOne(waiting, woken) ==
    IF waiting = <<>> THEN /\ qspace' = TRUE /\ qwait' = waiting /\ qwoken' = woken
    ELSE /\ qwait' = Tail(waiting) /\ qwoken' = [woken EXCEPT ![Head(waiting)] = "one"]
         /\ UNCHANGED qspace

(* The Notified future is dropped: deregistered, and a notify_one it had received while
   registered goes to the next waiter. *)
DropNotified(p) ==
    LET others == SelectSeq(qwait, LAMBDA w : w # p)
        woken == [qwoken EXCEPT ![p] = "no"]
    IN IF qwoken[p] = "one" THEN NotifyOne(others, woken)
       ELSE qwait' = others /\ qwoken' = woken /\ UNCHANGED qspace

(* push: closed is read after enable(), and again when the wait is over. *)
CheckBeforeEnable(p) ==  \* mutant of CheckClosed: closed was read before registering
    /\ qpc[p] = "check"
    /\ Goto(p, "await")
    /\ UNCHANGED <<qplan, qbuf, qflag, qdata, spaceVars, qfence, qguards, qclosed, qcalls,
                   qok, writerVars, qshut>>
CheckClosed(p) ==
    /\ qpc[p] = "check"
    /\ IF qclosed THEN Return(p, FALSE) /\ DropNotified(p)
       ELSE Goto(p, "await") /\ UNCHANGED <<qok, spaceVars>>
    /\ UNCHANGED <<qplan, qbuf, qflag, qdata, qfence, qguards, qclosed, qcalls,
                   writerVars, qshut>>
Await(p) ==
    /\ qpc[p] = "await" /\ qwoken[p] # "no"
    /\ qwoken' = [qwoken EXCEPT ![p] = "no"]
    /\ IF qclosed THEN Return(p, FALSE) ELSE Goto(p, "guard") /\ UNCHANGED qok
    /\ UNCHANGED <<qplan, qbuf, qflag, qdata, qspace, qwait, qfence, qguards, qclosed, 
                   qcalls, writerVars, qshut>>

(* The caller drops the push future while it waits (a timeout around the call).  A future
   completed by enable() does not suspend, so it cannot be dropped there. *)
CancelPush(p) ==
    /\ qpc[p] = "await" /\ qwoken[p] # "permit"
    /\ Return(p, FALSE)
    /\ DropNotified(p)
    /\ UNCHANGED <<qplan, qbuf, qflag, qdata, qfence, qguards, qclosed, qcalls,
                   writerVars, qshut>>

-----------------------------------------------------------------------------
(* The writer task (io_task), as far as one queue is concerned. *)
WriterGoto(label) == wpc' = label
Popped == /\ qcmd' = Head(qbuf) /\ qbuf' = Tail(qbuf)

(* The top of the loop: shutdown_signal, then the batch. *)
Drain ==
    /\ wpc = "loop"
    /\ \/ /\ qshut # "no" /\ WriterGoto("fence") /\ UNCHANGED <<qbuf, qcmd>>
       \/ /\ qshut = "no" /\ qbuf # <<>> /\ Popped /\ WriterGoto("process")
       \/ /\ qshut = "no" /\ qbuf = <<>> /\ WriterGoto("clear") /\ UNCHANGED <<qbuf, qcmd>>
    /\ UNCHANGED <<qplan, qflag, qdata, spaceVars, qfence, qguards, qclosed, producerVars, qout,
                   qshut>>
Process ==
    /\ wpc = "process"
    /\ NotifyOne(qwait, qwoken)
    /\ qout' = qout \cup {qcmd} /\ qcmd' = NoCommand
    /\ WriterGoto("loop")
    /\ UNCHANGED <<qplan, qbuf, qflag, qdata, qfence, qguards, qclosed, producerVars, qshut>>

(* prepare_park: clear data_pending, pop once more, re-arm when that found a command. *)
ClearFlag ==
    /\ wpc = "clear"
    /\ qflag' = FALSE
    /\ WriterGoto("recheck")
    /\ UNCHANGED <<qplan, qbuf, qdata, spaceVars, qfence, qguards, qclosed, producerVars, qcmd,
                   qout, qshut>>
RecheckNothing ==  \* mutant of Recheck: parks without looking again
    /\ wpc = "recheck"
    /\ WriterGoto("park")
    /\ UNCHANGED <<qplan, qbuf, qcmd, qflag, qdata, spaceVars, qfence, qguards, qclosed,
                   producerVars, qout, qshut>>
Recheck ==
    /\ wpc = "recheck"
    /\ IF qbuf # <<>> THEN Popped /\ WriterGoto("rearm")
       ELSE WriterGoto("park") /\ UNCHANGED <<qbuf, qcmd>>
    /\ UNCHANGED <<qplan, qflag, qdata, spaceVars, qfence, qguards, qclosed, producerVars, qout,
                   qshut>>
Rearm ==
    /\ wpc = "rearm"
    /\ qflag' = TRUE
    /\ WriterGoto("process")
    /\ UNCHANGED <<qplan, qbuf, qdata, spaceVars, qfence, qguards, qclosed, producerVars, qcmd,
                   qout, qshut>>

(* The idle select: data_notify.notified(), then one pop. *)
Park ==
    /\ wpc = "park" /\ qdata
    /\ qdata' = FALSE
    /\ IF qbuf # <<>> THEN Popped /\ WriterGoto("process")
       ELSE WriterGoto("loop") /\ UNCHANGED <<qbuf, qcmd>>
    /\ UNCHANGED <<qplan, qflag, spaceVars, qfence, qguards, qclosed, producerVars, qout, qshut>>

(* A write error or a read error ends the task wherever it performs I/O. *)
Fault ==
    /\ wpc \in {"process", "park"} /\ qplan.exit = "fault"
    /\ qcmd' = NoCommand
    /\ WriterGoto("fence")
    /\ UNCHANGED <<qplan, qbuf, qflag, qdata, spaceVars, qfence, qguards, qclosed, producerVars,
                   qout, qshut>>

(* ExitGuard: exit_flag is set on the way to "fence"; mark_closed_and_wake. *)
Fence ==
    /\ wpc = "fence"
    /\ qfence' = TRUE
    /\ WriterGoto("close")
    /\ UNCHANGED <<qplan, qbuf, qflag, qdata, spaceVars, qguards, qclosed, producerVars, qcmd,
                   qout, qshut>>
Close ==
    /\ wpc = "close"
    /\ qclosed' = TRUE
    /\ WriterGoto("wakeall")
    /\ UNCHANGED <<qplan, qbuf, qflag, qdata, spaceVars, qfence, qguards, producerVars, qcmd,
                   qout, qshut>>
WakeAll ==
    /\ wpc = "wakeall"
    /\ qwoken' = [p \in Producers |->
                    IF \E i \in 1..Len(qwait) : qwait[i] = p THEN "all" ELSE qwoken[p]]
    /\ qwait' = <<>>
    /\ WriterGoto("drain")
    /\ UNCHANGED <<qplan, qbuf, qflag, qdata, qspace, qfence, qguards, qclosed, producerVars,
                   qcmd, qout, qshut>>

(* close_and_reclaim: drain, look for callers inside the guard, drain a last time. *)
Reclaim ==
    /\ wpc \in {"drain", "final"}
    /\ qbuf' = <<>>
    /\ WriterGoto(IF wpc = "drain" THEN "count" ELSE "closed")
    /\ UNCHANGED <<qplan, qflag, qdata, spaceVars, qfence, qguards, qclosed, producerVars, qcmd,
                   qout, qshut>>
CountGuardsNot ==  \* mutant of CountGuards: callers inside the guard are not awaited
    /\ wpc = "count"
    /\ WriterGoto("final")
    /\ UNCHANGED <<qplan, qbuf, qflag, qdata, spaceVars, qfence, qguards, qclosed, producerVars,
                   qcmd, qout, qshut>>
CountGuards ==
    /\ wpc = "count"
    /\ WriterGoto(IF qguards = {} THEN "final" ELSE "drain")
    /\ UNCHANGED <<qplan, qbuf, qflag, qdata, spaceVars, qfence, qguards, qclosed, producerVars,
                   qcmd, qout, qshut>>

(* signal_shutdown: the flag, then wake_consumer. *)
SignalShutdown ==
    /\ qplan.exit = "shutdown" /\ qshut \in {"no", "stored"}
    /\ qshut' = IF qshut = "no" THEN "stored" ELSE "done"
    /\ qdata' = (qdata \/ qshut = "stored")
    /\ UNCHANGED <<qplan, qbuf, qflag, spaceVars, qfence, qguards, qclosed, producerVars,
                   writerVars>>

-----------------------------------------------------------------------------
ProducerStep(p) ==
    \/ Guard(p) \/ TryPush(p) \/ Seal(p) \/ Notify(p) \/ Wake(p) \/ Push(p) \/ Seen(p)
    \/ Enable(p) \/ CheckClosed(p) \/ Await(p)
WriterStep ==
    \/ Drain \/ Process \/ ClearFlag \/ Recheck \/ Rearm \/ Park
    \/ Fence \/ Close \/ WakeAll \/ Reclaim \/ CountGuards

QueueNext ==
    \/ \E p \in Producers : \/ Enqueue(p)
                            \/ ProducerStep(p)
                            \/ CancelPush(p)
    \/ WriterStep \/ Fault \/ SignalShutdown

QueueSpec == QueueInit /\ [][QueueNext]_qvars

(* Threads and tasks are scheduled; a call need not be made, cancelled or shut down. *)
QueueFairness ==
    /\ \A p \in Producers : WF_qvars(ProducerStep(p))
    /\ WF_qvars(WriterStep)
    /\ WF_qvars(qshut = "stored" /\ SignalShutdown)

-----------------------------------------------------------------------------
(* A producer that has pushed its command and not yet come to the swap of notify_data. *)
Unflagged(p) == qpc[p] = "notify" \/ (qpc[p] = "seal" /\ qplan.kind # "stream")

(* The writer never sleeps on data: while it is parked without a wake-up and commands are
   queued, the producer of one of them is still on its way to notify it (notify_data and
   prepare_park, constants.rs). *)
NoSleepingWriter ==
    wpc = "park" /\ ~qdata /\ qbuf # <<>>
    => \E p \in Producers : Unflagged(p) \/ qpc[p] = "wake"

(* After close_and_reclaim returned the queue holds nothing and nothing is ever added. *)
ReclaimedAfterClose == wpc = "closed" => qbuf = <<>> /\ qguards = {}

=============================================================================
