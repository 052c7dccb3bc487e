---------------------------- MODULE MCConnection ----------------------------
(* Small instances of the parts of one connection, checked side by side: a behaviour runs one
   part, the others stay as they are in their first scenario. *)
EXTENDS WriteQueue, ReplySlots, TLC

CONSTANTS p1, p2, p3, l1, l2, l3, a, b
VARIABLE part
vars == <<part, qvars, rvars>>

(* Producers and calls of each scenario, and how the writer task ends. *)
Callers(kind, first, second, third, exit) ==
    [kind |-> kind, call |-> (p1 :> first @@ p2 :> second @@ p3 :> third), exit |-> exit]
QueueFirst == Callers("stream", "push", "push", "push", "none")
Queues == {QueueFirst,
           Callers("write", "block", "block", "none", "fault"),
           Callers("write", "block", "try", "none", "shutdown"),
           Callers("stream", "push", "try", "none", "fault"),
           Callers("stream", "push", "push", "none", "shutdown")}

(* Leases l1 and l2 come from clones of one responder, l3 answers another ask. *)
Responder == (l1 :> a @@ l2 :> a @@ l3 :> b)
Use(use, size) == [use |-> use, size |-> size]
Unused == Use("none", "small")
Replies(slots, jobs, bytes, first, second, third, drops, crash) ==
    [slots |-> slots, jobs |-> jobs, bytes |-> bytes,
     plan |-> (l1 :> first @@ l2 :> second @@ l3 :> third), drops |-> drops,
     crash |-> crash]
LeasesFirst == Replies(2, 2, 3, Use("fire", "small"), Use("wait", "small"), Unused, FALSE, TRUE)
LeasePlans == {LeasesFirst,
               Replies(2, 2, 3, Use("wait", "big"), Unused, Use("wait", "small"), TRUE, FALSE),
               Replies(1, 2, 2, Use("fire", "small"), Unused, Use("oversize", "small"), FALSE, TRUE),
               Replies(1, 1, 2, Use("wait", "big"), Unused, Unused, TRUE, TRUE),
               Replies(1, 1, 2, Use("fire", "small"), Use("drop", "small"), Unused, FALSE, FALSE),
               Replies(1, 2, 2, Use("fire", "big"), Unused, Use("drop", "small"), FALSE, FALSE)}

Init ==
    /\ part \in {"queue", "replies"}
    /\ QueueInit /\ (part # "queue" => qplan = QueueFirst)
    /\ SlotsInit /\ (part # "replies" => rplan = LeasesFirst)
InQueue == part = "queue" /\ UNCHANGED <<part, rvars>>
InReplies == part = "replies" /\ UNCHANGED <<part, qvars>>
Next == (InQueue /\ QueueNext) \/ (InReplies /\ SlotsNext)
(* QueueFairness and SlotsFairness, each for the part that runs. *)
Fairness ==
    /\ \A p \in Producers : WF_vars(InQueue /\ ProducerStep(p))
    /\ WF_vars(InQueue /\ WriterStep)
    /\ WF_vars(InQueue /\ qshut = "stored" /\ SignalShutdown)
    /\ \A l \in Leases : WF_vars(InReplies /\ OwnerStep(l))
    /\ WF_vars(InReplies /\ IOStep)
Spec == Init /\ [][Next]_vars /\ Fairness

(* Nobody waits for ever: a producer that waits for room comes back, with room or with
   ConnectionClosed (push); the teardown's spin on try_push_state ends, not held up by a waiting
   caller (close_and_reclaim); an owner that waits for its reply returns (wait_complete). *)
CallsReturn ==
    <>[](/\ \A p \in Producers : qpc[p] # "await"
         /\ Exited => wpc = "closed"
         /\ \A l \in Leases : rpc[l] # "await")

(* What was accepted is done, unless the connection is lost: a command whose call returned Ok is
   processed, and a claimed ask is answered whatever its owner does with the lease. *)
AcceptedDone ==
    <>[](/\ qok \subseteq qout \/ Exited
         /\ \A k \in Asks : rused[k] # {} => rfence \/ \E l \in rused[k] : Answered(l))
=============================================================================
