----------------------------- MODULE ReplySlots -----------------------------
(***************************************************************************)
(* Reply leases (reply_lease.rs, ask_responder.rs), the reply slots of a   *)
(* connection (reply_slots.rs) and the writer's delivery of a leased reply *)
(* (stream_writer.rs).  A record is named by its lease: generations tell   *)
(* apart the records of one slot index as leases do here.  One step is one *)
(* atomic operation, or several of which only the last can be observed.    *)
(***************************************************************************)
EXTENDS Integers, Sequences, FiniteSets

CONSTANTS
    SlotCount,      \* bound on the slots of a scenario
    JobLimit,       \* bound on the job_limit of the ReplyDeliveryBudget
    Leases,         \* bound: the leases asked for
    AskOf,          \* AskOf[l]: the ask; clones of one responder share it
    BigFrames,      \* frames of a reply above streaming_threshold
    LeaseScenarios, \* [slots: REPLY_SLOT_CAP; jobs, bytes: the limits of the budget; plan: per
                    \* lease how it is used and how long its reply is; drops: whether a waiting
                    \* future may be dropped; crash: whether the writer task may end]
    None            \* absence

IO == "io"   \* the writer task, among the threads
ASSUME SlotsAssumption ==
    /\ {SlotCount, JobLimit, BigFrames} \subseteq Nat \ {0}
    /\ IsFiniteSet(Leases) /\ None \notin Leases /\ IO \notin Leases
    /\ \A s \in LeaseScenarios :
         /\ s.slots \in 1..SlotCount /\ s.jobs \in 1..JobLimit /\ s.bytes \in Nat
         /\ \A l \in Leases : s.plan[l].size \in {"small", "big"}

Slots == 1..SlotCount
Asks == {AskOf[l] : l \in Leases}
Threads == Leases \cup {IO}

VARIABLES
    rplan,    \* the scenario
    rjobs,    \* job permits left
    rbytes,   \* byte permits left
    rused,    \* rused[a]: the lease that took the single-use guard of ask a, if any
    rfree,    \* free
    rtable,   \* table
    rready,   \* ready
    rclosed,  \* closed
    rfence,   \* the RESERVATION_CLOSED bit of reservation_state
    rcount,   \* threads counted in reservation_state
    rnotify,  \* the permit stored in lease_notify
    rec,      \* rec[l]: the ReplySlotRecord
    rpc,      \* where the owner of each lease is
    rsub,     \* rsub[t]: the completion routine thread t is in
    rwait,    \* owners registered on their record's completion
    rwoken,   \* owners it has notified since
    iopc,     \* where the writer task is
    rcur,     \* the leased response it writes
    ryield,   \* leased responses that yielded at a frame boundary
    rwire     \* rwire[l]: complete frames written for l

resourceVars == <<rjobs, rbytes>>
slotVars == <<rfree, rtable>>
fenceVars == <<rclosed, rfence, rcount>>
ownerVars == <<rused, rpc>>
waitVars == <<rwait, rwoken>>
ioVars == <<iopc, rcur, ryield, rwire>>
rvars == <<rplan, resourceVars, slotVars, fenceVars, rready, rnotify, rec, ownerVars, rsub,
           waitVars, ioVars>>

Bytes(l) == IF rplan.plan[l].size = "big" THEN 2 ELSE 1   \* max_reply_bytes
NoRecord == [index |-> 0, state |-> "absent", publication |-> "open", payload |-> "none",
             flags |-> {}]   \* of "cancelled", "activated" and "recycled"
NoResponse == [lease |-> None, stage |-> "none", frame |-> 0, sent |-> "none"]
NoSub == [at |-> "none", record |-> None, kind |-> "none"]

Flagged(l, flag) == flag \in rec[l].flags

SlotsInit ==
    /\ rplan \in LeaseScenarios
    /\ rjobs = rplan.jobs /\ rbytes = rplan.bytes /\ rused = [a \in Asks |-> {}]
    /\ rfree = [i \in 1..rplan.slots |-> i] /\ rtable = [i \in Slots |-> None] /\ rready = <<>>
    /\ rclosed = FALSE /\ rfence = FALSE /\ rcount = {} /\ rnotify = FALSE
    /\ rec = [l \in Leases |-> NoRecord] /\ rpc = [l \in Leases |-> "start"]
    /\ rsub = [t \in Threads |-> NoSub] /\ rwait = {} /\ rwoken = {}
    /\ iopc = "look" /\ rcur = NoResponse
    /\ ryield = <<>> /\ rwire = [l \in Leases |-> <<>>]

OwnerAt(l, label) == rpc[l] = label /\ rsub[l].at = "none"
OwnerGoto(l, label) == rpc' = [rpc EXCEPT ![l] = label]
(* Call complete (via finish), complete_discarded (via discard) or complete_closed (via
   remove_closed) for record l, from thread t. *)
Call(t, l, kind, at) == rsub' = [rsub EXCEPT ![t] = [at |-> at, record |-> l, kind |-> kind]]

-----------------------------------------------------------------------------
(* Admission: reserve_for_responder. *)
(* ReplyDeliveryBudget::try_reserve: one job permit, then the bytes. *)
TakeJob(l) ==
    /\ OwnerAt(l, "start") /\ rplan.plan[l].use # "none"
    /\ \/ rjobs > 0 /\ rjobs' = rjobs - 1 /\ OwnerGoto(l, "bytes")
       \/ rjobs = 0 /\ OwnerGoto(l, "done") /\ UNCHANGED rjobs
    /\ UNCHANGED <<rplan, rbytes, slotVars, fenceVars, rready, rnotify, rec, rused, rsub, waitVars,
                   ioVars>>
TakeBytes(l) ==
    /\ OwnerAt(l, "bytes")
    /\ \/ /\ rbytes >= Bytes(l) /\ rbytes' = rbytes - Bytes(l)
          /\ OwnerGoto(l, "reserve") /\ UNCHANGED rjobs
       \/ /\ rbytes < Bytes(l) /\ rjobs' = rjobs + 1
          /\ OwnerGoto(l, "done") /\ UNCHANGED rbytes
    /\ UNCHANGED <<rplan, slotVars, fenceVars, rready, rnotify, rec, rused, rsub, waitVars, ioVars>>

GiveBack(l) == rjobs' = rjobs + 1 /\ rbytes' = rbytes + Bytes(l)

(* try_reserve: begin_reservation, the record and its table entry, end_reservation. *)
BeginReserve(l) ==
    /\ OwnerAt(l, "reserve")
    /\ \/ rfence /\ GiveBack(l) /\ OwnerGoto(l, "done") /\ UNCHANGED rcount
       \/ /\ ~rfence /\ rcount' = rcount \cup {l} /\ OwnerGoto(l, "take")
          /\ UNCHANGED resourceVars
    /\ UNCHANGED <<rplan, slotVars, rclosed, rfence, rready, rnotify, rec, rused, rsub, waitVars,
                   ioVars>>
Reserve(l) ==
    /\ OwnerAt(l, "take")
    /\ \/ /\ rfree # <<>>
          /\ rfree' = Tail(rfree)
          /\ rec' = [rec EXCEPT ![l] = [NoRecord EXCEPT !.index = Head(rfree), !.state = "reserved"]]
          /\ rtable' = [rtable EXCEPT ![Head(rfree)] = l]
          /\ OwnerGoto(l, "reserved")
          /\ UNCHANGED <<resourceVars, rcount>>
       \/ /\ rfree = <<>>
          /\ rcount' = rcount \ {l} /\ GiveBack(l) /\ OwnerGoto(l, "done")
          /\ UNCHANGED <<slotVars, rec>>
    /\ UNCHANGED <<rplan, rclosed, rfence, rready, rnotify, rused, rsub, waitVars, ioVars>>
EndReserve(l) ==
    /\ OwnerAt(l, "reserved")
    /\ rcount' = rcount \ {l}
    /\ OwnerGoto(l, "opened")
    /\ UNCHANGED <<rplan, resourceVars, slotVars, rclosed, rfence, rready, rnotify, rec, rused,
                   rsub, waitVars, ioVars>>
CheckReserved(l) ==
    /\ OwnerAt(l, "opened")
    /\ IF rclosed THEN OwnerGoto(l, "done") /\ Call(l, l, "closed", "load")
       ELSE OwnerGoto(l, "claim") /\ UNCHANGED rsub
    /\ UNCHANGED <<rplan, resourceVars, slotVars, fenceVars, rready, rnotify, rec, rused, waitVars,
                   ioVars>>

(* claim_for_lease: a lost claim discards the reservation. *)
ClaimUnchecked(l) ==  \* mutant of ClaimReply: a second clone of the responder may answer too
    /\ OwnerAt(l, "claim")
    /\ rused' = [rused EXCEPT ![AskOf[l]] = {l}]
    /\ OwnerGoto(l, "publish")
    /\ UNCHANGED <<rplan, resourceVars, slotVars, fenceVars, rready, rnotify, rec, rsub, waitVars,
                   ioVars>>
ClaimReply(l) ==
    /\ OwnerAt(l, "claim")
    /\ IF rused[AskOf[l]] # {}
       THEN OwnerGoto(l, "done") /\ Call(l, l, "discarded", "load") /\ UNCHANGED rused
       ELSE /\ rused' = [rused EXCEPT ![AskOf[l]] = {l}]
            /\ OwnerGoto(l, IF rplan.plan[l].use \in {"drop", "oversize"} THEN "cancel" ELSE "publish")
            /\ UNCHANGED rsub
    /\ UNCHANGED <<rplan, resourceVars, slotVars, fenceVars, rready, rnotify, rec, waitVars, ioVars>>
-----------------------------------------------------------------------------
(* The lease: try_reply_bytes ("fire"), reply_bytes ("wait"), drop or an oversized reply
   ("drop", "oversize"), and the drop of the reply_bytes future. *)
(* publish: close wins, or the payload is stored while the publication is WRITING. *)
BeginPublish(l) ==
    /\ OwnerAt(l, "publish")
    /\ \/ /\ rec[l].publication = "closed" /\ OwnerGoto(l, "done") /\ UNCHANGED rec
       \/ /\ rec[l].publication = "open"
          /\ rec' = [rec EXCEPT ![l].publication = "writing"]
          /\ OwnerGoto(l, "store")
    /\ UNCHANGED <<rplan, resourceVars, slotVars, fenceVars, rready, rnotify, rused, rsub, waitVars,
                   ioVars>>
StorePayload(l) ==
    /\ OwnerAt(l, "store")
    /\ rec' = [rec EXCEPT ![l].publication = "open", ![l].payload = rplan.plan[l].size]
    /\ OwnerGoto(l, "activate")
    /\ UNCHANGED <<rplan, resourceVars, slotVars, fenceVars, rready, rnotify, rused, rsub, waitVars,
                   ioVars>>

Cancel(l) ==
    /\ OwnerAt(l, "cancel")
    /\ rec' = [rec EXCEPT ![l].flags = @ \cup {"cancelled"}]
    /\ OwnerGoto(l, "activate")
    /\ UNCHANGED <<rplan, resourceVars, slotVars, fenceVars, rready, rnotify, rused, rsub, waitVars,
                   ioVars>>

(* Where the owner goes on after activate. *)
Activated(l) ==
    IF rec[l].payload # "none" /\ rplan.plan[l].use = "wait" /\ ~Flagged(l, "cancelled") THEN "enable"
    ELSE "done"

(* activate: the first call publishes into the ready set under the fence, another one only
   wakes the writer. *)
Activate(l) ==
    /\ OwnerAt(l, "activate")
    /\ rec' = [rec EXCEPT ![l].flags = @ \cup {"activated"}]
    /\ IF Flagged(l, "activated") THEN rnotify' = TRUE /\ OwnerGoto(l, Activated(l))
       ELSE OwnerGoto(l, "fence") /\ UNCHANGED rnotify
    /\ UNCHANGED <<rplan, resourceVars, slotVars, fenceVars, rready, rused, rsub, waitVars, ioVars>>
BeginActivate(l) ==
    /\ OwnerAt(l, "fence")
    /\ IF rfence THEN /\ OwnerGoto(l, Activated(l)) /\ Call(l, l, "closed", "load")
                      /\ UNCHANGED rcount
       ELSE rcount' = rcount \cup {l} /\ OwnerGoto(l, "fenced") /\ UNCHANGED rsub
    /\ UNCHANGED <<rplan, resourceVars, slotVars, rclosed, rfence, rready, rnotify, rec, rused,
                   waitVars, ioVars>>
CheckActivate(l) ==
    /\ OwnerAt(l, "fenced")
    /\ IF rclosed THEN /\ rcount' = rcount \ {l} /\ OwnerGoto(l, Activated(l))
                       /\ Call(l, l, "closed", "load")
       ELSE OwnerGoto(l, "ready") /\ UNCHANGED <<rcount, rsub>>
    /\ UNCHANGED <<rplan, resourceVars, slotVars, rclosed, rfence, rready, rnotify, rec, rused,
                   waitVars, ioVars>>
PushReady(l) ==
    /\ OwnerAt(l, "ready")
    /\ rready' = Append(rready, l)
    /\ OwnerGoto(l, "readied")
    /\ UNCHANGED <<rplan, resourceVars, slotVars, fenceVars, rnotify, rec, rused, rsub, waitVars,
                   ioVars>>
EndActivate(l) ==
    /\ OwnerAt(l, "readied")
    /\ rcount' = rcount \ {l}
    /\ OwnerGoto(l, "notify")
    /\ UNCHANGED <<rplan, resourceVars, slotVars, rclosed, rfence, rready, rnotify, rec, rused,
                   rsub, waitVars, ioVars>>
NotifyNobody(l) ==  \* mutant of NotifyLease: the writer task is not woken
    /\ OwnerAt(l, "notify")
    /\ OwnerGoto(l, Activated(l))
    /\ UNCHANGED <<rplan, resourceVars, slotVars, fenceVars, rready, rnotify, rec, rused, rsub,
                   waitVars, ioVars>>
NotifyLease(l) ==
    /\ OwnerAt(l, "notify")
    /\ rnotify' = TRUE
    /\ OwnerGoto(l, Activated(l))
    /\ UNCHANGED <<rplan, resourceVars, slotVars, fenceVars, rready, rec, rused, rsub, waitVars,
                   ioVars>>

(* wait_complete: register, read the state, wait for the notification. *)
EnableWait(l) ==
    /\ OwnerAt(l, "enable")
    /\ rwait' = rwait \cup {l} /\ rwoken' = rwoken \ {l}
    /\ OwnerGoto(l, "state")
    /\ UNCHANGED <<rplan, resourceVars, slotVars, fenceVars, rready, rnotify, rec, rused, rsub,
                   ioVars>>
ReadState(l) ==
    /\ OwnerAt(l, "state")
    /\ IF rec[l].state # "reserved" THEN OwnerGoto(l, "done") /\ rwait' = rwait \ {l}
       ELSE OwnerGoto(l, "await") /\ UNCHANGED rwait
    /\ UNCHANGED <<rplan, resourceVars, slotVars, fenceVars, rready, rnotify, rec, rused, rsub,
                   rwoken, ioVars>>
AwaitState(l) ==
    /\ OwnerAt(l, "await") /\ l \in rwoken
    /\ OwnerGoto(l, "enable")
    /\ UNCHANGED <<rplan, resourceVars, slotVars, fenceVars, rready, rnotify, rec, rused, rsub,
                   waitVars, ioVars>>
(* The reply_bytes future is dropped while it waits: Drop for ReplyLease. *)
DropWait(l) ==
    /\ OwnerAt(l, "await") /\ rplan.drops
    /\ rwait' = rwait \ {l}
    /\ OwnerGoto(l, "cancel")
    /\ UNCHANGED <<rplan, resourceVars, slotVars, fenceVars, rready, rnotify, rec, rused, rsub,
                   rwoken, ioVars>>

-----------------------------------------------------------------------------
(* finish, discard and remove_closed, and the complete* routine each of them ends in. *)
SubAt(t, at) == rsub[t].at = at
SubGoto(t, at) == rsub' = [rsub EXCEPT ![t].at = at]
SubDone(t) == rsub' = [rsub EXCEPT ![t] = NoSub]

(* The table entry is loaded: another generation, or none, ends the call. *)
SubLoad(t) ==
    LET l == rsub[t].record IN
    /\ SubAt(t, "load")
    /\ IF rtable[rec[l].index] # l THEN SubDone(t) ELSE SubGoto(t, "swap")
    /\ UNCHANGED <<rplan, resourceVars, slotVars, fenceVars, rready, rnotify, rec, ownerVars,
                   waitVars, ioVars>>
(* The table entry is swapped for None; complete_closed then closes the publication, once
   no payload is being stored. *)
SubSwap(t) ==
    LET l == rsub[t].record
        i == rec[l].index
    IN
    /\ SubAt(t, "swap")
    /\ rtable' = [rtable EXCEPT ![i] = IF @ = l THEN None ELSE @]
    /\ SubGoto(t, IF rsub[t].kind = "closed" THEN "publication" ELSE "recycle")
    /\ UNCHANGED <<rplan, resourceVars, rfree, fenceVars, rready, rnotify, rec, ownerVars,
                   waitVars, ioVars>>
ClosePublication(t) ==
    LET l == rsub[t].record IN
    /\ SubAt(t, "publication") /\ rec[l].publication # "writing"
    /\ rec' = [rec EXCEPT ![l].publication = "closed"]
    /\ SubGoto(t, "recycle")
    /\ UNCHANGED <<rplan, resourceVars, slotVars, fenceVars, rready, rnotify, ownerVars, waitVars,
                   ioVars>>
(* recycle_resources: once per record; the payloads, the permits, then the index. *)
RecycleAgain(t) ==  \* mutant of Recycle: resources_recycled is not consulted
    LET l == rsub[t].record IN
    /\ SubAt(t, "recycle")
    /\ rec' = [rec EXCEPT ![l].flags = @ \cup {"recycled"}]
    /\ SubGoto(t, "release")
    /\ UNCHANGED <<rplan, resourceVars, slotVars, fenceVars, rready, rnotify, ownerVars, waitVars,
                   ioVars>>
CompleteFirst(t) ==  \* mutant of Recycle: the owner is woken before the capacity is back
    LET l == rsub[t].record IN
    /\ SubAt(t, "recycle")
    /\ rec' = [rec EXCEPT ![l].flags = @ \cup {"recycled"}, ![l].state = "complete"]
    /\ rwoken' = rwoken \cup ({l} \cap rwait)
    /\ SubGoto(t, IF Flagged(l, "recycled") THEN "complete" ELSE "release")
    /\ UNCHANGED <<rplan, resourceVars, slotVars, fenceVars, rready, rnotify, ownerVars, rwait,
                   ioVars>>
Recycle(t) ==
    LET l == rsub[t].record IN
    /\ SubAt(t, "recycle")
    /\ rec' = [rec EXCEPT ![l].flags = @ \cup {"recycled"}]
    /\ SubGoto(t, IF Flagged(l, "recycled") THEN "complete" ELSE "release")
    /\ UNCHANGED <<rplan, resourceVars, slotVars, fenceVars, rready, rnotify, ownerVars, waitVars,
                   ioVars>>
ReleasePermits(t) ==
    LET l == rsub[t].record
        i == rec[l].index
    IN
    /\ SubAt(t, "release")
    /\ rtable' = [rtable EXCEPT ![i] = IF @ = l THEN None ELSE @]
    /\ rec' = [rec EXCEPT ![l].payload = "none"]
    /\ GiveBack(l)
    /\ SubGoto(t, "index")
    /\ UNCHANGED <<rplan, rfree, fenceVars, rready, rnotify, ownerVars, waitVars, ioVars>>
IndexLost(t) ==  \* mutant of RecycleIndex: a discarded reservation keeps its index
    LET l == rsub[t].record IN
    /\ SubAt(t, "index")
    /\ rfree' = IF rclosed \/ rsub[t].kind = "discarded" THEN rfree ELSE Append(rfree, rec[l].index)
    /\ SubGoto(t, "complete")
    /\ UNCHANGED <<rplan, resourceVars, rtable, fenceVars, rready, rnotify, rec, ownerVars,
                   waitVars, ioVars>>
RecycleIndex(t) ==
    LET l == rsub[t].record IN
    /\ SubAt(t, "index")
    /\ rfree' = IF rclosed THEN rfree ELSE Append(rfree, rec[l].index)
    /\ SubGoto(t, "complete")
    /\ UNCHANGED <<rplan, resourceVars, rtable, fenceVars, rready, rnotify, rec, ownerVars,
                   waitVars, ioVars>>
(* The state leaves RESERVED once, and that wakes the waiting owner. *)
Complete(t) ==
    LET l == rsub[t].record IN
    /\ SubAt(t, "complete")
    /\ rec' = [rec EXCEPT ![l].state =
                 IF @ # "reserved" THEN @ ELSE IF rsub[t].kind = "closed" THEN "closed" ELSE "complete"]
    /\ rwoken' = IF rec[l].state = "reserved" THEN rwoken \cup ({l} \cap rwait) ELSE rwoken
    /\ SubDone(t)
    /\ UNCHANGED <<rplan, resourceVars, slotVars, fenceVars, rready, rnotify, ownerVars, rwait,
                   ioVars>>

SubStep(t) ==
    /\ rsub[t].at # "none"
    /\ \/ SubLoad(t) \/ SubSwap(t) \/ ClosePublication(t) \/ Recycle(t)
       \/ ReleasePermits(t) \/ RecycleIndex(t) \/ Complete(t)

-----------------------------------------------------------------------------
(* The writer task. *)
IOAt(label) == iopc = label /\ rsub[IO].at = "none"
(* The next leased response: one that yielded or the oldest ready record; with neither the
   task parks on lease_notify. *)
NextResponse ==
    /\ IOAt("look") /\ rcur = NoResponse
    /\ \/ /\ ryield # <<>>
          /\ rcur' = Head(ryield) /\ ryield' = Tail(ryield)
          /\ UNCHANGED <<iopc, rready>>
       \/ /\ rready # <<>>
          /\ rcur' = [NoResponse EXCEPT !.lease = Head(rready), !.stage = "reserved"]
          /\ rready' = Tail(rready)
          /\ UNCHANGED <<iopc, ryield>>
       \/ /\ ryield = <<>> /\ rready = <<>>
          /\ iopc' = "parked"
          /\ UNCHANGED <<rready, rcur, ryield>>
    /\ UNCHANGED <<rplan, resourceVars, slotVars, fenceVars, rnotify, rec, ownerVars, rsub,
                   waitVars, rwire>>
WakeIO ==
    /\ IOAt("parked") /\ rnotify
    /\ rnotify' = FALSE
    /\ iopc' = "look"
    /\ UNCHANGED <<rplan, resourceVars, slotVars, fenceVars, rready, rec, ownerVars, rsub,
                   waitVars, rcur, ryield, rwire>>

(* write_leased_response_command_slice.  Choose: what the record is at the time of the first
   slice; a cancelled inline or streamed reply turns back at a point where no frame of it is
   cut in two. *)
Stage(s) == rcur' = [rcur EXCEPT !.stage = s, !.sent = "none"]
Terminal == Stage("terminal")
ChooseNoAbort ==  \* mutant of ChooseStage: a cancelled stream is not aborted
    LET l == rcur.lease
        r == rec[l]
    IN
    /\ IOAt("look")
    /\ \/ /\ rcur.stage = "reserved"
          /\ IF Flagged(l, "cancelled") \/ r.payload = "none" THEN Terminal
             ELSE Stage(IF r.payload = "small" THEN "inline" ELSE "normal")
       \/ rcur.stage \in {"inline", "normal"} /\ Flagged(l, "cancelled") /\ rcur.sent = "none" /\ Terminal
    /\ UNCHANGED <<rplan, resourceVars, slotVars, fenceVars, rready, rnotify, rec, ownerVars, rsub,
                   waitVars, iopc, ryield, rwire>>
ChooseStage ==
    LET l == rcur.lease
        r == rec[l]
        untouched == rcur.sent = "none"
    IN
    /\ IOAt("look")
    /\ \/ /\ rcur.stage = "reserved"
          /\ IF Flagged(l, "cancelled") \/ r.payload = "none" THEN Terminal
             ELSE \/ r.payload = "small" /\ Stage("inline")
                  \/ r.payload = "big" /\ Stage("normal")
                  \/ r.payload = "big" /\ Terminal   \* no stream id or chunk size left
       \/ /\ rcur.stage = "inline" /\ Flagged(l, "cancelled") /\ untouched /\ Terminal
       \/ /\ rcur.stage = "normal" /\ Flagged(l, "cancelled") /\ untouched
          /\ IF rcur.frame = 0 THEN Terminal ELSE Stage("abort")
    /\ UNCHANGED <<rplan, resourceVars, slotVars, fenceVars, rready, rnotify, rec, ownerVars, rsub,
                   waitVars, iopc, ryield, rwire>>

(* A slice of a frame: a part of it, or its end. *)
MayWrite == /\ IOAt("look") /\ rcur.stage \in {"inline", "normal", "abort", "terminal"}
            /\ rcur.stage \in {"inline", "normal"} => rcur.sent = "some" \/ ~Flagged(rcur.lease, "cancelled")
WritePart ==
    /\ MayWrite /\ rcur.sent = "none"
    /\ rcur' = [rcur EXCEPT !.sent = "some"]
    /\ UNCHANGED <<rplan, resourceVars, slotVars, fenceVars, rready, rnotify, rec, ownerVars, rsub,
                   waitVars, iopc, ryield, rwire>>
WriteEnd ==
    LET l == rcur.lease
        next == rcur.frame + 1
        frame == IF rcur.stage = "normal" THEN IF next = BigFrames THEN "last" ELSE "part"
                 ELSE rcur.stage
    IN
    /\ MayWrite
    /\ rwire' = [rwire EXCEPT ![l] = Append(@, frame)]
    /\ \/ /\ frame \in {"inline", "last", "terminal"} /\ Stage("flushing") /\ UNCHANGED ryield
       \/ /\ frame = "abort" /\ Terminal /\ UNCHANGED ryield
       \/ /\ frame = "part" /\ Flagged(l, "cancelled") /\ Stage("abort") /\ UNCHANGED ryield
       \/ /\ frame = "part" /\ ~Flagged(l, "cancelled")
          /\ ryield' = Append(ryield, [rcur EXCEPT !.frame = next, !.sent = "none"])
          /\ rcur' = NoResponse
    /\ UNCHANGED <<rplan, resourceVars, slotVars, fenceVars, rready, rnotify, rec, ownerVars, rsub,
                   waitVars, iopc>>
(* Flushing: the flush, then finish. *)
Flush ==
    /\ IOAt("look") /\ rcur.stage = "flushing"
    /\ Call(IO, rcur.lease, "complete", "load")
    /\ rcur' = NoResponse
    /\ UNCHANGED <<rplan, resourceVars, slotVars, fenceVars, rready, rnotify, rec, ownerVars,
                   waitVars, iopc, ryield, rwire>>
(* The task fails or is shut down: ExitGuard calls close_and_reclaim. *)
ExitIO ==
    /\ iopc \in {"look", "parked"} /\ rsub[IO].at = "none" /\ rplan.crash
    /\ iopc' = "fence" /\ rcur' = NoResponse /\ ryield' = <<>>
    /\ UNCHANGED <<rplan, resourceVars, slotVars, fenceVars, rready, rnotify, rec, ownerVars, rsub,
                   waitVars, rwire>>
FenceSlots ==
    /\ IOAt("fence")
    /\ rfence' = TRUE /\ iopc' = "close"
    /\ UNCHANGED <<rplan, resourceVars, slotVars, rclosed, rcount, rready, rnotify, rec, ownerVars,
                   rsub, waitVars, rcur, ryield, rwire>>
CloseSlots ==
    /\ IOAt("close")
    /\ rclosed' = TRUE /\ iopc' = "settle"
    /\ UNCHANGED <<rplan, resourceVars, slotVars, rfence, rcount, rready, rnotify, rec, ownerVars,
                   rsub, waitVars, rcur, ryield, rwire>>
SettleNot ==  \* mutant of Settle: counted publishers are not awaited
    /\ IOAt("settle")
    /\ iopc' = "ready"
    /\ UNCHANGED <<rplan, resourceVars, slotVars, fenceVars, rready, rnotify, rec, ownerVars, rsub,
                   waitVars, rcur, ryield, rwire>>
Settle ==
    /\ IOAt("settle") /\ rcount = {}
    /\ iopc' = "ready"
    /\ UNCHANGED <<rplan, resourceVars, slotVars, fenceVars, rready, rnotify, rec, ownerVars, rsub,
                   waitVars, rcur, ryield, rwire>>
DrainReady ==
    /\ IOAt("ready")
    /\ IF rready = <<>> THEN iopc' = "sweep" /\ UNCHANGED <<rready, rsub>>
       ELSE /\ Call(IO, Head(rready), "closed", "load") /\ rready' = Tail(rready)
            /\ UNCHANGED iopc
    /\ UNCHANGED <<rplan, resourceVars, slotVars, fenceVars, rnotify, rec, ownerVars, waitVars,
                   rcur, ryield, rwire>>
Sweep ==
    /\ IOAt("sweep")
    /\ \/ /\ \A i \in Slots : rtable[i] = None
          /\ iopc' = "exited" /\ UNCHANGED <<rtable, rsub>>
       \/ \E i \in Slots :
            /\ rtable[i] # None /\ \A j \in 1..i - 1 : rtable[j] = None
            /\ rtable' = [rtable EXCEPT ![i] = None]
            /\ Call(IO, rtable[i], "closed", "publication")
            /\ UNCHANGED iopc
    /\ UNCHANGED <<rplan, resourceVars, rfree, fenceVars, rready, rnotify, rec, ownerVars, waitVars,
                   rcur, ryield, rwire>>

-----------------------------------------------------------------------------
Admission(l) ==
    /\ rpc[l] \in {"start", "bytes", "reserve", "take", "reserved", "opened", "claim"}
    /\ \/ TakeJob(l) \/ TakeBytes(l) \/ BeginReserve(l) \/ Reserve(l) \/ EndReserve(l)
       \/ CheckReserved(l) \/ ClaimReply(l)
Activation(l) ==
    /\ rpc[l] \in {"activate", "fence", "fenced", "ready", "readied", "notify"}
    /\ \/ Activate(l) \/ BeginActivate(l) \/ CheckActivate(l) \/ PushReady(l) \/ EndActivate(l)
       \/ NotifyLease(l)
Replying(l) ==
    /\ rpc[l] \in {"publish", "store", "cancel", "enable", "state", "await"}
    /\ \/ BeginPublish(l) \/ StorePayload(l) \/ Cancel(l)
       \/ EnableWait(l) \/ ReadState(l) \/ AwaitState(l)
OwnerStep(l) == Admission(l) \/ Activation(l) \/ Replying(l) \/ SubStep(l)
Delivering ==
    /\ iopc \in {"look", "parked"}
    /\ NextResponse \/ WakeIO \/ ChooseStage \/ WritePart \/ WriteEnd \/ Flush
Teardown ==
    /\ iopc \notin {"look", "parked"}
    /\ FenceSlots \/ CloseSlots \/ Settle \/ DrainReady \/ Sweep
IOStep == Delivering \/ Teardown \/ SubStep(IO)

SlotsNext ==
    \/ \E l \in Leases : OwnerStep(l) \/ DropWait(l)
    \/ IOStep \/ ExitIO

SlotsSpec == SlotsInit /\ [][SlotsNext]_rvars

(* Owners and the writer task are scheduled, and the socket takes the bytes; the loss of the
   connection and the drop of a future need not happen. *)
SlotsFairness == (\A l \in Leases : WF_rvars(OwnerStep(l))) /\ WF_rvars(IOStep)

-----------------------------------------------------------------------------
Holders == {l \in Leases : rec[l].state # "absent" /\ ~Flagged(l, "recycled")}
(* The recycle_resources calls that have yet to give the permits, or the index, back. *)
Releasing == {t \in Threads : rsub[t].at = "release"}
Returning == {t \in Threads : rsub[t].at \in {"release", "index"}}
Admitted == {l \in Leases : rpc[l] \in {"bytes", "reserve", "take"}}
            \cup Holders \cup {rsub[t].record : t \in Releasing}

(* Slot indices are exclusive and never lost: while the connection is open, each one is free
   once, held by one record, or on its way back in one recycle_resources call; so one entry per
   slot is enough for the ready set, on which activate counts. *)
SlotsExclusive ==
    LET owners(i) == {l \in Holders : rec[l].index = i}
        back(i) == {t \in Returning : rec[rsub[t].record].index = i}
        free(i) == {k \in 1..Len(rfree) : rfree[k] = i}
    IN /\ ~rclosed => \A i \in 1..rplan.slots :
                        Cardinality(owners(i)) + Cardinality(back(i)) + Cardinality(free(i)) = 1
       /\ Len(rready) <= rplan.slots

(* The budget is conserved: permits left, permits of records, and permits of admissions under
   way add up to the limit, however a lease ended. *)
BudgetConserved == rjobs + Cardinality(Admitted) = rplan.jobs

(* A reply that completed gave its capacity back first: an owner whose reply_bytes returned Ok
   can be admitted again (test completion_recycles_capacity_before_reply_waiter_returns). *)
CompletionAfterRelease ==
    \A l \in Leases : rec[l].state = "complete" /\ rused[AskOf[l]] = {l}
        => Flagged(l, "recycled") /\ ~\E t \in Threads : rsub[t].record = l /\ rsub[t].at \in {"release", "index"}

(* After close_and_reclaim the connection keeps nothing: no table entry, no ready record, no
   payload, and no lease admitted later changes that for longer than its own call. *)
NothingHeldAfterClose ==
    iopc = "exited" =>
        /\ rready = <<>> /\ \A i \in Slots : rtable[i] = None
        /\ \A l \in Holders : rsub[l].at # "none"

Parts(n) == [i \in 1..n |-> "part"]
WholeReplies == {<<"inline">>, <<"terminal">>, Append(Parts(BigFrames - 1), "last")}
                \cup {Append(Append(Parts(n), "abort"), "terminal") : n \in 1..BigFrames - 1}
(* The frames of one reply: the whole reply, or the cancellation, which follows an abort when
   a part of the reply is out. *)
WireShape ==
    \A l \in Leases : \E w \in WholeReplies : \E n \in 0..Len(w) : rwire[l] = SubSeq(w, 1, n)

LastFrame(l) == IF rwire[l] = <<>> THEN "none" ELSE rwire[l][Len(rwire[l])]
Answered(l) == LastFrame(l) \in {"inline", "last", "terminal"}

(* The slots implement the abstract delivery. *)
AnswerOf(l) == IF LastFrame(l) \in {"inline", "last"} THEN "normal"
               ELSE IF LastFrame(l) = "terminal" THEN "terminal" ELSE "none"
Delivery == INSTANCE ReplyDelivery WITH
    Limit <- IF SlotCount <= JobLimit THEN SlotCount ELSE JobLimit,
    held <- Holders,
    claim <- rused,
    answer <- [l \in Leases |-> AnswerOf(l)],
    shut <- rfence
ImplementsDelivery == Delivery!DeliverySpec
=============================================================================
