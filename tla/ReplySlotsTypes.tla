-------------------------- MODULE ReplySlotsTypes --------------------------
(***************************************************************************)
(* The types of the reply slots and their control state (ControlInv): what *)
(* a record, a call and the writer may be at, with the proof that the      *)
(* steps keep the state well typed; then which step claims an ask, and     *)
(* which steps take or return a slot's index.                              *)
(***************************************************************************)
EXTENDS ReplySlots, SequenceTheorems, TLAPS

(* Where an owner is: before its record exists, before it claims the ask,  *)
(* counted in reservation_state, about to push the record, and after.      *)
Early == {"start", "bytes", "reserve", "take"}
Opening == {"reserved", "opened", "claim"}
Counted == {"take", "reserved", "fenced", "ready", "readied"}
Pushing == {"fence", "fenced", "ready"}
Pushed == {"readied", "notify", "enable", "state", "await"}
Late == Pushed \cup {"cancel", "activate", "done"}
Labels == Early \cup Opening \cup {"publish", "store"} \cup Pushing \cup Late
Shutting == {"close", "settle", "ready", "sweep", "exited"}
Frames == {"inline", "part", "last", "abort", "terminal"}
Stages == {"none", "reserved", "inline", "normal", "abort", "terminal", "flushing"}

Record == [index : 0..SlotCount, state : {"absent", "reserved", "complete", "closed"},
           publication : {"open", "writing", "closed"}, payload : {"none", "small", "big"},
           flags : SUBSET {"cancelled", "activated", "recycled"}]
SubCall == [at : {"none", "load", "swap", "publication", "recycle", "release", "index", "complete"},
            record : Leases \cup {None}, kind : {"none", "complete", "discarded", "closed"}]
Response == [lease : Leases \cup {None}, stage : Stages, frame : Nat, sent : {"none", "some"}]

LabelType == rpc \in [Leases -> Labels] /\ iopc \in {"look", "parked", "fence"} \cup Shutting
RecordType == rec \in [Leases -> Record]
CallType == rsub \in [Threads -> SubCall]
PoolType ==
    /\ rplan \in LeaseScenarios /\ rjobs \in Nat /\ rused \in [Asks -> SUBSET Leases]
    /\ rfree \in Seq(Slots) /\ rtable \in [Slots -> Leases \cup {None}] /\ rready \in Seq(Leases)
    /\ rcount \in SUBSET Leases /\ rclosed \in BOOLEAN /\ rfence \in BOOLEAN
WriterType == rcur \in Response /\ ryield \in Seq(Response) /\ rwire \in [Leases -> Seq(Frames)]
SlotsType == LabelType /\ RecordType /\ CallType /\ PoolType /\ WriterType

-----------------------------------------------------------------------------
(* The control part of the invariant.  An owner has a record once it took an index, and it is
   one of the connection's slots. *)
RecordInv(l) ==
    /\ rpc[l] \in Early => rec[l] = NoRecord
    /\ rpc[l] \notin Early \cup {"done"} => rec[l].state # "absent"
    /\ rec[l].state = "absent" => rec[l] = NoRecord
    /\ rec[l].state # "absent" => rec[l].index \in 1..rplan.slots
FreeInv == \A k \in 1..Len(rfree) : rfree[k] \in 1..rplan.slots

(* An owner is counted while it publishes; it runs a completion routine for its own record and
   only when it will not publish. *)
CallInv(l) ==
    /\ l \in rcount <=> rpc[l] \in Counted
    /\ rpc[l] \in Early \cup Opening \cup {"publish", "store"} \cup Pushing \cup {"readied"}
         => rsub[l].at = "none"
    /\ rsub[l].at # "none" => rsub[l].record = l /\ rsub[l].kind \in {"discarded", "closed"}

(* A lease whose record exists. *)
Present(l) == l \in Leases /\ rec[l].state # "absent"
(* A completion routine has a record, and one that closes it runs behind the fence. *)
RoutineInv(t) ==
    rsub[t].at # "none" => Present(rsub[t].record) /\ (rsub[t].kind = "closed" => rfence)

(* The writer task: the fence precedes the flag, the flag the settling, and a task that left
   its loop writes nothing. *)
TaskInv ==
    /\ rfence <=> iopc \in Shutting
    /\ rclosed <=> iopc \in Shutting \ {"close"}
    /\ iopc \in {"ready", "sweep", "exited"} => rcount = {}
    /\ rsub[IO].at # "none" => \/ rsub[IO].kind = "complete" /\ iopc = "look" /\ rcur = NoResponse
                               \/ rsub[IO].kind = "closed" /\ iopc \in {"ready", "sweep"}
    /\ iopc \notin {"look", "parked"} => rcur = NoResponse /\ ryield = <<>>
    /\ iopc \in {"sweep", "exited"} => rready = <<>>

(* What the writer task can take a lease from names records that exist. *)
PresentInv ==
    /\ \A i \in Slots : rtable[i] # None => Present(rtable[i])
    /\ \A k \in 1..Len(rready) : Present(rready[k])
    /\ \A k \in 1..Len(ryield) : Present(ryield[k].lease)
    /\ rcur # NoResponse => Present(rcur.lease)

ControlInv ==
    /\ SlotsType /\ FreeInv /\ TaskInv /\ PresentInv
    /\ \A l \in Leases : RecordInv(l) /\ CallInv(l)
    /\ \A t \in Threads : RoutineInv(t)
-----------------------------------------------------------------------------
OwnerMove(l) ==
    \/ TakeJob(l) \/ TakeBytes(l) \/ BeginReserve(l) \/ Reserve(l) \/ EndReserve(l)
    \/ CheckReserved(l) \/ ClaimReply(l) \/ BeginPublish(l) \/ StorePayload(l) \/ Cancel(l)
    \/ Activate(l) \/ BeginActivate(l) \/ CheckActivate(l) \/ PushReady(l) \/ EndActivate(l)
    \/ NotifyLease(l) \/ EnableWait(l) \/ ReadState(l) \/ AwaitState(l) \/ DropWait(l)
SubMove(t) ==
    \/ SubLoad(t) \/ SubSwap(t) \/ ClosePublication(t) \/ Recycle(t) \/ ReleasePermits(t)
    \/ RecycleIndex(t) \/ Complete(t)
TaskMove ==
    \/ NextResponse \/ WakeIO \/ ChooseStage \/ WritePart \/ WriteEnd \/ Flush \/ ExitIO
    \/ FenceSlots \/ CloseSlots \/ Settle \/ DrainReady \/ Sweep

(* Every step is one of an owner, of a completion routine or of the writer task. *)
LEMMA StepCases ==
    ASSUME [SlotsNext]_rvars
    PROVE  \/ \E l \in Leases : OwnerMove(l)
           \/ \E t \in Threads : rsub[t].at # "none" /\ SubMove(t)
           \/ TaskMove
           \/ UNCHANGED rvars
  BY Zenon DEF SlotsNext, OwnerStep, Admission, Activation, Replying, SubStep, IOStep, Delivering,
         Teardown, Threads, OwnerMove, SubMove, TaskMove

(* What an owner's step leaves alone. *)
LEMMA OwnerFrame ==
    ASSUME NEW l \in Leases, OwnerMove(l)
    PROVE  /\ rplan' = rplan /\ rclosed' = rclosed /\ rfence' = rfence
           /\ iopc' = iopc /\ rcur' = rcur /\ ryield' = ryield /\ rwire' = rwire
<1> USE DEF ioVars, fenceVars
<1>1. CASE TakeJob(l) \/ TakeBytes(l) \/ BeginReserve(l) \/ Reserve(l) \/ EndReserve(l)
  BY Zenon, <1>1 DEF TakeJob, TakeBytes, BeginReserve, Reserve, EndReserve
<1>2. CASE CheckReserved(l) \/ ClaimReply(l) \/ BeginPublish(l) \/ StorePayload(l) \/ Cancel(l)
  BY Zenon, <1>2 DEF CheckReserved, ClaimReply, BeginPublish, StorePayload, Cancel
<1>3. CASE Activate(l) \/ BeginActivate(l) \/ CheckActivate(l) \/ PushReady(l) \/ EndActivate(l)
  BY Zenon, <1>3 DEF Activate, BeginActivate, CheckActivate, PushReady, EndActivate
<1>4. CASE NotifyLease(l) \/ EnableWait(l) \/ ReadState(l) \/ AwaitState(l) \/ DropWait(l)
  BY Zenon, <1>4 DEF NotifyLease, EnableWait, ReadState, AwaitState, DropWait
<1> QED
  BY Zenon, <1>1, <1>2, <1>3, <1>4 DEF OwnerMove

(* What a step of a completion routine leaves alone. *)
LEMMA SubFrame ==
    ASSUME NEW t \in Threads, SubMove(t)
    PROVE  /\ rplan' = rplan /\ rclosed' = rclosed /\ rfence' = rfence /\ rcount' = rcount
           /\ rready' = rready /\ rused' = rused /\ rpc' = rpc
           /\ iopc' = iopc /\ rcur' = rcur /\ ryield' = ryield /\ rwire' = rwire
<1> USE DEF ioVars, fenceVars, ownerVars
<1>1. CASE SubLoad(t) \/ SubSwap(t) \/ ClosePublication(t) \/ Recycle(t)
  BY Zenon, <1>1 DEF SubLoad, SubSwap, ClosePublication, Recycle
<1>2. CASE ReleasePermits(t) \/ RecycleIndex(t) \/ Complete(t)
  BY Zenon, <1>2 DEF ReleasePermits, RecycleIndex, Complete
<1> QED
  BY Zenon, <1>1, <1>2 DEF SubMove

(* What a step of the writer task leaves alone. *)
LEMMA TaskFrame ==
    ASSUME TaskMove
    PROVE  /\ rplan' = rplan /\ rjobs' = rjobs /\ rused' = rused /\ rfree' = rfree
           /\ rcount' = rcount /\ rec' = rec /\ rpc' = rpc
<1> USE DEF resourceVars, ownerVars, slotVars, fenceVars
<1>1. CASE NextResponse \/ WakeIO \/ ChooseStage \/ WritePart \/ WriteEnd \/ Flush
  BY Zenon, <1>1 DEF NextResponse, WakeIO, ChooseStage, WritePart, WriteEnd, Flush
<1>2. CASE ExitIO \/ FenceSlots \/ CloseSlots \/ Settle \/ DrainReady \/ Sweep
  BY Zenon, <1>2 DEF ExitIO, FenceSlots, CloseSlots, Settle, DrainReady, Sweep
<1> QED
  BY Zenon, <1>1, <1>2 DEF TaskMove
-----------------------------------------------------------------------------
(* A thread's own step is the only one that changes where it is and, but for the completion
   routines, its record. *)
LEMMA OwnerLocal ==
    ASSUME SlotsType, NEW l \in Leases, OwnerMove(l)
    PROVE  /\ rpc' \in [Leases -> Labels]
           /\ rsub' \in [Threads -> SubCall]
           /\ \A m \in Leases \ {l} : rpc'[m] = rpc[m] /\ (m \in rcount' <=> m \in rcount)
           /\ \A t \in Threads \ {l} : rsub'[t] = rsub[t]
           /\ rsub[l].at = "none" /\ rsub'[l].at \in {"none", "load"}
<1> USE DEF SlotsType, LabelType, CallType, Labels, Early, Opening, Pushing, Pushed, Late, OwnerAt, OwnerGoto
<1>0. Leases \subseteq Threads
  BY Zenon DEF Threads
<1>1. CASE TakeJob(l) \/ TakeBytes(l) \/ BeginReserve(l) \/ Reserve(l) \/ EndReserve(l)
  BY Zenon, <1>0, <1>1 DEF TakeJob, TakeBytes, BeginReserve, Reserve, EndReserve, fenceVars
<1>2. CASE BeginPublish(l) \/ StorePayload(l) \/ Cancel(l) \/ PushReady(l) \/ EndActivate(l)
  BY Zenon, <1>0, <1>2 DEF BeginPublish, StorePayload, Cancel, PushReady, EndActivate, fenceVars
<1>3. CASE NotifyLease(l) \/ Activate(l)
  BY Zenon, <1>0, <1>3 DEF Activate, Activated, fenceVars, NotifyLease
<1>4. CASE EnableWait(l) \/ ReadState(l) \/ AwaitState(l) \/ DropWait(l)
  BY Zenon, <1>0, <1>4 DEF EnableWait, ReadState, AwaitState, DropWait, fenceVars
<1>5. CASE CheckReserved(l)
  BY <1>0, <1>5 DEF CheckReserved, Call, SubCall, fenceVars
<1>6. CASE ClaimReply(l)
  BY <1>0, <1>6 DEF ClaimReply, Call, SubCall, fenceVars
<1>7. CASE BeginActivate(l)
  BY <1>0, <1>7 DEF BeginActivate, Activated, Call, SubCall, fenceVars
<1>8. CASE CheckActivate(l)
  BY <1>0, <1>8 DEF CheckActivate, Activated, Call, SubCall, fenceVars
<1> QED
  BY Zenon, <1>1, <1>2, <1>3, <1>4, <1>5, <1>6, <1>7, <1>8 DEF OwnerMove

(* A record as reserve makes it. *)
LEMMA NewRecord ==
    ASSUME NEW i \in 0..SlotCount
    PROVE  [NoRecord EXCEPT !.index = i, !.state = "reserved"] \in Record
  BY Zenon DEF Record, NoRecord

(* A record as publish leaves it. *)
LEMMA StoredRecord ==
    ASSUME NEW r \in Record, NEW size \in {"small", "big"}
    PROVE  [r EXCEPT !.publication = "open", !.payload = size] \in Record
  BY Zenon DEF Record

(* An owner changes its own record only. *)
LEMMA OwnerRecord ==
    ASSUME SlotsType, NEW l \in Leases, OwnerMove(l)
    PROVE  /\ rec' \in [Leases -> Record]
           /\ \A m \in Leases \ {l} : rec'[m] = rec[m]
<1> USE DEF SlotsType, RecordType
<1>1. CASE Reserve(l) /\ rfree # <<>>
  <2>1. Head(rfree) \in Slots
    BY Zenon, <1>1, HeadTailProperties DEF PoolType
  <2>2. Head(rfree) \in 0..SlotCount
    BY <2>1, SlotsAssumption DEF Slots
  <2>3. [NoRecord EXCEPT !.index = Head(rfree), !.state = "reserved"] \in Record
    BY Zenon, <2>2, NewRecord
  <2> QED
    BY Zenon, <1>1, <2>3 DEF Reserve
<1>2. CASE BeginPublish(l) \/ Cancel(l)
  BY <1>2 DEF BeginPublish, Cancel, Record
<1>3. CASE StorePayload(l)
  <2>1. rplan.plan[l].size \in {"small", "big"}
    BY Zenon, SlotsAssumption DEF PoolType
  <2>2. rec' = [rec EXCEPT ![l] = [@ EXCEPT !.publication = "open", !.payload = rplan.plan[l].size]]
    BY Zenon, <1>3 DEF StorePayload, Record
  <2>3. [rec[l] EXCEPT !.publication = "open", !.payload = rplan.plan[l].size] \in Record
    BY Zenon, <2>1, StoredRecord
  <2> QED
    BY Zenon, <2>2, <2>3
<1>4. CASE Activate(l)
  BY <1>4 DEF Activate, Record
<1>5. CASE TakeJob(l) \/ TakeBytes(l) \/ BeginReserve(l) \/ (Reserve(l) /\ rfree = <<>>) \/ EndReserve(l)
  BY Zenon, <1>5 DEF TakeJob, TakeBytes, BeginReserve, Reserve, EndReserve
<1>6. CASE CheckReserved(l) \/ ClaimReply(l) \/ BeginActivate(l) \/ CheckActivate(l) \/ PushReady(l)
  BY Zenon, <1>6 DEF CheckReserved, ClaimReply, BeginActivate, CheckActivate, PushReady
<1>7. CASE EndActivate(l) \/ NotifyLease(l) \/ EnableWait(l) \/ ReadState(l) \/ AwaitState(l) \/ DropWait(l)
  BY Zenon, <1>7 DEF EndActivate, NotifyLease, EnableWait, ReadState, AwaitState, DropWait
<1> QED
  BY Zenon, <1>1, <1>2, <1>3, <1>4, <1>5, <1>6, <1>7 DEF OwnerMove

(* A completion routine goes on with its record or ends. *)
LEMMA SubLocal ==
    ASSUME SlotsType, NEW t \in Threads, SubMove(t)
    PROVE  /\ rsub' \in [Threads -> SubCall]
           /\ \A u \in Threads \ {t} : rsub'[u] = rsub[u]
           /\ \/ rsub'[t] = NoSub
              \/ rsub'[t].record = rsub[t].record /\ rsub'[t].kind = rsub[t].kind
           /\ rsub[t].at # "none"
<1> USE DEF SlotsType, CallType, SubCall, SubGoto, SubDone, SubAt, NoSub
<1>1. CASE SubLoad(t)
  BY <1>1 DEF SubLoad
<1>2. CASE SubSwap(t)
  BY <1>2 DEF SubSwap
<1>3. CASE Recycle(t)
  BY Zenon, <1>3 DEF Recycle
<1>4. CASE ClosePublication(t) \/ ReleasePermits(t)
  BY <1>4 DEF ClosePublication, ReleasePermits
<1>5. CASE RecycleIndex(t) \/ Complete(t)
  BY <1>5 DEF RecycleIndex, Complete
<1> QED
  BY Zenon, <1>1, <1>2, <1>3, <1>4, <1>5 DEF SubMove

(* A completion routine keeps the index of its record, and the record; it only adds to its
   flags, and never the one that says the reply is in the ready set. *)
LEMMA SubRecord ==
    ASSUME SlotsType, NEW t \in Threads, SubMove(t), rsub[t].record \in Leases
    PROVE  LET l == rsub[t].record IN
           /\ rec' \in [Leases -> Record]
           /\ \A m \in Leases \ {l} : rec'[m] = rec[m]
           /\ rec'[l].index = rec[l].index
           /\ rec'[l].state = "absent" <=> rec[l].state = "absent"
           /\ rec'[l].flags \in {rec[l].flags, rec[l].flags \cup {"recycled"}}
<1> USE DEF SlotsType, RecordType, Record
<1> DEFINE l == rsub[t].record
<1>1. CASE SubLoad(t) \/ SubSwap(t) \/ RecycleIndex(t)
  BY Zenon, <1>1 DEF SubLoad, SubSwap, RecycleIndex
<1>2. CASE ClosePublication(t)
  BY <1>2 DEF ClosePublication
<1>3. CASE Recycle(t)
  BY <1>3 DEF Recycle
<1>4. CASE ReleasePermits(t)
  BY <1>4 DEF ReleasePermits
<1>5. CASE Complete(t)
  BY <1>5 DEF Complete
<1> QED
  BY Zenon, <1>1, <1>2, <1>3, <1>4, <1>5 DEF SubMove

(* Which of an owner's steps change the single use of the responder, the slots, the ready set
   and the record. *)
LEMMA OwnerEffects ==
    ASSUME NEW l \in Leases, OwnerMove(l)
    PROVE  /\ ClaimReply(l) \/ rused' = rused
           /\ (Reserve(l) /\ rfree # <<>>) \/ (rfree' = rfree /\ rtable' = rtable)
           /\ PushReady(l) \/ rready' = rready
           /\ (Reserve(l) /\ rfree # <<>>) \/ BeginPublish(l) \/ StorePayload(l) \/ Cancel(l) \/ Activate(l)
              \/ rec' = rec
<1> USE DEF slotVars
<1>1. CASE TakeJob(l) \/ TakeBytes(l) \/ BeginReserve(l) \/ Reserve(l) \/ EndReserve(l) \/ CheckReserved(l)
  BY Zenon, <1>1 DEF TakeJob, TakeBytes, BeginReserve, Reserve, EndReserve, CheckReserved
<1>2. CASE ClaimReply(l) \/ BeginPublish(l) \/ StorePayload(l) \/ Cancel(l) \/ Activate(l)
  BY Zenon, <1>2 DEF ClaimReply, BeginPublish, StorePayload, Cancel, Activate
<1>3. CASE BeginActivate(l) \/ CheckActivate(l) \/ PushReady(l) \/ EndActivate(l)
  BY Zenon, <1>3 DEF BeginActivate, CheckActivate, PushReady, EndActivate
<1>4. CASE NotifyLease(l) \/ EnableWait(l) \/ ReadState(l) \/ AwaitState(l) \/ DropWait(l)
  BY Zenon, <1>4 DEF NotifyLease, EnableWait, ReadState, AwaitState, DropWait
<1> QED
  BY Zenon, <1>1, <1>2, <1>3, <1>4 DEF OwnerMove

(* Past the reservation an owner keeps the index and the state of its record, and never says
   that its resources are recycled. *)
LEMMA OwnerKeeps ==
    ASSUME SlotsType, NEW l \in Leases, OwnerMove(l), ~(Reserve(l) /\ rfree # <<>>)
    PROVE  /\ rec'[l].index = rec[l].index /\ rec'[l].state = rec[l].state
           /\ rec[l].flags \subseteq rec'[l].flags
           /\ rec'[l].flags \subseteq rec[l].flags \cup {"cancelled", "activated"}
<1> USE DEF SlotsType, RecordType, Record
<1>1. CASE BeginPublish(l) \/ StorePayload(l)
  BY <1>1 DEF BeginPublish, StorePayload
<1>2. CASE Cancel(l) \/ Activate(l)
  BY <1>2 DEF Cancel, Activate
<1>3. CASE rec' = rec
  BY Zenon, <1>3
<1> QED
  BY Zenon, <1>1, <1>2, <1>3, OwnerEffects

(* The writer task runs its own completion routine only. *)
LEMMA TaskLocal ==
    ASSUME SlotsType, TaskMove, rcur # NoResponse => rcur.lease \in Leases
    PROVE  /\ rsub' \in [Threads -> SubCall]
           /\ \A l \in Leases : rsub'[l] = rsub[l]
           /\ rsub[IO].at = "none" /\ rsub'[IO].at \in {"none", "load", "publication"}
<1> USE DEF SlotsType, CallType, IOAt
<1>0. IO \in Threads /\ IO \notin Leases /\ Leases \subseteq Threads
  BY Zenon, SlotsAssumption DEF Threads
<1>1. CASE NextResponse \/ WakeIO \/ ChooseStage \/ WritePart \/ WriteEnd
  BY Zenon, <1>1 DEF NextResponse, WakeIO, ChooseStage, WritePart, WriteEnd, MayWrite
<1>2. CASE ExitIO \/ FenceSlots \/ CloseSlots \/ Settle
  BY Zenon, <1>2 DEF ExitIO, FenceSlots, CloseSlots, Settle
<1>3. CASE Flush
  <2>1. rcur.lease \in Leases
    BY <1>3 DEF Flush, NoResponse
  <2> QED
    BY Zenon, <1>0, <1>3, <2>1 DEF Flush, Call, SubCall
<1>4. CASE DrainReady
  <2>1. rready # <<>> => Head(rready) \in Leases
    BY Zenon, HeadTailProperties DEF PoolType
  <2> QED
    BY <1>0, <1>4, <2>1 DEF DrainReady, Call, SubCall
<1>5. CASE Sweep
  <2>1. \A i \in Slots : rtable[i] # None => rtable[i] \in Leases
    BY Zenon DEF PoolType
  <2> QED
    BY <1>0, <1>5, <2>1 DEF Sweep, Call, SubCall
<1> QED
  BY Zenon, <1>1, <1>2, <1>3, <1>4, <1>5 DEF TaskMove

(* The steps keep the resources typed. *)
LEMMA PoolTypeStep ==
    ASSUME SlotsType, [SlotsNext]_rvars,
           \A t \in Threads : rsub[t].at # "none" => rsub[t].record \in Leases /\ rec[rsub[t].record].index \in Slots
    PROVE  PoolType'
<1> USE DEF SlotsType, PoolType
<1>1. ASSUME NEW l \in Leases, OwnerMove(l) PROVE PoolType'
  <2>0. rplan' = rplan /\ rclosed' = rclosed /\ rfence' = rfence
    BY Zenon, <1>1, OwnerFrame
  <2>1. rjobs' \in Nat
    <3> USE DEF resourceVars
    <3>1. CASE TakeJob(l) \/ TakeBytes(l) \/ BeginReserve(l) \/ Reserve(l) \/ EndReserve(l)
      BY <3>1 DEF TakeJob, TakeBytes, BeginReserve, Reserve, EndReserve, GiveBack
    <3>2. CASE CheckReserved(l) \/ ClaimReply(l) \/ BeginPublish(l) \/ StorePayload(l) \/ Cancel(l)
      BY Zenon, <3>2 DEF CheckReserved, ClaimReply, BeginPublish, StorePayload, Cancel
    <3>3. CASE Activate(l) \/ BeginActivate(l) \/ CheckActivate(l) \/ PushReady(l) \/ EndActivate(l)
      BY Zenon, <3>3 DEF Activate, BeginActivate, CheckActivate, PushReady, EndActivate
    <3>4. CASE NotifyLease(l) \/ EnableWait(l) \/ ReadState(l) \/ AwaitState(l) \/ DropWait(l)
      BY Zenon, <3>4 DEF NotifyLease, EnableWait, ReadState, AwaitState, DropWait
    <3> QED
      BY Zenon, <1>1, <3>1, <3>2, <3>3, <3>4 DEF OwnerMove
  <2>2. rfree' \in Seq(Slots) /\ rtable' \in [Slots -> Leases \cup {None}]
    <3>1. CASE Reserve(l) /\ rfree # <<>>
      <4>1. Head(rfree) \in Slots /\ Tail(rfree) \in Seq(Slots)
        BY Zenon, <3>1, HeadTailProperties
      <4> QED
        BY Zenon, <3>1, <4>1 DEF Reserve
    <3> QED
      BY Zenon, <1>1, <3>1, OwnerEffects
  <2>3. rused' \in [Asks -> SUBSET Leases]
    <3>1. CASE ClaimReply(l)
      BY <3>1 DEF ClaimReply, Asks
    <3> QED
      BY Zenon, <1>1, <3>1, OwnerEffects
  <2>4. rready' \in Seq(Leases)
    <3>1. CASE PushReady(l)
      BY Zenon, <3>1, AppendProperties DEF PushReady
    <3> QED
      BY Zenon, <1>1, <3>1, OwnerEffects
  <2>5. rcount' \in SUBSET Leases
    <3>1. \A m : m \in rcount' => m \in Leases
      <4> USE DEF fenceVars
      <4>1. CASE TakeJob(l) \/ TakeBytes(l) \/ BeginReserve(l) \/ Reserve(l) \/ EndReserve(l)
        BY Zenon, <4>1 DEF TakeJob, TakeBytes, BeginReserve, Reserve, EndReserve
      <4>2. CASE CheckReserved(l) \/ ClaimReply(l) \/ BeginPublish(l) \/ StorePayload(l) \/ Cancel(l)
        BY Zenon, <4>2 DEF CheckReserved, ClaimReply, BeginPublish, StorePayload, Cancel
      <4>3. CASE Activate(l) \/ BeginActivate(l) \/ CheckActivate(l) \/ EndActivate(l) \/ PushReady(l)
        BY Zenon, <4>3 DEF Activate, BeginActivate, CheckActivate, EndActivate, PushReady
      <4>4. CASE NotifyLease(l) \/ EnableWait(l) \/ ReadState(l) \/ AwaitState(l) \/ DropWait(l)
        BY Zenon, <4>4 DEF NotifyLease, EnableWait, ReadState, AwaitState, DropWait
      <4> QED
        BY Zenon, <1>1, <4>1, <4>2, <4>3, <4>4 DEF OwnerMove
    <3> QED
      BY Zenon, <3>1
  <2> QED
    BY Zenon, <2>0, <2>1, <2>2, <2>3, <2>4, <2>5
<1>2. ASSUME NEW t \in Threads, rsub[t].at # "none", SubMove(t) PROVE PoolType'
  <2>0. /\ rplan' = rplan /\ rclosed' = rclosed /\ rfence' = rfence /\ rcount' = rcount
        /\ rready' = rready /\ rused' = rused
    BY Zenon, <1>2, SubFrame
  <2>1. rec[rsub[t].record].index \in Slots
    BY Zenon, <1>2
  <2>2. rjobs' \in Nat /\ rfree' \in Seq(Slots) /\ rtable' \in [Slots -> Leases \cup {None}]
    <3> USE DEF resourceVars, slotVars
    <3>1. CASE SubLoad(t) \/ SubSwap(t) \/ ClosePublication(t) \/ Recycle(t)
      BY Zenon, <3>1, <2>1 DEF SubLoad, SubSwap, ClosePublication, Recycle
    <3>2. CASE ReleasePermits(t) \/ Complete(t)
      BY <3>2, <2>1 DEF ReleasePermits, Complete, GiveBack
    <3>3. CASE RecycleIndex(t)
      BY Zenon, <3>3, <2>1, AppendProperties DEF RecycleIndex
    <3> QED
      BY Zenon, <1>2, <3>1, <3>2, <3>3 DEF SubMove
  <2> QED
    BY Zenon, <2>0, <2>2
<1>3. ASSUME TaskMove PROVE PoolType'
  <2>0. /\ rplan' = rplan /\ rjobs' = rjobs /\ rused' = rused /\ rfree' = rfree /\ rcount' = rcount
    BY Zenon, <1>3, TaskFrame
  <2>1. /\ rready' \in Seq(Leases) /\ rtable' \in [Slots -> Leases \cup {None}]
        /\ rclosed' \in BOOLEAN /\ rfence' \in BOOLEAN
    <3> USE DEF slotVars, fenceVars
    <3>1. CASE NextResponse \/ DrainReady
      <4>1. rready # <<>> => Tail(rready) \in Seq(Leases)
        BY Zenon, HeadTailProperties
      <4>2. rready' \in {rready, Tail(rready)} /\ (rready' # rready => rready # <<>>)
        BY Zenon, <3>1 DEF NextResponse, DrainReady
      <4>3. rready' \in Seq(Leases)
        BY Zenon, <4>1, <4>2
      <4> QED
        BY Zenon, <3>1, <4>3 DEF NextResponse, DrainReady
    <3>2. CASE Sweep
      BY Zenon, <3>2 DEF Sweep
    <3>3. CASE WakeIO \/ ChooseStage \/ WritePart \/ WriteEnd \/ Flush
      BY Zenon, <3>3 DEF WakeIO, ChooseStage, WritePart, WriteEnd, Flush
    <3>4. CASE ExitIO \/ FenceSlots \/ CloseSlots \/ Settle
      BY Zenon, <3>4 DEF ExitIO, FenceSlots, CloseSlots, Settle
    <3> QED
      BY Zenon, <1>3, <3>1, <3>2, <3>3, <3>4 DEF TaskMove
  <2> QED
    BY Zenon, <2>0, <2>1
<1>4. ASSUME UNCHANGED rvars PROVE PoolType'
  BY Zenon, <1>4 DEF rvars, resourceVars, slotVars, fenceVars, ownerVars
<1> QED
  BY Zenon, <1>1, <1>2, <1>3, <1>4, StepCases

(* The steps keep the writer's state typed. *)
LEMMA WriterTypeStep ==
    ASSUME SlotsType, [SlotsNext]_rvars, rcur # NoResponse => rcur.lease \in Leases
    PROVE  WriterType' /\ iopc' \in {"look", "parked", "fence"} \cup Shutting
<1> USE DEF SlotsType, WriterType, LabelType, Shutting
<1>1. ASSUME NEW l \in Leases, OwnerMove(l) PROVE WriterType' /\ iopc' = iopc
  BY Zenon, <1>1, OwnerFrame
<1>2. ASSUME NEW t \in Threads, SubMove(t) PROVE WriterType' /\ iopc' = iopc
  BY Zenon, <1>2, SubFrame
<1>3. ASSUME TaskMove PROVE WriterType' /\ iopc' \in {"look", "parked", "fence"} \cup Shutting
  <2>0. NoResponse \in Response
    BY Zenon DEF NoResponse, Response, Stages
  <2>1. CASE NextResponse
    <3>1. CASE ryield # <<>> /\ rcur' = Head(ryield) /\ ryield' = Tail(ryield) /\ UNCHANGED <<iopc, rready>>
      BY Zenon, <2>1, <3>1, HeadTailProperties DEF NextResponse
    <3>2. CASE rready # <<>> /\ rcur' = [NoResponse EXCEPT !.lease = Head(rready), !.stage = "reserved"]
               /\ UNCHANGED <<iopc, ryield>>
      <4>1. Head(rready) \in Leases
        BY Zenon, <3>2, HeadTailProperties DEF PoolType
      <4>2. rcur' \in Response
        BY Zenon, <4>1, <3>2 DEF Response, NoResponse, Stages
      <4> QED
        BY Zenon, <2>1, <3>2, <4>2 DEF NextResponse
    <3> QED
      BY Zenon, <2>1, <3>1, <3>2 DEF NextResponse
  <2>2. CASE ChooseStage \/ WritePart
    BY Zenon, <2>2 DEF ChooseStage, WritePart, Stage, Terminal, Response, Stages
  <2>3. CASE WriteEnd
    <3> DEFINE next == rcur.frame + 1
               frame == IF rcur.stage = "normal" THEN IF next = BigFrames THEN "last" ELSE "part"
                        ELSE rcur.stage
    <3>1. rcur.lease \in Leases /\ frame \in Frames /\ iopc' = iopc
      BY <2>3 DEF WriteEnd, MayWrite, NoResponse, Frames, Response, Stages
    <3>2. rwire' = [rwire EXCEPT ![rcur.lease] = Append(@, frame)]
      BY Zenon, <2>3 DEF WriteEnd
    <3>3. rwire' \in [Leases -> Seq(Frames)]
      <4> HIDE DEF frame
      <4> QED BY Zenon, <3>1, <3>2, AppendProperties
    <3>4. [rcur EXCEPT !.frame = next, !.sent = "none"] \in Response
      <4>1. rcur.frame \in Nat
        BY Zenon DEF Response
      <4>2. next \in Nat
        BY <4>1
      <4> HIDE DEF next
      <4> QED BY Zenon, <4>2 DEF Response
    <3>5. rcur' \in Response
      BY Zenon, <2>3, <2>0 DEF WriteEnd, Stage, Terminal, Response, Stages
    <3>6. ryield' \in Seq(Response)
      BY <2>3, <3>4, AppendProperties DEF WriteEnd
    <3> QED
      BY Zenon, <3>1, <3>3, <3>5, <3>6
  <2>4. CASE Flush \/ WakeIO
    BY Zenon, <2>4, <2>0 DEF Flush, WakeIO
  <2>5. CASE ExitIO \/ FenceSlots \/ CloseSlots \/ Settle
    BY Zenon, <2>5, <2>0, EmptySeq DEF ExitIO, FenceSlots, CloseSlots, Settle
  <2>6. CASE DrainReady \/ Sweep
    BY Zenon, <2>6, <2>0 DEF DrainReady, Sweep
  <2> QED
    BY Zenon, <1>3, <2>1, <2>2, <2>3, <2>4, <2>5, <2>6 DEF TaskMove
<1>4. ASSUME UNCHANGED rvars PROVE WriterType' /\ iopc' = iopc
  BY Zenon, <1>4 DEF rvars, ioVars
<1> QED
  BY Zenon, <1>1, <1>2, <1>3, <1>4, StepCases
-----------------------------------------------------------------------------
(* Owners keep the control invariant of their record. *)
LEMMA OwnerRecordInv ==
    ASSUME ControlInv, NEW l \in Leases, OwnerMove(l)
    PROVE  RecordInv(l)'
<1> USE DEF ControlInv, RecordInv
<1>0. rplan' = rplan /\ rec[l] \in Record /\ rpc[l] \in Labels
  BY Zenon, OwnerFrame DEF SlotsType, RecordType, LabelType
<1>1. CASE TakeJob(l) \/ TakeBytes(l) \/ BeginReserve(l) \/ EndReserve(l) \/ CheckReserved(l) \/ ClaimReply(l)
  BY Zenon, <1>0, <1>1
     DEF TakeJob, TakeBytes, BeginReserve, EndReserve, CheckReserved, ClaimReply, OwnerAt,
                    OwnerGoto, Early, SlotsType, LabelType
<1>2. CASE Reserve(l)
  <2>1. CASE rfree # <<>>
    <3>1. Head(rfree) = rfree[1] /\ 1 \in 1..Len(rfree)
      BY <2>1 DEF SlotsType, PoolType
    <3>2. Head(rfree) \in 1..rplan.slots
      BY Zenon, <3>1 DEF FreeInv
    <3>3. rec'[l] = [NoRecord EXCEPT !.index = Head(rfree), !.state = "reserved"] /\ rpc'[l] = "reserved"
      BY Zenon, <1>2, <2>1 DEF Reserve, OwnerGoto, SlotsType, RecordType, LabelType
    <3> QED
      BY Zenon, <1>0, <3>2, <3>3 DEF Early, NoRecord
  <2>2. CASE rfree = <<>>
    BY Zenon, <1>0, <1>2, <2>2 DEF Reserve, OwnerAt, OwnerGoto, Early, SlotsType, LabelType
  <2> QED
    BY Zenon, <2>1, <2>2
<1>3. CASE BeginPublish(l) \/ StorePayload(l) \/ Cancel(l) \/ Activate(l)
  <2>1. rec'[l].state = rec[l].state /\ rec'[l].index = rec[l].index
    BY <1>0, <1>3 DEF BeginPublish, StorePayload, Cancel, Activate, SlotsType, RecordType, Record
  <2>2. rpc[l] \notin Early \cup {"done"} /\ rpc'[l] \notin Early
    BY Zenon, <1>3
       DEF BeginPublish, StorePayload, Cancel, Activate, Activated, OwnerAt, OwnerGoto, Early,
                SlotsType, LabelType
  <2> QED
    BY Zenon, <1>0, <2>1, <2>2
<1>4. CASE BeginActivate(l) \/ CheckActivate(l) \/ PushReady(l) \/ EndActivate(l) \/ NotifyLease(l)
  BY Zenon, <1>0, <1>4
     DEF BeginActivate, CheckActivate, PushReady, EndActivate, NotifyLease, OwnerAt, Activated,
                    OwnerGoto, Early, SlotsType, LabelType
<1>5. CASE EnableWait(l) \/ ReadState(l) \/ AwaitState(l) \/ DropWait(l)
  BY Zenon, <1>0, <1>5 DEF EnableWait, ReadState, AwaitState, DropWait, OwnerAt,
                    OwnerGoto, Early, SlotsType, LabelType
<1> QED
  BY Zenon, <1>1, <1>2, <1>3, <1>4, <1>5 DEF OwnerMove

(* Owners keep the control invariant of their calls. *)
LEMMA OwnerCallInv ==
    ASSUME ControlInv, NEW l \in Leases, OwnerMove(l)
    PROVE  CallInv(l)' /\ RoutineInv(l)'
<1> USE DEF CallInv, OwnerAt, OwnerGoto
<1>0. /\ l \in Threads /\ rsub[l].at = "none" /\ rsub \in [Threads -> SubCall] /\ rpc \in [Leases -> Labels]
      /\ rcount \subseteq Leases /\ CallInv(l) /\ RecordInv(l) /\ (rclosed => rfence)
  BY Zenon, OwnerLocal DEF ControlInv, TaskInv, Threads, SlotsType, CallType, LabelType, PoolType
<1>1. CASE TakeJob(l) \/ TakeBytes(l) \/ BeginReserve(l) \/ Reserve(l) \/ EndReserve(l)
  BY Zenon, <1>0, <1>1
     DEF TakeJob, TakeBytes, BeginReserve, Reserve, EndReserve, fenceVars, Counted, Early,
                    RoutineInv
<1>2. CASE BeginPublish(l) \/ StorePayload(l) \/ Cancel(l) \/ Activate(l)
  BY Zenon, <1>0, <1>2
     DEF BeginPublish, StorePayload, Cancel, Activate, Activated, fenceVars, Counted, RoutineInv
<1>3. CASE PushReady(l) \/ EndActivate(l) \/ NotifyLease(l)
  BY Zenon, <1>0, <1>3
     DEF PushReady, EndActivate, NotifyLease, Activated, fenceVars, Counted, RoutineInv
<1>4. CASE EnableWait(l) \/ ReadState(l) \/ AwaitState(l) \/ DropWait(l)
  BY Zenon, <1>0, <1>4
     DEF EnableWait, ReadState, AwaitState, DropWait, fenceVars, Counted, RoutineInv
<1>5. CASE CheckReserved(l) \/ ClaimReply(l)
  <2>1. rsub'[l] = rsub[l] \/ (/\ rsub'[l].at = "load" /\ rsub'[l].record = l /\ rpc'[l] = "done"
                               /\ \/ rsub'[l].kind = "discarded"
                                  \/ rsub'[l].kind = "closed" /\ rclosed)
    <3>1. CASE CheckReserved(l)
      BY <1>0, <3>1 DEF CheckReserved, Call
    <3>2. CASE ClaimReply(l)
      BY <1>0, <3>2 DEF ClaimReply, Call
    <3> QED
      BY Zenon, <1>5, <3>1, <3>2
  <2>2. rcount' = rcount /\ rfence' = rfence /\ rec' = rec /\ rpc[l] \in {"opened", "claim"}
        /\ rpc'[l] \in {"claim", "cancel", "publish", "done"}
    BY Zenon, <1>0, <1>5 DEF CheckReserved, ClaimReply, fenceVars
  <2>3. Present(l)
    BY Zenon, <1>0, <2>2 DEF RecordInv, Early, Present
  <2> QED
    BY Zenon, <1>0, <2>1, <2>2, <2>3 DEF Counted, RoutineInv, Present, Early, Opening, Pushing
<1>6. CASE BeginActivate(l) \/ CheckActivate(l)
  <2>1. \/ rsub'[l] = rsub[l]
        \/ /\ rsub'[l].at = "load" /\ rsub'[l].record = l /\ rsub'[l].kind = "closed" /\ (rfence \/ rclosed)
           /\ rpc'[l] \in {"enable", "done"} /\ l \notin rcount'
    <3>1. CASE BeginActivate(l)
      BY <1>0, <3>1 DEF BeginActivate, Call, Activated, Counted
    <3>2. CASE CheckActivate(l)
      BY <1>0, <3>2 DEF CheckActivate, Call, Activated, Counted
    <3> QED
      BY Zenon, <1>6, <3>1, <3>2
  <2>2. rfence' = rfence /\ rec' = rec /\ rpc[l] \in {"fence", "fenced"}
    BY Zenon, <1>0, <1>6 DEF BeginActivate, CheckActivate
  <2>3. Present(l)
    BY Zenon, <1>0, <2>2 DEF RecordInv, Early, Present
  <2>4. (l \in rcount' <=> rpc'[l] \in Counted) /\ rpc'[l] \in {"fenced", "ready", "enable", "done"}
        /\ (rpc'[l] \in {"fenced", "ready"} => rsub'[l] = rsub[l])
    BY Zenon, <1>0, <1>6 DEF BeginActivate, CheckActivate, Activated, Counted
  <2> QED
    BY Zenon, <1>0, <2>1, <2>2, <2>3, <2>4 DEF RoutineInv, Present, Early, Opening, Pushing
<1> QED
  BY Zenon, <1>1, <1>2, <1>3, <1>4, <1>5, <1>6 DEF OwnerMove

(* A record, once made, stays. *)
LEMMA PresentKept ==
    ASSUME ControlInv, [SlotsNext]_rvars, NEW l, Present(l)
    PROVE  Present(l)'
<1>0. SlotsType /\ l \in Leases /\ rec[l].state # "absent"
  BY Zenon DEF ControlInv, Present
<1>1. ASSUME NEW m \in Leases, OwnerMove(m) PROVE Present(l)'
  <2>1. CASE l # m
    BY Zenon, <1>0, <1>1, <2>1, OwnerRecord DEF Present
  <2>2. CASE l = m /\ Reserve(m) /\ rfree # <<>>
    BY Zenon, <1>0, <2>2 DEF Present, Reserve, NoRecord, SlotsType, RecordType
  <2>3. CASE l = m /\ ~(Reserve(m) /\ rfree # <<>>)
    BY Zenon, <1>0, <1>1, <2>3, OwnerKeeps DEF Present
  <2> QED
    BY Zenon, <2>1, <2>2, <2>3
<1>2. ASSUME NEW t \in Threads, rsub[t].at # "none", SubMove(t) PROVE Present(l)'
  <2>1. rsub[t].record \in Leases
    BY Zenon, <1>2 DEF ControlInv, RoutineInv, Present
  <2> QED
    BY Zenon, <1>0, <1>2, <2>1, SubRecord DEF Present
<1>3. ASSUME TaskMove PROVE Present(l)'
  BY Zenon, <1>0, <1>3, TaskFrame DEF Present
<1>4. ASSUME UNCHANGED rvars PROVE Present(l)'
  BY Zenon, <1>0, <1>4 DEF Present, rvars
<1> QED
  BY Zenon, <1>1, <1>2, <1>3, <1>4, StepCases

(* A record that exists has one of the slots. *)
LEMMA PresentIndex ==
    ASSUME ControlInv, NEW l, Present(l)
    PROVE  rec[l].index \in 1..rplan.slots /\ rec[l].index \in Slots
<1>1. rec[l].index \in 1..rplan.slots
  BY Zenon DEF ControlInv, Present, RecordInv
<1>2. rplan.slots \in 1..SlotCount
  BY Zenon, SlotsAssumption DEF ControlInv, SlotsType, PoolType
<1> QED
  BY <1>1, <1>2, SlotsAssumption DEF Slots

(* The steps keep the state typed. *)
LEMMA TypeStep ==
    ASSUME ControlInv, [SlotsNext]_rvars
    PROVE  SlotsType'
<1>0. SlotsType
  BY Zenon DEF ControlInv
<1>1. PoolType'
  <2>1. \A t \in Threads : rsub[t].at # "none" => rsub[t].record \in Leases /\ rec[rsub[t].record].index \in Slots
    BY Zenon, PresentIndex DEF ControlInv, RoutineInv, Present
  <2> QED
    BY Zenon, <1>0, <2>1, PoolTypeStep
<1>2. rcur # NoResponse => rcur.lease \in Leases
  BY Zenon DEF ControlInv, PresentInv, Present
<1>3. WriterType' /\ iopc' \in {"look", "parked", "fence"} \cup Shutting
  BY Zenon, <1>0, <1>2, WriterTypeStep
<1>4. ASSUME NEW l \in Leases, OwnerMove(l) PROVE RecordType' /\ CallType' /\ rpc' \in [Leases -> Labels]
  BY Zenon, <1>0, <1>4, OwnerLocal, OwnerRecord DEF RecordType, CallType
<1>5. ASSUME NEW t \in Threads, rsub[t].at # "none", SubMove(t)
      PROVE  RecordType' /\ CallType' /\ rpc' \in [Leases -> Labels]
  <2>1. rsub[t].record \in Leases
    BY Zenon, <1>5 DEF ControlInv, RoutineInv, Present
  <2>2. rec' \in [Leases -> Record]
    BY Zenon, <1>0, <1>5, <2>1, SubRecord
  <2>3. rsub' \in [Threads -> SubCall]
    BY Zenon, <1>0, <1>5, SubLocal
  <2>4. rpc' = rpc
    BY Zenon, <1>5, SubFrame
  <2> QED
    BY Zenon, <1>0, <2>2, <2>3, <2>4 DEF RecordType, CallType, SlotsType, LabelType
<1>6. ASSUME TaskMove PROVE RecordType' /\ CallType' /\ rpc' \in [Leases -> Labels]
  BY Zenon, <1>0, <1>2, <1>6, TaskFrame, TaskLocal DEF RecordType, CallType, SlotsType, LabelType
<1>7. ASSUME UNCHANGED rvars PROVE RecordType' /\ CallType' /\ rpc' \in [Leases -> Labels]
  BY Zenon, <1>0, <1>7 DEF RecordType, CallType, SlotsType, LabelType, rvars, ownerVars
<1>8. RecordType' /\ CallType' /\ rpc' \in [Leases -> Labels]
  BY Zenon, <1>4, <1>5, <1>6, <1>7, StepCases
<1> QED
  BY Zenon, <1>1, <1>3, <1>8 DEF SlotsType, LabelType

(* The free indices stay those of the connection. *)
LEMMA FreeStep ==
    ASSUME ControlInv, [SlotsNext]_rvars
    PROVE  FreeInv'
<1>0. rfree \in Seq(Slots) /\ FreeInv
  BY Zenon DEF ControlInv, SlotsType, PoolType
<1>1. ASSUME NEW l \in Leases, OwnerMove(l) PROVE FreeInv'
  <2>0. rplan' = rplan
    BY Zenon, <1>1, OwnerFrame
  <2>1. CASE Reserve(l) /\ rfree # <<>>
    <3>1. rfree' = Tail(rfree)
      BY Zenon, <2>1 DEF Reserve
    <3>2. Len(Tail(rfree)) = Len(rfree) - 1 /\ \A i \in 1..Len(Tail(rfree)) : Tail(rfree)[i] = rfree[i + 1]
      BY Zenon, <1>0, <2>1, HeadTailProperties
    <3>3. Len(rfree) \in Nat
      BY <1>0
    <3> QED
      BY <1>0, <2>0, <3>1, <3>2, <3>3 DEF FreeInv
  <2> QED
    BY Zenon, <1>0, <1>1, <2>0, <2>1, OwnerEffects DEF FreeInv
<1>2. ASSUME NEW t \in Threads, rsub[t].at # "none", SubMove(t) PROVE FreeInv'
  <2>0. rplan' = rplan
    BY Zenon, <1>2, SubFrame
  <2> DEFINE i == rec[rsub[t].record].index
  <2>1. i \in 1..rplan.slots /\ i \in Slots
    BY Zenon, <1>2, PresentIndex DEF ControlInv, RoutineInv
  <2>2. rfree' \in {rfree, Append(rfree, i)}
    <3>1. CASE RecycleIndex(t)
      BY Zenon, <3>1 DEF RecycleIndex
    <3>2. CASE SubLoad(t) \/ SubSwap(t) \/ ClosePublication(t) \/ Recycle(t) \/ ReleasePermits(t) \/ Complete(t)
      BY Zenon, <3>2
         DEF SubLoad, SubSwap, ClosePublication, Recycle, ReleasePermits, Complete, slotVars
    <3> QED
      BY Zenon, <1>2, <3>1, <3>2 DEF SubMove
  <2> HIDE DEF i
  <2>3. Len(Append(rfree, i)) = Len(rfree) + 1 /\ Append(rfree, i)[Len(rfree) + 1] = i
        /\ \A k \in 1..Len(rfree) : Append(rfree, i)[k] = rfree[k]
    BY <1>0, <2>1, AppendProperties
  <2>4. Len(rfree) \in Nat
    BY <1>0
  <2> QED
    BY <1>0, <2>0, <2>1, <2>2, <2>3, <2>4 DEF FreeInv
<1>3. ASSUME TaskMove PROVE FreeInv'
  BY Zenon, <1>0, <1>3, TaskFrame DEF FreeInv
<1>4. ASSUME UNCHANGED rvars PROVE FreeInv'
  BY Zenon, <1>0, <1>4 DEF FreeInv, rvars, slotVars
<1> QED
  BY Zenon, <1>1, <1>2, <1>3, <1>4, StepCases

(* The steps keep the writer task's control invariant. *)
LEMMA TaskStep ==
    ASSUME ControlInv, [SlotsNext]_rvars
    PROVE  TaskInv'
<1>0. TaskInv /\ SlotsType /\ IO \in Threads /\ IO \notin Leases
  BY Zenon, SlotsAssumption DEF ControlInv, Threads
<1>1. ASSUME NEW l \in Leases, OwnerMove(l) PROVE TaskInv'
  <2>1. /\ rclosed' = rclosed /\ rfence' = rfence /\ iopc' = iopc /\ rcur' = rcur /\ ryield' = ryield
    BY Zenon, <1>1, OwnerFrame
  <2>2. rsub'[IO] = rsub[IO]
    BY Zenon, <1>0, <1>1, OwnerLocal
  <2>3. rfence /\ rcount = {} => rcount' = {}
    <3> SUFFICES ASSUME rfence, rcount = {} PROVE rcount' = {}
      OBVIOUS
    <3>1. CallInv(l)
      BY Zenon DEF ControlInv
    <3>2. rpc[l] \notin Counted
      BY Zenon, <3>1 DEF CallInv
    <3>3. l \notin rcount'
      <4>1. CASE BeginReserve(l) \/ BeginActivate(l)
        BY Zenon, <4>1 DEF BeginReserve, BeginActivate
      <4>2. CASE Reserve(l) \/ EndReserve(l) \/ CheckActivate(l) \/ PushReady(l) \/ EndActivate(l)
        BY Zenon, <3>2, <4>2
           DEF Reserve, EndReserve, CheckActivate, PushReady, EndActivate, OwnerAt, Counted
      <4>3. CASE TakeJob(l) \/ TakeBytes(l) \/ CheckReserved(l) \/ ClaimReply(l) \/ BeginPublish(l)
        BY Zenon, <4>3 DEF TakeJob, TakeBytes, CheckReserved, ClaimReply, BeginPublish, fenceVars
      <4>4. CASE StorePayload(l) \/ Cancel(l) \/ Activate(l) \/ NotifyLease(l)
        BY Zenon, <4>4 DEF StorePayload, Cancel, Activate, NotifyLease, fenceVars
      <4>5. CASE EnableWait(l) \/ ReadState(l) \/ AwaitState(l) \/ DropWait(l)
        BY Zenon, <4>5 DEF EnableWait, ReadState, AwaitState, DropWait, fenceVars
      <4> QED
        BY Zenon, <1>1, <4>1, <4>2, <4>3, <4>4, <4>5 DEF OwnerMove
    <3>4. \A m \in Leases : m \notin rcount'
      BY Zenon, <1>0, <1>1, <3>3, OwnerLocal
    <3>5. rcount' \subseteq Leases
      BY Zenon, TypeStep DEF SlotsType, PoolType
    <3> QED
      BY Zenon, <3>4, <3>5
  <2>4. rcount = {} => rready' = rready
    <3>1. CallInv(l)
      BY Zenon DEF ControlInv
    <3>2. PushReady(l) => l \in rcount
      BY Zenon, <3>1 DEF PushReady, OwnerAt, CallInv, Counted
    <3> QED
      BY Zenon, <1>1, <3>2, OwnerEffects
  <2> QED
    BY Zenon, <1>0, <2>1, <2>2, <2>3, <2>4 DEF TaskInv, Shutting
<1>2. ASSUME NEW t \in Threads, rsub[t].at # "none", SubMove(t) PROVE TaskInv'
  <2>1. /\ rclosed' = rclosed /\ rfence' = rfence /\ rcount' = rcount /\ rready' = rready /\ iopc' = iopc
        /\ rcur' = rcur /\ ryield' = ryield
    BY Zenon, <1>2, SubFrame
  <2>2. \/ rsub'[IO] = rsub[IO] \/ rsub'[IO].at = "none"
        \/ rsub[IO].at # "none" /\ rsub'[IO].kind = rsub[IO].kind
    BY <1>0, <1>2, SubLocal DEF NoSub
  <2> QED
    BY Zenon, <1>0, <2>1, <2>2 DEF TaskInv
<1>3. ASSUME TaskMove PROVE TaskInv'
  <2>0. rcount' = rcount /\ iopc \in {"look", "parked", "fence"} \cup Shutting /\ rsub \in [Threads -> SubCall]
    BY Zenon, <1>0, <1>3, TaskFrame DEF SlotsType, LabelType, CallType
  <2> USE DEF TaskInv, Shutting
  <2>1. CASE NextResponse \/ WakeIO \/ ChooseStage \/ WritePart \/ WriteEnd
    <3>1. /\ rclosed' = rclosed /\ rfence' = rfence /\ rsub' = rsub /\ rsub[IO].at = "none"
          /\ iopc \in {"look", "parked"} /\ iopc' \in {"look", "parked"}
      BY Zenon, <2>1
         DEF NextResponse, WakeIO, ChooseStage, WritePart, WriteEnd, MayWrite, IOAt, fenceVars
    <3> QED
      BY Zenon, <1>0, <2>0, <3>1
  <2>2. CASE Flush
    <3>1. rsub'[IO].at = "load" /\ rsub'[IO].kind = "complete"
      BY Zenon, <1>0, <2>0, <2>2 DEF Flush, Call
    <3>2. iopc = "look" /\ iopc' = iopc /\ rcur' = NoResponse /\ rclosed' = rclosed /\ rfence' = rfence
      BY Zenon, <2>2 DEF Flush, IOAt, fenceVars
    <3> QED
      BY Zenon, <1>0, <2>0, <3>1, <3>2
  <2>3. CASE ExitIO \/ FenceSlots \/ CloseSlots \/ Settle
    BY <1>0, <2>0, <2>3 DEF ExitIO, FenceSlots, CloseSlots, Settle, IOAt, fenceVars
  <2>4. CASE DrainReady
    BY <1>0, <2>0, <2>4 DEF DrainReady, IOAt, Call, fenceVars
  <2>5. CASE Sweep
    BY <1>0, <2>0, <2>5 DEF Sweep, IOAt, Call, fenceVars
  <2> QED
    BY Zenon, <1>3, <2>1, <2>2, <2>3, <2>4, <2>5 DEF TaskMove
<1>4. ASSUME UNCHANGED rvars PROVE TaskInv'
  BY Zenon, <1>0, <1>4 DEF TaskInv, rvars, fenceVars, ioVars
<1> QED
  BY Zenon, <1>1, <1>2, <1>3, <1>4, StepCases

(* The steps put only records that exist where the writer task finds them. *)
LEMMA PresentStep ==
    ASSUME ControlInv, [SlotsNext]_rvars
    PROVE  PresentInv'
<1>0. /\ PresentInv /\ SlotsType /\ rready \in Seq(Leases) /\ ryield \in Seq(Response)
      /\ rtable \in [Slots -> Leases \cup {None}] /\ rfree \in Seq(Slots)
  BY Zenon DEF ControlInv, SlotsType, PoolType, WriterType
<1> DEFINE Kept(l) == l \in Leases /\ rec'[l].state # "absent"
           Goal == /\ \A i \in Slots : rtable'[i] # None => Kept(rtable'[i])
                   /\ \A k \in 1..Len(rready') : Kept(rready'[k])
                   /\ \A k \in 1..Len(ryield') : Kept(ryield'[k].lease)
                   /\ rcur' # NoResponse => Kept(rcur'.lease)
<1> SUFFICES Goal
  BY Zenon DEF PresentInv, Present
<1>1. \A l : Present(l) => Kept(l)
  BY Zenon, PresentKept DEF Present
<1> HIDE DEF Kept
<1>2. ASSUME NEW l \in Leases, OwnerMove(l) PROVE Goal
  <2>1. rcur' = rcur /\ ryield' = ryield
    BY Zenon, <1>2, OwnerFrame
  <2>2. \A i \in Slots : rtable'[i] # None => Kept(rtable'[i])
    <3>1. CASE Reserve(l) /\ rfree # <<>>
      <4>1. Kept(l)
        BY Zenon, <1>0, <3>1 DEF Kept, Reserve, NoRecord, SlotsType, RecordType
      <4>2. Head(rfree) \in Slots
        BY Zenon, <1>0, <3>1, HeadTailProperties
      <4>3. \A i \in Slots : rtable'[i] \in {rtable[i], l}
        BY Zenon, <1>0, <3>1, <4>2 DEF Reserve
      <4> QED
        BY Zenon, <1>0, <1>1, <4>1, <4>3 DEF PresentInv
    <3> QED
      BY Zenon, <1>0, <1>1, <1>2, <3>1, OwnerEffects DEF PresentInv
  <2>3. \A k \in 1..Len(rready') : Kept(rready'[k])
    <3>1. CASE PushReady(l)
      <4>1. Present(l)
        BY Zenon, <3>1 DEF ControlInv, RecordInv, PushReady, OwnerAt, Early, Present
      <4>2. /\ rready' = Append(rready, l) /\ Len(rready) \in Nat
            /\ Len(Append(rready, l)) = Len(rready) + 1 /\ Append(rready, l)[Len(rready) + 1] = l
            /\ \A k \in 1..Len(rready) : Append(rready, l)[k] = rready[k]
        BY <1>0, <3>1, AppendProperties DEF PushReady
      <4>3. \A k \in 1..Len(rready') : rready'[k] = l \/ (k \in 1..Len(rready) /\ rready'[k] = rready[k])
        BY <4>2
      <4> QED
        BY Zenon, <1>0, <1>1, <4>1, <4>3 DEF PresentInv
    <3> QED
      BY Zenon, <1>0, <1>1, <1>2, <3>1, OwnerEffects DEF PresentInv
  <2> QED
    BY Zenon, <1>0, <1>1, <2>1, <2>2, <2>3 DEF PresentInv
<1>3. ASSUME NEW t \in Threads, rsub[t].at # "none", SubMove(t) PROVE Goal
  <2>1. rready' = rready /\ rcur' = rcur /\ ryield' = ryield
    BY Zenon, <1>3, SubFrame
  <2>2. \A i \in Slots : rtable'[i] \in {rtable[i], None}
    <3>1. CASE SubSwap(t) \/ ReleasePermits(t)
      BY Zenon, <1>0, <3>1 DEF SubSwap, ReleasePermits
    <3>2. CASE SubLoad(t) \/ ClosePublication(t) \/ Recycle(t) \/ RecycleIndex(t) \/ Complete(t)
      BY Zenon, <3>2 DEF SubLoad, ClosePublication, Recycle, RecycleIndex, Complete, slotVars
    <3> QED
      BY Zenon, <1>3, <3>1, <3>2 DEF SubMove
  <2> QED
    BY Zenon, <1>0, <1>1, <2>1, <2>2 DEF PresentInv
<1>4. ASSUME TaskMove PROVE Goal
  <2>1. \A i \in Slots : rtable'[i] \in {rtable[i], None}
    <3>1. CASE Sweep
      BY Zenon, <1>0, <3>1 DEF Sweep
    <3>2. CASE NextResponse \/ WakeIO \/ ChooseStage \/ WritePart \/ WriteEnd \/ Flush
      BY Zenon, <3>2 DEF NextResponse, WakeIO, ChooseStage, WritePart, WriteEnd, Flush, slotVars
    <3>3. CASE ExitIO \/ FenceSlots \/ CloseSlots \/ Settle \/ DrainReady
      BY Zenon, <3>3 DEF ExitIO, FenceSlots, CloseSlots, Settle, DrainReady, slotVars
    <3> QED
      BY Zenon, <1>4, <3>1, <3>2, <3>3 DEF TaskMove
  <2>2. rready' = rready \/ (rready # <<>> /\ rready' = Tail(rready))
    <3>1. CASE NextResponse \/ DrainReady
      BY Zenon, <3>1 DEF NextResponse, DrainReady
    <3>2. CASE WakeIO \/ ChooseStage \/ WritePart \/ WriteEnd \/ Flush \/ Sweep
      BY Zenon, <3>2 DEF WakeIO, ChooseStage, WritePart, WriteEnd, Flush, Sweep
    <3>3. CASE ExitIO \/ FenceSlots \/ CloseSlots \/ Settle
      BY Zenon, <3>3 DEF ExitIO, FenceSlots, CloseSlots, Settle
    <3> QED
      BY Zenon, <1>4, <3>1, <3>2, <3>3 DEF TaskMove
  <2>3. \A k \in 1..Len(rready') : Kept(rready'[k])
    <3>1. rready # <<>> => /\ Len(Tail(rready)) = Len(rready) - 1 /\ Len(rready) \in Nat
                           /\ \A k \in 1..Len(Tail(rready)) : Tail(rready)[k] = rready[k + 1]
      BY <1>0, HeadTailProperties
    <3>2. rready # <<>> => \A k \in 1..Len(Tail(rready)) : k + 1 \in 1..Len(rready)
      BY <3>1
    <3> QED
      BY Zenon, <1>0, <1>1, <2>2, <3>1, <3>2 DEF PresentInv
  <2>4. /\ \A k \in 1..Len(ryield') : Kept(ryield'[k].lease)
        /\ rcur' # NoResponse => Kept(rcur'.lease)
    <3>1. CASE NextResponse
      <4>1. rready # <<>> => Present(Head(rready))
        BY <1>0 DEF PresentInv
      <4>2. ryield # <<>> => /\ Present(Head(ryield).lease)
                             /\ \A k \in 1..Len(Tail(ryield)) : Present(Tail(ryield)[k].lease)
        <5>1. ryield # <<>> => /\ Len(Tail(ryield)) = Len(ryield) - 1 /\ Len(ryield) \in Nat
                               /\ \A k \in 1..Len(Tail(ryield)) : Tail(ryield)[k] = ryield[k + 1]
                               /\ Head(ryield) = ryield[1]
          BY <1>0, HeadTailProperties
        <5>2. ryield # <<>> => 1 \in 1..Len(ryield) /\ \A k \in 1..Len(Tail(ryield)) : k + 1 \in 1..Len(ryield)
          BY <1>0, <5>1
        <5> QED
          BY Zenon, <1>0, <5>1, <5>2 DEF PresentInv
      <4>3. \/ rcur' = Head(ryield) /\ ryield' = Tail(ryield) /\ ryield # <<>>
            \/ rcur'.lease = Head(rready) /\ ryield' = ryield /\ rready # <<>>
            \/ rcur' = rcur /\ ryield' = ryield
        BY Zenon, <3>1 DEF NextResponse, NoResponse
      <4> QED
        BY Zenon, <1>0, <1>1, <4>1, <4>2, <4>3 DEF PresentInv
    <3>2. CASE ChooseStage \/ WritePart \/ WakeIO \/ Flush \/ ExitIO
      <4>0. rcur \in Response
        BY Zenon, <1>0 DEF SlotsType, WriterType
      <4>1. /\ ryield' = ryield \/ ryield' = <<>>
            /\ rcur' = NoResponse \/ rcur' = rcur \/ (rcur'.lease = rcur.lease /\ rcur # NoResponse)
        <5>1. CASE ChooseStage
          <6>1. rcur # NoResponse /\ ryield' = ryield
            BY <5>1 DEF ChooseStage, NoResponse
          <6>2. \E s : rcur' = [rcur EXCEPT !.stage = s, !.sent = "none"]
            BY Zenon, <5>1 DEF ChooseStage, Stage, Terminal
          <6> QED
            BY Zenon, <4>0, <6>1, <6>2 DEF Response
        <5>2. CASE WritePart
          BY <4>0, <5>2 DEF WritePart, MayWrite, NoResponse, Response
        <5>3. CASE WakeIO \/ Flush \/ ExitIO
          BY Zenon, <5>3 DEF WakeIO, Flush, ExitIO
        <5> QED
          BY Zenon, <3>2, <5>1, <5>2, <5>3
      <4> QED
        BY <1>0, <1>1, <4>1 DEF PresentInv
    <3>3. CASE WriteEnd
      <4>1. rcur # NoResponse /\ rcur \in Response
        BY <1>0, <3>3 DEF WriteEnd, MayWrite, NoResponse, SlotsType, WriterType
      <4>2. rcur' = NoResponse \/ rcur'.lease = rcur.lease
        BY Zenon, <3>3, <4>1 DEF WriteEnd, Stage, Terminal, Response
      <4>3. PICK e : ryield' \in {ryield, Append(ryield, e)} /\ e.lease = rcur.lease /\ e \in Response
        <5> DEFINE e == [rcur EXCEPT !.frame = rcur.frame + 1, !.sent = "none"]
        <5>1. ryield' \in {ryield, Append(ryield, e)}
          BY Zenon, <3>3 DEF WriteEnd
        <5>2. e.lease = rcur.lease /\ e \in Response
          <6>1. rcur.frame \in Nat
            BY Zenon, <4>1 DEF Response
          <6>2. rcur.frame + 1 \in Nat
            BY <6>1
          <6> QED BY Zenon, <4>1, <6>2 DEF Response
        <5> QED
          BY Zenon, <5>1, <5>2
      <4>4. /\ Len(ryield) \in Nat /\ Len(Append(ryield, e)) = Len(ryield) + 1
            /\ Append(ryield, e)[Len(ryield) + 1] = e
            /\ \A k \in 1..Len(ryield) : Append(ryield, e)[k] = ryield[k]
        BY <1>0, <4>3, AppendProperties
      <4>5. \A k \in 1..Len(ryield') : ryield'[k] = e \/ (k \in 1..Len(ryield) /\ ryield'[k] = ryield[k])
        BY <4>3, <4>4
      <4> QED
        BY Zenon, <1>0, <1>1, <4>1, <4>2, <4>3, <4>5 DEF PresentInv
    <3>4. CASE FenceSlots \/ CloseSlots \/ Settle \/ DrainReady \/ Sweep
      <4>1. rcur' = rcur /\ ryield' = ryield
        BY Zenon, <3>4 DEF FenceSlots, CloseSlots, Settle, DrainReady, Sweep
      <4> QED
        BY Zenon, <1>0, <1>1, <4>1 DEF PresentInv
    <3> QED
      BY Zenon, <1>4, <3>1, <3>2, <3>3, <3>4 DEF TaskMove
  <2> QED
    BY Zenon, <1>0, <1>1, <2>1, <2>3, <2>4 DEF PresentInv
<1>5. ASSUME UNCHANGED rvars PROVE Goal
  BY Zenon, <1>0, <1>1, <1>5 DEF PresentInv, rvars, slotVars, ioVars
<1> QED
  BY Zenon, <1>2, <1>3, <1>4, <1>5, StepCases

(* The control part of the invariant holds at the start ... *)
LEMMA ControlInit == SlotsInit => ControlInv
<1> SUFFICES ASSUME SlotsInit PROVE ControlInv
  OBVIOUS
<1>0. rplan.slots \in 1..SlotCount /\ rplan.jobs \in Nat /\ SlotCount \in Nat
  BY SlotsAssumption DEF SlotsInit
<1>1. LabelType /\ CallType
  BY Zenon DEF SlotsInit, LabelType, Labels, Early, CallType, SubCall, NoSub
<1>2. RecordType
  <2>1. NoRecord \in Record
    BY <1>0 DEF NoRecord, Record
  <2> QED
    BY Zenon, <2>1 DEF SlotsInit, RecordType
<1>3. PoolType /\ FreeInv
  <2>1. rfree \in [1..rplan.slots -> Slots] /\ rplan.slots \in Nat
    BY <1>0 DEF SlotsInit, Slots
  <2>2. rfree \in Seq(Slots) /\ Len(rfree) = rplan.slots
    BY <2>1
  <2>3. rready \in Seq(Leases)
    BY Zenon, EmptySeq DEF SlotsInit
  <2>4. rused \in [Asks -> SUBSET Leases] /\ rtable \in [Slots -> Leases \cup {None}]
    BY Zenon DEF SlotsInit
  <2> QED
    BY Zenon, <1>0, <2>2, <2>3, <2>4 DEF SlotsInit, PoolType, FreeInv
<1>4. WriterType
  BY Zenon, EmptySeq DEF SlotsInit, WriterType, NoResponse, Response, Stages
<1>5. TaskInv
  BY Zenon DEF SlotsInit, TaskInv, Shutting, NoSub, Threads
<1>6. PresentInv
  BY DEF SlotsInit, PresentInv
<1>7. ASSUME NEW l \in Leases PROVE RecordInv(l) /\ CallInv(l)
  BY Zenon DEF SlotsInit, RecordInv, CallInv, Early, Counted, NoRecord, NoSub, Threads
<1>8. ASSUME NEW t \in Threads PROVE RoutineInv(t)
  BY Zenon DEF SlotsInit, RoutineInv, NoSub
<1> QED
  BY Zenon, <1>1, <1>2, <1>3, <1>4, <1>5, <1>6, <1>7, <1>8 DEF ControlInv, SlotsType

(* ... and is kept by every step. *)
LEMMA ControlStep == ControlInv /\ [SlotsNext]_rvars => ControlInv'
<1> SUFFICES ASSUME ControlInv, [SlotsNext]_rvars PROVE ControlInv'
  OBVIOUS
<1>0. /\ SlotsType /\ IO \notin Leases /\ Threads = Leases \cup {IO}
      /\ \A m \in Leases : RecordInv(m) /\ CallInv(m)
      /\ \A t \in Threads : RoutineInv(t)
  BY Zenon, SlotsAssumption DEF ControlInv, Threads
<1>1. SlotsType' /\ FreeInv' /\ TaskInv' /\ PresentInv'
  BY Zenon, TypeStep, FreeStep, TaskStep, PresentStep
<1>2. (rfence => rfence') /\ \A l : Present(l) => Present(l)'
  <2>1. rfence => rfence'
    <3>1. ASSUME TaskMove PROVE rfence => rfence'
      <4>1. CASE NextResponse \/ WakeIO \/ ChooseStage \/ WritePart \/ WriteEnd \/ Flush
        BY Zenon, <4>1 DEF NextResponse, WakeIO, ChooseStage, WritePart, WriteEnd, Flush, fenceVars
      <4>2. CASE ExitIO \/ FenceSlots \/ CloseSlots \/ Settle \/ DrainReady \/ Sweep
        BY Zenon, <4>2 DEF ExitIO, FenceSlots, CloseSlots, Settle, DrainReady, Sweep, fenceVars
      <4> QED
        BY Zenon, <3>1, <4>1, <4>2 DEF TaskMove
    <3>2. ASSUME UNCHANGED rvars PROVE rfence' = rfence
      BY Zenon, <3>2 DEF rvars, fenceVars
    <3> QED
      BY Zenon, <3>1, <3>2, StepCases, OwnerFrame, SubFrame
  <2> QED
    BY Zenon, <2>1, PresentKept
<1> DEFINE Goal == (\A m \in Leases : RecordInv(m)' /\ CallInv(m)') /\ (\A t \in Threads : RoutineInv(t)')
<1>3. ASSUME NEW l \in Leases, OwnerMove(l) PROVE Goal
  <2>1. RecordInv(l)' /\ CallInv(l)' /\ RoutineInv(l)'
    BY Zenon, <1>3, OwnerRecordInv, OwnerCallInv
  <2>2. rplan' = rplan
    BY Zenon, <1>3, OwnerFrame
  <2>3. \A m \in Leases \ {l} : rpc'[m] = rpc[m] /\ (m \in rcount' <=> m \in rcount) /\ rec'[m] = rec[m]
    BY Zenon, <1>0, <1>3, OwnerLocal, OwnerRecord
  <2>4. \A t \in Threads \ {l} : rsub'[t] = rsub[t]
    BY Zenon, <1>0, <1>3, OwnerLocal
  <2>5. ASSUME NEW m \in Leases \ {l} PROVE RecordInv(m)' /\ CallInv(m)'
    BY <1>0, <2>2, <2>3, <2>4 DEF RecordInv, CallInv
  <2>6. ASSUME NEW t \in Threads \ {l} PROVE RoutineInv(t)'
    BY Zenon, <1>0, <1>2, <2>4 DEF RoutineInv
  <2> QED
    BY Zenon, <2>1, <2>5, <2>6
<1>4. ASSUME NEW t \in Threads, rsub[t].at # "none", SubMove(t) PROVE Goal
  <2>0. Present(rsub[t].record)
    BY Zenon, <1>0, <1>4 DEF RoutineInv
  <2>1. rplan' = rplan /\ rcount' = rcount /\ rpc' = rpc
    BY Zenon, <1>4, SubFrame
  <2>2. /\ \A u \in Threads \ {t} : rsub'[u] = rsub[u]
        /\ \/ rsub'[t] = NoSub
           \/ rsub'[t].record = rsub[t].record /\ rsub'[t].kind = rsub[t].kind
    BY Zenon, <1>0, <1>4, SubLocal
  <2>3. ASSUME NEW m \in Leases PROVE RecordInv(m)'
    <3>1. CASE m # rsub[t].record
      <4>1. rec'[m] = rec[m]
        BY Zenon, <1>0, <1>4, <2>0, <3>1, SubRecord DEF Present
      <4> QED
        BY Zenon, <1>0, <2>1, <4>1 DEF RecordInv
    <3>2. CASE m = rsub[t].record
      <4>1. rec'[m].index = rec[m].index /\ rec'[m].state # "absent"
        BY Zenon, <1>0, <1>4, <2>0, <3>2, SubRecord DEF Present
      <4>2. rpc[m] \notin Early
        BY <1>0, <2>0, <3>2 DEF RecordInv, Present, NoRecord
      <4> QED
        BY Zenon, <1>0, <2>0, <2>1, <3>2, <4>1, <4>2 DEF RecordInv, Present
    <3> QED
      BY Zenon, <3>1, <3>2
  <2>4. ASSUME NEW m \in Leases PROVE CallInv(m)'
    <3>1. CASE m # t
      BY Zenon, <1>0, <2>1, <2>2, <3>1 DEF CallInv
    <3>2. CASE m = t
      BY <1>0, <1>4, <2>1, <2>2, <3>2 DEF CallInv, NoSub
    <3> QED
      BY Zenon, <3>1, <3>2
  <2>5. ASSUME NEW u \in Threads PROVE RoutineInv(u)'
    <3>1. CASE u # t
      BY Zenon, <1>0, <1>2, <2>2, <3>1 DEF RoutineInv
    <3>2. CASE u = t
      BY <1>0, <1>2, <1>4, <2>2, <3>2 DEF RoutineInv, NoSub
    <3> QED
      BY Zenon, <3>1, <3>2
  <2> QED
    BY Zenon, <2>3, <2>4, <2>5
<1>5. ASSUME TaskMove PROVE Goal
  <2>1. rplan' = rplan /\ rcount' = rcount /\ rec' = rec /\ rpc' = rpc
    BY Zenon, <1>5, TaskFrame
  <2>2. \A m \in Leases : rsub'[m] = rsub[m]
    <3>1. rcur # NoResponse => rcur.lease \in Leases
      BY Zenon DEF ControlInv, PresentInv, Present
    <3> QED
      BY Zenon, <1>0, <1>5, <3>1, TaskLocal
  <2>3. RoutineInv(IO)'
    <3>0. IO \in Threads /\ rsub \in [Threads -> SubCall] /\ RoutineInv(IO)
      BY Zenon, <1>0 DEF SlotsType, CallType
    <3>1. CASE NextResponse \/ WakeIO \/ ChooseStage \/ WritePart \/ WriteEnd
      <4>1. rsub' = rsub
        BY Zenon, <3>1 DEF NextResponse, WakeIO, ChooseStage, WritePart, WriteEnd
      <4> QED
        BY Zenon, <1>2, <3>0, <4>1 DEF RoutineInv
    <3>2. CASE ExitIO \/ FenceSlots \/ CloseSlots \/ Settle
      <4>1. rsub' = rsub
        BY Zenon, <3>2 DEF ExitIO, FenceSlots, CloseSlots, Settle
      <4> QED
        BY Zenon, <1>2, <3>0, <4>1 DEF RoutineInv
    <3>3. CASE Flush
      <4>1. rsub'[IO].record = rcur.lease /\ rsub'[IO].kind = "complete"
        BY Zenon, <3>0, <3>3 DEF Flush, Call
      <4>2. Present(rcur.lease)
        <5>1. rcur # NoResponse
          BY <3>3 DEF Flush, NoResponse
        <5> QED
          BY Zenon, <5>1 DEF ControlInv, PresentInv
      <4> QED
        BY Zenon, <1>2, <4>1, <4>2 DEF RoutineInv
    <3>4. CASE DrainReady
      <4>1. rready # <<>> => Present(Head(rready))
        BY DEF ControlInv, SlotsType, PoolType, PresentInv
      <4>2. rsub' = rsub \/ (rready # <<>> /\ rsub'[IO].record = Head(rready))
        BY <3>0, <3>4 DEF DrainReady, Call
      <4>3. rfence'
        BY Zenon, <1>2, <3>4 DEF DrainReady, IOAt, ControlInv, TaskInv, Shutting
      <4> QED
        BY Zenon, <1>2, <3>0, <4>1, <4>2, <4>3 DEF RoutineInv
    <3>5. CASE Sweep
      <4>1. \A i \in Slots : rtable[i] # None => Present(rtable[i])
        BY Zenon DEF ControlInv, PresentInv
      <4>2. rsub' = rsub \/ \E i \in Slots : rtable[i] # None /\ rsub'[IO].record = rtable[i]
        BY <3>0, <3>5 DEF Sweep, Call
      <4>3. rfence'
        BY Zenon, <1>2, <3>5 DEF Sweep, IOAt, ControlInv, TaskInv, Shutting
      <4> QED
        BY Zenon, <1>2, <3>0, <4>1, <4>2, <4>3 DEF RoutineInv
    <3> QED
      BY Zenon, <1>5, <3>1, <3>2, <3>3, <3>4, <3>5 DEF TaskMove
  <2>4. ASSUME NEW m \in Leases PROVE RecordInv(m)' /\ CallInv(m)'
    BY Zenon, <1>0, <2>1, <2>2 DEF RecordInv, CallInv
  <2>5. ASSUME NEW m \in Leases PROVE RoutineInv(m)'
    BY Zenon, <1>0, <1>2, <2>2 DEF RoutineInv
  <2> QED
    BY Zenon, <1>0, <2>3, <2>4, <2>5
<1>6. ASSUME UNCHANGED rvars PROVE Goal
  <2>1. rplan' = rplan /\ rcount' = rcount /\ rec' = rec /\ rpc' = rpc /\ rsub' = rsub /\ rfence' = rfence
    BY Zenon, <1>6 DEF rvars, fenceVars, ownerVars
  <2> QED
    BY Zenon, <1>0, <2>1 DEF RecordInv, CallInv, RoutineInv, Present
<1>7. Goal
  BY Zenon, <1>3, <1>4, <1>5, <1>6, StepCases
<1> QED
  BY Zenon, <1>1, <1>7 DEF ControlInv, Threads

-----------------------------------------------------------------------------
(* An owner past claim_for_lease has the single use of its responder, one before it has not,
   and one that lost it discards its record. *)
ClaimInv(l) ==
    /\ rpc[l] \in Early \cup Opening => rused[AskOf[l]] # {l}
    /\ rpc[l] \notin Early \cup Opening \cup {"done"} => rused[AskOf[l]] = {l}
    /\ rsub[l].at # "none" /\ rsub[l].kind = "discarded" => rused[AskOf[l]] \notin {{}, {l}}

(* The activated flag tells whether activate has run. *)
FlagInv(l) ==
    /\ rpc[l] \in Early \cup Opening \cup {"publish", "store"} => ~Flagged(l, "activated")
    /\ rpc[l] \in Pushing \cup Pushed => Flagged(l, "activated")

(* Resources are recycled once: only the first routine that swaps resources_recycled gives the
   permits and the index back. *)
RecycleInv ==
    /\ \A t \in Threads : rsub[t].at \in {"release", "index", "complete"} => Flagged(rsub[t].record, "recycled")
    /\ \A t, u \in Returning : rsub[t].record = rsub[u].record => t = u

(* A table entry names the record that holds the index; a routine past its swap left none; and
   a record that is not in the table is on its way to be recycled. *)
Removed == {"publication", "recycle", "release", "index", "complete"}
TableInv ==
    /\ \A i \in Slots : rtable[i] # None => rtable[i] \in Holders /\ rec[rtable[i]].index = i
    /\ \A t \in Threads : rsub[t].at \in Removed => rtable[rec[rsub[t].record].index] # rsub[t].record
    /\ \A l \in Holders : \/ rtable[rec[l].index] = l
                          \/ \E t \in Threads : rsub[t].record = l /\ rsub[t].at \in {"publication", "recycle"}

(* Slot indices are exclusive, and none is lost before close. *)
ReturnIndex(t) == rec[rsub[t].record].index
IndexInv ==
    /\ \A l, m \in Holders : rec[l].index = rec[m].index => l = m
    /\ \A t, u \in Returning : ReturnIndex(t) = ReturnIndex(u) => t = u
    /\ \A j, k \in 1..Len(rfree) : rfree[j] = rfree[k] => j = k
    /\ \A l \in Holders : \A t \in Returning : rec[l].index # ReturnIndex(t)
    /\ \A k \in 1..Len(rfree) : /\ \A l \in Holders : rec[l].index # rfree[k]
                                /\ \A t \in Returning : ReturnIndex(t) # rfree[k]
    /\ ~rclosed => \A i \in 1..rplan.slots : \/ \E l \in Holders : rec[l].index = i
                                             \/ \E t \in Returning : ReturnIndex(t) = i
                                             \/ \E k \in 1..Len(rfree) : rfree[k] = i

(* The sweep ends with an empty table, and no owner fills it again. *)
ExitInv == iopc = "exited" => \A i \in Slots : rtable[i] = None

ResourceInv ==
    /\ ControlInv /\ RecycleInv /\ TableInv /\ IndexInv /\ ExitInv /\ BudgetConserved
    /\ \A l \in Leases : ClaimInv(l) /\ FlagInv(l)
-----------------------------------------------------------------------------
(* Owners keep their claim. *)
LEMMA OwnerClaim ==
    ASSUME ControlInv, NEW l \in Leases, OwnerMove(l), ClaimInv(l)
    PROVE  ClaimInv(l)'
<1> USE DEF ClaimInv, OwnerAt, OwnerGoto, Early, Opening
<1>0. /\ l \in Threads /\ rsub[l].at = "none" /\ rsub \in [Threads -> SubCall] /\ rpc \in [Leases -> Labels]
      /\ rused \in [Asks -> SUBSET Leases] /\ AskOf[l] \in Asks
  BY Zenon, OwnerLocal DEF ControlInv, Threads, SlotsType, CallType, LabelType, PoolType, Asks
<1>1. CASE ClaimReply(l)
  <2>1. CASE rused[AskOf[l]] # {}
    BY Zenon, <1>0, <1>1, <2>1 DEF ClaimReply, Call
  <2>2. CASE rused[AskOf[l]] = {}
    BY Zenon, <1>0, <1>1, <2>2 DEF ClaimReply
  <2> QED
    BY Zenon, <2>1, <2>2
<1>2. CASE rused' = rused
  <2>1. CASE TakeJob(l) \/ TakeBytes(l) \/ BeginReserve(l) \/ Reserve(l) \/ EndReserve(l)
    BY Zenon, <1>0, <1>2, <2>1 DEF TakeJob, TakeBytes, BeginReserve, Reserve, EndReserve
  <2>2. CASE BeginPublish(l) \/ StorePayload(l) \/ Cancel(l) \/ Activate(l)
    BY Zenon, <1>0, <1>2, <2>2 DEF BeginPublish, StorePayload, Cancel, Activate, Activated
  <2>3. CASE PushReady(l) \/ EndActivate(l) \/ NotifyLease(l)
    BY Zenon, <1>0, <1>2, <2>3 DEF PushReady, EndActivate, NotifyLease, Activated
  <2>4. CASE EnableWait(l) \/ ReadState(l) \/ AwaitState(l) \/ DropWait(l)
    BY Zenon, <1>0, <1>2, <2>4 DEF EnableWait, ReadState, AwaitState, DropWait
  <2>5. CASE CheckReserved(l)
    BY <1>0, <1>2, <2>5 DEF CheckReserved, Call
  <2>6. CASE BeginActivate(l) \/ CheckActivate(l)
    BY <1>0, <1>2, <2>6 DEF BeginActivate, CheckActivate, Activated, Call
  <2> QED
    BY Zenon, <1>1, <2>1, <2>2, <2>3, <2>4, <2>5, <2>6 DEF OwnerMove
<1> QED
  BY Zenon, <1>1, <1>2, OwnerEffects

(* Owners keep their activated flag. *)
LEMMA OwnerFlag ==
    ASSUME ControlInv, NEW l \in Leases, OwnerMove(l), FlagInv(l)
    PROVE  FlagInv(l)'
<1> USE DEF FlagInv, OwnerAt, OwnerGoto, Early, Opening, Pushing, Pushed, Flagged
<1>0. rec \in [Leases -> Record] /\ rpc \in [Leases -> Labels]
  BY Zenon DEF ControlInv, SlotsType, RecordType, LabelType
<1>1. CASE Reserve(l)
  BY <1>0, <1>1 DEF Reserve, NoRecord
<1>2. CASE BeginPublish(l) \/ StorePayload(l)
  BY <1>0, <1>2 DEF BeginPublish, StorePayload, Record
<1>3. CASE Cancel(l)
  BY Zenon, <1>0, <1>3 DEF Cancel, Record
<1>4. CASE Activate(l)
  BY <1>0, <1>4 DEF Activate, Activated, Record
<1>5. CASE rec' = rec
  <2>1. CASE TakeJob(l) \/ TakeBytes(l) \/ BeginReserve(l) \/ EndReserve(l)
    BY Zenon, <1>0, <1>5, <2>1 DEF TakeJob, TakeBytes, BeginReserve, EndReserve
  <2>2. CASE CheckReserved(l) \/ ClaimReply(l)
    BY Zenon, <1>0, <1>5, <2>2 DEF CheckReserved, ClaimReply
  <2>3. CASE BeginActivate(l) \/ CheckActivate(l) \/ PushReady(l) \/ EndActivate(l) \/ NotifyLease(l)
    BY Zenon, <1>0, <1>5, <2>3
       DEF BeginActivate, CheckActivate, PushReady, EndActivate, NotifyLease, Activated
  <2>4. CASE EnableWait(l) \/ ReadState(l) \/ AwaitState(l) \/ DropWait(l)
    BY Zenon, <1>0, <1>5, <2>4 DEF EnableWait, ReadState, AwaitState, DropWait
  <2> QED
    BY Zenon, <1>1, <1>2, <1>3, <1>4, <2>1, <2>2, <2>3, <2>4 DEF OwnerMove
<1> QED
  BY Zenon, <1>1, <1>2, <1>3, <1>4, <1>5, OwnerEffects

(* The steps keep every lease's claim and flag. *)
LEMMA ClaimStep ==
    ASSUME ControlInv, [SlotsNext]_rvars, \A l \in Leases : ClaimInv(l) /\ FlagInv(l)
    PROVE  \A l \in Leases : ClaimInv(l)' /\ FlagInv(l)'
<1>0. SlotsType /\ rused \in [Asks -> SUBSET Leases] /\ (\A l \in Leases : AskOf[l] \in Asks)
      /\ Leases \subseteq Threads
  BY Zenon DEF ControlInv, SlotsType, PoolType, Asks, Threads
<1> SUFFICES ASSUME NEW m \in Leases PROVE ClaimInv(m)' /\ FlagInv(m)'
  OBVIOUS
<1>1. ASSUME NEW l \in Leases, OwnerMove(l) PROVE ClaimInv(m)' /\ FlagInv(m)'
  <2>1. CASE m = l
    BY Zenon, <1>1, <2>1, OwnerClaim, OwnerFlag
  <2>2. CASE m # l
    <3>1. rpc'[m] = rpc[m] /\ rsub'[m] = rsub[m] /\ rec'[m] = rec[m]
      BY <1>0, <1>1, <2>2, OwnerLocal, OwnerRecord
    <3>2. rused'[AskOf[m]] = rused[AskOf[m]] \/ (rused[AskOf[m]] = {} /\ rused'[AskOf[m]] = {l})
      <4>1. CASE ClaimReply(l)
        BY Zenon, <1>0, <4>1 DEF ClaimReply
      <4> QED
        BY Zenon, <1>1, <4>1, OwnerEffects
    <3> QED
      BY Zenon, <2>2, <3>1, <3>2 DEF ClaimInv, FlagInv, Flagged
  <2> QED
    BY Zenon, <2>1, <2>2
<1>2. ASSUME NEW t \in Threads, rsub[t].at # "none", SubMove(t) PROVE ClaimInv(m)' /\ FlagInv(m)'
  <2>1. rpc' = rpc /\ rused' = rused
    BY Zenon, <1>2, SubFrame
  <2>2. rsub'[m] = rsub[m] \/ rsub'[m].at = "none" \/ (rsub[m].at # "none" /\ rsub'[m].kind = rsub[m].kind)
    BY <1>0, <1>2, SubLocal DEF NoSub
  <2>3. Flagged(m, "activated")' <=> Flagged(m, "activated")
    <3>1. rsub[t].record \in Leases
      BY Zenon, <1>2 DEF ControlInv, RoutineInv, Present
    <3> QED
      BY <1>0, <1>2, <3>1, SubRecord DEF Flagged
  <2> QED
    BY Zenon, <2>1, <2>2, <2>3 DEF ClaimInv, FlagInv
<1>3. ASSUME TaskMove PROVE ClaimInv(m)' /\ FlagInv(m)'
  <2>1. rpc' = rpc /\ rused' = rused /\ rec' = rec
    BY Zenon, <1>3, TaskFrame
  <2>2. rsub'[m] = rsub[m]
    <3>1. rcur # NoResponse => rcur.lease \in Leases
      BY Zenon DEF ControlInv, PresentInv, Present
    <3> QED
      BY Zenon, <1>0, <1>3, <3>1, TaskLocal
  <2> QED
    BY Zenon, <2>1, <2>2 DEF ClaimInv, FlagInv, Flagged
<1>4. ASSUME UNCHANGED rvars PROVE ClaimInv(m)' /\ FlagInv(m)'
  BY Zenon, <1>4 DEF ClaimInv, FlagInv, Flagged, rvars, ownerVars
<1> QED
  BY Zenon, <1>1, <1>2, <1>3, <1>4, StepCases
-----------------------------------------------------------------------------
(* A step that moves no index: it leaves the holders, the returning routines and the free
   indices as they are. *)
Quiet ==
    /\ Holders' = Holders /\ rfree' = rfree
    /\ \A t \in Threads : (t \in Returning)' <=> t \in Returning
    /\ \A t \in Returning : rsub'[t].record = rsub[t].record
    /\ \A l \in Leases : Present(l) => rec'[l].index = rec[l].index

(* A step of an owner that takes no index leaves the free list and all holders alone. *)
LEMMA OwnerQuiet ==
    ASSUME ControlInv, NEW l \in Leases, OwnerMove(l), ~(Reserve(l) /\ rfree # <<>>)
    PROVE  Quiet
<1>0. SlotsType /\ l \in Threads
  BY Zenon DEF ControlInv, Threads
<1>1. /\ rec'[l].index = rec[l].index /\ rec'[l].state = rec[l].state
      /\ Flagged(l, "recycled")' <=> Flagged(l, "recycled")
  BY Zenon, <1>0, OwnerKeeps DEF Flagged
<1>2. \A m \in Leases \ {l} : rec'[m] = rec[m]
  BY Zenon, <1>0, OwnerRecord
<1>3. \A t \in Threads \ {l} : rsub'[t] = rsub[t]
  BY Zenon, <1>0, OwnerLocal
<1>4. rsub[l].at = "none" /\ rsub'[l].at \in {"none", "load"}
  BY Zenon, <1>0, OwnerLocal
<1>5. rfree' = rfree
  BY Zenon, OwnerEffects
<1>6. Holders' = Holders
  BY Zenon, <1>1, <1>2 DEF Holders, Flagged
<1> QED
  BY Zenon, <1>0, <1>1, <1>2, <1>3, <1>4, <1>5, <1>6 DEF Quiet, Returning

(* So does every step of the writer task. *)
LEMMA TaskQuiet ==
    ASSUME ControlInv, TaskMove
    PROVE  Quiet
<1>0. SlotsType /\ (rcur # NoResponse => rcur.lease \in Leases)
  BY Zenon DEF ControlInv, PresentInv, Present
<1>1. rec' = rec /\ rfree' = rfree
  BY Zenon, TaskFrame
<1>2. /\ \A l \in Leases : rsub'[l] = rsub[l]
      /\ rsub[IO].at = "none" /\ rsub'[IO].at \in {"none", "load", "publication"}
  BY Zenon, <1>0, TaskLocal
<1> QED
  BY Zenon, <1>1, <1>2 DEF Quiet, Returning, Threads, Holders, Flagged

(* So does a step of a returning routine, but for those that move an index. *)
LEMMA SubQuiet ==
    ASSUME ControlInv, NEW t \in Threads, SubMove(t), ~RecycleIndex(t),
           ~(Recycle(t) /\ ~Flagged(rsub[t].record, "recycled"))
    PROVE  Quiet
<1> DEFINE l == rsub[t].record
<1>0. SlotsType /\ rsub[t].at # "none" /\ Present(l)
  BY Zenon, SubLocal DEF ControlInv, RoutineInv
<1>1. /\ \A m \in Leases \ {l} : rec'[m] = rec[m]
      /\ rec'[l].index = rec[l].index
      /\ rec'[l].state = "absent" <=> rec[l].state = "absent"
      /\ rec'[l].flags \in {rec[l].flags, rec[l].flags \cup {"recycled"}}
  BY Zenon, <1>0, SubRecord DEF Present
<1>2. /\ \A u \in Threads \ {t} : rsub'[u] = rsub[u]
      /\ \/ rsub'[t] = NoSub
         \/ rsub'[t].record = rsub[t].record
  BY Zenon, <1>0, SubLocal
<1>3. /\ rfree' = rfree
      /\ rsub'[t].at \in {"release", "index"} <=> rsub[t].at \in {"release", "index"}
      /\ "recycled" \in rec'[l].flags <=> Flagged(l, "recycled")
  <2> USE <1>0 DEF SlotsType, CallType, RecordType, SubCall, Record, NoSub, Flagged, Present, SubAt,
                   SubGoto, SubDone, slotVars
  <2>1. CASE SubLoad(t)
    BY <2>1 DEF SubLoad
  <2>2. CASE SubSwap(t)
    BY Zenon, <2>2 DEF SubSwap
  <2>3. CASE ClosePublication(t)
    BY <2>3 DEF ClosePublication
  <2>4. CASE Recycle(t) /\ Flagged(l, "recycled")
    BY <2>4 DEF Recycle
  <2>5. CASE ReleasePermits(t)
    BY <2>5 DEF ReleasePermits
  <2>6. CASE Complete(t)
    BY <2>6 DEF Complete
  <2> QED
    BY Zenon, <2>1, <2>2, <2>3, <2>4, <2>5, <2>6 DEF SubMove
<1>4. Holders' = Holders
  <2> HIDE DEF l
  <2> QED BY Zenon, <1>1, <1>3 DEF Holders, Flagged
<1> QED
  BY <1>1, <1>2, <1>3, <1>4 DEF Quiet, Returning, NoSub

(* Every step is quiet, takes an index, recycles a record for the first time, or gives an
   index back. *)
LEMMA IndexCases ==
    ASSUME ControlInv, [SlotsNext]_rvars
    PROVE  \/ \E l \in Leases : OwnerMove(l) /\ Reserve(l) /\ rfree # <<>>
           \/ \E t \in Threads : SubMove(t) /\ Recycle(t) /\ ~Flagged(rsub[t].record, "recycled")
           \/ \E t \in Threads : SubMove(t) /\ RecycleIndex(t)
           \/ Quiet
<1>1. ASSUME UNCHANGED rvars PROVE Quiet
  BY Zenon, <1>1 DEF Quiet, rvars, slotVars, Holders, Returning, Flagged
<1> QED
  BY Zenon, <1>1, StepCases, OwnerQuiet, SubQuiet, TaskQuiet

(* What Reserve, the first Recycle and RecycleIndex do to the slots. *)
LEMMA ReserveEffect ==
    ASSUME ControlInv, NEW l \in Leases, OwnerMove(l), Reserve(l), rfree # <<>>
    PROVE  /\ rec[l] = NoRecord /\ ~Present(l) /\ l \notin Holders
           /\ \A t \in Threads : rsub[t].at # "none" => rsub[t].record # l
           /\ Holders' = Holders \cup {l}
           /\ rec'[l].index = rfree[1] /\ rec'[l].state = "reserved" /\ rec'[l].flags = {}
           /\ \A m \in Leases \ {l} : rec'[m] = rec[m]
           /\ rsub' = rsub /\ rclosed' = rclosed /\ rplan' = rplan
           /\ rfree[1] \in Slots /\ rtable' = [rtable EXCEPT ![rfree[1]] = l]
           /\ Len(rfree) \in Nat \ {0} /\ Len(rfree') = Len(rfree) - 1
           /\ \A k \in 1..Len(rfree') : rfree'[k] = rfree[k + 1]
<1>0. SlotsType /\ rfree \in Seq(Slots) /\ rec \in [Leases -> Record] /\ rpc[l] = "take"
  BY Zenon DEF ControlInv, SlotsType, PoolType, RecordType, Reserve, OwnerAt
<1>1. rec[l] = NoRecord
  BY Zenon, <1>0 DEF ControlInv, RecordInv, Early
<1>2. ~Present(l)
  BY <1>1 DEF Present, NoRecord
<1>3. \A t \in Threads : rsub[t].at # "none" => rsub[t].record # l
  BY Zenon, <1>2 DEF ControlInv, RoutineInv
<1>4. Head(rfree) = rfree[1] /\ rfree[1] \in Slots /\ Len(rfree) \in Nat \ {0}
      /\ Len(Tail(rfree)) = Len(rfree) - 1 /\ \A k \in 1..Len(Tail(rfree)) : Tail(rfree)[k] = rfree[k + 1]
  BY <1>0, HeadTailProperties
<1>5. /\ rfree' = Tail(rfree) /\ rtable' = [rtable EXCEPT ![Head(rfree)] = l] /\ rsub' = rsub
      /\ rclosed' = rclosed /\ rplan' = rplan
      /\ rec' = [rec EXCEPT ![l] = [NoRecord EXCEPT !.index = Head(rfree), !.state = "reserved"]]
  BY Zenon DEF Reserve
<1>6. /\ \A m \in Leases \ {l} : rec'[m] = rec[m]
      /\ rec'[l].index = rfree[1] /\ rec'[l].state = "reserved" /\ rec'[l].flags = {}
  BY Zenon, <1>0, <1>4, <1>5 DEF NoRecord
<1>7. Holders' = Holders \cup {l} /\ l \notin Holders
  BY <1>1, <1>6 DEF Holders, Flagged, NoRecord
<1> QED
  BY Zenon, <1>1, <1>2, <1>3, <1>4, <1>5, <1>6, <1>7

(* recycle marks the record, whose lease then holds its index no longer. *)
LEMMA RecycleEffect ==
    ASSUME ControlInv, NEW t \in Threads, SubMove(t), Recycle(t)
    PROVE  LET l == rsub[t].record IN
           /\ Present(l) /\ rsub[t].at = "recycle"
           /\ ~Flagged(l, "recycled") => l \in Holders
           /\ Holders' = Holders \ {l}
           /\ \A m \in Leases : rec'[m].index = rec[m].index /\ rec'[m].state = rec[m].state
           /\ rec'[l].flags = rec[l].flags \cup {"recycled"}
           /\ \A m \in Leases \ {l} : rec'[m] = rec[m]
           /\ \A u \in Threads \ {t} : rsub'[u] = rsub[u]
           /\ rsub'[t] = [rsub[t] EXCEPT !.at = IF Flagged(l, "recycled") THEN "complete" ELSE "release"]
           /\ rfree' = rfree /\ rtable' = rtable /\ rclosed' = rclosed /\ rplan' = rplan
<1> DEFINE l == rsub[t].record
<1>0. /\ SlotsType /\ rsub[t].at = "recycle" /\ rec \in [Leases -> Record]
      /\ rsub \in [Threads -> SubCall]
  BY Zenon DEF ControlInv, SlotsType, RecordType, CallType, Recycle, SubAt
<1>1. Present(l)
  BY Zenon, <1>0 DEF ControlInv, RoutineInv
<1>2. l \in Leases /\ rec[l] \in Record /\ rec[l].state # "absent"
  BY Zenon, <1>0, <1>1 DEF Present
<1>3. rec' = [rec EXCEPT ![l].flags = @ \cup {"recycled"}]
  BY Zenon DEF Recycle
<1>4. /\ \A m \in Leases \ {l} : rec'[m] = rec[m]
      /\ rec'[l].index = rec[l].index /\ rec'[l].state = rec[l].state
      /\ rec'[l].flags = rec[l].flags \cup {"recycled"}
  BY Zenon, <1>0, <1>2, <1>3 DEF Record
<1>5. /\ \A u \in Threads \ {t} : rsub'[u] = rsub[u]
      /\ rsub'[t] = [rsub[t] EXCEPT !.at = IF Flagged(l, "recycled") THEN "complete" ELSE "release"]
  BY Zenon, <1>0 DEF Recycle, SubGoto
<1>6. rfree' = rfree /\ rtable' = rtable /\ rclosed' = rclosed /\ rplan' = rplan
  BY Zenon DEF Recycle, slotVars, fenceVars
<1>7. Holders' = Holders \ {l} /\ (~Flagged(l, "recycled") => l \in Holders)
  BY Zenon, <1>2, <1>4 DEF Holders, Flagged
<1> HIDE DEF l
<1>8. \A m \in Leases : rec'[m].index = rec[m].index /\ rec'[m].state = rec[m].state
  BY Zenon, <1>4
<1> QED
  BY Zenon, <1>0, <1>1, <1>4, <1>5, <1>6, <1>7, <1>8 DEF l

(* Later it puts the index on the free list, unless the writer has closed. *)
LEMMA RecycleIndexEffect ==
    ASSUME ControlInv, NEW t \in Threads, SubMove(t), RecycleIndex(t)
    PROVE  /\ Present(rsub[t].record) /\ rsub[t].at = "index"
           /\ \A u \in Threads \ {t} : rsub'[u] = rsub[u]
           /\ rsub'[t] = [rsub[t] EXCEPT !.at = "complete"]
           /\ rec' = rec /\ rtable' = rtable /\ rclosed' = rclosed /\ rplan' = rplan
           /\ rclosed => rfree' = rfree
           /\ ~rclosed => /\ Len(rfree) \in Nat /\ Len(rfree') = Len(rfree) + 1
                          /\ \A k \in 1..Len(rfree) : rfree'[k] = rfree[k]
                          /\ rfree'[Len(rfree) + 1] = ReturnIndex(t)
<1>0. SlotsType /\ rsub[t].at = "index" /\ rsub \in [Threads -> SubCall] /\ rfree \in Seq(Slots)
  BY Zenon DEF ControlInv, SlotsType, CallType, PoolType, RecycleIndex, SubAt
<1>1. Present(rsub[t].record)
  BY Zenon, <1>0 DEF ControlInv, RoutineInv
<1>2. rec[rsub[t].record].index \in Slots
  BY Zenon, <1>1, PresentIndex
<1>3. /\ \A u \in Threads \ {t} : rsub'[u] = rsub[u]
      /\ rsub'[t] = [rsub[t] EXCEPT !.at = "complete"]
  BY Zenon, <1>0 DEF RecycleIndex, SubGoto
<1>4. rec' = rec /\ rtable' = rtable /\ rclosed' = rclosed /\ rplan' = rplan
  BY Zenon DEF RecycleIndex, fenceVars
<1>5. rclosed => rfree' = rfree
  BY Zenon DEF RecycleIndex
<1>6. ~rclosed => rfree' = Append(rfree, ReturnIndex(t))
  BY Zenon DEF RecycleIndex, ReturnIndex
<1>7. ReturnIndex(t) \in Slots
  BY Zenon, <1>2 DEF ReturnIndex
<1>8. ~rclosed => /\ Len(rfree) \in Nat /\ Len(rfree') = Len(rfree) + 1
                  /\ \A k \in 1..Len(rfree) : rfree'[k] = rfree[k]
                  /\ rfree'[Len(rfree) + 1] = ReturnIndex(t)
  BY <1>0, <1>6, <1>7, AppendProperties
<1> QED
  BY Zenon, <1>0, <1>1, <1>3, <1>4, <1>5, <1>8
=============================================================================
