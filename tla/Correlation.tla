---------------------------- MODULE Correlation ----------------------------
(***************************************************************************)
(* The correlation tracker (connection_pool/correlation.rs): a ring of N   *)
(* pending-response slots shared by asks, the connection readers that      *)
(* complete them and the teardown that cancels them all, together with     *)
(* the ask paths of connection_pool/handle.rs that own a slot through a    *)
(* SlotGuard or a PendingAsk.                                              *)
(*                                                                         *)
(* One step is one atomic access.  A compare-exchange into SLOT_WRITING    *)
(* gives its process the slot to itself, so what the process does up to    *)
(* the store that leaves SLOT_WRITING is a second single step.  A wake()   *)
(* that follows such a store is part of it: later, it could only be        *)
(* spurious, and Poll allows spurious polls.                               *)
(***************************************************************************)
EXTENDS Integers

CONSTANTS N,          \* slots of the ring (PENDING_RESPONSES_SIZE)
          IdSpace,    \* correlation ids are 0 .. IdSpace-1 (2^32 in the code)
          FirstId,    \* next_id when the modelled asks begin (1 at creation)
          Asks,       \* the asks, one process each
          Readers,    \* connection read loops sharing the tracker
          Closer,     \* the teardown that runs cancel_all
          Kinds,      \* which ask paths are taken
          MaxCloses,  \* bound: runs of cancel_all
          Tiers,      \* lookups of the reply dispatch that find this tracker (at most 3)
          NoAsk       \* "no waker registered"

AllKinds == {"timed", "untimed", "deferred"}

ASSUME ConstantsAssumption ==
    /\ N \in Nat \ {0}
    /\ IdSpace \in Nat \ {0}
    /\ FirstId \in 0 .. IdSpace - 1
    /\ Kinds \subseteq AllKinds
    /\ MaxCloses \in Nat
    /\ Tiers \in 1 .. 3
    /\ Asks \cap Readers = {}
    /\ Closer \notin Asks \cup Readers
    /\ NoAsk \notin Asks

Procs == Asks \cup Readers \cup {Closer}
Slots == 0 .. N - 1
Ids   == 0 .. IdSpace - 1
NoId  == 0                       \* id 0 is reserved and never allocated

AskPcs == {"alloc", "claim", "install", "publish", "send", "take1", "load1",
           "register", "take2", "load2", "parked", "took", "expire", "expiring",
           "takeT", "loadT", "cancel", "cancelW", "cancelR", "done"}
Results == {"none", "ok", "nack", "dropped", "timeout", "nofree", "unsent", "abandoned"}

VARIABLES
    slotState,  \* [Slots -> {"EMPTY","WAITING","WRITING","READY"}]
    slotId,     \* full id stored in the slot
    slotResp,   \* the id whose reply the slot holds, NoId when none
    slotWaker,  \* the ask whose waker is registered
    nextId,     \* next_id
    issued,     \* ids fetched so far
    pc,         \* where each process is
    id,         \* asks: their correlation id; readers: the id of the reply in hand
    kind,       \* asks: ask path; "overdue" is a deferred wait past its deadline
    tries,      \* asks: iterations of the allocation sweep
    expired,    \* asks: the timer has fired
    woken,      \* asks: the task has been notified since its last poll began
    result,     \* asks: what the call returns
    got,        \* asks: the id of the reply it was handed
    left,       \* readers: lookups left for the reply in hand
    wire,       \* ids of requests the peer may still answer
    sweep,      \* slot cancel_all is at
    closes      \* runs of cancel_all so far

slotVars == <<slotState, slotId, slotResp, slotWaker>>
idVars   == <<nextId, issued>>
askVars  == <<kind, tries, expired, result, got>>
sysVars  == <<left, wire, sweep, closes>>
vars == <<slotState, slotId, slotResp, slotWaker, nextId, issued, pc, id, kind,
          tries, expired, woken, result, got, left, wire, sweep, closes>>

SlotOf(i) == i % N

Init ==
    /\ slotState = [s \in Slots |-> "EMPTY"]
    /\ slotId = [s \in Slots |-> NoId]
    /\ slotResp = [s \in Slots |-> NoId]
    /\ slotWaker = [s \in Slots |-> NoAsk]
    /\ nextId = FirstId
    /\ issued = {}
    /\ pc = [p \in Procs |-> IF p \in Asks THEN "alloc" ELSE "idle"]
    /\ id = [p \in Procs |-> NoId]
    /\ kind \in [Asks -> Kinds]
    /\ tries = [a \in Asks |-> 0]
    /\ expired = [a \in Asks |-> FALSE]
    /\ woken = [a \in Asks |-> FALSE]
    /\ result = [a \in Asks |-> "none"]
    /\ got = [a \in Asks |-> NoId]
    /\ left = [r \in Readers |-> 0]
    /\ wire = {}
    /\ sweep = 0
    /\ closes = 0

-----------------------------------------------------------------------------
(* AtomicWaker::wake on slot s takes the registered waker, if there is one. *)
Wake(s) ==
    /\ slotWaker' = [slotWaker EXCEPT ![s] = NoAsk]
    /\ woken' = IF slotWaker[s] = NoAsk THEN woken
                ELSE [woken EXCEPT ![slotWaker[s]] = TRUE]

SetState(s, st) == slotState' = [slotState EXCEPT ![s] = st]
Goto(p, l) == pc' = [pc EXCEPT ![p] = l]

(* A failed compare-exchange leaves the slot alone; a successful one takes  *)
(* it from state `from` into SLOT_WRITING.                                  *)
Cas(s, from, p, okpc, failpc) ==
    /\ slotState' = IF slotState[s] = from
                      THEN [slotState EXCEPT ![s] = "WRITING"] ELSE slotState
    /\ Goto(p, IF slotState[s] = from THEN okpc ELSE failpc)

(* Mutant of EndPc: a timeout is taken to have freed the slot already. *)
EndPcTimeoutDisarms(a, r) ==
    IF kind[a] \in {"timed", "untimed"} /\ r \notin {"ok", "timeout"} THEN "cancel" ELSE "done"

(* How an ask ends: a SlotGuard is disarmed only on Ok, any error drops it  *)
(* and cancels the slot; PendingAsk::wait clears `active` whatever the      *)
(* result, so nothing is cancelled.                                         *)
EndPc(a, r) == IF kind[a] \in {"timed", "untimed"} /\ r # "ok" THEN "cancel" ELSE "done"
Return(a, r) == /\ result' = [result EXCEPT ![a] = r]
                /\ Goto(a, EndPc(a, r))

-----------------------------------------------------------------------------
(* Mutant of AfterTry: the unbounded sweep the code once had. *)
AfterTryUnbounded(a) ==
    /\ tries' = [tries EXCEPT ![a] = @ + 1]
    /\ Goto(a, "alloc")
    /\ UNCHANGED result

(* allocate(): at most N attempts; next_id wraps and id 0 is skipped.  The  *)
(* bound: no id is fetched a second time (2^32 allocations).                *)
AfterTry(a) ==
    /\ tries' = [tries EXCEPT ![a] = @ + 1]
    /\ IF tries[a] + 1 = N
         THEN result' = [result EXCEPT ![a] = "nofree"] /\ Goto(a, "done")
         ELSE Goto(a, "alloc") /\ UNCHANGED result

AllocFetch(a) ==
    /\ pc[a] = "alloc"
    /\ nextId \notin issued
    /\ issued' = issued \cup {nextId}
    /\ nextId' = IF nextId = IdSpace - 1 THEN 0 ELSE nextId + 1
    /\ IF nextId = 0
         THEN AfterTry(a) /\ UNCHANGED id
         ELSE /\ id' = [id EXCEPT ![a] = nextId]
              /\ Goto(a, "claim")
              /\ UNCHANGED <<tries, result>>
    /\ UNCHANGED <<slotVars, kind, expired, woken, got, sysVars>>

AllocClaim(a) ==
    LET s == SlotOf(id[a]) IN
    /\ pc[a] = "claim"
    /\ \/ /\ slotState[s] = "EMPTY"
          /\ SetState(s, "WRITING")
          /\ Goto(a, "install")
          /\ UNCHANGED <<tries, result>>
       \/ /\ slotState[s] # "EMPTY"
          /\ AfterTry(a)
          /\ UNCHANGED slotState
    /\ UNCHANGED <<slotId, slotResp, slotWaker, idVars, id, kind, expired, woken, got, sysVars>>

(* Under register_lock: wake the waker a stale waiter left, install the id. *)
AllocInstall(a) ==
    LET s == SlotOf(id[a]) IN
    /\ pc[a] = "install"
    /\ Wake(s)
    /\ slotId' = [slotId EXCEPT ![s] = id[a]]
    /\ Goto(a, "publish")
    /\ UNCHANGED <<slotState, slotResp, idVars, id, askVars, sysVars>>

AllocPublish(a) ==
    /\ pc[a] = "publish"
    /\ SetState(SlotOf(id[a]), "WAITING")
    /\ Goto(a, "send")
    /\ UNCHANGED <<slotId, slotResp, slotWaker, idVars, id, askVars, woken, sysVars>>

(* The request is written; or the write fails, its deadline passes or the   *)
(* caller goes away, which drops the SlotGuard, the frame sent or not.  So  *)
(* ends too a PendingAsk that is dropped, or whose deadline has passed,     *)
(* before it is first polled.                                               *)
Send(a) ==
    /\ pc[a] = "send"
    /\ \E sent \in BOOLEAN :
         /\ wire' = IF sent THEN wire \cup {id[a]} ELSE wire
         /\ \/ /\ sent
               /\ Goto(a, "take1")
               /\ UNCHANGED result
            \/ /\ Goto(a, "cancel")
               /\ result' = [result EXCEPT ![a] = "unsent"]
    /\ UNCHANGED <<slotVars, idVars, id, kind, tries, expired, woken, got, left, sweep, closes>>

-----------------------------------------------------------------------------
(* One poll of the wait: take, load, register, take, load, park.            *)
Take(a) ==
    LET s == SlotOf(id[a]) IN
    /\ \/ pc[a] = "take1" /\ Cas(s, "READY", a, "took", "load1")
       \/ pc[a] = "take2" /\ Cas(s, "READY", a, "took", "load2")
       \/ pc[a] = "takeT" /\ Cas(s, "READY", a, "took", "loadT")
    /\ UNCHANGED <<slotId, slotResp, slotWaker, idVars, id, askVars, woken, sysVars>>

(* Mutant of Took: the taker trusts READY and does not compare the id. *)
TookAnyReply(a) ==
    LET s == SlotOf(id[a]) IN
    /\ pc[a] = "took"
    /\ got' = [got EXCEPT ![a] = slotResp[s]]
    /\ slotResp' = [slotResp EXCEPT ![s] = NoId]
    /\ SetState(s, "EMPTY")
    /\ Return(a, "ok")
    /\ UNCHANGED <<slotWaker, woken, slotId, idVars, id, kind, tries, expired, sysVars>>

Took(a) ==
    LET s == SlotOf(id[a]) IN
    /\ pc[a] = "took"
    /\ \/ /\ slotId[s] # id[a]
          /\ SetState(s, "READY")
          /\ Wake(s)
          /\ Return(a, "dropped")
          /\ UNCHANGED <<slotResp, got>>
       \/ /\ slotId[s] = id[a]
          /\ got' = [got EXCEPT ![a] = slotResp[s]]
          /\ slotResp' = [slotResp EXCEPT ![s] = NoId]
          /\ SetState(s, "EMPTY")
          /\ \E r \in {"ok", "nack"} : Return(a, r)
          /\ UNCHANGED <<slotWaker, woken>>
    /\ UNCHANGED <<slotId, idVars, id, kind, tries, expired, sysVars>>

Load1(a) ==
    /\ pc[a] = "load1"
    /\ IF slotState[SlotOf(id[a])] = "EMPTY"
         THEN Return(a, "dropped")
         ELSE Goto(a, "register") /\ UNCHANGED result
    /\ UNCHANGED <<slotVars, idVars, id, kind, tries, expired, woken, got, sysVars>>

(* Mutants of RegisterIfOwner: the waker is registered without the owner    *)
(* check; and the slot is not looked at again once it is registered.        *)
RegisterAlways(a) ==
    /\ pc[a] = "register"
    /\ slotWaker' = [slotWaker EXCEPT ![SlotOf(id[a])] = a]
    /\ Goto(a, "take2")
    /\ UNCHANGED <<slotState, slotId, slotResp, idVars, id, askVars, woken, sysVars>>

RegisterThenPark(a) ==
    /\ pc[a] = "register"
    /\ slotId[SlotOf(id[a])] = id[a]
    /\ slotWaker' = [slotWaker EXCEPT ![SlotOf(id[a])] = a]
    /\ Goto(a, "parked")
    /\ UNCHANGED <<slotState, slotId, slotResp, idVars, id, askVars, woken, sysVars>>

RegisterIfOwner(a) ==
    LET s == SlotOf(id[a]) IN
    /\ pc[a] = "register"
    /\ \/ /\ slotId[s] # id[a]
          /\ Return(a, "dropped")
          /\ UNCHANGED slotWaker
       \/ /\ slotId[s] = id[a]
          /\ slotWaker' = [slotWaker EXCEPT ![s] = a]
          /\ Goto(a, "take2")
          /\ UNCHANGED result
    /\ UNCHANGED <<slotState, slotId, slotResp, idVars, id, kind, tries, expired, woken, got, sysVars>>

(* Pending: tokio::time::timeout looks at its timer after polling the wait. *)
Load2(a) ==
    /\ pc[a] = "load2"
    /\ IF slotState[SlotOf(id[a])] = "EMPTY"
         THEN Return(a, "dropped")
       ELSE IF expired[a] /\ kind[a] = "timed"
         THEN Return(a, "timeout")
       ELSE /\ Goto(a, IF expired[a] /\ kind[a] = "deferred" THEN "expire" ELSE "parked")
            /\ UNCHANGED result
    /\ UNCHANGED <<slotVars, idVars, id, kind, tries, expired, woken, got, sysVars>>

Waiting(a) == pc[a] \in {"take1", "load1", "register", "take2", "load2", "parked"}

Poll(a) ==
    /\ pc[a] = "parked"
    /\ woken' = [woken EXCEPT ![a] = FALSE]
    /\ Goto(a, "take1")
    /\ UNCHANGED <<slotVars, idVars, id, askVars, sysVars>>

(* The timer fires and wakes the task. *)
Expire(a) ==
    /\ Waiting(a)
    /\ kind[a] \in {"timed", "deferred"}
    /\ ~expired[a]
    /\ expired' = [expired EXCEPT ![a] = TRUE]
    /\ woken' = [woken EXCEPT ![a] = TRUE]
    /\ UNCHANGED <<slotVars, idVars, pc, id, kind, tries, result, got, sysVars>>

(* The waiting future is dropped: SlotGuard and PendingAsk both cancel. *)
Abandon(a) ==
    /\ pc[a] = "parked"
    /\ result' = [result EXCEPT ![a] = "abandoned"]
    /\ Goto(a, "cancel")
    /\ UNCHANGED <<slotVars, idVars, id, kind, tries, expired, woken, got, sysVars>>

-----------------------------------------------------------------------------
(* The timeout branch of wait_for_response. *)
TimeoutClaim(a) ==
    /\ pc[a] = "expire"
    /\ Cas(SlotOf(id[a]), "WAITING", a, "expiring", "takeT")
    /\ UNCHANGED <<slotId, slotResp, slotWaker, idVars, id, askVars, woken, sysVars>>

TimeoutEvict(a) ==
    LET s == SlotOf(id[a]) IN
    /\ pc[a] = "expiring"
    /\ \/ /\ slotId[s] # id[a]
          /\ SetState(s, "WAITING")
          /\ Goto(a, "takeT")
          /\ UNCHANGED result
       \/ /\ slotId[s] = id[a]
          /\ SetState(s, "EMPTY")
          /\ Return(a, "timeout")
    /\ UNCHANGED <<slotId, slotResp, slotWaker, idVars, id, kind, tries, expired, woken, got, sysVars>>

LoadT(a) ==
    LET st == slotState[SlotOf(id[a])] IN
    /\ pc[a] = "loadT"
    /\ IF st = "WRITING"
         THEN /\ kind' = [kind EXCEPT ![a] = "overdue"]
              /\ Goto(a, "take1")
              /\ UNCHANGED result
         ELSE /\ Return(a, IF st = "EMPTY" THEN "dropped" ELSE "timeout")
              /\ UNCHANGED kind
    /\ UNCHANGED <<slotVars, idVars, id, tries, expired, woken, got, sysVars>>

-----------------------------------------------------------------------------
(* Mutant of CancelClaim: it does not wait for SLOT_WRITING to end. *)
CancelClaimNoSpin(a) ==
    LET s == SlotOf(id[a]) IN
    /\ pc[a] = "cancel"
    /\ slotState[s] # "EMPTY"
    /\ SetState(s, "WRITING")
    /\ Goto(a, "cancelW")
    /\ UNCHANGED <<slotId, slotResp, slotWaker, idVars, id, askVars, woken, sysVars>>

(* cancel(id): spins while the slot is WRITING (the step is disabled). *)
CancelClaim(a) ==
    LET s == SlotOf(id[a]) IN
    /\ pc[a] = "cancel"
    /\ \/ /\ slotState[s] = "WAITING"
          /\ SetState(s, "WRITING")
          /\ Goto(a, "cancelW")
       \/ /\ slotState[s] = "READY"
          /\ SetState(s, "WRITING")
          /\ Goto(a, "cancelR")
       \/ /\ slotState[s] = "EMPTY"
          /\ Goto(a, "done")
          /\ UNCHANGED slotState
    /\ UNCHANGED <<slotId, slotResp, slotWaker, idVars, id, askVars, woken, sysVars>>

(* Mutants of CancelRelease: the cell is not dropped; a slot claimed by     *)
(* mistake is not given back; the id is not compared.                       *)
CancelKeepsCell(a) ==
    /\ pc[a] \in {"cancelW", "cancelR"}
    /\ SetState(SlotOf(id[a]), "EMPTY")
    /\ Wake(SlotOf(id[a]))
    /\ Goto(a, "done")
    /\ UNCHANGED <<slotId, slotResp, idVars, id, askVars, sysVars>>

CancelKeepsClaim(a) ==
    LET s == SlotOf(id[a]) IN
    /\ pc[a] \in {"cancelW", "cancelR"}
    /\ \/ /\ slotId[s] # id[a]
          /\ SetState(s, IF pc[a] = "cancelW" THEN "WAITING" ELSE "READY")
          /\ UNCHANGED <<slotResp, slotWaker, woken>>
       \/ /\ slotId[s] = id[a]
          /\ slotResp' = [slotResp EXCEPT ![s] = NoId]
          /\ SetState(s, IF pc[a] = "cancelW" THEN "EMPTY" ELSE "WRITING")
          /\ Wake(s)
    /\ Goto(a, "done")
    /\ UNCHANGED <<slotId, idVars, id, askVars, sysVars>>

CancelAnyOwner(a) ==
    LET s == SlotOf(id[a]) IN
    /\ pc[a] \in {"cancelW", "cancelR"}
    /\ slotResp' = [slotResp EXCEPT ![s] = NoId]
    /\ SetState(s, "EMPTY")
    /\ Wake(s)
    /\ Goto(a, "done")
    /\ UNCHANGED <<slotId, idVars, id, askVars, sysVars>>

CancelRelease(a) ==
    LET s == SlotOf(id[a]) IN
    /\ pc[a] \in {"cancelW", "cancelR"}
    /\ \/ /\ slotId[s] # id[a]
          /\ SetState(s, IF pc[a] = "cancelW" THEN "WAITING" ELSE "READY")
          /\ UNCHANGED <<slotResp, slotWaker, woken>>
       \/ /\ slotId[s] = id[a]
          /\ slotResp' = [slotResp EXCEPT ![s] = NoId]
          /\ SetState(s, "EMPTY")
          /\ Wake(s)
    /\ Goto(a, "done")
    /\ UNCHANGED <<slotId, idVars, id, askVars, sysVars>>

-----------------------------------------------------------------------------
(* A read loop receives the reply (or NACK) to request i and tries up to    *)
(* three lookups for the tracker to complete; Tiers of them find this one.  *)
(* When none of them can claim the slot for i the reply is dropped.         *)
Receive(r) ==
    /\ pc[r] = "idle"
    /\ \E i \in wire :
         /\ id' = [id EXCEPT ![r] = i]
         /\ wire' = wire \ {i}
         /\ left' = [left EXCEPT ![r] = Tiers]
    /\ Goto(r, "claim")
    /\ UNCHANGED <<slotVars, idVars, askVars, woken, sweep, closes>>

Unclaimed(r) ==
    /\ left' = [left EXCEPT ![r] = @ - 1]
    /\ Goto(r, IF left[r] = 1 THEN "idle" ELSE "claim")

CompleteClaim(r) ==
    LET s == SlotOf(id[r]) IN
    /\ pc[r] = "claim"
    /\ \/ /\ slotState[s] = "WAITING"
          /\ SetState(s, "WRITING")
          /\ Goto(r, "claimed")
          /\ UNCHANGED left
       \/ /\ slotState[s] # "WAITING"
          /\ Unclaimed(r)
          /\ UNCHANGED slotState
    /\ UNCHANGED <<slotId, slotResp, slotWaker, idVars, id, askVars, woken, wire, sweep, closes>>

CompletePublish(r) ==
    LET s == SlotOf(id[r]) IN
    /\ pc[r] = "claimed"
    /\ \/ /\ slotId[s] # id[r]
          /\ SetState(s, "WAITING")
          /\ Unclaimed(r)
          /\ UNCHANGED <<slotResp, slotWaker, woken>>
       \/ /\ slotId[s] = id[r]
          /\ slotResp' = [slotResp EXCEPT ![s] = id[r]]
          /\ SetState(s, "READY")
          /\ Wake(s)
          /\ left' = [left EXCEPT ![r] = 0]
          /\ Goto(r, "idle")
    /\ UNCHANGED <<slotId, idVars, id, askVars, wire, sweep, closes>>

-----------------------------------------------------------------------------
(* cancel_all(), slot by slot; it spins on WRITING like cancel. *)
CloseStart ==
    /\ pc[Closer] = "idle"
    /\ closes < MaxCloses
    /\ closes' = closes + 1
    /\ sweep' = 0
    /\ Goto(Closer, "sweep")
    /\ UNCHANGED <<slotVars, idVars, id, askVars, woken, left, wire>>

NextSlot == IF sweep = N - 1 THEN Goto(Closer, "idle") /\ UNCHANGED sweep
            ELSE Goto(Closer, "sweep") /\ sweep' = sweep + 1

CloseSlot ==
    /\ pc[Closer] = "sweep"
    /\ \/ /\ slotState[sweep] = "WAITING"
          /\ SetState(sweep, "EMPTY")
          /\ Wake(sweep)
          /\ NextSlot
       \/ /\ slotState[sweep] = "READY"
          /\ SetState(sweep, "WRITING")
          /\ Goto(Closer, "drop")
          /\ UNCHANGED <<slotWaker, woken, sweep>>
       \/ /\ slotState[sweep] = "EMPTY"
          /\ NextSlot
          /\ UNCHANGED <<slotState, slotWaker, woken>>
    /\ UNCHANGED <<slotId, slotResp, idVars, id, askVars, left, wire, closes>>

CloseDrop ==
    /\ pc[Closer] = "drop"
    /\ slotResp' = [slotResp EXCEPT ![sweep] = NoId]
    /\ SetState(sweep, "EMPTY")
    /\ Wake(sweep)
    /\ NextSlot
    /\ UNCHANGED <<slotId, idVars, id, askVars, left, wire, closes>>

-----------------------------------------------------------------------------
AskStep(a) ==
    \/ AllocFetch(a) \/ AllocClaim(a) \/ AllocInstall(a) \/ AllocPublish(a)
    \/ Send(a) \/ Take(a) \/ Took(a) \/ Load1(a) \/ RegisterIfOwner(a) \/ Load2(a)
    \/ TimeoutClaim(a) \/ TimeoutEvict(a) \/ LoadT(a)
    \/ CancelClaim(a) \/ CancelRelease(a)

ReaderStep(r) == CompleteClaim(r) \/ CompletePublish(r)
CloserStep == CloseSlot \/ CloseDrop

Next ==
    \/ \E a \in Asks : AskStep(a) \/ Poll(a) \/ Expire(a) \/ Abandon(a)
    \/ \E r \in Readers : Receive(r) \/ ReaderStep(r)
    \/ CloseStart \/ CloserStep

Spec == Init /\ [][Next]_vars

(* Threads run: a started operation takes its next step, a notified task is *)
(* polled, a timer fires.  No reply is promised, and nobody has to close.   *)
Fairness ==
    /\ \A a \in Asks : /\ WF_vars(AskStep(a))
                       /\ WF_vars(woken[a] /\ Poll(a))
                       /\ WF_vars(Expire(a))
    /\ \A r \in Readers : WF_vars(ReaderStep(r))
    /\ WF_vars(CloserStep)

FairSpec == Spec /\ Fairness
-----------------------------------------------------------------------------
TypeOK ==
    /\ slotState \in [Slots -> {"EMPTY", "WAITING", "WRITING", "READY"}]
    /\ slotId \in [Slots -> Ids]
    /\ slotResp \in [Slots -> Ids]
    /\ slotWaker \in [Slots -> Asks \cup {NoAsk}]
    /\ nextId \in Ids
    /\ issued \subseteq Ids
    /\ pc \in [Procs -> AskPcs \cup {"idle", "claimed", "sweep", "drop"}]
    /\ id \in [Procs -> Ids]
    /\ kind \in [Asks -> AllKinds \cup {"overdue"}]
    /\ tries \in [Asks -> 0 .. N]
    /\ expired \in [Asks -> BOOLEAN]
    /\ woken \in [Asks -> BOOLEAN]
    /\ result \in [Asks -> Results]
    /\ got \in [Asks -> Ids]
    /\ left \in [Readers -> 0 .. Tiers]
    /\ wire \subseteq Ids
    /\ sweep \in Slots
    /\ closes \in 0 .. MaxCloses

(* The processes between a successful compare-exchange into SLOT_WRITING    *)
(* and the store that leaves it, and the slot each of them holds.           *)
Holding(p) == pc[p] \in {"install", "publish", "took", "expiring", "cancelW",
                         "cancelR", "claimed", "drop"}
HeldSlot(p) == IF p = Closer THEN sweep ELSE SlotOf(id[p])

(* SLOT_WRITING is exclusive ownership: the response cell of a slot is only *)
(* touched by one process at a time (the SAFETY comment of try_take_ready,  *)
(* on which the unsafe reads and drops of the cell rest).                   *)
ExclusiveWriting ==
    /\ \A p, q \in Procs :
         Holding(p) /\ Holding(q) /\ HeldSlot(p) = HeldSlot(q) => p = q
    /\ \A p \in Procs : Holding(p) => slotState[HeldSlot(p)] = "WRITING"

(* The response cell is initialised exactly when the state says so: a slot  *)
(* that is READY, or WRITING on its way out of READY, holds the reply to    *)
(* the id stored in the slot, and an EMPTY or WAITING slot holds none       *)
(* (assume_init_read and assume_init_drop are never applied to an           *)
(* uninitialised cell, and no reply is leaked by overwriting it).           *)
CellInitialised ==
    /\ \A s \in Slots :
         /\ slotState[s] = "READY" => slotResp[s] = slotId[s] /\ slotResp[s] # NoId
         /\ slotState[s] \in {"EMPTY", "WAITING"} => slotResp[s] = NoId
    /\ \A p \in Procs :
         Holding(p) => (slotResp[HeldSlot(p)] # NoId <=> pc[p] \in {"took", "cancelR", "drop"})

(* An ask is only ever handed the reply to its own request, although ids    *)
(* that differ by a multiple of N share a slot (the R-10 comments).         *)
OwnReplyOnly == \A a \in Asks : got[a] # NoId => got[a] = id[a]

(* A waker in a slot belongs to the ask whose id the slot stores: a stale   *)
(* waiter cannot replace the current owner's waker (register_if_owner).     *)
WakerOfOwner ==
    \A s \in Slots : slotWaker[s] # NoAsk => id[slotWaker[s]] = slotId[s]

(* Until the tracker is torn down, a waiting ask keeps its slot: no stale   *)
(* completion, cancellation, timeout or waiter of an aliased id evicts it   *)
(* (the doc comments of cancel and claim_slot_for_completion).              *)
WaiterKeepsSlot ==
    closes = 0 => \A a \in Asks : Waiting(a) =>
        /\ slotId[SlotOf(id[a])] = id[a]
        /\ slotState[SlotOf(id[a])] # "EMPTY"

Leaked(a) == /\ pc[a] = "done"
             /\ id[a] # NoId
             /\ slotId[SlotOf(id[a])] = id[a]
             /\ slotState[SlotOf(id[a])] \in {"WAITING", "READY"}

(* An ask that owned its slot through a SlotGuard leaves nothing behind: no *)
(* slot stays occupied for an ask that has returned (the leak the guard was *)
(* introduced for).                                                         *)
GuardReleasesSlot == \A a \in Asks : kind[a] \in {"timed", "untimed"} => ~Leaked(a)

(* The same of a deferred ask (PendingAsk: "dropping the handle cancels the *)
(* pending slot to keep resources bounded").                                *)
DeferredReleasesSlot == \A a \in Asks : kind[a] \in {"deferred", "overdue"} => ~Leaked(a)

(* A published reply reaches the ask that waits for it: no wakeup is lost   *)
(* between the completion's wake() and the waiter's registration.           *)
PublishedReplyTaken ==
    \A a \in Asks :
        (Waiting(a) /\ slotResp[SlotOf(id[a])] = id[a]) ~> ~Waiting(a)

(* Whatever has a bound ends: an ask with a deadline returns whether or not *)
(* a reply ever comes, the spin loops of cancel and cancel_all on           *)
(* SLOT_WRITING end, and an allocation sweep is bounded.                    *)
OperationsEnd ==
    /\ \A a \in Asks : (Waiting(a) /\ kind[a] \in {"timed", "deferred"}) ~> (pc[a] = "done")
    /\ \A a \in Asks : (pc[a] = "cancel") ~> (pc[a] = "done")
    /\ (pc[Closer] = "sweep") ~> (pc[Closer] = "idle")
=============================================================================
