------------------------- MODULE CorrelationProofs -------------------------
(***************************************************************************)
(* Safety of the correlation tracker for every ring size, id space and set *)
(* of asks and readers: its inductive invariant, the types and the place   *)
(* of each process, then the slots, cells, wakers and ids.                 *)
(***************************************************************************)
EXTENDS Correlation, TLAPS

(* What each process may be doing, and what its loop counters bound. *)
Control ==
    /\ \A a \in Asks :
         /\ pc[a] \in AskPcs
         /\ pc[a] \in {"alloc", "claim"} => tries[a] < N /\ got[a] = NoId
         /\ pc[a] # "alloc" /\ result[a] # "nofree" => id[a] # NoId
         /\ pc[a] # "done" => result[a] # "nofree"
    /\ \A r \in Readers :
         /\ pc[r] \in {"idle", "claim", "claimed"}
         /\ pc[r] # "idle" => left[r] > 0 /\ id[r] # NoId
    /\ pc[Closer] \in {"idle", "sweep", "drop"}
    /\ pc[Closer] # "idle" => closes > 0
    /\ NoId \notin wire

(* No two asks have the same id. *)
DistinctIds ==
    /\ \A a \in Asks : id[a] # NoId => id[a] \in issued
    /\ \A a, b \in Asks : id[a] = id[b] /\ id[a] # NoId => a = b

(* A reply that is being taken or dropped is still the slot owner's. *)
HeldReply ==
    \A p \in Procs : pc[p] \in {"took", "cancelR", "drop"}
                     => slotResp[HeldSlot(p)] = slotId[HeldSlot(p)]

(* A registered waker is that of an ask that has its id for good. *)
RegisteredAsk ==
    \A s \in Slots : slotWaker[s] # NoAsk =>
        pc[slotWaker[s]] \notin {"alloc", "claim", "install", "publish", "send"}

(* The asks that occupy a slot, from the installation of their id. *)
Occupying(a) == pc[a] \in {"send", "take1", "load1", "register", "take2", "load2", "parked",
                           "took", "expire", "expiring", "takeT", "loadT"}

(* Until the teardown an occupied slot is neither freed nor renamed, and no *)
(* other ask is about to install its id there.                              *)
OccupiedSlot ==
    closes = 0 =>
        /\ \A a \in Asks : Occupying(a) =>
             /\ slotId[SlotOf(id[a])] = id[a]
             /\ slotState[SlotOf(id[a])] # "EMPTY"
        /\ \A a, b \in Asks : Occupying(a) /\ pc[b] = "install" =>
             SlotOf(id[a]) # SlotOf(id[b])
        /\ \A a \in Asks : pc[a] = "publish" => slotId[SlotOf(id[a])] = id[a]

SlotInv ==
    /\ TypeOK /\ Control /\ DistinctIds
    /\ ExclusiveWriting /\ CellInitialised /\ HeldReply
    /\ OwnReplyOnly
    /\ RegisteredAsk /\ WakerOfOwner
    /\ OccupiedSlot

-----------------------------------------------------------------------------
(* Every id has its slot. *)
LEMMA SlotOfType == \A i \in Ids : SlotOf(i) \in Slots
  BY ConstantsAssumption DEF Ids, SlotOf, Slots

(* NoId is an id that is never allocated. *)
LEMMA NoIdType == NoId \in Ids
  BY ConstantsAssumption DEF NoId, Ids

(* A wake touches the wakers and notifications of asks only. *)
LEMMA WakeType ==
  ASSUME TypeOK, NEW s \in Slots, Wake(s)
  PROVE  slotWaker' \in [Slots -> Asks \cup {NoAsk}] /\ woken' \in [Asks -> BOOLEAN]
  BY Zenon DEF TypeOK, Wake

(* Types are preserved by every step. *)
LEMMA TypeStep ==
  ASSUME TypeOK, Control, [Next]_vars
  PROVE  TypeOK'
<1> USE DEF TypeOK, Procs, AskPcs, Results, slotVars, idVars, askVars, sysVars
<1>1. ASSUME NEW a \in Asks, AllocFetch(a)
      PROVE  TypeOK'
  BY <1>1, ConstantsAssumption DEF AllocFetch, AfterTry, Goto, Control, Ids
<1>2. ASSUME NEW a \in Asks, AllocClaim(a)
      PROVE  TypeOK'
  BY <1>2, ConstantsAssumption DEF AllocClaim, AfterTry, Goto, SetState, Control
<1>3. ASSUME NEW a \in Asks, AllocInstall(a)
      PROVE  TypeOK'
  BY Zenon, <1>3 DEF AllocInstall, Wake, Goto
<1>4. ASSUME NEW a \in Asks, AllocPublish(a)
      PROVE  TypeOK'
  BY Zenon, <1>4 DEF AllocPublish, SetState, Goto
<1>5. ASSUME NEW a \in Asks, Send(a)
      PROVE  TypeOK'
  BY <1>5 DEF Send, Goto
<1>6. ASSUME NEW a \in Asks, Take(a)
      PROVE  TypeOK'
  BY <1>6 DEF Take, Cas, Goto
<1>7. ASSUME NEW a \in Asks, Took(a)
      PROVE  TypeOK'
  <2>1. slotWaker' \in [Slots -> Asks \cup {NoAsk}] /\ woken' \in [Asks -> BOOLEAN]
    BY Zenon, <1>7, WakeType, SlotOfType DEF Took
  <2>2. slotResp' \in [Slots -> Ids] /\ got' \in [Asks -> Ids]
    <3>1. SlotOf(id[a]) \in Slots
      BY Zenon, SlotOfType
    <3>. QED
      BY <1>7, <3>1, NoIdType DEF Took
  <2>3. result' \in [Asks -> Results]
    BY Zenon, <1>7 DEF Took, Return
  <2>4. pc' \in [Procs -> AskPcs \cup {"idle", "claimed", "sweep", "drop"}]
    BY <1>7 DEF Took, Return, EndPc, Goto
  <2>. QED
    BY Zenon, <1>7, <2>1, <2>2, <2>3, <2>4 DEF Took, SetState
<1>8. ASSUME NEW a \in Asks, Load1(a)
      PROVE  TypeOK'
  BY <1>8 DEF Load1, Return, EndPc, Goto
<1>9. ASSUME NEW a \in Asks, RegisterIfOwner(a)
      PROVE  TypeOK'
  BY <1>9 DEF RegisterIfOwner, Return, EndPc, Goto
<1>10. ASSUME NEW a \in Asks, Load2(a)
      PROVE  TypeOK'
  BY <1>10 DEF Load2, Return, EndPc, Goto
<1>11. ASSUME NEW a \in Asks, TimeoutClaim(a)
      PROVE  TypeOK'
  BY Zenon, <1>11 DEF TimeoutClaim, Cas, Goto
<1>12. ASSUME NEW a \in Asks, TimeoutEvict(a)
      PROVE  TypeOK'
  BY <1>12 DEF TimeoutEvict, SetState, Return, EndPc, Goto
<1>13. ASSUME NEW a \in Asks, LoadT(a)
      PROVE  TypeOK'
  BY <1>13 DEF LoadT, Return, EndPc, Goto, AllKinds
<1>14. ASSUME NEW a \in Asks, CancelClaim(a)
      PROVE  TypeOK'
  BY <1>14 DEF CancelClaim, SetState, Goto
<1>15. ASSUME NEW a \in Asks, CancelRelease(a)
      PROVE  TypeOK'
  <2>1. slotWaker' \in [Slots -> Asks \cup {NoAsk}] /\ woken' \in [Asks -> BOOLEAN]
    BY Zenon, <1>15, WakeType, SlotOfType DEF CancelRelease
  <2>2. slotResp' \in [Slots -> Ids]
    BY Zenon, <1>15, NoIdType DEF CancelRelease
  <2>. QED
    BY Zenon, <1>15, <2>1, <2>2 DEF CancelRelease, SetState, Goto
<1>16. ASSUME NEW a \in Asks, Poll(a)
      PROVE  TypeOK'
  BY Zenon, <1>16 DEF Poll, Goto
<1>17. ASSUME NEW a \in Asks, Expire(a)
      PROVE  TypeOK'
  BY Zenon, <1>17 DEF Expire, Waiting
<1>18. ASSUME NEW a \in Asks, Abandon(a)
      PROVE  TypeOK'
  BY Zenon, <1>18 DEF Abandon, Goto
<1>19. ASSUME NEW r \in Readers, Receive(r)
      PROVE  TypeOK'
  BY <1>19, ConstantsAssumption DEF Receive, Goto
<1>20. ASSUME NEW r \in Readers, CompleteClaim(r)
      PROVE  TypeOK'
  BY <1>20, ConstantsAssumption DEF CompleteClaim, SetState, Unclaimed, Goto,
     Control
<1>21. ASSUME NEW r \in Readers, CompletePublish(r)
      PROVE  TypeOK'
  <2>1. slotWaker' \in [Slots -> Asks \cup {NoAsk}] /\ woken' \in [Asks -> BOOLEAN]
    BY Zenon, <1>21, WakeType, SlotOfType DEF CompletePublish
  <2>2. slotResp' \in [Slots -> Ids]
    BY Zenon, <1>21 DEF CompletePublish
  <2>3. left' \in [Readers -> 0 .. Tiers]
    BY <1>21, ConstantsAssumption DEF CompletePublish, Unclaimed, Control
  <2>. QED
    BY <1>21, <2>1, <2>2, <2>3 DEF CompletePublish, SetState, Unclaimed, Goto
<1>22. ASSUME CloseStart
      PROVE  TypeOK'
  BY <1>22, ConstantsAssumption DEF CloseStart, Goto, Slots
<1>23. ASSUME CloseSlot
      PROVE  TypeOK'
  <2>1. slotWaker' \in [Slots -> Asks \cup {NoAsk}] /\ woken' \in [Asks -> BOOLEAN]
    BY Zenon, <1>23, WakeType DEF CloseSlot
  <2>2. sweep' \in Slots
    BY <1>23, ConstantsAssumption DEF CloseSlot, NextSlot, Slots
  <2>. QED
    BY <1>23, <2>1, <2>2 DEF CloseSlot, SetState, NextSlot, Goto
<1>24. ASSUME CloseDrop
      PROVE  TypeOK'
  <2>1. slotWaker' \in [Slots -> Asks \cup {NoAsk}] /\ woken' \in [Asks -> BOOLEAN]
    BY Zenon, <1>24, WakeType DEF CloseDrop
  <2>2. sweep' \in Slots
    BY <1>24, ConstantsAssumption DEF CloseDrop, NextSlot, Slots
  <2>3. slotResp' \in [Slots -> Ids]
    BY Zenon, <1>24, NoIdType DEF CloseDrop
  <2>. QED
    BY <1>24, <2>1, <2>2, <2>3 DEF CloseDrop, SetState, NextSlot, Goto
<1>25. CASE UNCHANGED vars
  BY Zenon, <1>25 DEF vars
<1>26. QED
  BY <1>1, <1>2, <1>3, <1>4, <1>5, <1>6, <1>7, <1>8, <1>9, <1>10, <1>11,
     <1>12, <1>13, <1>14, <1>15, <1>16, <1>17, <1>18, <1>19, <1>20, <1>21,
     <1>22, <1>23, <1>24, <1>25, Zenon
     DEF Next, AskStep, ReaderStep, CloserStep

(* Control is preserved by every step. *)
LEMMA ControlStep ==
  ASSUME TypeOK, Control, [Next]_vars
  PROVE  Control'
<1> USE ConstantsAssumption DEF TypeOK, Control, Procs, AskPcs, slotVars, idVars, askVars, sysVars
<1>1. ASSUME NEW a \in Asks, AllocFetch(a)
      PROVE  Control'
  BY <1>1 DEF AllocFetch, AfterTry, Goto, NoId
<1>2. ASSUME NEW a \in Asks, AllocClaim(a)
      PROVE  Control'
  BY <1>2 DEF AllocClaim, AfterTry, Goto, SetState
<1>3. ASSUME NEW a \in Asks, AllocInstall(a)
      PROVE  Control'
  BY Zenon, <1>3 DEF AllocInstall, Wake, Goto
<1>4. ASSUME NEW a \in Asks, AllocPublish(a)
      PROVE  Control'
  BY Zenon, <1>4 DEF AllocPublish, SetState, Goto
<1>5. ASSUME NEW a \in Asks, Send(a)
      PROVE  Control'
  BY <1>5 DEF Send, Goto
<1>6. ASSUME NEW a \in Asks, Take(a)
      PROVE  Control'
  BY <1>6 DEF Take, Cas, Goto
<1>7. ASSUME NEW a \in Asks, Took(a)
      PROVE  Control'
  <2>1. pc' = [pc EXCEPT ![a] = pc'[a]] /\ pc'[a] \in {"cancel", "done"}
    BY <1>7 DEF Took, Return, EndPc, Goto
  <2>2. result' = [result EXCEPT ![a] = result'[a]] /\ result'[a] # "nofree"
    BY <1>7 DEF Took, Return
  <2>3. got' = [got EXCEPT ![a] = got'[a]]
    BY <1>7 DEF Took
  <2>. QED
    BY <1>7, <2>1, <2>2, <2>3 DEF Took
<1>8. ASSUME NEW a \in Asks, Load1(a)
      PROVE  Control'
  BY <1>8 DEF Load1, Return, EndPc, Goto
<1>9. ASSUME NEW a \in Asks, RegisterIfOwner(a)
      PROVE  Control'
  BY <1>9 DEF RegisterIfOwner, Return, EndPc, Goto
<1>10. ASSUME NEW a \in Asks, Load2(a)
      PROVE  Control'
  BY <1>10 DEF Load2, Return, EndPc, Goto
<1>11. ASSUME NEW a \in Asks, TimeoutClaim(a)
      PROVE  Control'
  BY Zenon, <1>11 DEF TimeoutClaim, Cas, Goto
<1>12. ASSUME NEW a \in Asks, TimeoutEvict(a)
      PROVE  Control'
  BY <1>12 DEF TimeoutEvict, SetState, Return, EndPc, Goto
<1>13. ASSUME NEW a \in Asks, LoadT(a)
      PROVE  Control'
  BY <1>13 DEF LoadT, Return, EndPc, Goto
<1>14. ASSUME NEW a \in Asks, CancelClaim(a)
      PROVE  Control'
  BY <1>14 DEF CancelClaim, SetState, Goto
<1>15. ASSUME NEW a \in Asks, CancelRelease(a)
      PROVE  Control'
  BY Zenon, <1>15 DEF CancelRelease, SetState, Wake, Goto
<1>16. ASSUME NEW a \in Asks, Poll(a)
      PROVE  Control'
  BY Zenon, <1>16 DEF Poll, Goto
<1>17. ASSUME NEW a \in Asks, Expire(a)
      PROVE  Control'
  BY Zenon, <1>17 DEF Expire, Waiting
<1>18. ASSUME NEW a \in Asks, Abandon(a)
      PROVE  Control'
  BY <1>18 DEF Abandon, Goto
<1>19. ASSUME NEW r \in Readers, Receive(r)
      PROVE  Control'
  BY <1>19 DEF Receive, Goto
<1>20. ASSUME NEW r \in Readers, CompleteClaim(r)
      PROVE  Control'
  BY <1>20 DEF CompleteClaim, SetState, Unclaimed, Goto
<1>21. ASSUME NEW r \in Readers, CompletePublish(r)
      PROVE  Control'
  BY <1>21 DEF CompletePublish, SetState, Unclaimed, Wake, Goto
<1>22. ASSUME CloseStart
      PROVE  Control'
  BY <1>22 DEF CloseStart, Goto
<1>23. ASSUME CloseSlot
      PROVE  Control'
  BY <1>23 DEF CloseSlot, SetState, Wake, NextSlot, Goto
<1>24. ASSUME CloseDrop
      PROVE  Control'
  BY <1>24 DEF CloseDrop, SetState, Wake, NextSlot, Goto
<1>25. CASE UNCHANGED vars
  BY Zenon, <1>25 DEF vars
<1>26. QED
  BY <1>1, <1>2, <1>3, <1>4, <1>5, <1>6, <1>7, <1>8, <1>9, <1>10, <1>11,
     <1>12, <1>13, <1>14, <1>15, <1>16, <1>17, <1>18, <1>19, <1>20, <1>21,
     <1>22, <1>23, <1>24, <1>25, Zenon
     DEF Next, AskStep, ReaderStep, CloserStep

(* Most steps hand out neither an id nor a reply. *)
LEMMA IdsKept ==
  ASSUME DistinctIds, OwnReplyOnly, UNCHANGED <<issued, got>>,
         \A a \in Asks : id'[a] = id[a]
  PROVE  DistinctIds' /\ OwnReplyOnly'
  BY Zenon DEF DistinctIds, OwnReplyOnly

(* Ids stay distinct, since next_id hands out an id that was not issued before *)
(* (the bound of AllocFetch); and a taken reply is the taker's own.            *)
LEMMA IdStep ==
  ASSUME TypeOK, Control, HeldReply, DistinctIds, OwnReplyOnly, [Next]_vars
  PROVE  DistinctIds' /\ OwnReplyOnly'
<1>1. ASSUME NEW a \in Asks, AllocFetch(a)
      PROVE  DistinctIds' /\ OwnReplyOnly'
  <2>1. CASE nextId = 0
    <3>1. id' = id /\ got' = got /\ issued \subseteq issued'
      BY Zenon, <1>1, <2>1 DEF AllocFetch
    <3>. QED
      BY Zenon, <3>1 DEF DistinctIds, OwnReplyOnly
  <2>2. CASE nextId # 0
    <3>1. /\ id'[a] = nextId /\ \A b \in Asks \ {a} : id'[b] = id[b]
          /\ nextId \notin issued /\ issued' = issued \cup {nextId}
          /\ got' = got /\ got[a] = NoId
      BY Zenon, <1>1, <2>2 DEF AllocFetch, TypeOK, Procs, Control
    <3>. QED
      BY Zenon, <3>1 DEF DistinctIds, OwnReplyOnly
  <2>. QED
    BY Zenon, <2>1, <2>2
<1>2. ASSUME NEW a \in Asks, AllocClaim(a)
      PROVE  DistinctIds' /\ OwnReplyOnly'
  BY Zenon, <1>2, IdsKept DEF AllocClaim, idVars
<1>3. ASSUME NEW a \in Asks, AllocInstall(a)
      PROVE  DistinctIds' /\ OwnReplyOnly'
  BY Zenon, <1>3, IdsKept DEF AllocInstall, idVars, askVars
<1>4. ASSUME NEW a \in Asks, AllocPublish(a)
      PROVE  DistinctIds' /\ OwnReplyOnly'
  BY Zenon, <1>4, IdsKept DEF AllocPublish, idVars, askVars
<1>5. ASSUME NEW a \in Asks, Send(a)
      PROVE  DistinctIds' /\ OwnReplyOnly'
  BY Zenon, <1>5, IdsKept DEF Send, idVars
<1>6. ASSUME NEW a \in Asks, Take(a)
      PROVE  DistinctIds' /\ OwnReplyOnly'
  BY Zenon, <1>6, IdsKept DEF Take, idVars, askVars
<1>7. ASSUME NEW a \in Asks, Took(a)
      PROVE  DistinctIds' /\ OwnReplyOnly'
  <2>1. id' = id /\ issued' = issued
    BY Zenon, <1>7 DEF Took, idVars
  <2>2. /\ \A b \in Asks \ {a} : got'[b] = got[b]
        /\ \/ got'[a] = got[a]
           \/ got'[a] = slotResp[SlotOf(id[a])] /\ slotId[SlotOf(id[a])] = id[a]
    <3>1. CASE got' = got
      BY Zenon, <3>1
    <3>2. CASE /\ got' = [got EXCEPT ![a] = slotResp[SlotOf(id[a])]]
               /\ slotId[SlotOf(id[a])] = id[a]
      BY Zenon, <3>2 DEF TypeOK
    <3>. QED
      BY Zenon, <1>7, <3>1, <3>2 DEF Took
  <2>3. slotResp[SlotOf(id[a])] = slotId[SlotOf(id[a])]
    BY Zenon, <1>7, ConstantsAssumption DEF Took, HeldReply, HeldSlot, Procs
  <2>. QED
    BY Zenon, <2>1, <2>2, <2>3 DEF DistinctIds, OwnReplyOnly
<1>8. ASSUME NEW a \in Asks, Load1(a)
      PROVE  DistinctIds' /\ OwnReplyOnly'
  BY Zenon, <1>8, IdsKept DEF Load1, idVars
<1>9. ASSUME NEW a \in Asks, RegisterIfOwner(a)
      PROVE  DistinctIds' /\ OwnReplyOnly'
  BY Zenon, <1>9, IdsKept DEF RegisterIfOwner, idVars
<1>10. ASSUME NEW a \in Asks, Load2(a)
      PROVE  DistinctIds' /\ OwnReplyOnly'
  BY Zenon, <1>10, IdsKept DEF Load2, idVars
<1>11. ASSUME NEW a \in Asks, TimeoutClaim(a)
      PROVE  DistinctIds' /\ OwnReplyOnly'
  BY Zenon, <1>11, IdsKept DEF TimeoutClaim, idVars, askVars
<1>12. ASSUME NEW a \in Asks, TimeoutEvict(a)
      PROVE  DistinctIds' /\ OwnReplyOnly'
  BY Zenon, <1>12, IdsKept DEF TimeoutEvict, idVars
<1>13. ASSUME NEW a \in Asks, LoadT(a)
      PROVE  DistinctIds' /\ OwnReplyOnly'
  BY Zenon, <1>13, IdsKept DEF LoadT, idVars
<1>14. ASSUME NEW a \in Asks, CancelClaim(a)
      PROVE  DistinctIds' /\ OwnReplyOnly'
  BY Zenon, <1>14, IdsKept DEF CancelClaim, idVars, askVars
<1>15. ASSUME NEW a \in Asks, CancelRelease(a)
      PROVE  DistinctIds' /\ OwnReplyOnly'
  BY Zenon, <1>15, IdsKept DEF CancelRelease, idVars, askVars
<1>16. ASSUME NEW a \in Asks, Poll(a)
      PROVE  DistinctIds' /\ OwnReplyOnly'
  BY Zenon, <1>16, IdsKept DEF Poll, idVars, askVars
<1>17. ASSUME NEW a \in Asks, Expire(a)
      PROVE  DistinctIds' /\ OwnReplyOnly'
  BY Zenon, <1>17, IdsKept DEF Expire, idVars
<1>18. ASSUME NEW a \in Asks, Abandon(a)
      PROVE  DistinctIds' /\ OwnReplyOnly'
  BY Zenon, <1>18, IdsKept DEF Abandon, idVars
<1>19. ASSUME NEW r \in Readers, Receive(r)
      PROVE  DistinctIds' /\ OwnReplyOnly'
  <2>1. UNCHANGED <<issued, got>> /\ \A a \in Asks : id'[a] = id[a]
    BY <1>19, ConstantsAssumption DEF Receive, TypeOK, Procs, idVars, askVars
  <2>. QED
    BY Zenon, <2>1, IdsKept
<1>20. ASSUME NEW r \in Readers, CompleteClaim(r)
      PROVE  DistinctIds' /\ OwnReplyOnly'
  BY Zenon, <1>20, IdsKept DEF CompleteClaim, idVars, askVars
<1>21. ASSUME NEW r \in Readers, CompletePublish(r)
      PROVE  DistinctIds' /\ OwnReplyOnly'
  BY Zenon, <1>21, IdsKept DEF CompletePublish, idVars, askVars
<1>22. ASSUME CloseStart
      PROVE  DistinctIds' /\ OwnReplyOnly'
  BY Zenon, <1>22, IdsKept DEF CloseStart, idVars, askVars
<1>23. ASSUME CloseSlot
      PROVE  DistinctIds' /\ OwnReplyOnly'
  BY Zenon, <1>23, IdsKept DEF CloseSlot, idVars, askVars
<1>24. ASSUME CloseDrop
      PROVE  DistinctIds' /\ OwnReplyOnly'
  BY Zenon, <1>24, IdsKept DEF CloseDrop, idVars, askVars
<1>25. CASE UNCHANGED vars
  BY Zenon, <1>25 DEF vars, DistinctIds, OwnReplyOnly
<1>26. QED
  BY Zenon, <1>1, <1>2, <1>3, <1>4, <1>5, <1>6, <1>7, <1>8, <1>9, <1>10, <1>11,
     <1>12, <1>13, <1>14, <1>15, <1>16, <1>17, <1>18, <1>19, <1>20, <1>21,
     <1>22, <1>23, <1>24, <1>25
     DEF Next, AskStep, ReaderStep, CloserStep

-----------------------------------------------------------------------------
(* A step of process p moves no other process and touches no slot but the one *)
(* p's id (for the teardown: its sweep) designates.                            *)
Frame(p) ==
    /\ \A q \in Procs \ {p} : pc'[q] = pc[q] /\ id'[q] = id[q]
    /\ p # Closer => sweep' = sweep
    /\ \A t \in Slots \ {HeldSlot(p)} :
         /\ slotState'[t] = slotState[t] /\ slotResp'[t] = slotResp[t]
         /\ slotId'[t] = slotId[t] /\ slotWaker'[t] = slotWaker[t]

(* It changes that slot only as its holder, or when nobody holds it, and      *)
(* leaves cell and state in agreement.                                         *)
Orderly(p) ==
    LET s == HeldSlot(p) IN
    /\ \/ Holding(p)
       \/ slotState[s] # "WRITING"
       \/ /\ ~Holding(p)'
          /\ slotState'[s] = slotState[s] /\ slotResp'[s] = slotResp[s] /\ slotId'[s] = slotId[s]
    /\ Holding(p)' =>
         /\ HeldSlot(p)' = s
         /\ slotState'[s] = "WRITING"
         /\ slotResp'[s] # NoId <=> pc'[p] \in {"took", "cancelR", "drop"}
         /\ pc'[p] \in {"took", "cancelR", "drop"} => slotResp'[s] = slotId'[s]
    /\ slotState'[s] = "READY" => slotResp'[s] = slotId'[s] /\ slotResp'[s] # NoId
    /\ slotState'[s] \in {"EMPTY", "WAITING"} => slotResp'[s] = NoId

(* An ask that has not yet begun to wait. *)
Early == {"alloc", "claim", "install", "publish", "send"}

(* It takes a waker out, leaves waker and owner alone, or registers the owner. *)
WakerSafe(p) ==
    LET s == HeldSlot(p) IN
    /\ p \in Asks /\ pc[p] \notin Early => pc'[p] \notin Early /\ id'[p] = id[p]
    /\ \/ slotWaker'[s] = NoAsk
       \/ slotWaker'[s] = slotWaker[s] /\ slotId'[s] = slotId[s]
       \/ p \in Asks /\ slotWaker'[s] = p /\ slotId'[s] = id'[p] /\ pc'[p] \notin Early

(* It frees an occupied slot only for its owner, and an ask comes to occupy a  *)
(* slot by claiming it EMPTY, installing its id and publishing it.             *)
OwnerSafe(p) ==
    LET s == HeldSlot(p) IN
    /\ closes' = 0 => closes = 0
    /\ closes = 0 =>
         \/ /\ slotId'[s] = slotId[s]
            /\ slotState'[s] = "EMPTY" =>
                 slotState[s] = "EMPTY" \/ (p \in Asks /\ slotId[s] = id[p] /\ ~Occupying(p)')
            /\ p \in Asks => /\ pc'[p] \notin {"install", "publish"}
                             /\ Occupying(p)' => Occupying(p) /\ id'[p] = id[p]
         \/ /\ p \in Asks /\ slotState[s] = "EMPTY" /\ slotState'[s] # "EMPTY"
            /\ slotId'[s] = slotId[s] /\ id'[p] = id[p] /\ pc'[p] = "install"
         \/ /\ p \in Asks /\ pc[p] = "install" /\ pc'[p] = "publish"
            /\ slotId'[s] = id[p] /\ slotState'[s] = slotState[s] /\ id'[p] = id[p]
         \/ /\ p \in Asks /\ pc[p] = "publish" /\ pc'[p] = "send"
            /\ slotId'[s] = slotId[s] /\ slotState'[s] # "EMPTY" /\ id'[p] = id[p]

Local(p) == Frame(p) /\ Orderly(p) /\ WakerSafe(p) /\ OwnerSafe(p)

-----------------------------------------------------------------------------
(* Every process has a slot at hand. *)
LEMMA HeldSlotType == ASSUME TypeOK PROVE \A p \in Procs : HeldSlot(p) \in Slots
  BY Zenon, SlotOfType DEF TypeOK, HeldSlot, Procs

(* Steps that are local in this sense keep the slots and their cells safe.     *)
LEMMA SlotsKept ==
  ASSUME TypeOK, ExclusiveWriting, CellInitialised, HeldReply,
         NEW p \in Procs, Frame(p), Orderly(p)
  PROVE  ExclusiveWriting' /\ CellInitialised' /\ HeldReply'
<1>1. \A q \in Procs \ {p} : HeldSlot(q)' = HeldSlot(q) /\ (Holding(q)' <=> Holding(q))
  BY Zenon DEF Frame, HeldSlot, Holding
<1>2. \A q \in Procs : Holding(q) /\ q # p
         => HeldSlot(q) # HeldSlot(p) \/ (~Holding(p)' /\ slotState'[HeldSlot(p)] = slotState[HeldSlot(p)]
                /\ slotResp'[HeldSlot(p)] = slotResp[HeldSlot(p)] /\ slotId'[HeldSlot(p)] = slotId[HeldSlot(p)])
  BY Zenon DEF ExclusiveWriting, Orderly
<1>3. \A q \in Procs \ {p} : Holding(q)
         => /\ slotState'[HeldSlot(q)] = slotState[HeldSlot(q)]
            /\ slotResp'[HeldSlot(q)] = slotResp[HeldSlot(q)]
            /\ slotId'[HeldSlot(q)] = slotId[HeldSlot(q)]
  BY Zenon, <1>2, HeldSlotType DEF Frame
<1>4. Holding(p)' => HeldSlot(p)' = HeldSlot(p) /\ slotState'[HeldSlot(p)] = "WRITING"
  BY Zenon DEF Orderly
<1>5. ExclusiveWriting'
  BY Zenon, <1>1, <1>2, <1>3, <1>4 DEF ExclusiveWriting
<1>6. \A s \in Slots :
         /\ slotState'[s] = "READY" => slotResp'[s] = slotId'[s] /\ slotResp'[s] # NoId
         /\ slotState'[s] \in {"EMPTY", "WAITING"} => slotResp'[s] = NoId
  BY Zenon DEF CellInitialised, Frame, Orderly
<1>7. \A q \in Procs \ {p} : Holding(q)
         => (slotResp'[HeldSlot(q)] # NoId <=> pc'[q] \in {"took", "cancelR", "drop"})
  BY Zenon, <1>3 DEF CellInitialised, Frame
<1>8. CellInitialised'
  BY <1>1, <1>4, <1>6, <1>7 DEF CellInitialised, Orderly
<1>9. HeldReply'
  BY <1>1, <1>3, <1>4 DEF HeldReply, Orderly, Frame, Holding
<1>. QED
  BY Zenon, <1>5, <1>8, <1>9

(* They keep every registered waker its slot owner's.                          *)
LEMMA WakersKept ==
  ASSUME TypeOK, RegisteredAsk, WakerOfOwner, NEW p \in Procs, Frame(p), WakerSafe(p)
  PROVE  RegisteredAsk' /\ WakerOfOwner'
<1> SUFFICES ASSUME NEW s \in Slots, slotWaker'[s] # NoAsk
             PROVE  pc'[slotWaker'[s]] \notin Early /\ id'[slotWaker'[s]] = slotId'[s]
  BY Zenon DEF RegisteredAsk, WakerOfOwner, Early
<1>1. CASE slotWaker'[s] = slotWaker[s] /\ slotId'[s] = slotId[s]
  <2>1. slotWaker[s] \in Asks
    BY Zenon, <1>1 DEF TypeOK
  <2>2. pc[slotWaker[s]] \notin Early /\ id[slotWaker[s]] = slotId[s]
    BY Zenon, <1>1 DEF RegisteredAsk, WakerOfOwner, Early
  <2>. QED
    BY <1>1, <2>1, <2>2 DEF Frame, WakerSafe, Procs
<1>2. CASE s = HeldSlot(p) /\ slotWaker'[s] = p /\ slotId'[s] = id'[p] /\ pc'[p] \notin Early
  BY Zenon, <1>2
<1>. QED
  BY Zenon, <1>1, <1>2 DEF Frame, WakerSafe

(* They keep every occupied slot its owner's, until the teardown.              *)
LEMMA OwnersKept ==
  ASSUME TypeOK, Control, DistinctIds, ExclusiveWriting, OccupiedSlot,
         NEW p \in Procs, Frame(p), OwnerSafe(p)
  PROVE  OccupiedSlot'
<1> SUFFICES ASSUME closes' = 0 PROVE OccupiedSlot'
  BY Zenon DEF OccupiedSlot
<1> USE DEF Occupying
<1>1. closes = 0
  BY Zenon DEF OwnerSafe
<1>2. \A a \in Asks : SlotOf(id[a]) \in Slots /\ HeldSlot(a) = SlotOf(id[a]) /\ a \in Procs
  BY Zenon, SlotOfType, ConstantsAssumption DEF TypeOK, HeldSlot, Procs
<1>3. \A a \in Asks \ {p} : pc'[a] = pc[a] /\ id'[a] = id[a]
  BY Zenon, <1>2 DEF Frame
<1>4. /\ \A a \in Asks : Occupying(a) =>
           slotId[SlotOf(id[a])] = id[a] /\ slotState[SlotOf(id[a])] # "EMPTY"
      /\ \A a, b \in Asks : Occupying(a) /\ pc[b] = "install" => SlotOf(id[a]) # SlotOf(id[b])
      /\ \A a \in Asks : pc[a] = "publish" => slotId[SlotOf(id[a])] = id[a]
  BY Zenon, <1>1 DEF OccupiedSlot
<1>5. \A t \in Slots \ {HeldSlot(p)} : slotState'[t] = slotState[t] /\ slotId'[t] = slotId[t]
  BY Zenon DEF Frame
<1>6. CASE /\ slotId'[HeldSlot(p)] = slotId[HeldSlot(p)]
           /\ slotState'[HeldSlot(p)] = "EMPTY" =>
                \/ slotState[HeldSlot(p)] = "EMPTY"
                \/ p \in Asks /\ slotId[HeldSlot(p)] = id[p] /\ ~Occupying(p)'
           /\ p \in Asks => /\ pc'[p] \notin {"install", "publish"}
                            /\ Occupying(p)' => Occupying(p) /\ id'[p] = id[p]
  <2>1. \A a \in Asks : Occupying(a)' => Occupying(a) /\ id'[a] = id[a]
    BY Zenon, <1>3, <1>6
  <2>2. \A a \in Asks : Occupying(a)' => slotState'[SlotOf(id[a])] # "EMPTY"
    <3> SUFFICES ASSUME NEW a \in Asks, Occupying(a)' PROVE slotState'[SlotOf(id[a])] # "EMPTY"
      OBVIOUS
    <3>1. slotId[SlotOf(id[a])] = id[a] /\ slotState[SlotOf(id[a])] # "EMPTY" /\ id[a] # NoId
      BY Zenon, <1>4, <2>1 DEF Control
    <3>2. CASE SlotOf(id[a]) # HeldSlot(p)
      BY Zenon, <1>2, <1>5, <3>1, <3>2
    <3>3. CASE SlotOf(id[a]) = HeldSlot(p)
      BY Zenon, <1>6, <3>1, <3>3 DEF DistinctIds
    <3>. QED
      BY Zenon, <3>2, <3>3
  <2>3. \A t \in Slots : slotId'[t] = slotId[t]
    BY Zenon, <1>5, <1>6
  <2>. QED
    BY <1>2, <1>3, <1>4, <1>6, <2>1, <2>2, <2>3 DEF OccupiedSlot
<1>7. CASE /\ p \in Asks /\ slotState[HeldSlot(p)] = "EMPTY" /\ slotState'[HeldSlot(p)] # "EMPTY"
           /\ slotId'[HeldSlot(p)] = slotId[HeldSlot(p)] /\ id'[p] = id[p] /\ pc'[p] = "install"
  BY <1>2, <1>3, <1>4, <1>5, <1>7 DEF OccupiedSlot
<1>8. CASE /\ p \in Asks /\ pc[p] = "install" /\ pc'[p] = "publish"
           /\ slotId'[HeldSlot(p)] = id[p] /\ slotState'[HeldSlot(p)] = slotState[HeldSlot(p)]
           /\ id'[p] = id[p]
  <2>1. \A b \in Asks \ {p} : pc[b] = "publish" => SlotOf(id[b]) # SlotOf(id[p])
    BY Zenon, <1>2, <1>8 DEF ExclusiveWriting, Holding
  <2>. QED
    BY <1>2, <1>3, <1>4, <1>5, <1>8, <2>1 DEF OccupiedSlot
<1>9. CASE /\ p \in Asks /\ pc[p] = "publish" /\ pc'[p] = "send"
           /\ slotId'[HeldSlot(p)] = slotId[HeldSlot(p)] /\ slotState'[HeldSlot(p)] # "EMPTY"
           /\ id'[p] = id[p]
  <2>1. \A b \in Asks \ {p} : pc[b] = "install" => SlotOf(id[b]) # SlotOf(id[p])
    BY Zenon, <1>2, <1>9 DEF ExclusiveWriting, Holding
  <2>. QED
    BY <1>2, <1>3, <1>4, <1>5, <1>9, <2>1 DEF OccupiedSlot
<1>. QED
  BY Zenon, <1>1, <1>6, <1>7, <1>8, <1>9 DEF OwnerSafe

(* Every step of an ask is local. *)
LEMMA AskLocal ==
  ASSUME TypeOK, Control, CellInitialised, HeldReply, ExclusiveWriting, NEW a \in Asks,
         AskStep(a) \/ Poll(a) \/ Expire(a) \/ Abandon(a),
         NEW s, s = HeldSlot(a)
  PROVE  Local(a)
<1>0. s = SlotOf(id[a]) /\ s \in Slots /\ a \in Procs /\ a # Closer
  BY Zenon, SlotOfType, ConstantsAssumption DEF TypeOK, HeldSlot, Procs
<1>c. /\ slotState[s] = "READY" => slotResp[s] = slotId[s] /\ slotResp[s] # NoId
      /\ slotState[s] = "EMPTY" => slotResp[s] = NoId
      /\ slotState[s] = "WAITING" => slotResp[s] = NoId
      /\ Holding(a) => slotState[s] = "WRITING"
      /\ Holding(a) /\ pc[a] \notin {"took", "cancelR", "drop"} => slotResp[s] = NoId
      /\ Holding(a) /\ pc[a] \in {"took", "cancelR", "drop"} => slotResp[s] # NoId /\ slotResp[s] = slotId[s]
  BY <1>0, Zenon DEF ExclusiveWriting, CellInitialised, HeldReply
<1>d. id'[a] = id[a] => HeldSlot(a)' = s
  BY Zenon, <1>0 DEF HeldSlot
<1>1. CASE AllocFetch(a)
  <2>1. /\ pc[a] = "alloc" /\ pc'[a] \in {"alloc", "claim", "done"} /\ closes' = closes
        /\ slotState'[s] = slotState[s] /\ slotResp'[s] = slotResp[s]
        /\ slotId'[s] = slotId[s] /\ slotWaker'[s] = slotWaker[s]
    BY Zenon, <1>0, <1>1 DEF AllocFetch, AfterTry, Goto, slotVars, sysVars, TypeOK
  <2>2. Frame(a)
    BY Zenon, <1>0, <1>1 DEF Frame, AllocFetch, AfterTry, Goto, slotVars, sysVars, TypeOK
  <2>3. Orderly(a)
    BY <1>c, <1>d, <2>1, Zenon DEF Orderly, Holding
  <2>4. WakerSafe(a)
    BY <2>1, Zenon DEF WakerSafe, Early
  <2>5. OwnerSafe(a)
    BY <2>1, Zenon DEF OwnerSafe, Occupying
  <2>. QED
    BY Zenon, <2>2, <2>3, <2>4, <2>5 DEF Local
<1>2. CASE AllocClaim(a)
  <2>1. /\ pc[a] = "claim" /\ id'[a] = id[a] /\ closes' = closes
        /\ \/ slotState[s] = "EMPTY" /\ slotState'[s] = "WRITING" /\ pc'[a] = "install"
           \/ slotState'[s] = slotState[s] /\ pc'[a] \in {"alloc", "done"}
        /\ slotId'[s] = slotId[s] /\ slotResp'[s] = slotResp[s] /\ slotWaker'[s] = slotWaker[s]
    BY Zenon, <1>0, <1>2 DEF AllocClaim, AfterTry, Goto, SetState, slotVars, sysVars,
       TypeOK
  <2>2. Frame(a)
    BY Zenon, <1>0, <1>2 DEF Frame, AllocClaim, AfterTry, Goto, SetState, slotVars,
       sysVars, TypeOK
  <2>3. Orderly(a)
    BY <1>c, <1>d, <2>1, Zenon DEF Orderly, Holding
  <2>4. WakerSafe(a)
    BY <2>1, Zenon DEF WakerSafe, Early
  <2>5. OwnerSafe(a)
    BY <2>1, Zenon DEF OwnerSafe, Occupying
  <2>. QED
    BY Zenon, <2>2, <2>3, <2>4, <2>5 DEF Local
<1>3. CASE AllocInstall(a)
  <2>1. /\ pc[a] = "install" /\ pc'[a] = "publish" /\ id'[a] = id[a] /\ closes' = closes
        /\ slotState'[s] = slotState[s] /\ slotResp'[s] = slotResp[s]
        /\ slotId'[s] = id[a] /\ slotWaker'[s] = NoAsk
    BY Zenon, <1>0, <1>3 DEF AllocInstall, Wake, Goto, slotVars, sysVars, TypeOK
  <2>2. Frame(a)
    BY Zenon, <1>0, <1>3 DEF Frame, AllocInstall, Wake, Goto, slotVars, sysVars, TypeOK
  <2>3. Orderly(a)
    BY <1>c, <1>d, <2>1, Zenon DEF Orderly, Holding
  <2>4. WakerSafe(a)
    BY <2>1, Zenon DEF WakerSafe, Early
  <2>5. OwnerSafe(a)
    BY <2>1, Zenon DEF OwnerSafe, Occupying
  <2>. QED
    BY Zenon, <2>2, <2>3, <2>4, <2>5 DEF Local
<1>4. CASE AllocPublish(a)
  <2>1. /\ pc[a] = "publish" /\ pc'[a] = "send" /\ id'[a] = id[a] /\ closes' = closes
        /\ slotState'[s] = "WAITING" /\ slotResp'[s] = slotResp[s]
        /\ slotId'[s] = slotId[s] /\ slotWaker'[s] = slotWaker[s]
    BY Zenon, <1>0, <1>4 DEF AllocPublish, SetState, Goto, slotVars, sysVars, TypeOK
  <2>2. Frame(a)
    BY Zenon, <1>0, <1>4 DEF Frame, AllocPublish, SetState, Goto, slotVars, sysVars, TypeOK
  <2>3. Orderly(a)
    BY <1>c, <1>d, <2>1, Zenon DEF Orderly, Holding
  <2>4. WakerSafe(a)
    BY <2>1, Zenon DEF WakerSafe, Early
  <2>5. OwnerSafe(a)
    BY <2>1, Zenon DEF OwnerSafe, Occupying
  <2>. QED
    BY Zenon, <2>2, <2>3, <2>4, <2>5 DEF Local
<1>5. CASE Send(a)
  <2>1. /\ pc[a] = "send" /\ pc'[a] \in {"take1", "cancel"} /\ id'[a] = id[a] /\ closes' = closes
        /\ slotState'[s] = slotState[s] /\ slotResp'[s] = slotResp[s]
        /\ slotId'[s] = slotId[s] /\ slotWaker'[s] = slotWaker[s]
    BY Zenon, <1>0, <1>5 DEF Send, Goto, slotVars, sysVars, TypeOK
  <2>2. Frame(a)
    BY Zenon, <1>0, <1>5 DEF Frame, Send, Goto, slotVars, sysVars, TypeOK
  <2>3. Orderly(a)
    BY <1>c, <1>d, <2>1, Zenon DEF Orderly, Holding
  <2>4. WakerSafe(a)
    BY <2>1, Zenon DEF WakerSafe, Early
  <2>5. OwnerSafe(a)
    BY <2>1, Zenon DEF OwnerSafe, Occupying
  <2>. QED
    BY Zenon, <2>2, <2>3, <2>4, <2>5 DEF Local
<1>6. CASE Take(a)
  <2>1. /\ pc[a] \in {"take1", "take2", "takeT"} /\ id'[a] = id[a] /\ closes' = closes
        /\ \/ slotState[s] = "READY" /\ slotState'[s] = "WRITING" /\ pc'[a] = "took"
           \/ slotState'[s] = slotState[s] /\ pc'[a] \in {"load1", "load2", "loadT"}
        /\ slotId'[s] = slotId[s] /\ slotResp'[s] = slotResp[s] /\ slotWaker'[s] = slotWaker[s]
    BY Zenon, <1>0, <1>6 DEF Take, Cas, Goto, slotVars, sysVars, TypeOK
  <2>2. Frame(a)
    BY Zenon, <1>0, <1>6 DEF Frame, Take, Cas, Goto, slotVars, sysVars, TypeOK
  <2>3. Orderly(a)
    BY <1>c, <1>d, <2>1, Zenon DEF Orderly, Holding
  <2>4. WakerSafe(a)
    BY <2>1, Zenon DEF WakerSafe, Early
  <2>5. OwnerSafe(a)
    BY <2>1, Zenon DEF OwnerSafe, Occupying
  <2>. QED
    BY Zenon, <2>2, <2>3, <2>4, <2>5 DEF Local
<1>7. CASE Took(a)
  <2>1. /\ pc[a] = "took" /\ pc'[a] \in {"cancel", "done"} /\ id'[a] = id[a] /\ closes' = closes
        /\ \/ /\ slotId[s] # id[a] /\ slotState'[s] = "READY"
              /\ slotResp'[s] = slotResp[s] /\ slotWaker'[s] = NoAsk
           \/ /\ slotId[s] = id[a] /\ slotState'[s] = "EMPTY"
              /\ slotResp'[s] = NoId /\ slotWaker'[s] = slotWaker[s]
        /\ slotId'[s] = slotId[s]
    BY <1>0, <1>7 DEF Took, SetState, Wake, Return, EndPc, Goto, slotVars, sysVars,
       TypeOK
  <2>2. Frame(a)
    BY <1>0, <1>7 DEF Frame, Took, SetState, Wake, Return, EndPc, Goto, slotVars,
       sysVars, TypeOK
  <2>3. Orderly(a)
    BY <1>c, <1>d, <2>1, Zenon DEF Orderly, Holding
  <2>4. WakerSafe(a)
    BY <2>1, Zenon DEF WakerSafe, Early
  <2>5. OwnerSafe(a)
    BY <2>1, Zenon DEF OwnerSafe, Occupying
  <2>. QED
    BY Zenon, <2>2, <2>3, <2>4, <2>5 DEF Local
<1>8. CASE Load1(a)
  <2>1. /\ pc[a] = "load1" /\ pc'[a] \in {"register", "cancel", "done"} /\ id'[a] = id[a] /\ closes' = closes
        /\ slotState'[s] = slotState[s] /\ slotResp'[s] = slotResp[s]
        /\ slotId'[s] = slotId[s] /\ slotWaker'[s] = slotWaker[s]
    BY Zenon, <1>0, <1>8 DEF Load1, Return, EndPc, Goto, slotVars, sysVars, TypeOK
  <2>2. Frame(a)
    BY Zenon, <1>0, <1>8 DEF Frame, Load1, Return, EndPc, Goto, slotVars, sysVars, TypeOK
  <2>3. Orderly(a)
    BY <1>c, <1>d, <2>1, Zenon DEF Orderly, Holding
  <2>4. WakerSafe(a)
    BY <2>1, Zenon DEF WakerSafe, Early
  <2>5. OwnerSafe(a)
    BY <2>1, Zenon DEF OwnerSafe, Occupying
  <2>. QED
    BY Zenon, <2>2, <2>3, <2>4, <2>5 DEF Local
<1>9. CASE RegisterIfOwner(a)
  <2>1. /\ pc[a] = "register" /\ pc'[a] \in {"take2", "cancel", "done"} /\ id'[a] = id[a] /\ closes' = closes
        /\ slotState'[s] = slotState[s] /\ slotResp'[s] = slotResp[s] /\ slotId'[s] = slotId[s]
        /\ slotWaker'[s] = slotWaker[s] \/ (slotWaker'[s] = a /\ slotId[s] = id[a])
    BY Zenon, <1>0, <1>9 DEF RegisterIfOwner, Return, EndPc, Goto, slotVars, sysVars,
       TypeOK
  <2>2. Frame(a)
    BY Zenon, <1>0, <1>9 DEF Frame, RegisterIfOwner, Return, EndPc, Goto, slotVars,
       sysVars, TypeOK
  <2>3. Orderly(a)
    BY <1>c, <1>d, <2>1, Zenon DEF Orderly, Holding
  <2>4. WakerSafe(a)
    BY <2>1, Zenon DEF WakerSafe, Early
  <2>5. OwnerSafe(a)
    BY <2>1, Zenon DEF OwnerSafe, Occupying
  <2>. QED
    BY Zenon, <2>2, <2>3, <2>4, <2>5 DEF Local
<1>10. CASE Load2(a)
  <2>1. /\ pc[a] = "load2" /\ pc'[a] \in {"parked", "expire", "cancel", "done"} /\ id'[a] = id[a] /\ closes' = closes
        /\ slotState'[s] = slotState[s] /\ slotResp'[s] = slotResp[s]
        /\ slotId'[s] = slotId[s] /\ slotWaker'[s] = slotWaker[s]
    BY Zenon, <1>0, <1>10 DEF Load2, Return, EndPc, Goto, slotVars, sysVars, TypeOK
  <2>2. Frame(a)
    BY Zenon, <1>0, <1>10 DEF Frame, Load2, Return, EndPc, Goto, slotVars, sysVars, TypeOK
  <2>3. Orderly(a)
    BY <1>c, <1>d, <2>1, Zenon DEF Orderly, Holding
  <2>4. WakerSafe(a)
    BY <2>1, Zenon DEF WakerSafe, Early
  <2>5. OwnerSafe(a)
    BY <2>1, Zenon DEF OwnerSafe, Occupying
  <2>. QED
    BY Zenon, <2>2, <2>3, <2>4, <2>5 DEF Local
<1>11. CASE TimeoutClaim(a)
  <2>1. /\ pc[a] = "expire" /\ id'[a] = id[a] /\ closes' = closes
        /\ \/ slotState[s] = "WAITING" /\ slotState'[s] = "WRITING" /\ pc'[a] = "expiring"
           \/ slotState'[s] = slotState[s] /\ pc'[a] = "takeT"
        /\ slotId'[s] = slotId[s] /\ slotResp'[s] = slotResp[s] /\ slotWaker'[s] = slotWaker[s]
    BY Zenon, <1>0, <1>11 DEF TimeoutClaim, Cas, Goto, slotVars, sysVars, TypeOK
  <2>2. Frame(a)
    BY Zenon, <1>0, <1>11 DEF Frame, TimeoutClaim, Cas, Goto, slotVars, sysVars, TypeOK
  <2>3. Orderly(a)
    BY <1>c, <1>d, <2>1, Zenon DEF Orderly, Holding
  <2>4. WakerSafe(a)
    BY <2>1, Zenon DEF WakerSafe, Early
  <2>5. OwnerSafe(a)
    BY <2>1, Zenon DEF OwnerSafe, Occupying
  <2>. QED
    BY Zenon, <2>2, <2>3, <2>4, <2>5 DEF Local
<1>12. CASE TimeoutEvict(a)
  <2>1. /\ pc[a] = "expiring" /\ id'[a] = id[a] /\ closes' = closes
        /\ \/ slotId[s] # id[a] /\ slotState'[s] = "WAITING" /\ pc'[a] = "takeT"
           \/ slotId[s] = id[a] /\ slotState'[s] = "EMPTY" /\ pc'[a] \in {"cancel", "done"}
        /\ slotId'[s] = slotId[s] /\ slotResp'[s] = slotResp[s] /\ slotWaker'[s] = slotWaker[s]
    BY Zenon, <1>0, <1>12 DEF TimeoutEvict, SetState, Return, EndPc, Goto, slotVars,
       sysVars, TypeOK
  <2>2. Frame(a)
    BY Zenon, <1>0, <1>12 DEF Frame, TimeoutEvict, SetState, Return, EndPc, Goto, slotVars,
       sysVars, TypeOK
  <2>3. Orderly(a)
    BY <1>c, <1>d, <2>1, Zenon DEF Orderly, Holding
  <2>4. WakerSafe(a)
    BY <2>1, Zenon DEF WakerSafe, Early
  <2>5. OwnerSafe(a)
    BY <2>1, Zenon DEF OwnerSafe, Occupying
  <2>. QED
    BY Zenon, <2>2, <2>3, <2>4, <2>5 DEF Local
<1>13. CASE LoadT(a)
  <2>1. /\ pc[a] = "loadT" /\ pc'[a] \in {"take1", "cancel", "done"} /\ id'[a] = id[a] /\ closes' = closes
        /\ slotState'[s] = slotState[s] /\ slotResp'[s] = slotResp[s]
        /\ slotId'[s] = slotId[s] /\ slotWaker'[s] = slotWaker[s]
    BY Zenon, <1>0, <1>13 DEF LoadT, Return, EndPc, Goto, slotVars, sysVars, TypeOK
  <2>2. Frame(a)
    BY Zenon, <1>0, <1>13 DEF Frame, LoadT, Return, EndPc, Goto, slotVars, sysVars, TypeOK
  <2>3. Orderly(a)
    BY <1>c, <1>d, <2>1, Zenon DEF Orderly, Holding
  <2>4. WakerSafe(a)
    BY <2>1, Zenon DEF WakerSafe, Early
  <2>5. OwnerSafe(a)
    BY <2>1, Zenon DEF OwnerSafe, Occupying
  <2>. QED
    BY Zenon, <2>2, <2>3, <2>4, <2>5 DEF Local
<1>14. CASE CancelClaim(a)
  <2>1. /\ pc[a] = "cancel" /\ id'[a] = id[a] /\ closes' = closes
        /\ \/ slotState[s] = "WAITING" /\ slotState'[s] = "WRITING" /\ pc'[a] = "cancelW"
           \/ slotState[s] = "READY" /\ slotState'[s] = "WRITING" /\ pc'[a] = "cancelR"
           \/ slotState'[s] = slotState[s] /\ pc'[a] = "done"
        /\ slotId'[s] = slotId[s] /\ slotResp'[s] = slotResp[s] /\ slotWaker'[s] = slotWaker[s]
    BY Zenon, <1>0, <1>14 DEF CancelClaim, SetState, Goto, slotVars, sysVars, TypeOK
  <2>2. Frame(a)
    BY Zenon, <1>0, <1>14 DEF Frame, CancelClaim, SetState, Goto, slotVars, sysVars, TypeOK
  <2>3. Orderly(a)
    BY <1>c, <1>d, <2>1, Zenon DEF Orderly, Holding
  <2>4. WakerSafe(a)
    BY <2>1, Zenon DEF WakerSafe, Early
  <2>5. OwnerSafe(a)
    BY <2>1, Zenon DEF OwnerSafe, Occupying
  <2>. QED
    BY Zenon, <2>2, <2>3, <2>4, <2>5 DEF Local
<1>15. CASE CancelRelease(a)
  <2>1. /\ pc[a] \in {"cancelW", "cancelR"} /\ pc'[a] = "done" /\ id'[a] = id[a] /\ closes' = closes
        /\ \/ /\ slotId[s] # id[a] /\ slotResp'[s] = slotResp[s] /\ slotWaker'[s] = slotWaker[s]
              /\ slotState'[s] = IF pc[a] = "cancelW" THEN "WAITING" ELSE "READY"
           \/ /\ slotId[s] = id[a] /\ slotState'[s] = "EMPTY"
              /\ slotResp'[s] = NoId /\ slotWaker'[s] = NoAsk
        /\ slotId'[s] = slotId[s]
    BY Zenon, <1>0, <1>15 DEF CancelRelease, SetState, Wake, Goto, slotVars, sysVars,
       TypeOK
  <2>2. Frame(a)
    BY Zenon, <1>0, <1>15 DEF Frame, CancelRelease, SetState, Wake, Goto, slotVars,
       sysVars, TypeOK
  <2>3. Orderly(a)
    BY <1>c, <1>d, <2>1, Zenon DEF Orderly, Holding
  <2>4. WakerSafe(a)
    BY <2>1, Zenon DEF WakerSafe, Early
  <2>5. OwnerSafe(a)
    BY <2>1, Zenon DEF OwnerSafe, Occupying
  <2>. QED
    BY Zenon, <2>2, <2>3, <2>4, <2>5 DEF Local
<1>16. CASE Poll(a)
  <2>1. /\ pc[a] = "parked" /\ pc'[a] = "take1" /\ id'[a] = id[a] /\ closes' = closes
        /\ slotState'[s] = slotState[s] /\ slotResp'[s] = slotResp[s]
        /\ slotId'[s] = slotId[s] /\ slotWaker'[s] = slotWaker[s]
    BY Zenon, <1>0, <1>16 DEF Poll, Goto, slotVars, sysVars, TypeOK
  <2>2. Frame(a)
    BY Zenon, <1>0, <1>16 DEF Frame, Poll, Goto, slotVars, sysVars, TypeOK
  <2>3. Orderly(a)
    BY <1>c, <1>d, <2>1, Zenon DEF Orderly, Holding
  <2>4. WakerSafe(a)
    BY <2>1, Zenon DEF WakerSafe, Early
  <2>5. OwnerSafe(a)
    BY <2>1, Zenon DEF OwnerSafe, Occupying
  <2>. QED
    BY Zenon, <2>2, <2>3, <2>4, <2>5 DEF Local
<1>17. CASE Expire(a)
  <2>1. /\ Waiting(a) /\ pc'[a] = pc[a] /\ id'[a] = id[a] /\ closes' = closes
        /\ slotState'[s] = slotState[s] /\ slotResp'[s] = slotResp[s]
        /\ slotId'[s] = slotId[s] /\ slotWaker'[s] = slotWaker[s]
    BY Zenon, <1>0, <1>17 DEF Expire, Waiting, slotVars, sysVars, TypeOK
  <2>2. Frame(a)
    BY Zenon, <1>0, <1>17 DEF Frame, Expire, Waiting, slotVars, sysVars, TypeOK
  <2>3. Orderly(a)
    BY <1>c, <1>d, <2>1, Zenon DEF Orderly, Holding, Waiting
  <2>4. WakerSafe(a)
    BY <2>1, Zenon DEF WakerSafe, Early, Waiting
  <2>5. OwnerSafe(a)
    BY <2>1, Zenon DEF OwnerSafe, Occupying, Waiting
  <2>. QED
    BY Zenon, <2>2, <2>3, <2>4, <2>5 DEF Local
<1>18. CASE Abandon(a)
  <2>1. /\ pc[a] = "parked" /\ pc'[a] = "cancel" /\ id'[a] = id[a] /\ closes' = closes
        /\ slotState'[s] = slotState[s] /\ slotResp'[s] = slotResp[s]
        /\ slotId'[s] = slotId[s] /\ slotWaker'[s] = slotWaker[s]
    BY Zenon, <1>0, <1>18 DEF Abandon, Goto, slotVars, sysVars, TypeOK
  <2>2. Frame(a)
    BY Zenon, <1>0, <1>18 DEF Frame, Abandon, Goto, slotVars, sysVars, TypeOK
  <2>3. Orderly(a)
    BY <1>c, <1>d, <2>1, Zenon DEF Orderly, Holding
  <2>4. WakerSafe(a)
    BY <2>1, Zenon DEF WakerSafe, Early
  <2>5. OwnerSafe(a)
    BY <2>1, Zenon DEF OwnerSafe, Occupying
  <2>. QED
    BY Zenon, <2>2, <2>3, <2>4, <2>5 DEF Local
<1>. QED
  BY Zenon, <1>1, <1>2, <1>3, <1>4, <1>5, <1>6, <1>7, <1>8, <1>9, <1>10, <1>11, <1>12,
     <1>13, <1>14, <1>15, <1>16, <1>17, <1>18 DEF AskStep

(* Every step of a reader is local. *)
LEMMA ReaderLocal ==
  ASSUME TypeOK, Control, CellInitialised, HeldReply, ExclusiveWriting, NEW r \in Readers,
         Receive(r) \/ ReaderStep(r),
         NEW s, s = HeldSlot(r)
  PROVE  Local(r)
<1>0. s = SlotOf(id[r]) /\ s \in Slots /\ r \in Procs /\ r # Closer /\ r \notin Asks
  BY Zenon, SlotOfType, ConstantsAssumption DEF TypeOK, HeldSlot, Procs
<1>c. /\ slotState[s] = "READY" => slotResp[s] = slotId[s] /\ slotResp[s] # NoId
      /\ slotState[s] = "EMPTY" => slotResp[s] = NoId
      /\ slotState[s] = "WAITING" => slotResp[s] = NoId
      /\ Holding(r) => slotState[s] = "WRITING"
      /\ Holding(r) /\ pc[r] \notin {"took", "cancelR", "drop"} => slotResp[s] = NoId
      /\ Holding(r) /\ pc[r] \in {"took", "cancelR", "drop"} => slotResp[s] # NoId /\ slotResp[s] = slotId[s]
  BY <1>0, Zenon DEF ExclusiveWriting, CellInitialised, HeldReply
<1>d. id'[r] = id[r] => HeldSlot(r)' = s
  BY Zenon, <1>0 DEF HeldSlot
<1>e. pc[r] # "idle" => id[r] # NoId
  BY Zenon DEF Control
<1>1. CASE Receive(r)
  <2>1. /\ pc[r] = "idle" /\ pc'[r] = "claim" /\ closes' = closes
        /\ slotState'[s] = slotState[s] /\ slotResp'[s] = slotResp[s]
        /\ slotId'[s] = slotId[s] /\ slotWaker'[s] = slotWaker[s]
    BY Zenon, <1>0, <1>1 DEF Receive, Goto, slotVars, sysVars, TypeOK
  <2>2. Frame(r)
    BY Zenon, <1>0, <1>1 DEF Frame, Receive, Goto, slotVars, sysVars, TypeOK
  <2>3. Orderly(r)
    BY <1>c, <1>d, <2>1, Zenon DEF Orderly, Holding
  <2>4. WakerSafe(r)
    BY <1>0, <2>1, Zenon DEF WakerSafe, Early
  <2>5. OwnerSafe(r)
    BY <1>0, <2>1, Zenon DEF OwnerSafe, Occupying
  <2>. QED
    BY Zenon, <2>2, <2>3, <2>4, <2>5 DEF Local
<1>2. CASE CompleteClaim(r)
  <2>1. /\ pc[r] = "claim" /\ id'[r] = id[r] /\ closes' = closes
        /\ \/ slotState[s] = "WAITING" /\ slotState'[s] = "WRITING" /\ pc'[r] = "claimed"
           \/ slotState'[s] = slotState[s] /\ pc'[r] \in {"idle", "claim"}
        /\ slotId'[s] = slotId[s] /\ slotResp'[s] = slotResp[s] /\ slotWaker'[s] = slotWaker[s]
    BY Zenon, <1>0, <1>2 DEF CompleteClaim, SetState, Unclaimed, Goto, slotVars, sysVars,
       TypeOK
  <2>2. Frame(r)
    BY Zenon, <1>0, <1>2 DEF Frame, CompleteClaim, SetState, Unclaimed, Goto, slotVars,
       sysVars, TypeOK
  <2>3. Orderly(r)
    BY <1>c, <1>d, <2>1, Zenon DEF Orderly, Holding
  <2>4. WakerSafe(r)
    BY <1>0, <2>1, Zenon DEF WakerSafe, Early
  <2>5. OwnerSafe(r)
    BY <1>0, <2>1, Zenon DEF OwnerSafe, Occupying
  <2>. QED
    BY Zenon, <2>2, <2>3, <2>4, <2>5 DEF Local
<1>3. CASE CompletePublish(r)
  <2>1. /\ pc[r] = "claimed" /\ pc'[r] \in {"idle", "claim"} /\ id'[r] = id[r] /\ closes' = closes
        /\ \/ /\ slotId[s] # id[r] /\ slotState'[s] = "WAITING"
              /\ slotResp'[s] = slotResp[s] /\ slotWaker'[s] = slotWaker[s]
           \/ /\ slotId[s] = id[r] /\ slotState'[s] = "READY"
              /\ slotResp'[s] = id[r] /\ slotWaker'[s] = NoAsk
        /\ slotId'[s] = slotId[s]
    BY <1>0, <1>3 DEF CompletePublish, SetState, Unclaimed, Wake, Goto, slotVars,
       sysVars, TypeOK
  <2>2. Frame(r)
    BY Zenon, <1>0, <1>3 DEF Frame, CompletePublish, SetState, Unclaimed, Wake, Goto,
       slotVars, sysVars, TypeOK
  <2>3. Orderly(r)
    BY <1>c, <1>d, <1>e, <2>1, Zenon DEF Orderly, Holding
  <2>4. WakerSafe(r)
    BY <1>0, <2>1, Zenon DEF WakerSafe, Early
  <2>5. OwnerSafe(r)
    BY <1>0, <2>1, Zenon DEF OwnerSafe, Occupying
  <2>. QED
    BY Zenon, <2>2, <2>3, <2>4, <2>5 DEF Local
<1>. QED
  BY Zenon, <1>1, <1>2, <1>3 DEF ReaderStep

(* Every step of the teardown is local. *)
LEMMA CloserLocal ==
  ASSUME TypeOK, Control, CellInitialised, HeldReply, ExclusiveWriting, 
         CloseStart \/ CloserStep,
         NEW s, s = HeldSlot(Closer)
  PROVE  Local(Closer)
<1>0. s = sweep /\ s \in Slots /\ Closer \in Procs /\ Closer \notin Asks
  BY Zenon, ConstantsAssumption DEF TypeOK, HeldSlot, Procs
<1>c. /\ slotState[s] = "READY" => slotResp[s] = slotId[s] /\ slotResp[s] # NoId
      /\ slotState[s] = "EMPTY" => slotResp[s] = NoId
      /\ slotState[s] = "WAITING" => slotResp[s] = NoId
      /\ Holding(Closer) => slotState[s] = "WRITING"
      /\ Holding(Closer) /\ pc[Closer] \notin {"took", "cancelR", "drop"} => slotResp[s] = NoId
      /\ Holding(Closer) /\ pc[Closer] \in {"took", "cancelR", "drop"} => slotResp[s] # NoId /\ slotResp[s] = slotId[s]
  BY <1>0, Zenon DEF ExclusiveWriting, CellInitialised, HeldReply
<1>d. sweep' = sweep => HeldSlot(Closer)' = s
  BY Zenon, <1>0 DEF HeldSlot
<1>e. closes + 1 # 0 /\ (pc[Closer] # "idle" => closes # 0)
  BY DEF Control, TypeOK
<1>1. CASE CloseStart
  <2>1. /\ pc[Closer] = "idle" /\ pc'[Closer] = "sweep" /\ closes' = closes + 1
        /\ slotState'[s] = slotState[s] /\ slotResp'[s] = slotResp[s]
        /\ slotId'[s] = slotId[s] /\ slotWaker'[s] = slotWaker[s]
    BY Zenon, <1>0, <1>1 DEF CloseStart, Goto, slotVars, sysVars, TypeOK
  <2>2. Frame(Closer)
    BY Zenon, <1>0, <1>1 DEF Frame, CloseStart, Goto, slotVars, sysVars, TypeOK
  <2>3. Orderly(Closer)
    BY <1>c, <1>d, <2>1, Zenon DEF Orderly, Holding
  <2>4. WakerSafe(Closer)
    BY <1>0, <2>1, Zenon DEF WakerSafe, Early
  <2>5. OwnerSafe(Closer)
    BY <1>0, <1>e, <2>1, Zenon DEF OwnerSafe, Occupying
  <2>. QED
    BY Zenon, <2>2, <2>3, <2>4, <2>5 DEF Local
<1>2. CASE CloseSlot
  <2>1. /\ pc[Closer] = "sweep" /\ closes' = closes
        /\ \/ /\ slotState[s] = "WAITING" /\ slotState'[s] = "EMPTY"
              /\ slotWaker'[s] = NoAsk /\ pc'[Closer] \in {"idle", "sweep"}
           \/ /\ slotState[s] = "READY" /\ slotState'[s] = "WRITING"
              /\ slotWaker'[s] = slotWaker[s] /\ pc'[Closer] = "drop" /\ sweep' = sweep
           \/ /\ slotState'[s] = slotState[s] /\ slotWaker'[s] = slotWaker[s]
              /\ pc'[Closer] \in {"idle", "sweep"}
        /\ slotId'[s] = slotId[s] /\ slotResp'[s] = slotResp[s]
    BY Zenon, <1>0, <1>2 DEF CloseSlot, SetState, Wake, NextSlot, Goto, slotVars, sysVars,
       TypeOK
  <2>2. Frame(Closer)
    BY Zenon, <1>0, <1>2 DEF Frame, CloseSlot, SetState, Wake, NextSlot, Goto, slotVars,
       sysVars, TypeOK
  <2>3. Orderly(Closer)
    BY <1>c, <1>d, <2>1, Zenon DEF Orderly, Holding
  <2>4. WakerSafe(Closer)
    BY <1>0, <2>1, Zenon DEF WakerSafe, Early
  <2>5. OwnerSafe(Closer)
    BY <1>0, <1>e, <2>1, Zenon DEF OwnerSafe, Occupying
  <2>. QED
    BY Zenon, <2>2, <2>3, <2>4, <2>5 DEF Local
<1>3. CASE CloseDrop
  <2>1. /\ pc[Closer] = "drop" /\ pc'[Closer] \in {"idle", "sweep"} /\ closes' = closes
        /\ slotState'[s] = "EMPTY" /\ slotResp'[s] = NoId
        /\ slotId'[s] = slotId[s] /\ slotWaker'[s] = NoAsk
    BY Zenon, <1>0, <1>3 DEF CloseDrop, SetState, Wake, NextSlot, Goto, slotVars, sysVars,
       TypeOK
  <2>2. Frame(Closer)
    BY Zenon, <1>0, <1>3 DEF Frame, CloseDrop, SetState, Wake, NextSlot, Goto, slotVars,
       sysVars, TypeOK
  <2>3. Orderly(Closer)
    BY <1>c, <1>d, <2>1, Zenon DEF Orderly, Holding
  <2>4. WakerSafe(Closer)
    BY <1>0, <2>1, Zenon DEF WakerSafe, Early
  <2>5. OwnerSafe(Closer)
    BY <1>0, <1>e, <2>1, Zenon DEF OwnerSafe, Occupying
  <2>. QED
    BY Zenon, <2>2, <2>3, <2>4, <2>5 DEF Local
<1>. QED
  BY Zenon, <1>1, <1>2, <1>3 DEF CloserStep

-----------------------------------------------------------------------------
(* The inductive invariant holds at the start. *)
LEMMA SlotInvInit == Init => SlotInv
<1> SUFFICES ASSUME Init PROVE SlotInv
  OBVIOUS
<1>1. TypeOK
  BY ConstantsAssumption DEF Init, TypeOK, Procs, Slots, Ids, NoId, AskPcs, Results
<1>2. Control
  BY ConstantsAssumption DEF Init, Control, Procs, NoId, AskPcs
<1>3. \A p \in Procs : pc[p] \in {"alloc", "idle"}
  BY Zenon DEF Init
<1>4. ExclusiveWriting /\ CellInitialised /\ HeldReply
  BY Zenon, <1>3 DEF Init, ExclusiveWriting, CellInitialised, HeldReply, Holding
<1>5. DistinctIds /\ OwnReplyOnly /\ RegisteredAsk /\ WakerOfOwner
  BY Zenon DEF Init, DistinctIds, OwnReplyOnly, RegisteredAsk, WakerOfOwner, Procs
<1>6. OccupiedSlot
  BY Zenon, <1>3 DEF OccupiedSlot, Occupying, Procs
<1>. QED
  BY Zenon, <1>1, <1>2, <1>4, <1>5, <1>6 DEF SlotInv

(* SlotInv is an invariant: every step of every ask, reader and teardown keeps *)
(* it, for every ring size and every number of processes.                      *)
THEOREM SlotInvariant == Spec => []SlotInv
<1>1. ASSUME SlotInv, [Next]_vars PROVE SlotInv'
  <2>1. TypeOK' /\ Control' /\ DistinctIds' /\ OwnReplyOnly'
    BY Zenon, <1>1, TypeStep, ControlStep, IdStep DEF SlotInv
  <2>2. ASSUME NEW p \in Procs, Local(p)
        PROVE  /\ ExclusiveWriting' /\ CellInitialised' /\ HeldReply'
               /\ RegisteredAsk' /\ WakerOfOwner' /\ OccupiedSlot'
    BY <1>1, <2>2, SlotsKept, WakersKept, OwnersKept, Zenon DEF SlotInv, Local
  <2>3. CASE \E a \in Asks : AskStep(a) \/ Poll(a) \/ Expire(a) \/ Abandon(a)
    BY <1>1, <2>1, <2>2, <2>3, AskLocal, Zenon DEF SlotInv, Procs
  <2>4. CASE \E r \in Readers : Receive(r) \/ ReaderStep(r)
    BY <1>1, <2>1, <2>2, <2>4, ReaderLocal, Zenon DEF SlotInv, Procs
  <2>5. CASE CloseStart \/ CloserStep
    BY <1>1, <2>1, <2>2, <2>5, CloserLocal, Zenon DEF SlotInv, Procs
  <2>6. CASE UNCHANGED vars
    <3>1. UNCHANGED <<slotState, slotId, slotResp, slotWaker, pc, id, sweep, closes>>
      BY Zenon, <2>6 DEF vars
    <3>2. \A p \in Procs : (Holding(p)' <=> Holding(p)) /\ HeldSlot(p)' = HeldSlot(p)
      BY Zenon, <3>1 DEF Holding, HeldSlot
    <3>3. ExclusiveWriting' /\ CellInitialised' /\ HeldReply'
      BY <1>1, <3>1, <3>2 DEF SlotInv, ExclusiveWriting, CellInitialised, HeldReply
    <3>4. RegisteredAsk' /\ WakerOfOwner' /\ OccupiedSlot'
      BY Zenon, <1>1, <3>1 DEF SlotInv, RegisteredAsk, WakerOfOwner, OccupiedSlot, Occupying
    <3>. QED
      BY Zenon, <2>1, <3>3, <3>4 DEF SlotInv
  <2>. QED
    BY <1>1, <2>3, <2>4, <2>5, <2>6, Zenon DEF Next
<1>. QED
  BY <1>1, SlotInvInit, PTL DEF Spec

(* The tracker stays well typed; in particular the sweep of allocate is        *)
(* bounded by the ring size and the reply dispatch by its three lookups.       *)
THEOREM TypeCorrect == Spec => []TypeOK
<1>1. SlotInv => TypeOK
  BY Zenon DEF SlotInv
<1>. QED
  BY <1>1, SlotInvariant, PTL

(* The response cell of a slot has at most one process in it, and is           *)
(* initialised exactly when the slot's state says so: the SAFETY comments of   *)
(* try_take_ready, cancel and cancel_all are justified.                        *)
THEOREM CellSafety == Spec => [](ExclusiveWriting /\ CellInitialised)
<1>1. SlotInv => ExclusiveWriting /\ CellInitialised
  BY Zenon DEF SlotInv
<1>. QED
  BY <1>1, SlotInvariant, PTL

(* No ask is handed the reply to another request, however ids alias.           *)
THEOREM ReplyIsolation == Spec => []OwnReplyOnly
<1>1. SlotInv => OwnReplyOnly
  BY Zenon DEF SlotInv
<1>. QED
  BY <1>1, SlotInvariant, PTL

(* The waker in a slot is that of the slot's current owner.                    *)
THEOREM WakerOwnership == Spec => []WakerOfOwner
<1>1. SlotInv => WakerOfOwner
  BY Zenon DEF SlotInv
<1>. QED
  BY <1>1, SlotInvariant, PTL

(* Until the tracker is torn down no stale operation evicts a waiting ask.     *)
THEOREM NoEviction == Spec => []WaiterKeepsSlot
<1>1. SlotInv => WaiterKeepsSlot
  BY Zenon DEF SlotInv, OccupiedSlot, Occupying, WaiterKeepsSlot, Waiting
<1>. QED
  BY <1>1, SlotInvariant, PTL
-----------------------------------------------------------------------------
(* The asks whose slot a SlotGuard owns. *)
Guarded == {"timed", "untimed"}

(* A guarded ask that has returned left its slot EMPTY or to others: where the *)
(* slot still carries its id, nobody can publish it again without a new id.    *)
GuardFreed ==
    \A a \in Asks : LET s == SlotOf(id[a]) IN
        pc[a] = "done" /\ kind[a] \in Guarded /\ id[a] # NoId /\ slotId[s] = id[a] =>
            /\ slotState[s] \notin {"WAITING", "READY"}
            /\ \A q \in Procs : Holding(q) /\ HeldSlot(q) = s => pc[q] = "install"

(* The id of an ask that is still allocating is in no slot, and every id in a  *)
(* slot has been handed out.                                                   *)
FreshIds ==
    /\ \A a \in Asks : pc[a] \in {"alloc", "claim", "install"} /\ id[a] # NoId =>
         slotId[SlotOf(id[a])] # id[a]
    /\ \A s \in Slots : slotId[s] # NoId => slotId[s] \in issued

GuardInv == GuardFreed /\ FreshIds

(* What a step of process p does for this: it renames its slot only by         *)
(* installing its id, it leaves an abandoned slot abandoned, and a guarded ask *)
(* returns from its allocation, from a slot of another owner or having freed   *)
(* its slot.                                                                   *)
GuardSafe(p) ==
    LET s == HeldSlot(p) IN
    /\ \A q \in Asks \ {p} : kind'[q] = kind[q]
    /\ issued \subseteq issued'
    /\ \/ /\ p \in Asks /\ pc[p] = "install" /\ pc'[p] = "publish"
          /\ slotId'[s] = id[p] /\ id[p] # NoId /\ id'[p] = id[p]
       \/ /\ slotId'[s] = slotId[s]
          /\ slotState[s] \notin {"WAITING", "READY"} /\ (Holding(p) => pc[p] = "install") =>
               slotState'[s] \notin {"WAITING", "READY"} /\ (Holding(p)' => pc'[p] = "install")
    /\ p \in Asks /\ pc'[p] = "done" /\ kind'[p] \in Guarded =>
         /\ id'[p] = id[p] /\ slotId'[s] = slotId[s] /\ ~Holding(p)'
         /\ \/ pc[p] \in {"alloc", "claim"}
            \/ slotId[s] # id[p]
            \/ slotState'[s] = "EMPTY"
    /\ p \in Asks /\ pc'[p] \in {"alloc", "claim", "install"} =>
         /\ pc[p] \in {"alloc", "claim"} /\ slotId'[s] = slotId[s]
         /\ id'[p] = id[p] \/ (id'[p] \notin issued /\ slotId' = slotId)

(* Such steps keep the slots of returned guarded asks free.                    *)
LEMMA GuardKept ==
  ASSUME TypeOK, TypeOK', DistinctIds, ExclusiveWriting', GuardInv,
         NEW p \in Procs, Frame(p), Orderly(p), GuardSafe(p)
  PROVE  GuardInv'
<1>1. \A a \in Asks : SlotOf(id[a]) \in Slots /\ HeldSlot(a) = SlotOf(id[a]) /\ a \in Procs
  BY Zenon, SlotOfType, ConstantsAssumption DEF TypeOK, HeldSlot, Procs
<1>2. /\ \A q \in Procs \ {p} : pc'[q] = pc[q] /\ id'[q] = id[q]
      /\ \A q \in Procs \ {p} : (Holding(q)' <=> Holding(q)) /\ HeldSlot(q)' = HeldSlot(q)
      /\ Holding(p)' => HeldSlot(p)' = HeldSlot(p)
  BY Zenon DEF Frame, Orderly, Holding, HeldSlot
<1>3. /\ HeldSlot(p) \in Slots
      /\ \A t \in Slots \ {HeldSlot(p)} : slotState'[t] = slotState[t] /\ slotId'[t] = slotId[t]
  BY Zenon, HeldSlotType DEF Frame
<1>4. GuardFreed'
  <2> SUFFICES ASSUME NEW a \in Asks, pc'[a] = "done", kind'[a] \in Guarded, id'[a] # NoId,
                      slotId'[SlotOf(id'[a])] = id'[a]
               PROVE  /\ slotState'[SlotOf(id'[a])] \notin {"WAITING", "READY"}
                      /\ \A q \in Procs : Holding(q)' /\ HeldSlot(q)' = SlotOf(id'[a])
                                          => pc'[q] = "install"
    BY Zenon DEF GuardFreed, Guarded
  <2>1. CASE a = p
    <3>1. /\ id'[a] = id[a] /\ HeldSlot(p) = SlotOf(id[a])
          /\ slotId[SlotOf(id[a])] = id[a] /\ ~Holding(p)'
      BY Zenon, <1>1, <2>1 DEF GuardSafe
    <3>2. slotState'[SlotOf(id[a])] = "EMPTY"
      BY Zenon, <2>1, <3>1 DEF GuardSafe, GuardInv, FreshIds
    <3>3. \A q \in Procs : Holding(q)' => HeldSlot(q)' # SlotOf(id[a])
      BY Zenon, <3>2 DEF ExclusiveWriting
    <3>. QED
      BY Zenon, <3>1, <3>2, <3>3
  <2>2. CASE a # p
    <3>1. pc[a] = "done" /\ kind[a] \in Guarded /\ id'[a] = id[a]
      BY Zenon, <1>1, <1>2, <2>2 DEF GuardSafe
    <3>2. slotId[SlotOf(id[a])] = id[a]
      BY Zenon, <1>1, <1>3, <2>2, <3>1 DEF GuardSafe, DistinctIds
    <3>3. /\ slotState[SlotOf(id[a])] \notin {"WAITING", "READY"}
          /\ \A q \in Procs : Holding(q) /\ HeldSlot(q) = SlotOf(id[a]) => pc[q] = "install"
      BY Zenon, <3>1, <3>2 DEF GuardInv, GuardFreed
    <3>4. CASE SlotOf(id[a]) = HeldSlot(p)
      <4>1. slotState'[SlotOf(id[a])] \notin {"WAITING", "READY"} /\ (Holding(p)' => pc'[p] = "install")
        BY <2>2, <3>1, <3>2, <3>3, <3>4 DEF GuardSafe, DistinctIds
      <4>. QED
        BY Zenon, <1>2, <3>1, <3>3, <4>1
    <3>5. CASE SlotOf(id[a]) # HeldSlot(p)
      BY Zenon, <1>1, <1>2, <1>3, <3>1, <3>3, <3>5
    <3>. QED
      BY Zenon, <3>4, <3>5
  <2>. QED
    BY Zenon, <2>1, <2>2
<1>5. \A a \in Asks : pc'[a] \in {"alloc", "claim", "install"} /\ id'[a] # NoId =>
        slotId'[SlotOf(id'[a])] # id'[a]
  <2> SUFFICES ASSUME NEW a \in Asks, pc'[a] \in {"alloc", "claim", "install"}, id'[a] # NoId,
                      slotId'[SlotOf(id'[a])] = id'[a]
               PROVE  FALSE
    OBVIOUS
  <2>1. CASE a = p /\ id'[a] = id[a]
    BY <1>1, <2>1 DEF GuardSafe, GuardInv, FreshIds
  <2>2. CASE a = p /\ id'[a] # id[a]
    BY <1>1, <2>2, SlotOfType DEF GuardSafe, GuardInv, FreshIds, TypeOK
  <2>3. CASE a # p
    BY <1>1, <1>2, <1>3, <2>3 DEF GuardSafe, GuardInv, FreshIds, DistinctIds
  <2>. QED
    BY Zenon, <2>1, <2>2, <2>3
<1>6. \A s \in Slots : slotId'[s] # NoId => slotId'[s] \in issued'
  BY Zenon, <1>1, <1>3 DEF GuardSafe, GuardInv, FreshIds, DistinctIds
<1>. QED
  BY Zenon, <1>4, <1>5, <1>6 DEF GuardInv, FreshIds

(* Every step of every process is one of them.                                 *)
LEMMA GuardedStep ==
  ASSUME TypeOK, Control, DistinctIds, ExclusiveWriting
  PROVE  /\ \A a \in Asks : AskStep(a) \/ Poll(a) \/ Expire(a) \/ Abandon(a) => GuardSafe(a)
         /\ \A r \in Readers : Receive(r) \/ ReaderStep(r) => GuardSafe(r)
         /\ CloseStart \/ CloserStep => GuardSafe(Closer)
<1>1. ASSUME NEW a \in Asks, AskStep(a) \/ Poll(a) \/ Expire(a) \/ Abandon(a)
      PROVE  GuardSafe(a)
  <2>0. HeldSlot(a) = SlotOf(id[a]) /\ SlotOf(id[a]) \in Slots /\ a \in Procs
    BY Zenon, SlotOfType, ConstantsAssumption DEF TypeOK, HeldSlot, Procs
  <2>h. Holding(a) => slotState[SlotOf(id[a])] = "WRITING"
    BY Zenon, <2>0 DEF ExclusiveWriting
  <2> USE <2>0 DEF TypeOK, Goto, idVars, askVars, slotVars, sysVars, GuardSafe, Holding, Guarded
  <2>1. CASE AllocFetch(a)
    BY <2>1 DEF AllocFetch, AfterTry
  <2>2. CASE AllocClaim(a)
    BY <2>2 DEF AllocClaim, AfterTry, SetState
  <2>3. CASE AllocInstall(a)
    BY Zenon, <2>3 DEF AllocInstall, Control
  <2>4. CASE AllocPublish(a)
    BY Zenon, <2>4 DEF AllocPublish
  <2>5. CASE Send(a)
    BY Zenon, <2>5 DEF Send
  <2>6. CASE Take(a)
    BY <2>6 DEF Take, Cas
  <2>7. CASE Took(a)
    BY <2>7 DEF Took, SetState, Return, EndPc
  <2>8. CASE Load1(a)
    BY <2>8 DEF Load1, Return, EndPc
  <2>9. CASE RegisterIfOwner(a)
    BY <2>9 DEF RegisterIfOwner, Return, EndPc
  <2>10. CASE Load2(a)
    BY <2>10 DEF Load2, Return, EndPc
  <2>11. CASE TimeoutClaim(a)
    BY Zenon, <2>11 DEF TimeoutClaim, Cas
  <2>12. CASE TimeoutEvict(a)
    BY <2>12 DEF TimeoutEvict, SetState, Return, EndPc
  <2>13. CASE LoadT(a)
    BY <2>13 DEF LoadT, Return, EndPc
  <2>14. CASE CancelClaim(a)
    BY <2>14 DEF CancelClaim, SetState
  <2>15. CASE CancelRelease(a)
    BY <2>15 DEF CancelRelease, SetState
  <2>16. CASE Poll(a)
    BY Zenon, <2>16 DEF Poll
  <2>17. CASE Expire(a)
    BY Zenon, <2>17 DEF Expire, Waiting
  <2>18. CASE Abandon(a)
    BY Zenon, <2>18 DEF Abandon
  <2>. QED
    BY <1>1, <2>1, <2>2, <2>3, <2>4, <2>5, <2>6, <2>7, <2>8, <2>9, <2>10, <2>11, <2>12,
       <2>13, <2>14, <2>15, <2>16, <2>17, <2>18, Zenon DEF AskStep
<1>2. ASSUME NEW r \in Readers, Receive(r) \/ ReaderStep(r)
      PROVE  GuardSafe(r)
  <2>0. HeldSlot(r) = SlotOf(id[r]) /\ SlotOf(id[r]) \in Slots /\ r \in Procs /\ r \notin Asks
    BY Zenon, SlotOfType, ConstantsAssumption DEF TypeOK, HeldSlot, Procs
  <2> USE <2>0 DEF TypeOK, Goto, idVars, askVars, slotVars, sysVars, GuardSafe, Holding
  <2>1. CASE Receive(r)
    BY Zenon, <2>1 DEF Receive
  <2>2. CASE CompleteClaim(r)
    BY Zenon, <2>2 DEF CompleteClaim, Unclaimed, SetState
  <2>3. CASE CompletePublish(r)
    BY Zenon, <2>3 DEF CompletePublish
  <2>. QED
    BY <1>2, <2>1, <2>2, <2>3, Zenon DEF ReaderStep
<1>3. ASSUME CloseStart \/ CloserStep
      PROVE  GuardSafe(Closer)
  <2>0. HeldSlot(Closer) = sweep /\ sweep \in Slots /\ Closer \in Procs /\ Closer \notin Asks
    BY Zenon, ConstantsAssumption DEF TypeOK, HeldSlot, Procs
  <2> USE <2>0 DEF TypeOK, Goto, idVars, askVars, slotVars, sysVars, GuardSafe, Holding
  <2>1. CASE CloseStart
    BY Zenon, <2>1 DEF CloseStart
  <2>2. CASE CloseSlot
    BY Zenon, <2>2 DEF CloseSlot, NextSlot, SetState
  <2>3. CASE CloseDrop
    BY Zenon, <2>3 DEF CloseDrop, NextSlot, SetState
  <2>. QED
    BY <1>3, <2>1, <2>2, <2>3, Zenon DEF CloserStep
<1>. QED
  BY Zenon, <1>1, <1>2, <1>3

(* A SlotGuard leaves nothing behind: the slot of an ask that has returned is  *)
(* never left WAITING or READY under its id, whatever the teardown, the        *)
(* readers and the asks that share the slot did meanwhile.                     *)
THEOREM GuardAlwaysReleases == Spec => []GuardReleasesSlot
<1>1. Init => GuardInv
  <2> SUFFICES ASSUME Init PROVE GuardInv
    OBVIOUS
  <2>1. \A a \in Asks : pc[a] = "alloc" /\ id[a] = NoId
    BY Zenon DEF Init, Procs
  <2>2. \A s \in Slots : slotId[s] = NoId
    BY Zenon DEF Init
  <2>. QED
    BY Zenon, <2>1, <2>2 DEF GuardInv, GuardFreed, FreshIds
<1>2. ASSUME SlotInv, SlotInv', GuardInv, [Next]_vars PROVE GuardInv'
  <2>1. ASSUME NEW p \in Procs, Local(p), GuardSafe(p) PROVE GuardInv'
    BY <1>2, <2>1, GuardKept, Zenon DEF SlotInv, Local
  <2>2. CASE \E a \in Asks : AskStep(a) \/ Poll(a) \/ Expire(a) \/ Abandon(a)
    BY <1>2, <2>1, <2>2, AskLocal, GuardedStep, Zenon DEF SlotInv, Procs
  <2>3. CASE \E r \in Readers : Receive(r) \/ ReaderStep(r)
    BY <1>2, <2>1, <2>3, ReaderLocal, GuardedStep, Zenon DEF SlotInv, Procs
  <2>4. CASE CloseStart \/ CloserStep
    BY <1>2, <2>1, <2>4, CloserLocal, GuardedStep, Zenon DEF SlotInv, Procs
  <2>5. CASE UNCHANGED vars
    <3>1. UNCHANGED <<slotState, slotId, pc, id, sweep, kind, issued>>
      BY Zenon, <2>5 DEF vars
    <3>. QED
      BY Zenon, <1>2, <3>1 DEF GuardInv, GuardFreed, FreshIds, Holding, HeldSlot
  <2>. QED
    BY <1>2, <2>2, <2>3, <2>4, <2>5, Zenon DEF Next
<1>3. GuardInv => GuardReleasesSlot
  BY Zenon DEF GuardInv, GuardFreed, GuardReleasesSlot, Leaked, Guarded
<1>. QED
  BY <1>1, <1>2, <1>3, SlotInvariant, PTL DEF Spec

(* The response cell holds a reply exactly when the slot's state says so.      *)
THEOREM CellAlwaysInitialised == Spec => []CellInitialised
<1>1. SlotInv => CellInitialised
  BY Zenon DEF SlotInv
<1>. QED
  BY <1>1, SlotInvariant, PTL
=============================================================================
