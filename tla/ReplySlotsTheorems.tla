------------------------- MODULE ReplySlotsTheorems -------------------------
(***************************************************************************)
(* The theorems about the reply slots of a connection, from the invariants *)
(* of ReplySlotsProofs and ReplyDeliveryProofs and the facts about finite  *)
(* sets that counting permits and slots needs.                             *)
(***************************************************************************)
EXTENDS ReplyDeliveryProofs, FiniteSetTheorems

(* Permits are held by finitely many leases, those of routines that return them included. *)
LEMMA AdmittedFinite ==
    ASSUME ControlInv
    PROVE  Admitted \subseteq Leases /\ IsFiniteSet(Admitted) /\ Cardinality(Admitted) \in Nat
<1>1. Admitted \subseteq Leases
  BY Zenon DEF Admitted, Holders, Releasing, ControlInv, RoutineInv, Present
<1> QED
  BY Zenon, <1>1, SlotsAssumption, FS_Subset, FS_CardinalityType

(* A permit that is taken, given back or kept by one lease keeps the sum. *)
LEMMA BudgetMove ==
    ASSUME ControlInv, BudgetConserved, rplan' = rplan, PermitMove
    PROVE  BudgetConserved'
<1>0. IsFiniteSet(Admitted) /\ Cardinality(Admitted) \in Nat /\ rjobs \in Nat
  BY Zenon, AdmittedFinite DEF ControlInv, SlotsType, PoolType
<1>1. ASSUME NEW l \in Leases \ Admitted, Admitted' = Admitted \cup {l}, rjobs' = rjobs - 1
      PROVE  BudgetConserved'
  <2>1. Cardinality(Admitted \cup {l}) = Cardinality(Admitted) + 1
    BY Zenon, <1>0, <1>1, FS_AddElement
  <2> QED
    BY <1>0, <1>1, <2>1 DEF BudgetConserved
<1>2. ASSUME NEW l \in Admitted, Admitted' = Admitted \ {l}, rjobs' = rjobs + 1
      PROVE  BudgetConserved'
  <2>1. Cardinality(Admitted \ {l}) = Cardinality(Admitted) - 1
    BY Zenon, <1>0, <1>2, FS_RemoveElement
  <2> QED
    BY <1>0, <1>2, <2>1 DEF BudgetConserved
<1>3. ASSUME Admitted' = Admitted, rjobs' = rjobs PROVE BudgetConserved'
  BY Zenon, <1>3 DEF BudgetConserved
<1> QED
  BY Zenon, <1>1, <1>2, <1>3 DEF PermitMove

-----------------------------------------------------------------------------
(* The invariant holds initially. *)
LEMMA ResourceInit == SlotsInit => ResourceInv
<1> SUFFICES ASSUME SlotsInit PROVE ResourceInv
  OBVIOUS
<1>1. ControlInv
  BY Zenon, ControlInit
<1>2. /\ \A l \in Leases : rec[l] = NoRecord /\ rpc[l] = "start" /\ rused[AskOf[l]] = {}
      /\ \A t \in Threads : rsub[t] = NoSub
      /\ \A i \in Slots : rtable[i] = None
      /\ rplan.slots \in Nat /\ Len(rfree) = rplan.slots /\ \A i \in 1..rplan.slots : rfree[i] = i
      /\ rjobs = rplan.jobs /\ rplan.jobs \in Nat
  BY SlotsAssumption DEF SlotsInit, Asks
<1>3. Holders = {} /\ Returning = {} /\ Releasing = {} /\ Entered = {}
  BY <1>2 DEF Holders, Returning, Releasing, NoRecord, NoSub, Entered
<1>4. RecycleInv
  BY <1>2, <1>3 DEF RecycleInv, NoSub
<1>5. TableInv
  BY <1>2, <1>3 DEF TableInv, NoSub, Removed
<1>6. IndexInv
  BY Zenon, <1>2, <1>3 DEF IndexInv
<1>7. BudgetConserved
  <2>1. Admitted = {}
    BY Zenon, <1>3 DEF Admitted, Entered
  <2> QED
    BY <1>2, <2>1, FS_EmptySet DEF BudgetConserved
<1>8. \A l \in Leases : ClaimInv(l) /\ FlagInv(l)
  BY <1>2 DEF ClaimInv, FlagInv, Flagged, NoRecord, Early, Opening, Pushing, Pushed, NoSub, Threads
<1> QED
  BY Zenon, <1>1, <1>2, <1>4, <1>5, <1>6, <1>7, <1>8 DEF ResourceInv, ExitInv

(* Every step keeps the invariant. *)
LEMMA ResourceStep == ResourceInv /\ [SlotsNext]_rvars => ResourceInv'
<1> SUFFICES ASSUME ResourceInv, [SlotsNext]_rvars PROVE ResourceInv'
  OBVIOUS
<1>0. /\ ControlInv /\ RecycleInv /\ TableInv /\ IndexInv /\ ExitInv /\ BudgetConserved
      /\ \A l \in Leases : ClaimInv(l) /\ FlagInv(l)
  BY Zenon DEF ResourceInv
<1>1. ControlInv'
  BY Zenon, <1>0, ControlStep
<1>2. RecycleInv' /\ TableInv' /\ IndexInv' /\ ExitInv'
  BY Zenon, <1>0, RecycleStep, TableStep, IndexStep, ExitStep
<1>3. \A l \in Leases : ClaimInv(l)' /\ FlagInv(l)'
  BY Zenon, <1>0, ClaimStep
<1>4. BudgetConserved'
  <2>1. rplan' = rplan /\ PermitMove
    <3>1. ASSUME UNCHANGED rvars PROVE rplan' = rplan /\ PermitMove
      BY Zenon, <3>1
         DEF rvars, resourceVars, ownerVars, PermitMove, Admitted, Holders, Flagged, Releasing
    <3> QED
      BY Zenon, <1>0, <3>1, StepCases, OwnerFrame, SubFrame, TaskFrame, PermitOwner, PermitSub, PermitTask
  <2> QED
    BY Zenon, <1>0, <2>1, BudgetMove
<1> QED
  BY Zenon, <1>1, <1>2, <1>3, <1>4 DEF ResourceInv

(* The invariant of the reply slots of a connection holds in every reachable state. *)
THEOREM SlotsResources == SlotsSpec => []ResourceInv
<1>1. SlotsInit => ResourceInv
  BY Zenon, ResourceInit
<1>2. ResourceInv /\ [SlotsNext]_rvars => ResourceInv'
  BY Zenon, ResourceStep
<1> QED
  BY <1>1, <1>2, PTL DEF SlotsSpec

(* However a lease ends (refused, discarded, completed, closed, or its future dropped) and in
   whichever order finish, discard and remove_closed race for its record, every job permit of
   the ReplyDeliveryBudget is left, held by a record, or on its way back, once. *)
THEOREM BudgetAlwaysConserved == SlotsSpec => []BudgetConserved
<1>1. ResourceInv => BudgetConserved
  BY Zenon DEF ResourceInv
<1> QED
  BY <1>1, SlotsResources, PTL

(* After close_and_reclaim no table entry and no ready record is left, and a record that still
   exists is being completed by the routine its own owner runs. *)
THEOREM NothingStaysAfterClose == SlotsSpec => []NothingHeldAfterClose
<1>1. ResourceInv => NothingHeldAfterClose
  <2> SUFFICES ASSUME ResourceInv, iopc = "exited"
               PROVE  /\ rready = <<>> /\ \A i \in Slots : rtable[i] = None
                      /\ \A l \in Holders : rsub[l].at # "none"
    BY Zenon DEF NothingHeldAfterClose
  <2>1. rready = <<>> /\ (\A i \in Slots : rtable[i] = None) /\ rsub[IO].at = "none"
    BY Zenon DEF ResourceInv, ControlInv, TaskInv, ExitInv
  <2>2. ASSUME NEW l \in Holders PROVE rsub[l].at # "none"
    <3>1. l \in Leases /\ Present(l) /\ rec[l].index \in Slots /\ l # None
      BY Zenon, PresentIndex, SlotsAssumption DEF Holders, Present, ResourceInv, ControlInv
    <3>2. \E t \in Threads : rsub[t].record = l /\ rsub[t].at \in {"publication", "recycle"}
      BY <2>1, <3>1 DEF ResourceInv, TableInv
    <3> QED
      BY Zenon, <2>1, <3>2 DEF Threads, ResourceInv, ControlInv, CallInv
  <2> QED
    BY Zenon, <2>1, <2>2
<1> QED
  BY <1>1, SlotsResources, PTL

(* So does the delivery invariant. *)
THEOREM SlotsDelivered == SlotsSpec => [](ResourceInv /\ DeliveryInv)
<1>1. SlotsInit => ResourceInv /\ DeliveryInv
  BY Zenon, ResourceInit, DeliveryInit
<1>2. ResourceInv /\ DeliveryInv /\ [SlotsNext]_rvars => (ResourceInv /\ DeliveryInv)'
  BY Zenon, ResourceStep, DeliveryStep
<1> QED
  BY <1>1, <1>2, PTL DEF SlotsSpec

(* The owner of an answered ask is told so after recycle_resources gave the permits and the
   index back, whoever ran it: a lease admitted right then does not find them taken. *)
THEOREM CompletionFollowsRelease == SlotsSpec => []CompletionAfterRelease
<1>1. ResourceInv /\ DeliveryInv => CompletionAfterRelease
  BY Zenon DEF DeliveryInv, CompletionInv, CompletionAfterRelease, Returning
<1> QED
  BY <1>1, SlotsDelivered, PTL

(* The first n numbers. *)
LEMMA IntervalCount ==
    ASSUME NEW n \in Nat
    PROVE  IsFiniteSet(1..n) /\ Cardinality(1..n) = n
  BY FS_Interval

(* A set whose elements have different places among the first n has at most n elements. *)
LEMMA PlacesBound ==
    ASSUME NEW S, IsFiniteSet(S), NEW n \in Nat, NEW f \in [S -> 1..n],
           \A x, y \in S : f[x] = f[y] => x = y
    PROVE  Cardinality(S) \in Nat /\ Cardinality(S) <= n
<1>1. IsFiniteSet(1..n) /\ Cardinality(1..n) = n
  BY Zenon, IntervalCount
<1>2. Cardinality(S) \in Nat
  BY Zenon, FS_CardinalityType
<1>3. ~(Cardinality(1..n) < Cardinality(S))
  <2> SUFFICES ASSUME Cardinality(1..n) < Cardinality(S) PROVE FALSE
    OBVIOUS
  <2>1. \E x, y \in S : x # y /\ f[x] = f[y]
    BY Zenon, <1>1, FS_PigeonHole
  <2> QED
    BY Zenon, <2>1
<1> QED
  BY <1>1, <1>2, <1>3

(* The ready set has room for every record that can be pushed. *)
LEMMA ReadyBound ==
    ASSUME ResourceInv, DeliveryInv
    PROVE  Len(rready) <= rplan.slots
<1>0. rready \in Seq(Leases) /\ Len(rready) \in Nat /\ rplan.slots \in Nat
  <2>1. rready \in Seq(Leases) /\ rplan \in LeaseScenarios
    BY Zenon DEF ResourceInv, ControlInv, SlotsType, PoolType
  <2> QED
    BY <2>1, SlotsAssumption, LenProperties
<1> DEFINE S == 1..Len(rready)
           f == [k \in S |-> rec[rready[k]].index]
<1>1. ASSUME NEW k \in S PROVE rready[k] \in Leases /\ rready[k] \in Holders /\ rec[rready[k]].index \in 1..rplan.slots
  <2>1. rready[k] \in Leases /\ InReady(rready[k])
    BY Zenon, <1>0, ElementOfSeq DEF InReady
  <2>2. rready[k] \in Holders
    BY Zenon, <2>1 DEF DeliveryInv, FlightInv, InFlight
  <2> QED
    BY Zenon, <2>1, <2>2, PresentIndex DEF Holders, Present, ResourceInv
<1>2. f \in [S -> 1..rplan.slots]
  BY Zenon, <1>1
<1>3. ASSUME NEW j \in S, NEW k \in S, f[j] = f[k] PROVE j = k
  <2>1. rec[rready[j]].index = rec[rready[k]].index
    BY Zenon, <1>3
  <2>2. rready[j] = rready[k]
    BY Zenon, <1>1, <2>1 DEF ResourceInv, IndexInv
  <2> QED
    BY Zenon, <2>2 DEF DeliveryInv, PlaceInv
<1>4. IsFiniteSet(S) /\ Cardinality(S) = Len(rready)
  BY Zenon, <1>0, IntervalCount
<1>5. Cardinality(S) <= rplan.slots
  <2> HIDE DEF S, f
  <2> QED
    BY Zenon, <1>0, <1>2, <1>3, <1>4, PlacesBound
<1> QED
  BY Zenon, <1>4, <1>5

(* Every slot index of an open connection is free once, held by one record, or in one
   recycle_resources call that returns it, and the ready set never exceeds the slots. *)
THEOREM SlotsAlwaysExclusive == SlotsSpec => []SlotsExclusive
<1>1. ResourceInv /\ DeliveryInv => SlotsExclusive
  <2> SUFFICES ASSUME ResourceInv, DeliveryInv PROVE SlotsExclusive
    OBVIOUS
  <2> DEFINE owners(i) == {l \in Holders : rec[l].index = i}
             back(i) == {t \in Returning : rec[rsub[t].record].index = i}
             free(i) == {k \in 1..Len(rfree) : rfree[k] = i}
  <2>1. Cardinality({}) = 0 /\ \A x : Cardinality({x}) = 1
    BY Zenon, FS_EmptySet, FS_Singleton
  <2>2. IndexInv
    BY Zenon DEF ResourceInv
  <2>3. ASSUME ~rclosed, NEW i \in 1..rplan.slots
        PROVE  Cardinality(owners(i)) + Cardinality(back(i)) + Cardinality(free(i)) = 1
    <3>1. ASSUME NEW l \in Holders, rec[l].index = i PROVE owners(i) = {l} /\ back(i) = {} /\ free(i) = {}
      BY <2>2, <3>1 DEF IndexInv, ReturnIndex
    <3>2. ASSUME NEW t \in Returning, ReturnIndex(t) = i PROVE owners(i) = {} /\ back(i) = {t} /\ free(i) = {}
      BY <2>2, <3>2 DEF IndexInv, ReturnIndex
    <3>3. ASSUME NEW k \in 1..Len(rfree), rfree[k] = i PROVE owners(i) = {} /\ back(i) = {} /\ free(i) = {k}
      BY <2>2, <3>3 DEF IndexInv, ReturnIndex
    <3>4. \/ \E l \in Holders : rec[l].index = i
          \/ \E t \in Returning : ReturnIndex(t) = i
          \/ \E k \in 1..Len(rfree) : rfree[k] = i
      BY Zenon, <2>2, <2>3 DEF IndexInv
    <3> HIDE DEF owners, back, free
    <3>5. \/ Cardinality(owners(i)) = 1 /\ Cardinality(back(i)) = 0 /\ Cardinality(free(i)) = 0
          \/ Cardinality(owners(i)) = 0 /\ Cardinality(back(i)) = 1 /\ Cardinality(free(i)) = 0
          \/ Cardinality(owners(i)) = 0 /\ Cardinality(back(i)) = 0 /\ Cardinality(free(i)) = 1
      BY Zenon, <2>1, <3>1, <3>2, <3>3, <3>4
    <3> QED
      BY <3>5
  <2> QED
    BY Zenon, <2>3, ReadyBound DEF SlotsExclusive
<1> QED
  BY <1>1, SlotsDelivered, PTL

(* A sequence whose frames are the first ones of another is a prefix of it. *)
LEMMA PrefixSeq ==
    ASSUME NEW s \in Seq(Frames), NEW w \in Seq(Frames), Len(s) <= Len(w),
           \A i \in 1..Len(s) : s[i] = w[i]
    PROVE  \E n \in 0..Len(w) : s = SubSeq(w, 1, n)
<1>1. Len(s) \in Nat /\ Len(w) \in Nat
  BY Zenon, LenProperties
<1>2. Len(s) \in 0..Len(w) /\ Len(s) \in Int /\ 1 \in Int
  BY <1>1
<1>3. \A i \in 1..Len(s) : w[i] \in Frames
  BY Zenon, ElementOfSeq
<1>4. /\ SubSeq(w, 1, Len(s)) \in Seq(Frames)
      /\ Len(SubSeq(w, 1, Len(s))) = IF 1 <= Len(s) THEN Len(s) - 1 + 1 ELSE 0
      /\ \A i \in 1..Len(s) - 1 + 1 : SubSeq(w, 1, Len(s))[i] = w[1 + i - 1]
  BY <1>2, <1>3, SubSeqProperties
<1>5. Len(SubSeq(w, 1, Len(s))) = Len(s)
  BY <1>1, <1>4
<1>6. \A i \in 1..Len(s) : SubSeq(w, 1, Len(s))[i] = s[i]
  BY <1>1, <1>4
<1>7. SubSeq(w, 1, Len(s)) = s
  BY Zenon, <1>4, <1>5, <1>6, SeqEqual
<1> QED
  BY Zenon, <1>2, <1>7

(* The frames of every reply are a prefix of a whole reply, or of the cancellation of one. *)
LEMMA ShapePrefix ==
    ASSUME NEW s \in Shapes, s \in Seq(Frames)
    PROVE  \E w \in WholeReplies : \E n \in 0..Len(w) : s = SubSeq(w, 1, n)
<1>0. BigFrames \in Nat /\ BigFrames - 1 \in Nat /\ {"last", "abort", "terminal"} \subseteq Frames /\ Len(s) \in Nat
  BY SlotsAssumption, LenProperties DEF Frames
<1>1. CASE s \in WholeReplies
  BY <1>0, <1>1, PrefixSeq
<1>2. ASSUME NEW n \in 0..BigFrames - 1, s = Parts(n)
      PROVE  \E w \in WholeReplies : \E k \in 0..Len(w) : s = SubSeq(w, 1, k)
  <2> DEFINE p == Parts(BigFrames - 1)
             w == Append(p, "last")
  <2>1. n \in Nat /\ n <= BigFrames - 1
    BY <1>0, <1>2
  <2>2. p \in Seq(Frames) /\ Len(p) = BigFrames - 1 /\ \A i \in 1..BigFrames - 1 : p[i] = "part"
    BY Zenon, <1>0, PartsSeq
  <2>3. w \in Seq(Frames) /\ Len(w) = BigFrames /\ \A i \in 1..BigFrames - 1 : w[i] = "part"
    <3>1. /\ w \in Seq(Frames) /\ Len(w) = Len(p) + 1
          /\ \A i \in 1..Len(p) : w[i] = p[i]
      BY <1>0, <2>2, AppendProperties
    <3> HIDE DEF w
    <3>2. Len(w) = BigFrames
      BY <1>0, <2>2, <3>1
    <3> QED
      BY Zenon, <2>2, <3>1, <3>2
  <2>4. Len(s) = n /\ \A i \in 1..n : s[i] = "part"
    BY Zenon, <1>2, <2>1, PartsSeq
  <2>5. w \in WholeReplies
    BY Zenon DEF WholeReplies
  <2> HIDE DEF w
  <2>6. Len(s) <= Len(w) /\ \A i \in 1..Len(s) : s[i] = w[i]
    BY <1>0, <2>1, <2>3, <2>4
  <2> QED
    BY Zenon, <2>3, <2>5, <2>6, PrefixSeq
<1>3. ASSUME NEW n \in 1..BigFrames - 1, s = Append(Parts(n), "abort")
      PROVE  \E w \in WholeReplies : \E k \in 0..Len(w) : s = SubSeq(w, 1, k)
  <2> DEFINE w == Append(s, "terminal")
  <2>1. w \in WholeReplies
    BY Zenon, <1>3 DEF WholeReplies
  <2>2. w \in Seq(Frames) /\ Len(w) = Len(s) + 1 /\ \A i \in 1..Len(s) : w[i] = s[i]
    BY <1>0, AppendProperties
  <2> HIDE DEF w
  <2>3. Len(s) <= Len(w)
    BY <1>0, <2>2
  <2> QED
    BY Zenon, <2>1, <2>2, <2>3, PrefixSeq
<1> QED
  BY Zenon, <1>1, <1>2, <1>3 DEF Shapes

(* What the peer reads of one reply is at every moment a prefix of the whole reply, of the
   cancellation alone, or of some parts, an abort and the cancellation: no frame is repeated,
   skipped or sent after the end, whenever the lease is cancelled. *)
THEOREM WireAlwaysShaped == SlotsSpec => []WireShape
<1>1. ResourceInv /\ DeliveryInv => WireShape
  <2>1. ASSUME ResourceInv, DeliveryInv, NEW l \in Leases PROVE rwire[l] \in Shapes /\ rwire[l] \in Seq(Frames)
    BY Zenon, <2>1 DEF ResourceInv, ControlInv, SlotsType, WriterType, DeliveryInv, WireInv
  <2> QED
    BY Zenon, <2>1, ShapePrefix DEF WireShape
<1> QED
  BY <1>1, SlotsDelivered, PTL
-----------------------------------------------------------------------------
(* Nothing the abstract delivery talks about moves. *)
LEMMA DeliverySame ==
    ASSUME Holders' = Holders, rused' = rused, rfence' = rfence, rwire' = rwire
    PROVE  UNCHANGED Delivery!dvars
<1>1. \A l \in Leases : AnswerOf(l)' = AnswerOf(l)
  BY Zenon DEF AnswerOf, LastFrame
<1> QED
  BY Zenon, <1>1 DEF Delivery!dvars

(* A reservation that gets a slot finds both limits unmet. *)
LEMMA GrantStep ==
    ASSUME ResourceInv, ResourceInv', NEW l \in Leases, OwnerMove(l), Reserve(l), rfree # <<>>
    PROVE  Delivery!Grant(l)
<1> DEFINE H == Holders \cup {l}
           f == [m \in H |-> rec'[m].index]
<1>0. /\ ControlInv /\ ControlInv' /\ IndexInv' /\ BudgetConserved
      /\ l \notin Holders /\ Holders' = H /\ Holders \subseteq Leases /\ H \subseteq Leases
  BY Zenon, ReserveEffect DEF ResourceInv, Holders
<1>1. /\ rplan' = rplan /\ rplan.slots \in 1..SlotCount /\ rplan.jobs \in 1..JobLimit /\ rjobs \in Nat
      /\ SlotCount \in Nat /\ JobLimit \in Nat
  <2>1. rplan \in LeaseScenarios
    BY Zenon, <1>0 DEF ControlInv, SlotsType, PoolType
  <2> QED
    BY Zenon, <1>0, <2>1, OwnerFrame, SlotsAssumption DEF ControlInv, SlotsType, PoolType
<1>2. IsFiniteSet(Holders) /\ IsFiniteSet(H) /\ Cardinality(Holders) \in Nat
  BY Zenon, <1>0, SlotsAssumption, FS_Subset, FS_CardinalityType
<1>3. Cardinality(H) = Cardinality(Holders) + 1
  BY Zenon, <1>0, <1>2, FS_AddElement
<1>4. Cardinality(H) <= rplan.slots
  <2>1. \A m \in H : rec'[m].index \in 1..rplan.slots
    BY Zenon, <1>0, <1>1 DEF ControlInv, RecordInv, Holders
  <2>2. \A m, k \in H : rec'[m].index = rec'[k].index => m = k
    BY Zenon, <1>0 DEF IndexInv
  <2>3. f \in [H -> 1..rplan.slots] /\ \A m, k \in H : f[m] = f[k] => m = k
    BY Zenon, <2>1, <2>2
  <2>4. rplan.slots \in Nat
    BY <1>1
  <2> HIDE DEF f, H
  <2> QED
    BY Zenon, <1>2, <2>3, <2>4, PlacesBound
<1>5. Cardinality(Holders) < rplan.jobs
  <2>1. l \in Admitted /\ Holders \subseteq Admitted
    BY Zenon DEF Reserve, OwnerAt, Admitted
  <2>2. IsFiniteSet(Admitted) /\ Cardinality(Admitted) \in Nat
    BY Zenon, <1>0, AdmittedFinite
  <2>3. Cardinality(Holders) <= Cardinality(Admitted) /\ Cardinality(Holders) # Cardinality(Admitted)
    BY Zenon, <1>0, <2>1, <2>2, FS_Subset
  <2> QED
    BY <1>0, <1>1, <1>2, <2>2, <2>3 DEF BudgetConserved
<1>6. Cardinality(Holders) < (IF SlotCount <= JobLimit THEN SlotCount ELSE JobLimit)
  BY <1>1, <1>2, <1>3, <1>4, <1>5
<1>7. rused' = rused /\ rfence' = rfence /\ rwire' = rwire
  BY Zenon, OwnerFrame DEF Reserve
<1>8. \A m \in Leases : AnswerOf(m)' = AnswerOf(m)
  BY Zenon, <1>7 DEF AnswerOf, LastFrame
<1>9. [m \in Leases |-> AnswerOf(m)]' = [m \in Leases |-> AnswerOf(m)]
  BY Zenon, <1>8
<1>10. Delivery!Cardinality(Holders) = Cardinality(Holders)
  BY Zenon DEF Cardinality, Delivery!Cardinality
<1> QED
  BY Zenon, <1>0, <1>6, <1>7, <1>9, <1>10 DEF Delivery!Grant

(* A claim that succeeds is one of a lease that holds a slot, or of a connection that is shut. *)
LEMMA ClaimAsk ==
    ASSUME ControlInv, DeliveryInv, NEW l \in Leases, OwnerMove(l), ClaimReply(l)
    PROVE  Delivery!Claim(l) \/ UNCHANGED Delivery!dvars
<1>1. rfence' = rfence /\ rwire' = rwire
  BY Zenon, OwnerFrame
<1>2. Holders' = Holders
  <2>1. ~Reserve(l)
    BY Zenon DEF Reserve, ClaimReply, OwnerAt
  <2> QED
    BY Zenon, <2>1, OwnerQuiet DEF Quiet
<1>3. CASE rused[AskOf[l]] # {}
  <2>1. rused' = rused
    BY Zenon, <1>3 DEF ClaimReply
  <2> QED
    BY Zenon, <1>1, <1>2, <2>1, DeliverySame
<1>4. CASE rused[AskOf[l]] = {}
  <2>1. rused' = [rused EXCEPT ![AskOf[l]] = {l}]
    BY Zenon, <1>4 DEF ClaimReply
  <2>2. l \in Holders \/ rfence
    <3>1. Pending(l)
      BY Zenon DEF ClaimReply, OwnerAt, Pending, Opening
    <3> QED
      BY Zenon, <3>1 DEF DeliveryInv, PendingInv, ControlInv, TaskInv, Shutting
  <2>3. \A m \in Leases : AnswerOf(m)' = AnswerOf(m)
    BY Zenon, <1>1 DEF AnswerOf, LastFrame
  <2> QED
    BY Zenon, <1>1, <1>2, <1>4, <2>1, <2>2, <2>3 DEF Delivery!Claim
<1> QED
  BY Zenon, <1>3, <1>4

(* A slot is released for a lease that was answered, or may not answer. *)
LEMMA ReleaseStep ==
    ASSUME ResourceInv, DeliveryInv, NEW t \in Threads, SubMove(t)
    PROVE  (\E l \in Leases : Delivery!Release(l)) \/ UNCHANGED Delivery!dvars
<1>0. ControlInv /\ \A l \in Leases : ClaimInv(l) /\ FlightInv(l)
  BY Zenon DEF ResourceInv, DeliveryInv
<1>1. rused' = rused /\ rfence' = rfence /\ rwire' = rwire
  BY Zenon, SubFrame
<1>2. CASE Holders' = Holders
  BY Zenon, <1>1, <1>2, DeliverySame
<1>3. CASE Holders' # Holders
  <2>1. PICK l \in Leases : l = rsub[t].record /\ l \in Holders /\ Holders' = Holders \ {l} /\ rsub[t].at # "none"
    <3>1. Recycle(t) /\ Holders' = Holders \ {rsub[t].record}
      BY Zenon, <1>0, <1>3, SubHolders
    <3> QED
      BY <1>0, <1>3, <3>1, RecycleEffect DEF Holders
  <2>2. Answered(l) \/ rused[AskOf[l]] # {l} \/ rfence
    <3>1. CASE t \in Leases
      BY Zenon, <1>0, <2>1, <3>1 DEF ControlInv, CallInv, RoutineInv, ClaimInv
    <3>2. CASE t = IO
      BY Zenon, <1>0, <2>1, <3>2 DEF ControlInv, TaskInv, RoutineInv, FlightInv
    <3> QED
      BY Zenon, <3>1, <3>2 DEF Threads
  <2>3. Answered(l) => AnswerOf(l) # "none"
    BY Zenon DEF Answered, AnswerOf
  <2>4. \A m \in Leases : AnswerOf(m)' = AnswerOf(m)
    BY Zenon, <1>1 DEF AnswerOf, LastFrame
  <2>5. Delivery!Release(l)
    BY Zenon, <1>1, <2>1, <2>2, <2>3, <2>4 DEF Delivery!Release
  <2> QED
    BY Zenon, <2>5
<1> QED
  BY Zenon, <1>2, <1>3

(* What was on the wire of the response being written answers nothing yet. *)
LEMMA NotAnswered ==
    ASSUME ControlInv, DeliveryInv, WriteEnd, NEW l \in Leases, l = rcur.lease
    PROVE  LastFrame(l) \in {"none", "part", "abort"}
<1>0. rcur # NoResponse /\ {"part", "abort"} \subseteq Frames /\ BigFrames \in Nat
  BY SlotsAssumption DEF WriteEnd, MayWrite, NoResponse, Frames
<1>1. CurShape
  BY Zenon, <1>0 DEF DeliveryInv, WireInv
<1>2. CASE rwire[l] = <<>>
  BY Zenon, <1>2 DEF LastFrame
<1>3. ASSUME NEW n \in Nat, rwire[l] = Parts(n), n # 0 PROVE LastFrame(l) = "part"
  <2>1. Len(Parts(n)) = n /\ Parts(n)[n] = "part" /\ Parts(n) # <<>>
    BY <1>3, PartsSeq, EmptySeq
  <2> QED
    BY Zenon, <1>3, <2>1 DEF LastFrame
<1>4. ASSUME NEW n \in Nat, rwire[l] = Append(Parts(n), "abort") PROVE LastFrame(l) = "abort"
  <2>1. Parts(n) \in Seq(Frames)
    BY Zenon, PartsSeq
  <2>2. rwire[l] # <<>> /\ rwire[l][Len(rwire[l])] = "abort"
    BY Zenon, <1>0, <1>4, <2>1, AppendedFrame
  <2> QED
    BY Zenon, <2>2 DEF LastFrame
<1>5. ASSUME NEW n \in Nat, rwire[l] = Parts(n) PROVE LastFrame(l) \in {"none", "part"}
  BY Zenon, <1>2, <1>3, <1>5, PartsNext DEF LastFrame
<1>6. \/ rwire[l] = <<>> \/ (\E n \in Nat : rwire[l] = Parts(n))
      \/ \E n \in Nat : rwire[l] = Append(Parts(n), "abort")
  <2>1. rcur.stage \in {"inline", "normal", "abort", "terminal"}
    BY Zenon DEF WriteEnd, MayWrite
  <2>2. 0..BigFrames - 1 \subseteq Nat /\ 1..BigFrames - 1 \subseteq Nat
    BY <1>0
  <2> QED
    BY Zenon, <1>1, <2>1, <2>2 DEF CurShape
<1> QED
  BY Zenon, <1>2, <1>4, <1>5, <1>6 DEF LastFrame

(* The end of a frame answers the ask, or is a step the abstract delivery does not see. *)
LEMMA AnswerStep ==
    ASSUME ResourceInv, DeliveryInv, WriteEnd
    PROVE  (\E l \in Leases : Delivery!Answer(l)) \/ UNCHANGED Delivery!dvars
<1> DEFINE frame == IF rcur.stage = "normal" THEN IF rcur.frame + 1 = BigFrames THEN "last" ELSE "part"
                    ELSE rcur.stage
<1>0. /\ ControlInv /\ rwire \in [Leases -> Seq(Frames)] /\ frame \in Frames
      /\ rcur.lease \in Leases /\ WireInv /\ TaskMove
  BY Zenon, WireEnd
     DEF ResourceInv, DeliveryInv, ControlInv, SlotsType, WriterType, Frames, WriteEnd, MayWrite, TaskMove
<1>1. PICK l \in Leases : l = rcur.lease
  BY Zenon, <1>0
<1>2. Holders' = Holders /\ rused' = rused /\ rfence' = rfence /\ ~rfence
  BY Zenon, <1>0, TaskFrame
     DEF Holders, Flagged, WriteEnd, MayWrite, IOAt, fenceVars, ControlInv, TaskInv, Shutting
<1>3. rwire' = [rwire EXCEPT ![l] = Append(rwire[l], frame)]
  BY Zenon, <1>1 DEF WriteEnd
<1>4. rwire'[l] # <<>> /\ rwire'[l][Len(rwire'[l])] = frame
  BY Zenon, <1>0, <1>3, AppendedFrame
<1>5. LastFrame(l)' = frame
  BY Zenon, <1>4 DEF LastFrame
<1>6. \A m \in Leases : m # l => LastFrame(m)' = LastFrame(m)
  BY Zenon, <1>0, <1>3 DEF LastFrame
<1>7. LastFrame(l) \in {"none", "part", "abort"}
  BY Zenon, <1>0, <1>1, NotAnswered
<1>8. l \in Holders /\ rused[AskOf[l]] = {l}
  BY Zenon, <1>1 DEF DeliveryInv, FlightInv, InFlight, Settled
<1> DEFINE Now == [m \in Leases |-> AnswerOf(m)]
           Then == [m \in Leases |-> AnswerOf(m)']
<1>9. Now[l] = "none" /\ Then[l] = (IF frame \in {"inline", "last"} THEN "normal"
                                     ELSE IF frame = "terminal" THEN "terminal" ELSE "none")
  BY Zenon, <1>5, <1>7 DEF AnswerOf
<1>10. \A m \in Leases : m # l => Then[m] = Now[m]
  BY Zenon, <1>6 DEF AnswerOf
<1>11. CASE frame \in {"part", "abort"}
  <2>1. Then = Now
    BY Zenon, <1>9, <1>10, <1>11
  <2> QED
    BY Zenon, <1>2, <2>1 DEF Delivery!dvars
<1>12. CASE frame \in {"inline", "last", "terminal"}
  <2>1. Then[l] \in {"normal", "terminal"}
    BY Zenon, <1>9, <1>12
  <2>2. Then = [Now EXCEPT ![l] = Then[l]]
    BY Zenon, <1>10
  <2>3. Delivery!Answer(l)
    BY Zenon, <1>2, <1>8, <1>9, <2>1, <2>2 DEF Delivery!Answer
  <2> QED
    BY Zenon, <2>3
<1> QED
  BY Zenon, <1>0, <1>11, <1>12 DEF Frames

(* Every step of the slots is one the abstract delivery allows, or one it does not see. *)
LEMMA SlotsRefine ==
    ASSUME ResourceInv, DeliveryInv, ResourceInv', [SlotsNext]_rvars
    PROVE  [Delivery!DeliveryNext]_(Delivery!dvars)
<1>0. ControlInv
  BY Zenon DEF ResourceInv
<1>1. ASSUME NEW l \in Leases, OwnerMove(l) PROVE [Delivery!DeliveryNext]_(Delivery!dvars)
  <2>1. CASE Reserve(l) /\ rfree # <<>>
    BY Zenon, <1>1, <2>1, GrantStep DEF Delivery!DeliveryNext
  <2>2. CASE ClaimReply(l)
    BY Zenon, <1>0, <1>1, <2>2, ClaimAsk DEF Delivery!DeliveryNext
  <2>3. CASE ~(Reserve(l) /\ rfree # <<>>) /\ ~ClaimReply(l)
    <3>1. Holders' = Holders /\ rused' = rused /\ rfence' = rfence /\ rwire' = rwire
      BY Zenon, <1>0, <1>1, <2>3, OwnerQuiet, OwnerEffects, OwnerFrame DEF Quiet
    <3> QED
      BY Zenon, <3>1, DeliverySame
  <2> QED
    BY Zenon, <2>1, <2>2, <2>3
<1>2. ASSUME NEW t \in Threads, SubMove(t) PROVE [Delivery!DeliveryNext]_(Delivery!dvars)
  BY Zenon, <1>2, ReleaseStep DEF Delivery!DeliveryNext
<1>3. ASSUME TaskMove PROVE [Delivery!DeliveryNext]_(Delivery!dvars)
  <2>1. CASE WriteEnd
    BY Zenon, <2>1, AnswerStep DEF Delivery!DeliveryNext
  <2>2. Holders' = Holders /\ rused' = rused
    BY Zenon, <1>3, TaskFrame DEF Holders, Flagged
  <2>3. CASE FenceSlots
    <3>1. rfence' = TRUE /\ rwire' = rwire
      BY Zenon, <2>3 DEF FenceSlots
    <3>2. \A m \in Leases : AnswerOf(m)' = AnswerOf(m)
      BY Zenon, <3>1 DEF AnswerOf, LastFrame
    <3>3. Delivery!Shut
      BY Zenon, <2>2, <3>1, <3>2 DEF Delivery!Shut
    <3> QED
      BY Zenon, <3>3 DEF Delivery!DeliveryNext
  <2>4. CASE NextResponse \/ WakeIO \/ ChooseStage \/ WritePart \/ Flush
    <3>1. rfence' = rfence /\ rwire' = rwire
      BY Zenon, <2>4 DEF NextResponse, WakeIO, ChooseStage, WritePart, Flush, fenceVars
    <3> QED
      BY Zenon, <2>2, <3>1, DeliverySame
  <2>5. CASE ExitIO \/ CloseSlots \/ Settle \/ DrainReady \/ Sweep
    <3>1. rfence' = rfence /\ rwire' = rwire
      BY Zenon, <2>5 DEF ExitIO, CloseSlots, Settle, DrainReady, Sweep, fenceVars
    <3> QED
      BY Zenon, <2>2, <3>1, DeliverySame
  <2> QED
    BY Zenon, <1>3, <2>1, <2>3, <2>4, <2>5 DEF TaskMove
<1>4. ASSUME UNCHANGED rvars PROVE [Delivery!DeliveryNext]_(Delivery!dvars)
  <2>1. Holders' = Holders /\ rused' = rused /\ rfence' = rfence /\ rwire' = rwire
    BY Zenon, <1>4 DEF rvars, ownerVars, fenceVars, ioVars, Holders, Flagged
  <2> QED
    BY Zenon, <2>1, DeliverySame
<1> QED
  BY Zenon, <1>1, <1>2, <1>3, <1>4, StepCases

(* The reply slots implement ReplyDelivery for any number of slots, permits and leases: at most
   the smaller of slots and jobs is held, an ask is claimed once, answered once and by its
   claimant while that holds a slot, and no slot returns before the answer is out, unless the
   lease may not answer or the connection is shut. *)
THEOREM SlotsImplementDelivery == SlotsSpec => ImplementsDelivery
<1>1. SlotsInit => Delivery!DeliveryInit
  <2> SUFFICES ASSUME SlotsInit PROVE Delivery!DeliveryInit
    OBVIOUS
  <2>1. Holders = {} /\ rused = [a \in Asks |-> {}] /\ rfence = FALSE
    BY Zenon DEF SlotsInit, Holders, NoRecord
  <2>2. \A l \in Leases : AnswerOf(l) = "none"
    BY Zenon DEF SlotsInit, AnswerOf, LastFrame
  <2> QED
    BY Zenon, <2>1, <2>2 DEF Delivery!DeliveryInit, Asks
<1>2. ResourceInv /\ DeliveryInv /\ ResourceInv' /\ [SlotsNext]_rvars => [Delivery!DeliveryNext]_(Delivery!dvars)
  BY Zenon, SlotsRefine
<1> QED
  BY <1>1, <1>2, SlotsDelivered, PTL DEF SlotsSpec, ImplementsDelivery, Delivery!DeliverySpec
=============================================================================
