-------------------------- MODULE ReplySlotsProofs --------------------------
(***************************************************************************)
(* The reply slots lose no index and no permit: the invariants behind      *)
(* BudgetConserved and NothingHeldAfterClose, and the part of              *)
(* SlotsExclusive that is about indices.  Then where the writer task has a *)
(* record: ready, yielded at a frame boundary, or being written.           *)
(***************************************************************************)
EXTENDS ReplySlotsTypes

(* A record that is recycled stays so. *)
LEMMA RecycledKept ==
    ASSUME ControlInv, [SlotsNext]_rvars, NEW l, Present(l), Flagged(l, "recycled")
    PROVE  "recycled" \in rec'[l].flags
<1>0. SlotsType /\ l \in Leases /\ "recycled" \in rec[l].flags
  BY Zenon DEF ControlInv, Present, Flagged
<1>1. ASSUME NEW m \in Leases, OwnerMove(m) PROVE "recycled" \in rec'[l].flags
  <2>1. CASE l # m
    BY Zenon, <1>0, <1>1, <2>1, OwnerRecord
  <2>2. CASE l = m /\ Reserve(m) /\ rfree # <<>>
    BY Zenon, <1>1, <2>2, ReserveEffect
  <2>3. CASE l = m /\ ~(Reserve(m) /\ rfree # <<>>)
    BY Zenon, <1>0, <1>1, <2>3, OwnerKeeps
  <2> QED
    BY Zenon, <2>1, <2>2, <2>3
<1>2. ASSUME NEW t \in Threads, rsub[t].at # "none", SubMove(t) PROVE "recycled" \in rec'[l].flags
  <2>1. rsub[t].record \in Leases
    BY Zenon, <1>2 DEF ControlInv, RoutineInv, Present
  <2> QED
    BY Zenon, <1>0, <1>2, <2>1, SubRecord
<1>3. ASSUME TaskMove PROVE "recycled" \in rec'[l].flags
  BY Zenon, <1>0, <1>3, TaskFrame
<1>4. ASSUME UNCHANGED rvars PROVE "recycled" \in rec'[l].flags
  BY Zenon, <1>0, <1>4 DEF rvars
<1> QED
  BY Zenon, <1>1, <1>2, <1>3, <1>4, StepCases

(* The order of a completion routine: it gives resources back only past its recycle. *)
LEMMA SubOrder ==
    ASSUME ControlInv, NEW t \in Threads, SubMove(t), rsub'[t].at \in {"release", "index", "complete"}
    PROVE  /\ rsub'[t].record = rsub[t].record
           /\ Recycle(t) \/ rsub[t].at \in {"release", "index"}
<1> USE DEF ControlInv, SlotsType, CallType, SubCall, NoSub, SubAt, SubGoto, SubDone
<1>1. CASE SubLoad(t) \/ SubSwap(t)
  BY <1>1 DEF SubLoad, SubSwap
<1>2. CASE ClosePublication(t) \/ Complete(t)
  BY <1>2 DEF ClosePublication, Complete
<1>3. CASE Recycle(t)
  BY Zenon, <1>3 DEF Recycle
<1>4. CASE ReleasePermits(t) \/ RecycleIndex(t)
  BY <1>4 DEF ReleasePermits, RecycleIndex
<1> QED
  BY Zenon, <1>1, <1>2, <1>3, <1>4 DEF SubMove

(* Resources are recycled once. *)
LEMMA RecycleStep ==
    ASSUME ControlInv, RecycleInv, [SlotsNext]_rvars
    PROVE  RecycleInv'
<1> DEFINE Past(t) == rsub'[t].at \in {"release", "index", "complete"}
<1>0. SlotsType /\ IO \notin Leases /\ Threads = Leases \cup {IO}
      /\ \A t \in Threads : rsub[t].at # "none" => Present(rsub[t].record)
  BY Zenon, SlotsAssumption DEF ControlInv, Threads, RoutineInv
<1>1. ASSUME NEW t \in Threads, Past(t) PROVE "recycled" \in rec'[rsub'[t].record].flags
  <2>1. CASE rsub'[t] = rsub[t]
    BY Zenon, <1>0, <1>1, <2>1, RecycledKept DEF RecycleInv
  <2>2. CASE SubMove(t)
    <3>1. CASE Recycle(t)
      BY Zenon, <1>1, <2>2, <3>1, RecycleEffect, SubOrder
    <3>2. CASE rsub[t].at \in {"release", "index"}
      <4>1. Present(rsub[t].record) /\ Flagged(rsub[t].record, "recycled")
        BY Zenon, <1>0, <3>2 DEF RecycleInv
      <4> QED
        BY Zenon, <1>1, <2>2, <4>1, SubOrder, RecycledKept
    <3> QED
      BY Zenon, <1>1, <2>2, <3>1, <3>2, SubOrder
  <2>3. rsub'[t] = rsub[t] \/ SubMove(t)
    <3>1. ASSUME NEW l \in Leases, OwnerMove(l) PROVE rsub'[t] = rsub[t]
      BY Zenon, <1>0, <1>1, <3>1, OwnerLocal
    <3>2. ASSUME NEW u \in Threads, SubMove(u), u # t PROVE rsub'[t] = rsub[t]
      BY Zenon, <1>0, <3>2, SubLocal
    <3>3. ASSUME TaskMove PROVE rsub'[t] = rsub[t]
      <4>1. rcur # NoResponse => rcur.lease \in Leases
        BY Zenon DEF ControlInv, PresentInv, Present
      <4> QED
        BY Zenon, <1>0, <1>1, <3>3, <4>1, TaskLocal
    <3>4. ASSUME UNCHANGED rvars PROVE rsub'[t] = rsub[t]
      BY Zenon, <3>4 DEF rvars
    <3> QED
      BY Zenon, <3>1, <3>2, <3>3, <3>4, StepCases
  <2> QED
    BY Zenon, <2>1, <2>2, <2>3
<1> DEFINE Back(t) == rsub'[t].at \in {"release", "index"}
<1>2. \A t, u \in Threads : Back(t) /\ Back(u) /\ rsub'[t].record = rsub'[u].record => t = u
  <2> DEFINE Was(t) == rsub[t].at \in {"release", "index"}
  <2>0. \A t, u \in Threads : Was(t) /\ Was(u) /\ rsub[t].record = rsub[u].record => t = u
    BY Zenon DEF RecycleInv, Returning
  <2>1. ASSUME NEW l \in Leases, OwnerMove(l), Reserve(l), rfree # <<>> PROVE rsub' = rsub
    BY Zenon, <2>1, ReserveEffect
  <2>2. ASSUME NEW s \in Threads, SubMove(s), Recycle(s), ~Flagged(rsub[s].record, "recycled")
        PROVE  \A t, u \in Threads : Back(t) /\ Back(u) /\ rsub'[t].record = rsub'[u].record => t = u
    <3>1. \A t \in Threads : rsub[t].at \in {"release", "index"} => rsub[t].record # rsub[s].record
      BY Zenon, <2>2 DEF RecycleInv
    <3>2. (\A u \in Threads \ {s} : rsub'[u] = rsub[u]) /\ rsub'[s].record = rsub[s].record
      <4>1. rsub[s] \in SubCall
        BY Zenon, <1>0 DEF SlotsType, CallType
      <4>2. (\A u \in Threads \ {s} : rsub'[u] = rsub[u]) /\ rsub'[s] = [rsub[s] EXCEPT !.at = "release"]
        BY Zenon, <2>2, RecycleEffect
      <4> QED
        BY Zenon, <4>1, <4>2 DEF SubCall
    <3> QED
      BY <2>0, <3>1, <3>2
  <2>3. ASSUME NEW s \in Threads, SubMove(s), RecycleIndex(s)
        PROVE  \A t, u \in Threads : Back(t) /\ Back(u) /\ rsub'[t].record = rsub'[u].record => t = u
    <3>1. (\A u \in Threads \ {s} : rsub'[u] = rsub[u]) /\ ~Back(s)
      <4>1. rsub[s] \in SubCall
        BY Zenon, <1>0 DEF SlotsType, CallType
      <4>2. (\A u \in Threads \ {s} : rsub'[u] = rsub[u]) /\ rsub'[s] = [rsub[s] EXCEPT !.at = "complete"]
        BY Zenon, <2>3, RecycleIndexEffect
      <4> QED
        BY Zenon, <4>1, <4>2 DEF SubCall
    <3> QED
      BY Zenon, <2>0, <3>1
  <2>4. ASSUME Quiet
        PROVE  \A t, u \in Threads : Back(t) /\ Back(u) /\ rsub'[t].record = rsub'[u].record => t = u
    <3>1. \A t \in Threads : Back(t) => rsub[t].at \in {"release", "index"} /\ rsub'[t].record = rsub[t].record
      BY Zenon, <2>4 DEF Quiet, Returning
    <3> QED
      BY Zenon, <2>0, <3>1
  <2> QED
    BY Zenon, <2>0, <2>1, <2>2, <2>3, <2>4, IndexCases
<1> QED
  BY Zenon, <1>1, <1>2 DEF RecycleInv, Returning, Flagged

(* Slot indices stay exclusive and none is lost. *)
LEMMA IndexStep ==
    ASSUME ControlInv, RecycleInv, IndexInv, [SlotsNext]_rvars
    PROVE  IndexInv'
<1>0. /\ \A t \in Returning : Present(rsub[t].record) /\ rsub[t].record \in Leases
      /\ \A l \in Holders : l \in Leases /\ Present(l)
      /\ Len(rfree) \in Nat
  BY DEF ControlInv, RoutineInv, Returning, Present, Holders, SlotsType, PoolType
<1>1. rplan' = rplan /\ (~rclosed' => ~rclosed)
  <2>1. ASSUME TaskMove PROVE rclosed => rclosed'
    <3>1. CASE NextResponse \/ WakeIO \/ ChooseStage \/ WritePart \/ WriteEnd \/ Flush
      BY Zenon, <3>1 DEF NextResponse, WakeIO, ChooseStage, WritePart, WriteEnd, Flush, fenceVars
    <3>2. CASE ExitIO \/ FenceSlots \/ CloseSlots \/ Settle \/ DrainReady \/ Sweep
      BY Zenon, <3>2 DEF ExitIO, FenceSlots, CloseSlots, Settle, DrainReady, Sweep, fenceVars
    <3> QED
      BY Zenon, <2>1, <3>1, <3>2 DEF TaskMove
  <2>2. ASSUME UNCHANGED rvars PROVE rclosed' = rclosed /\ rplan' = rplan
    BY Zenon, <2>2 DEF rvars, fenceVars
  <2> QED
    BY <2>1, <2>2, StepCases, OwnerFrame, SubFrame, TaskFrame
<1>2. ASSUME NEW l \in Leases, OwnerMove(l), Reserve(l), rfree # <<>> PROVE IndexInv'
  <2>1. /\ l \notin Holders /\ Holders' = Holders \cup {l} /\ Returning' = Returning
        /\ \A h \in Holders : rec'[h].index = rec[h].index
        /\ \A t \in Returning : ReturnIndex(t)' = ReturnIndex(t)
        /\ rec'[l].index = rfree[1]
    <3>1. /\ l \notin Holders /\ Holders' = Holders \cup {l} /\ rsub' = rsub /\ rec'[l].index = rfree[1]
          /\ \A m \in Leases \ {l} : rec'[m] = rec[m]
      BY Zenon, <1>2, ReserveEffect
    <3>2. \A t \in Returning : rsub[t].record # l
      BY Zenon, <1>2, ReserveEffect DEF Returning
    <3> QED
      BY Zenon, <1>0, <3>1, <3>2 DEF Returning, ReturnIndex
  <2>2. /\ Len(rfree) \in Nat \ {0} /\ Len(rfree') = Len(rfree) - 1
        /\ \A k \in 1..Len(rfree') : rfree'[k] = rfree[k + 1]
    BY Zenon, <1>2, ReserveEffect
  <2>3. 1 \in 1..Len(rfree) /\ \A k \in 1..Len(rfree') : k + 1 \in 1..Len(rfree) /\ k + 1 # 1
    BY <2>2
  <2>4. \A k \in 1..Len(rfree) : k = 1 \/ (k - 1 \in 1..Len(rfree') /\ rfree'[k - 1] = rfree[k])
    BY <2>2
  <2>5. \A j, k \in 1..Len(rfree') : rfree'[j] = rfree'[k] => j = k
    BY <2>2, <2>3 DEF IndexInv
  <2>6. /\ \A h, m \in Holders' : rec'[h].index = rec'[m].index => h = m
        /\ \A t, u \in Returning' : ReturnIndex(t)' = ReturnIndex(u)' => t = u
        /\ \A h \in Holders' : \A t \in Returning' : rec'[h].index # ReturnIndex(t)'
    BY <2>1, <2>3 DEF IndexInv
  <2>7. \A k \in 1..Len(rfree') : /\ \A h \in Holders' : rec'[h].index # rfree'[k]
                                  /\ \A t \in Returning' : ReturnIndex(t)' # rfree'[k]
    <3> SUFFICES ASSUME NEW k \in 1..Len(rfree')
                 PROVE  /\ \A h \in Holders' : rec'[h].index # rfree'[k]
                        /\ \A t \in Returning' : ReturnIndex(t)' # rfree'[k]
      OBVIOUS
    <3>1. rfree'[k] = rfree[k + 1] /\ k + 1 \in 1..Len(rfree) /\ k + 1 # 1
      BY Zenon, <2>2, <2>3
    <3>2. rfree[k + 1] # rfree[1]
      BY Zenon, <2>3, <3>1 DEF IndexInv
    <3>3. \A t \in Returning : ReturnIndex(t) # rfree[k + 1]
      BY Zenon, <3>1 DEF IndexInv
    <3>4. \A h \in Holders : rec[h].index # rfree[k + 1]
      BY Zenon, <3>1 DEF IndexInv
    <3> QED
      BY Zenon, <2>1, <3>1, <3>2, <3>3, <3>4
  <2>8. ASSUME ~rclosed', NEW i \in 1..rplan.slots
        PROVE  \/ \E h \in Holders' : rec'[h].index = i
               \/ \E t \in Returning' : ReturnIndex(t)' = i
               \/ \E k \in 1..Len(rfree') : rfree'[k] = i
    <3>1. \/ \E h \in Holders : rec[h].index = i
          \/ \E t \in Returning : ReturnIndex(t) = i
          \/ \E k \in 1..Len(rfree) : rfree[k] = i
      BY Zenon, <1>1, <2>8 DEF IndexInv
    <3>2. ASSUME NEW k \in 1..Len(rfree), rfree[k] = i
          PROVE  (\E h \in Holders' : rec'[h].index = i) \/ (\E j \in 1..Len(rfree') : rfree'[j] = i)
      <4>1. CASE k = 1
        BY Zenon, <2>1, <3>2, <4>1
      <4>2. CASE k - 1 \in 1..Len(rfree') /\ rfree'[k - 1] = rfree[k]
        BY Zenon, <3>2, <4>2
      <4> QED
        BY Zenon, <2>4, <4>1, <4>2
    <3>3. ASSUME NEW h \in Holders, rec[h].index = i PROVE \E m \in Holders' : rec'[m].index = i
      BY Zenon, <2>1, <3>3
    <3>4. ASSUME NEW t \in Returning, ReturnIndex(t) = i PROVE \E u \in Returning' : ReturnIndex(u)' = i
      BY Zenon, <2>1, <3>4
    <3> QED
      BY Zenon, <3>1, <3>2, <3>3, <3>4
  <2> QED
    BY Zenon, <1>1, <2>5, <2>6, <2>7, <2>8 DEF IndexInv
<1>3. ASSUME NEW s \in Threads, SubMove(s), Recycle(s), ~Flagged(rsub[s].record, "recycled") PROVE IndexInv'
  <2> DEFINE l == rsub[s].record
  <2>1. /\ l \in Holders /\ Holders' = Holders \ {l} /\ rfree' = rfree /\ rsub[s].at = "recycle"
        /\ \A h \in Leases : rec'[h].index = rec[h].index
        /\ \A u \in Threads \ {s} : rsub'[u] = rsub[u]
        /\ rsub'[s] = [rsub[s] EXCEPT !.at = "release"]
    BY Zenon, <1>3, RecycleEffect
  <2>2. rsub[s] \in SubCall
    BY Zenon DEF ControlInv, SlotsType, CallType
  <2>3. rsub'[s].at = "release" /\ rsub'[s].record = l
    BY Zenon, <2>1, <2>2 DEF SubCall
  <2>4. /\ Returning' = Returning \cup {s} /\ s \notin Returning
        /\ \A t \in Returning : ReturnIndex(t)' = ReturnIndex(t)
        /\ ReturnIndex(s)' = rec[l].index
    BY Zenon, <1>0, <2>1, <2>3 DEF Returning, ReturnIndex
  <2>5. \A h \in Holders : rec'[h].index = rec[h].index
    BY Zenon, <1>0, <2>1
  <2> HIDE DEF l
  <2> QED
    BY <1>1, <2>1, <2>4, <2>5 DEF IndexInv
<1>4. ASSUME NEW s \in Threads, SubMove(s), RecycleIndex(s) PROVE IndexInv'
  <2>1. /\ rec' = rec /\ \A u \in Threads \ {s} : rsub'[u] = rsub[u]
        /\ rsub[s].at = "index" /\ rsub'[s] = [rsub[s] EXCEPT !.at = "complete"]
    BY Zenon, <1>4, RecycleIndexEffect
  <2>2. rsub[s] \in SubCall
    BY Zenon DEF ControlInv, SlotsType, CallType
  <2>3. rsub'[s].at = "complete"
    BY Zenon, <2>1, <2>2 DEF SubCall
  <2>4. /\ Returning' = Returning \ {s} /\ s \in Returning /\ Holders' = Holders
        /\ \A t \in Returning' : ReturnIndex(t)' = ReturnIndex(t)
    BY Zenon, <2>1, <2>3 DEF Returning, ReturnIndex, Holders, Flagged
  <2>5. CASE rclosed
    <3>1. rfree' = rfree /\ rclosed'
      BY Zenon, <1>4, <2>5, RecycleIndexEffect
    <3> QED
      BY <2>1, <2>4, <3>1 DEF IndexInv
  <2>6. CASE ~rclosed
    <3>1. /\ Len(rfree') = Len(rfree) + 1
          /\ \A k \in 1..Len(rfree) : rfree'[k] = rfree[k]
          /\ rfree'[Len(rfree) + 1] = ReturnIndex(s)
      BY Zenon, <1>4, <2>6, RecycleIndexEffect
    <3>2. /\ \A k \in 1..Len(rfree') : k \in 1..Len(rfree) \/ k = Len(rfree) + 1
          /\ \A k \in 1..Len(rfree) : k \in 1..Len(rfree')
          /\ Len(rfree) + 1 \in 1..Len(rfree')
      BY <1>0, <3>1
    <3>3. \A j, k \in 1..Len(rfree') : rfree'[j] = rfree'[k] => j = k
      BY <2>4, <3>1, <3>2 DEF IndexInv
    <3> QED
      BY <1>1, <2>1, <2>4, <2>6, <3>1, <3>2, <3>3 DEF IndexInv
  <2> QED
    BY Zenon, <2>5, <2>6
<1>5. ASSUME Quiet PROVE IndexInv'
  <2>1. /\ Holders' = Holders /\ rfree' = rfree /\ Returning' = Returning
        /\ \A t \in Returning : rsub'[t].record = rsub[t].record
        /\ \A h \in Holders : rec'[h].index = rec[h].index
    BY Zenon, <1>0, <1>5 DEF Quiet, Returning
  <2>2. \A t \in Returning : ReturnIndex(t)' = ReturnIndex(t)
    BY Zenon, <1>0, <1>5, <2>1 DEF Quiet, ReturnIndex
  <2> QED
    BY <1>1, <2>1, <2>2 DEF IndexInv
<1> QED
  BY Zenon, <1>2, <1>3, <1>4, <1>5, IndexCases

(* A step that leaves the table and the holders as they are, and starts or ends no routine
   past its swap, keeps the table's invariant. *)
LEMMA TableKept ==
    ASSUME ControlInv, TableInv, Holders' = Holders, rtable' = rtable,
           \A l \in Leases : Present(l) => rec'[l].index = rec[l].index,
           \A t \in Threads : rsub'[t] = rsub[t] \/ (rsub[t].at \in {"none", "load"} /\ rsub'[t].at \in {"none", "load"})
    PROVE  TableInv'
<1>0. /\ \A l \in Holders : l \in Leases /\ Present(l)
      /\ \A t \in Threads : rsub[t].at # "none" => rsub[t].record \in Leases /\ Present(rsub[t].record)
  BY Zenon DEF ControlInv, RoutineInv, Present, Holders
<1>1. \A i \in Slots : rtable'[i] # None => rtable'[i] \in Holders' /\ rec'[rtable'[i]].index = i
  BY <1>0 DEF TableInv
<1>2. \A t \in Threads : rsub'[t].at \in Removed => rtable'[rec'[rsub'[t].record].index] # rsub'[t].record
  BY <1>0 DEF TableInv, Removed
<1>3. \A l \in Holders' : \/ rtable'[rec'[l].index] = l
                          \/ \E t \in Threads : rsub'[t].record = l /\ rsub'[t].at \in {"publication", "recycle"}
  BY <1>0 DEF TableInv
<1> QED
  BY Zenon, <1>1, <1>2, <1>3 DEF TableInv

(* Reserve keeps the table's invariant. *)
LEMMA TableReserve ==
    ASSUME ControlInv, TableInv, IndexInv, NEW l \in Leases, OwnerMove(l), Reserve(l), rfree # <<>>
    PROVE  TableInv'
<1> DEFINE f == rfree[1]
<1>0. /\ \A h \in Holders : h \in Leases /\ Present(h)
      /\ \A t \in Threads : rsub[t].at # "none" => rsub[t].record \in Leases
      /\ rtable \in [Slots -> Leases \cup {None}] /\ None \notin Leases
  BY Zenon, SlotsAssumption DEF ControlInv, RoutineInv, Present, Holders, SlotsType, PoolType
<1>1. /\ l \notin Holders /\ Holders' = Holders \cup {l} /\ rsub' = rsub
      /\ \A t \in Threads : rsub[t].at # "none" => rsub[t].record # l
      /\ rec'[l].index = f /\ \A m \in Leases \ {l} : rec'[m] = rec[m]
      /\ f \in Slots /\ rtable' = [rtable EXCEPT ![f] = l]
  BY Zenon, ReserveEffect
<1>2. \A h \in Holders : rec[h].index # f
  <2>1. 1 \in 1..Len(rfree)
    BY ReserveEffect
  <2> QED
    BY Zenon, <2>1 DEF IndexInv
<1> HIDE DEF f
<1>3. \A i \in Slots : rtable'[i] # None => rtable'[i] \in Holders' /\ rec'[rtable'[i]].index = i
  BY <1>0, <1>1 DEF TableInv
<1>4. \A t \in Threads : rsub'[t].at \in Removed => rtable'[rec'[rsub'[t].record].index] # rsub'[t].record
  <2> SUFFICES ASSUME NEW t \in Threads, rsub[t].at \in Removed
               PROVE  rtable'[rec[rsub[t].record].index] # rsub[t].record
    BY Zenon, <1>0, <1>1 DEF Removed
  <2>1. rec[rsub[t].record].index \in Slots /\ rsub[t].record # l
    BY Zenon, <1>1, PresentIndex DEF ControlInv, RoutineInv, Removed
  <2> QED
    BY Zenon, <1>0, <1>1, <2>1 DEF TableInv
<1>5. \A h \in Holders' : \/ rtable'[rec'[h].index] = h
                          \/ \E t \in Threads : rsub'[t].record = h /\ rsub'[t].at \in {"publication", "recycle"}
  <2>1. rtable'[rec'[l].index] = l
    BY Zenon, <1>0, <1>1
  <2>2. ASSUME NEW h \in Holders
        PROVE  \/ rtable'[rec'[h].index] = h
               \/ \E t \in Threads : rsub'[t].record = h /\ rsub'[t].at \in {"publication", "recycle"}
    <3>1. rec[h].index \in Slots /\ rec'[h].index = rec[h].index
      BY Zenon, <1>0, <1>1, PresentIndex
    <3>2. rtable'[rec'[h].index] = rtable[rec[h].index]
      BY Zenon, <1>0, <1>1, <1>2, <3>1
    <3> QED
      BY Zenon, <1>1, <3>2 DEF TableInv
  <2> QED
    BY Zenon, <1>1, <2>1, <2>2
<1> QED
  BY Zenon, <1>3, <1>4, <1>5 DEF TableInv

(* A completion routine keeps the table's invariant. *)
LEMMA TableSub ==
    ASSUME ControlInv, RecycleInv, TableInv, NEW t \in Threads, SubMove(t)
    PROVE  TableInv'
<1> DEFINE l == rsub[t].record
           i == rec[l].index
<1>0. /\ \A h \in Holders : h \in Leases /\ Present(h)
      /\ \A u \in Threads : rsub[u].at # "none" => rsub[u].record \in Leases /\ Present(rsub[u].record)
      /\ rtable \in [Slots -> Leases \cup {None}] /\ None \notin Leases /\ SlotsType
      /\ rsub[t].at # "none" /\ rsub \in [Threads -> SubCall]
  BY Zenon, SlotsAssumption, SubLocal
     DEF ControlInv, RoutineInv, Present, Holders, SlotsType, PoolType, CallType
<1>1. l \in Leases /\ i \in Slots
  BY Zenon, <1>0, PresentIndex
<1>2. /\ \A m \in Leases : rec'[m].index = rec[m].index
      /\ \A u \in Threads \ {t} : rsub'[u] = rsub[u]
      /\ rsub'[t] = NoSub \/ rsub'[t].record = l
  BY Zenon, <1>0, <1>1, SubRecord, SubLocal
<1>3. /\ Holders' = IF rsub[t].at = "recycle" THEN Holders \ {l} ELSE Holders
      /\ rsub[t].at \in {"swap", "publication", "recycle", "release", "index"} => rsub'[t].record = l
      /\ rsub[t].at = "swap" => rtable' = [rtable EXCEPT ![i] = IF @ = l THEN None ELSE @]
      /\ rsub[t].at # "swap" => rtable' = rtable
      /\ rsub[t].at = "load" => rsub'[t].at \in {"none", "swap"}
      /\ rsub[t].at = "swap" => rsub'[t].at \in {"publication", "recycle"}
      /\ rsub[t].at = "publication" => rsub'[t].at = "recycle"
      /\ rsub[t].at \in {"recycle", "release", "index"} => rsub'[t].at \in Removed
      /\ rsub[t].at = "complete" => rsub'[t].at = "none"
  <2> USE DEF SubAt, SubGoto, SubDone, NoSub, Removed, SubCall
  <2>1. CASE Recycle(t)
    <3>1. /\ rsub[t].at = "recycle" /\ Holders' = Holders \ {l} /\ rtable' = rtable
          /\ rsub'[t] = [rsub[t] EXCEPT !.at = IF Flagged(l, "recycled") THEN "complete" ELSE "release"]
      BY Zenon, <2>1, RecycleEffect
    <3>2. rsub'[t].at \in {"complete", "release"} /\ rsub'[t].record = l
      BY Zenon, <1>0, <3>1
    <3> QED
      BY Zenon, <3>1, <3>2
  <2>2. ~Recycle(t) => Holders' = Holders
    <3>1. CASE RecycleIndex(t)
      BY Zenon, <3>1, RecycleIndexEffect DEF Holders, Flagged
    <3> QED
      BY Zenon, <3>1, SubQuiet DEF Quiet
  <2>3. CASE SubLoad(t)
    BY <1>0, <2>2, <2>3 DEF SubLoad, slotVars, Recycle
  <2>4. CASE SubSwap(t)
    BY Zenon, <1>0, <2>2, <2>4 DEF SubSwap, Recycle
  <2>5. CASE ClosePublication(t) \/ Complete(t)
    BY <1>0, <2>2, <2>5 DEF ClosePublication, Complete, slotVars, Recycle
  <2>6. CASE ReleasePermits(t)
    <3>1. rsub[t].at = "release" /\ rtable[i] # l
      BY Zenon, <2>6 DEF ReleasePermits, TableInv
    <3>2. rtable' = [rtable EXCEPT ![i] = IF @ = l THEN None ELSE @]
      BY Zenon, <2>6 DEF ReleasePermits
    <3>3. rtable' = rtable
      <4> HIDE DEF i
      <4> QED BY Zenon, <1>0, <1>1, <3>1, <3>2
    <3> QED
      BY Zenon, <1>0, <2>2, <2>6, <3>1, <3>3 DEF ReleasePermits, Recycle
  <2>7. CASE RecycleIndex(t)
    BY Zenon, <1>0, <2>2, <2>7 DEF RecycleIndex, Recycle
  <2> QED
    BY Zenon, <2>1, <2>3, <2>4, <2>5, <2>6, <2>7 DEF SubMove
<1>4. rsub[t].at \in Removed => rtable[i] # l
  BY Zenon DEF TableInv
<1>5. rsub[t].at \in {"release", "index", "complete"} => l \notin Holders
  BY Zenon DEF RecycleInv, Holders
<1> HIDE DEF l, i
<1>6. rtable' \in [Slots -> Leases \cup {None}] /\ \A j \in Slots : rtable'[j] \in {rtable[j], None}
  BY Zenon, <1>0, <1>1, <1>3
<1>7. \A j \in Slots : rtable'[j] # None => rtable'[j] \in Holders' /\ rec'[rtable'[j]].index = j
  <2> SUFFICES ASSUME NEW j \in Slots, rtable'[j] # None
               PROVE  rtable'[j] \in Holders' /\ rec'[rtable'[j]].index = j
    OBVIOUS
  <2>1. rtable'[j] = rtable[j] /\ rtable[j] \in Holders /\ rec[rtable[j]].index = j
    BY Zenon, <1>6 DEF TableInv
  <2>2. rsub[t].at = "recycle" => rtable[j] # l
    BY Zenon, <1>4, <2>1 DEF Removed, i
  <2> QED
    BY Zenon, <1>0, <1>2, <1>3, <2>1, <2>2
<1>8. \A u \in Threads : rsub'[u].at \in Removed => rtable'[rec'[rsub'[u].record].index] # rsub'[u].record
  <2>1. ASSUME NEW u \in Threads \ {t}, rsub'[u].at \in Removed
        PROVE  rtable'[rec'[rsub'[u].record].index] # rsub'[u].record
    <3>1. rsub'[u] = rsub[u] /\ rsub[u].record \in Leases /\ rec[rsub[u].record].index \in Slots
      BY Zenon, <1>0, <1>2, <2>1, PresentIndex DEF Removed
    <3>2. rtable[rec[rsub[u].record].index] # rsub[u].record
      BY Zenon, <2>1, <3>1 DEF TableInv
    <3> QED
      BY <1>0, <1>2, <1>6, <3>1, <3>2
  <2>2. ASSUME rsub'[t].at \in Removed PROVE rsub'[t].record = l /\ rtable'[i] # l
    <3>1. CASE rsub[t].at = "swap"
      BY Zenon, <1>0, <1>1, <1>3, <3>1
    <3>2. CASE rsub[t].at \in {"publication", "recycle", "release", "index"}
      BY Zenon, <1>3, <1>4, <3>2 DEF Removed
    <3>3. CASE rsub[t].at \in {"load", "complete"}
      BY Zenon, <1>3, <2>2, <3>3 DEF Removed
    <3>4. rsub[t].at \in {"load", "swap", "publication", "recycle", "release", "index", "complete"}
      BY Zenon, <1>0 DEF SubCall
    <3> QED
      BY Zenon, <3>1, <3>2, <3>3, <3>4
  <2>3. rec'[l].index = i
    BY Zenon, <1>1, <1>2 DEF i
  <2> QED
    BY Zenon, <2>1, <2>2, <2>3
<1>9. \A h \in Holders' : \/ rtable'[rec'[h].index] = h
                          \/ \E u \in Threads : rsub'[u].record = h /\ rsub'[u].at \in {"publication", "recycle"}
  <2> SUFFICES ASSUME NEW h \in Holders'
               PROVE  \/ rtable'[rec'[h].index] = h
                      \/ \E u \in Threads : rsub'[u].record = h /\ rsub'[u].at \in {"publication", "recycle"}
    OBVIOUS
  <2>1. h \in Holders /\ h \in Leases /\ rec'[h].index = rec[h].index /\ rec[h].index \in Slots
    BY Zenon, <1>0, <1>2, <1>3, PresentIndex
  <2>2. \/ rtable[rec[h].index] = h
        \/ \E u \in Threads : rsub[u].record = h /\ rsub[u].at \in {"publication", "recycle"}
    BY Zenon, <2>1 DEF TableInv
  <2>3. CASE h # l
    <3>1. rtable[rec[h].index] = h => rtable'[rec[h].index] = h
      BY Zenon, <1>0, <1>1, <1>3, <2>1, <2>3
    <3>2. \A u \in Threads : rsub[u].record = h => rsub'[u] = rsub[u]
      BY Zenon, <1>2, <2>3 DEF l
    <3> QED
      BY Zenon, <2>1, <2>2, <3>1, <3>2
  <2>4. CASE h = l
    <3>1. CASE rsub[t].at \in {"swap", "publication"}
      BY Zenon, <1>3, <2>4, <3>1
    <3>2. CASE rsub[t].at = "load"
      <4>1. rtable' = rtable
        BY Zenon, <1>3, <3>2
      <4>2. \A u \in Threads : rsub[u].at \in {"publication", "recycle"} => rsub'[u] = rsub[u]
        BY Zenon, <1>2, <3>2
      <4> QED
        BY Zenon, <2>1, <2>2, <4>1, <4>2
    <3>3. rsub[t].at \notin {"recycle", "release", "index", "complete"}
      BY Zenon, <1>3, <1>5, <2>1, <2>4
    <3>4. rsub[t].at \in {"load", "swap", "publication", "recycle", "release", "index", "complete"}
      BY Zenon, <1>0 DEF SubCall
    <3> QED
      BY Zenon, <3>1, <3>2, <3>3, <3>4
  <2> QED
    BY Zenon, <2>3, <2>4
<1> QED
  BY Zenon, <1>7, <1>8, <1>9 DEF TableInv

(* The steps keep the table's invariant. *)
LEMMA TableStep ==
    ASSUME ControlInv, RecycleInv, TableInv, IndexInv, [SlotsNext]_rvars
    PROVE  TableInv'
<1>0. SlotsType /\ IO \notin Leases /\ Threads = Leases \cup {IO} /\ (rcur # NoResponse => rcur.lease \in Leases)
  BY Zenon, SlotsAssumption DEF ControlInv, Threads, PresentInv, Present
<1>1. ASSUME NEW l \in Leases, OwnerMove(l), ~(Reserve(l) /\ rfree # <<>>) PROVE TableInv'
  <2>1. rtable' = rtable
    BY Zenon, <1>1, OwnerEffects
  <2>2. Holders' = Holders /\ \A m \in Leases : Present(m) => rec'[m].index = rec[m].index
    BY Zenon, <1>1, OwnerQuiet DEF Quiet
  <2>3. /\ \A t \in Threads \ {l} : rsub'[t] = rsub[t]
        /\ rsub[l].at = "none" /\ rsub'[l].at \in {"none", "load"}
    BY Zenon, <1>0, <1>1, OwnerLocal
  <2> QED
    BY Zenon, <2>1, <2>2, <2>3, TableKept
<1>2. ASSUME TaskMove, ~Sweep PROVE TableInv'
  <2>1. rtable' = rtable
    <3>1. CASE NextResponse \/ WakeIO \/ ChooseStage \/ WritePart \/ WriteEnd \/ Flush
      BY Zenon, <3>1 DEF NextResponse, WakeIO, ChooseStage, WritePart, WriteEnd, Flush, slotVars
    <3>2. CASE ExitIO \/ FenceSlots \/ CloseSlots \/ Settle \/ DrainReady
      BY Zenon, <3>2 DEF ExitIO, FenceSlots, CloseSlots, Settle, DrainReady, slotVars
    <3> QED
      BY Zenon, <1>2, <3>1, <3>2 DEF TaskMove
  <2>2. Holders' = Holders /\ \A m \in Leases : Present(m) => rec'[m].index = rec[m].index
    BY Zenon, <1>2, TaskQuiet DEF Quiet
  <2>3. rsub[IO].at = "none" /\ \A l \in Leases : rsub'[l] = rsub[l]
    BY Zenon, <1>0, <1>2, TaskLocal
  <2>4. rsub'[IO].at \in {"none", "load"}
    <3>1. CASE NextResponse \/ WakeIO \/ ChooseStage \/ WritePart \/ WriteEnd
      BY Zenon, <2>3, <3>1 DEF NextResponse, WakeIO, ChooseStage, WritePart, WriteEnd
    <3>2. CASE ExitIO \/ FenceSlots \/ CloseSlots \/ Settle
      BY Zenon, <2>3, <3>2 DEF ExitIO, FenceSlots, CloseSlots, Settle
    <3>3. CASE DrainReady \/ Flush
      BY <1>0, <2>3, <3>3 DEF DrainReady, Flush, Call, SlotsType, CallType
    <3> QED
      BY Zenon, <1>2, <3>1, <3>2, <3>3 DEF TaskMove
  <2> QED
    BY Zenon, <1>0, <2>1, <2>2, <2>3, <2>4, TableKept
<1>3. ASSUME TaskMove, Sweep PROVE TableInv'
  <2>1. rec' = rec /\ Holders' = Holders /\ rsub[IO].at = "none" /\ \A l \in Leases : rsub'[l] = rsub[l]
    BY Zenon, <1>0, <1>3, TaskLocal, TaskFrame DEF Holders, Flagged
  <2>2. CASE rtable' = rtable /\ rsub' = rsub
    BY Zenon, <2>1, <2>2, TableKept
  <2>3. ASSUME NEW i \in Slots, rtable[i] # None, rtable' = [rtable EXCEPT ![i] = None],
               rsub' = [rsub EXCEPT ![IO] = [at |-> "publication", record |-> rtable[i], kind |-> "closed"]]
        PROVE  TableInv'
    <3>0. /\ rtable \in [Slots -> Leases \cup {None}] /\ None \notin Leases
          /\ rtable[i] \in Holders /\ rec[rtable[i]].index = i
          /\ rsub'[IO].at = "publication" /\ rsub'[IO].record = rtable[i]
          /\ \A h \in Holders : h \in Leases /\ Present(h)
      BY Zenon, <1>0, <2>3, SlotsAssumption
         DEF SlotsType, PoolType, CallType, TableInv, Holders, Present
    <3>1. \A j \in Slots : rtable'[j] # None => rtable'[j] \in Holders' /\ rec'[rtable'[j]].index = j
      BY Zenon, <2>1, <2>3, <3>0 DEF TableInv
    <3>2. \A u \in Threads : rsub'[u].at \in Removed => rtable'[rec'[rsub'[u].record].index] # rsub'[u].record
      <4>1. ASSUME NEW u \in Leases, rsub'[u].at \in Removed
            PROVE  rtable'[rec'[rsub'[u].record].index] # rsub'[u].record
        <5>1. rsub'[u] = rsub[u] /\ u \in Threads /\ Present(rsub[u].record) /\ rsub[u].record \in Leases
          BY Zenon, <1>0, <2>1, <4>1 DEF Removed, ControlInv, RoutineInv, Present
        <5>2. rec[rsub[u].record].index \in Slots /\ rtable[rec[rsub[u].record].index] # rsub[u].record
          BY Zenon, <4>1, <5>1, PresentIndex DEF TableInv
        <5> QED
          BY Zenon, <2>1, <2>3, <3>0, <5>1, <5>2
      <4>2. rtable'[rec'[rsub'[IO].record].index] # rsub'[IO].record
        BY <2>1, <2>3, <3>0
      <4> QED
        BY Zenon, <1>0, <4>1, <4>2
    <3>3. \A h \in Holders' : \/ rtable'[rec'[h].index] = h
                              \/ \E u \in Threads : rsub'[u].record = h /\ rsub'[u].at \in {"publication", "recycle"}
      <4> SUFFICES ASSUME NEW h \in Holders
                   PROVE  \/ rtable'[rec[h].index] = h
                          \/ \E u \in Threads : rsub'[u].record = h /\ rsub'[u].at \in {"publication", "recycle"}
        BY Zenon, <2>1
      <4>1. \/ rtable[rec[h].index] = h
            \/ \E u \in Threads : rsub[u].record = h /\ rsub[u].at \in {"publication", "recycle"}
        BY Zenon DEF TableInv
      <4>2. CASE rtable[rec[h].index] = h /\ rec[h].index # i
        <5>1. rec[h].index \in Slots
          BY Zenon, <3>0, PresentIndex
        <5> QED
          BY Zenon, <2>3, <3>0, <4>2, <5>1
      <4>3. CASE rtable[rec[h].index] = h /\ rec[h].index = i
        BY Zenon, <1>0, <3>0, <4>3
      <4>4. ASSUME NEW u \in Threads, rsub[u].record = h, rsub[u].at \in {"publication", "recycle"}
            PROVE  rsub'[u] = rsub[u]
        BY Zenon, <1>0, <2>1, <4>4
      <4> QED
        BY Zenon, <4>1, <4>2, <4>3, <4>4
    <3> QED
      BY Zenon, <3>1, <3>2, <3>3 DEF TableInv
  <2> QED
    BY Zenon, <1>3, <2>2, <2>3 DEF Sweep, Call
<1>4. ASSUME UNCHANGED rvars PROVE TableInv'
  <2>1. rec' = rec /\ rtable' = rtable /\ rsub' = rsub
    BY Zenon, <1>4 DEF rvars, slotVars
  <2>2. Holders' = Holders
    BY Zenon, <2>1 DEF Holders, Flagged
  <2> QED
    BY Zenon, <2>1, <2>2, TableKept
<1> QED
  BY Zenon, <1>1, <1>2, <1>3, <1>4, StepCases, TableReserve, TableSub
-----------------------------------------------------------------------------
(* The budget: who holds a job permit. *)
Entered == {l \in Leases : rpc[l] \in {"bytes", "reserve", "take"}}
Freed == {rsub[t].record : t \in Releasing}
(* A permit is taken, given back or kept by one lease. *)
PermitMove ==
    \/ Admitted' = Admitted /\ rjobs' = rjobs
    \/ \E l \in Leases \ Admitted : Admitted' = Admitted \cup {l} /\ rjobs' = rjobs - 1
    \/ \E l \in Admitted : Admitted' = Admitted \ {l} /\ rjobs' = rjobs + 1

(* Only its admission changes who holds a permit while an owner runs. *)
LEMMA PermitOwner ==
    ASSUME ControlInv, NEW l \in Leases, OwnerMove(l)
    PROVE  PermitMove
<1> USE DEF OwnerAt, OwnerGoto, Early
<1>0. /\ SlotsType /\ l \in Threads /\ rplan' = rplan /\ rpc \in [Leases -> Labels]
      /\ Admitted = Entered \cup Holders \cup Freed
  BY Zenon, OwnerFrame DEF ControlInv, Threads, SlotsType, LabelType, Admitted, Entered, Freed
<1>1. rpc[l] \in Early => l \notin Holders /\ l \notin Freed
  BY DEF ControlInv, RecordInv, NoRecord, RoutineInv, Present, Holders, Freed, Releasing
<1>2. /\ \A t \in Threads \ {l} : rsub'[t] = rsub[t]
      /\ rsub[l].at = "none" /\ rsub'[l].at \in {"none", "load"}
      /\ \A m \in Leases \ {l} : rpc'[m] = rpc[m]
  BY Zenon, <1>0, OwnerLocal
<1>3. Releasing' = Releasing /\ \A t \in Releasing : rsub'[t] = rsub[t]
  BY Zenon, <1>2 DEF Releasing
<1>4. Freed' = Freed
  BY Zenon, <1>3 DEF Freed
<1>5. Admitted' = Entered' \cup Holders' \cup Freed
  BY Zenon, <1>4 DEF Admitted, Entered, Freed
<1>6. Entered' \ {l} = Entered \ {l}
  BY Zenon, <1>2 DEF Entered
<1>7. CASE Reserve(l) /\ rfree # <<>>
  <2>1. Holders' = Holders \cup {l}
    BY Zenon, <1>7, ReserveEffect
  <2>2. l \in Entered /\ rjobs' = rjobs
    BY Zenon, <1>7 DEF Reserve, Entered, resourceVars
  <2>3. Admitted' = Admitted
    BY Zenon, <1>0, <1>5, <1>6, <2>1, <2>2
  <2> QED
    BY Zenon, <1>0, <2>2, <2>3 DEF PermitMove
<1>8. CASE ~(Reserve(l) /\ rfree # <<>>)
  <2>0. Holders' = Holders
    BY Zenon, <1>8, OwnerQuiet DEF Quiet
  <2>1. CASE rjobs' = rjobs /\ (l \in Entered' <=> l \in Entered)
    <3>1. Admitted' = Admitted
      BY Zenon, <1>0, <1>5, <1>6, <2>0, <2>1
    <3> QED
      BY Zenon, <1>0, <2>1, <3>1 DEF PermitMove
  <2>2. CASE rjobs' = rjobs - 1 /\ rpc[l] = "start" /\ l \in Entered'
    <3>1. l \notin Admitted
      BY Zenon, <1>0, <1>1, <2>2 DEF Entered
    <3>2. Admitted' = Admitted \cup {l}
      BY Zenon, <1>0, <1>5, <1>6, <2>0, <2>2
    <3> QED
      BY Zenon, <1>0, <2>2, <3>1, <3>2 DEF PermitMove
  <2>3. CASE rjobs' = rjobs + 1 /\ rpc[l] \in {"bytes", "reserve", "take"} /\ l \notin Entered'
    <3>1. l \in Admitted
      BY Zenon, <1>0, <2>3 DEF Entered
    <3>2. Admitted' = Admitted \ {l}
      BY Zenon, <1>0, <1>1, <1>5, <1>6, <2>0, <2>3
    <3> QED
      BY Zenon, <1>0, <2>3, <3>1, <3>2 DEF PermitMove
  <2>4. CASE TakeJob(l)
    BY Zenon, <1>0, <2>1, <2>2, <2>4 DEF TakeJob, Entered
  <2>5. CASE TakeBytes(l)
    BY Zenon, <1>0, <2>1, <2>3, <2>5 DEF TakeBytes, Entered
  <2>6. CASE BeginReserve(l)
    BY Zenon, <1>0, <2>1, <2>3, <2>6 DEF BeginReserve, Entered, GiveBack, resourceVars
  <2>7. CASE Reserve(l)
    BY Zenon, <1>0, <1>8, <2>3, <2>7 DEF Reserve, Entered, GiveBack
  <2>8. CASE EndReserve(l) \/ CheckReserved(l) \/ ClaimReply(l) \/ BeginPublish(l) \/ StorePayload(l)
    BY Zenon, <1>0, <2>1, <2>8
       DEF EndReserve, CheckReserved, ClaimReply, BeginPublish, StorePayload, Entered,
                            resourceVars
  <2>9. CASE Cancel(l) \/ Activate(l) \/ BeginActivate(l) \/ CheckActivate(l) \/ PushReady(l)
    BY Zenon, <1>0, <2>1, <2>9
       DEF Cancel, Activate, BeginActivate, CheckActivate, PushReady, Activated,
                            Entered, resourceVars
  <2>10. CASE EndActivate(l) \/ NotifyLease(l) \/ EnableWait(l) \/ ReadState(l) \/ AwaitState(l) \/ DropWait(l)
    BY Zenon, <1>0, <2>1, <2>10
       DEF EndActivate, NotifyLease, EnableWait, ReadState, AwaitState, DropWait,
                             Activated, Entered, resourceVars
  <2> QED
    BY Zenon, <2>4, <2>5, <2>6, <2>7, <2>8, <2>9, <2>10 DEF OwnerMove
<1> QED
  BY Zenon, <1>7, <1>8

(* The first routine that recycles a record takes its permit along, and gives it back. *)
LEMMA PermitSub ==
    ASSUME ControlInv, RecycleInv, NEW t \in Threads, SubMove(t)
    PROVE  PermitMove
<1> DEFINE l == rsub[t].record
<1>0. /\ SlotsType /\ rsub[t].at # "none" /\ rsub \in [Threads -> SubCall]
      /\ rplan' = rplan /\ rpc' = rpc /\ Entered' = Entered
      /\ Admitted = Entered \cup Holders \cup Freed /\ Admitted' = Entered \cup Holders' \cup Freed'
  BY Zenon, SubFrame, SubLocal DEF ControlInv, SlotsType, CallType, Admitted, Entered, Freed
<1>1. l \in Leases /\ l \notin Entered
  BY <1>0 DEF ControlInv, RoutineInv, RecordInv, Present, Entered, Early, NoRecord
<1>2. \A u \in Threads \ {t} : rsub'[u] = rsub[u]
  BY Zenon, <1>0, SubLocal
<1>3. CASE ReleasePermits(t)
  <2>1. rsub[t].at = "release" /\ rsub'[t].at = "index" /\ rjobs' = rjobs + 1
    BY <1>0, <1>3 DEF ReleasePermits, SubAt, SubGoto, GiveBack
  <2>2. Holders' = Holders /\ l \notin Holders
    <3>1. ~RecycleIndex(t) /\ ~Recycle(t)
      BY Zenon, <2>1 DEF RecycleIndex, Recycle, SubAt
    <3> QED
      BY Zenon, <2>1, <3>1, SubQuiet DEF Quiet, RecycleInv, Holders
  <2>3. Releasing' = Releasing \ {t} /\ t \in Releasing
    BY Zenon, <1>2, <2>1 DEF Releasing
  <2>4. \A u \in Releasing \ {t} : rsub[u].record # l
    BY Zenon, <2>1 DEF RecycleInv, Returning, Releasing
  <2>5. Freed' = Freed \ {l} /\ l \in Freed
    <3> HIDE DEF l
    <3>1. Freed' = {rsub[u].record : u \in Releasing \ {t}}
      BY <1>2, <2>3 DEF Freed, Releasing
    <3>2. l = rsub[t].record
      BY Zenon DEF l
    <3> QED
      BY Zenon, <2>3, <2>4, <3>1, <3>2 DEF Freed
  <2>6. l \in Admitted /\ Admitted' = Admitted \ {l}
    BY Zenon, <1>0, <1>1, <2>2, <2>5
  <2> QED
    BY Zenon, <1>0, <2>1, <2>6 DEF PermitMove
<1>4. CASE Recycle(t) /\ ~Flagged(l, "recycled")
  <2>1. /\ l \in Holders /\ Holders' = Holders \ {l} /\ rsub[t].at = "recycle"
        /\ rsub'[t] = [rsub[t] EXCEPT !.at = IF Flagged(l, "recycled") THEN "complete" ELSE "release"]
    BY Zenon, <1>4, RecycleEffect
  <2>2. rsub'[t].at = "release" /\ rsub'[t].record = l
    BY <1>0, <1>4, <2>1
  <2>3. Releasing' = Releasing \cup {t} /\ t \notin Releasing
    BY Zenon, <1>2, <2>1, <2>2 DEF Releasing
  <2>4. Freed' = Freed \cup {l}
    <3> HIDE DEF l
    <3>1. Freed' = {rsub'[u].record : u \in Releasing \cup {t}}
      BY Zenon, <2>3 DEF Freed
    <3>2. \A u \in Releasing : u \in Threads \ {t}
      BY Zenon, <2>3 DEF Releasing
    <3>3. \A u \in Releasing : rsub'[u].record = rsub[u].record
      BY Zenon, <1>2, <3>2
    <3> QED
      BY Zenon, <2>2, <3>1, <3>3 DEF Freed
  <2>5. Admitted' = Admitted
    BY Zenon, <1>0, <2>1, <2>4
  <2>6. rjobs' = rjobs
    BY Zenon, <1>4 DEF Recycle, resourceVars
  <2> QED
    BY Zenon, <1>0, <2>5, <2>6 DEF PermitMove
<1>5. CASE ~ReleasePermits(t) /\ ~(Recycle(t) /\ ~Flagged(l, "recycled"))
  <2>1. rjobs' = rjobs /\ rsub[t].at # "release" /\ rsub'[t].at # "release"
    <3> USE <1>0 DEF SubAt, SubGoto, SubDone, NoSub, SubCall, resourceVars
    <3>1. CASE SubLoad(t)
      BY <3>1 DEF SubLoad
    <3>2. CASE SubSwap(t)
      BY Zenon, <3>2 DEF SubSwap
    <3>3. CASE ClosePublication(t)
      BY Zenon, <3>3 DEF ClosePublication
    <3>4. CASE RecycleIndex(t)
      BY Zenon, <3>4 DEF RecycleIndex
    <3>5. CASE Complete(t)
      BY Zenon, <3>5 DEF Complete
    <3>6. CASE Recycle(t)
      BY Zenon, <1>5, <3>6 DEF Recycle
    <3> QED
      BY Zenon, <1>5, <3>1, <3>2, <3>3, <3>4, <3>5, <3>6 DEF SubMove
  <2>2. Holders' = Holders
    <3>1. CASE RecycleIndex(t)
      BY Zenon, <3>1, RecycleIndexEffect DEF Holders, Flagged
    <3>2. CASE ~RecycleIndex(t)
      BY Zenon, <1>5, <3>2, SubQuiet DEF Quiet
    <3> QED
      BY Zenon, <3>1, <3>2
  <2>3. Releasing' = Releasing /\ \A u \in Releasing : rsub'[u] = rsub[u]
    BY Zenon, <1>2, <2>1 DEF Releasing
  <2>4. Freed' = Freed
    BY Zenon, <2>3 DEF Freed
  <2>5. Admitted' = Admitted
    BY Zenon, <1>0, <2>2, <2>4
  <2> QED
    BY Zenon, <1>0, <2>1, <2>5 DEF PermitMove
<1> QED
  BY Zenon, <1>3, <1>4, <1>5

(* The writer task takes and gives back no permit. *)
LEMMA PermitTask ==
    ASSUME ControlInv, TaskMove
    PROVE  PermitMove
<1>0. SlotsType /\ (rcur # NoResponse => rcur.lease \in Leases)
  BY Zenon DEF ControlInv, PresentInv, Present
<1>1. rplan' = rplan /\ rjobs' = rjobs /\ rec' = rec /\ rpc' = rpc
  BY Zenon, TaskFrame
<1>2. /\ \A l \in Leases : rsub'[l] = rsub[l]
      /\ rsub[IO].at = "none" /\ rsub'[IO].at \in {"none", "load", "publication"}
  BY Zenon, <1>0, TaskLocal
<1>3. Releasing' = Releasing /\ \A t \in Releasing : rsub'[t] = rsub[t]
  BY Zenon, <1>2 DEF Releasing, Threads
<1>4. Freed' = Freed
  BY Zenon, <1>3 DEF Freed
<1>5. Admitted' = Admitted
  BY Zenon, <1>1, <1>4 DEF Admitted, Freed, Holders, Flagged
<1> QED
  BY Zenon, <1>1, <1>5 DEF PermitMove

(* No step fills the table once the sweep is over. *)
LEMMA ExitStep ==
    ASSUME ControlInv, ExitInv, [SlotsNext]_rvars
    PROVE  ExitInv'
<1>0. /\ SlotsType /\ rtable \in [Slots -> Leases \cup {None}]
      /\ \A t \in Threads : rsub[t].at # "none" => Present(rsub[t].record)
  BY Zenon DEF ControlInv, SlotsType, PoolType, RoutineInv
<1>1. ASSUME NEW l \in Leases, OwnerMove(l) PROVE ExitInv'
  <2>1. iopc' = iopc
    BY Zenon, <1>1, OwnerFrame
  <2>2. CASE Reserve(l)
    BY Zenon, <2>1, <2>2 DEF ControlInv, TaskInv, CallInv, Counted, Reserve, OwnerAt, ExitInv
  <2>3. CASE ~Reserve(l)
    BY Zenon, <1>1, <2>1, <2>3, OwnerEffects DEF ExitInv
  <2> QED
    BY Zenon, <2>2, <2>3
<1>2. ASSUME NEW t \in Threads, rsub[t].at # "none", SubMove(t) PROVE ExitInv'
  <2>1. iopc' = iopc
    BY Zenon, <1>2, SubFrame
  <2>2. rec[rsub[t].record].index \in Slots
    BY Zenon, <1>0, <1>2, PresentIndex
  <2>3. \A i \in Slots : rtable'[i] \in {rtable[i], None}
    <3>1. CASE SubSwap(t) \/ ReleasePermits(t)
      BY Zenon, <1>0, <2>2, <3>1 DEF SubSwap, ReleasePermits
    <3>2. CASE SubLoad(t) \/ ClosePublication(t) \/ Recycle(t) \/ RecycleIndex(t) \/ Complete(t)
      BY Zenon, <3>2 DEF SubLoad, ClosePublication, Recycle, RecycleIndex, Complete, slotVars
    <3> QED
      BY Zenon, <1>2, <3>1, <3>2 DEF SubMove
  <2> QED
    BY Zenon, <2>1, <2>3 DEF ExitInv
<1>3. ASSUME TaskMove PROVE ExitInv'
  <2>1. CASE NextResponse \/ WakeIO \/ ChooseStage \/ WritePart \/ WriteEnd \/ Flush
    BY Zenon, <2>1
       DEF NextResponse, WakeIO, ChooseStage, WritePart, WriteEnd, MayWrite, Flush, IOAt, ExitInv
  <2>2. CASE ExitIO \/ FenceSlots \/ CloseSlots \/ Settle \/ DrainReady
    BY Zenon, <2>2 DEF ExitIO, FenceSlots, CloseSlots, Settle, DrainReady, IOAt, ExitInv
  <2>3. CASE Sweep
    BY Zenon, <2>3 DEF Sweep, IOAt, ExitInv
  <2> QED
    BY Zenon, <1>3, <2>1, <2>2, <2>3 DEF TaskMove
<1>4. ASSUME UNCHANGED rvars PROVE ExitInv'
  BY Zenon, <1>4 DEF rvars, slotVars, ioVars, ExitInv
<1> QED
  BY Zenon, <1>1, <1>2, <1>3, <1>4, StepCases

-----------------------------------------------------------------------------
(* A lease whose record will still be pushed to the ready set or closed by its owner. *)
Pending(l) ==
    \/ rpc[l] \in Opening \cup {"publish", "store"} \cup Pushing
    \/ rpc[l] \in {"cancel", "activate"} /\ ~Flagged(l, "activated")
PendingInv(l) ==
    Pending(l) => rsub[l].at = "none" /\ (iopc \notin {"ready", "sweep", "exited"} => l \in Holders)

(* Leases the writer task has in hand: ready, yielded at a frame boundary, or being written. *)
InReady(l) == \E k \in 1..Len(rready) : rready[k] = l
InYield(l) == \E k \in 1..Len(ryield) : ryield[k].lease = l
InFlight(l) == InReady(l) \/ InYield(l) \/ rcur.lease = l

(* A lease is in one place at a time. *)
PlaceInv ==
    /\ \A j, k \in 1..Len(rready) : rready[j] = rready[k] => j = k
    /\ \A j, k \in 1..Len(ryield) : ryield[j].lease = ryield[k].lease => j = k
    /\ \A l \in Leases : InReady(l) => ~InYield(l) /\ rcur.lease # l
    /\ \A l \in Leases : InYield(l) => rcur.lease # l

(* The owner pushed its record and will call no completion routine any more. *)
Settled(l) == Flagged(l, "activated") /\ rpc[l] \in Late /\ rsub[l].at = "none" /\ rused[AskOf[l]] = {l}
(* While a lease is in flight its record is the writer task's; the task gives it up only once
   the answer is out, or behind the fence. *)
FlightInv(l) ==
    /\ InFlight(l) => l \in Holders /\ Settled(l) /\ (rsub[IO].at = "none" \/ rsub[IO].record # l)
    /\ rsub[IO].at # "none" /\ rsub[IO].kind = "complete" /\ rsub[IO].record = l => Settled(l) /\ Answered(l)

(* A completed record has an ask that was answered, and nothing left to give back. *)
CompletionInv(l) ==
    rec[l].state = "complete" =>
        /\ rused[AskOf[l]] # {}
        /\ rused[AskOf[l]] = {l} => /\ Flagged(l, "recycled")
                                    /\ \A t \in Returning : rsub[t].record # l

(* The frames on the wire and the place of the response in write_leased_response_command_slice
   agree. *)
Shapes == {Parts(n) : n \in 0..BigFrames - 1} \cup {Append(Parts(n), "abort") : n \in 1..BigFrames - 1}
          \cup WholeReplies
Unwritten(l) == ~Flagged(l, "activated") \/ rpc[l] \in Pushing \/ InReady(l)
YieldShape(r, wire) == /\ r.stage = "normal" /\ r.frame \in 1..BigFrames - 1 /\ r.sent = "none"
                       /\ wire[r.lease] = Parts(r.frame)
CurShape ==
    LET w == rwire[rcur.lease] IN
    /\ rcur.stage # "none"
    /\ rcur.stage \in {"reserved", "inline"} => w = <<>> /\ rcur.frame = 0
    /\ rcur.stage = "normal" => rcur.frame \in 0..BigFrames - 1 /\ w = Parts(rcur.frame)
    /\ rcur.stage = "abort" => \E n \in 1..BigFrames - 1 : w = Parts(n)
    /\ rcur.stage = "terminal" => w = <<>> \/ \E n \in 1..BigFrames - 1 : w = Append(Parts(n), "abort")
    /\ rcur.stage = "flushing" => w \in WholeReplies
WireInv ==
    /\ \A l \in Leases : rwire[l] \in Shapes /\ (Unwritten(l) => rwire[l] = <<>>)
    /\ \A k \in 1..Len(ryield) : YieldShape(ryield[k], rwire)
    /\ rcur # NoResponse => CurShape

DeliveryInv ==
    /\ PlaceInv /\ WireInv
    /\ \A l \in Leases : PendingInv(l) /\ FlightInv(l) /\ CompletionInv(l)
-----------------------------------------------------------------------------
(* PushReady appends the record to the ready set. *)
LEMMA PushEffect ==
    ASSUME ControlInv, NEW l \in Leases, PushReady(l)
    PROVE  /\ Len(rready) \in Nat /\ Len(rready') = Len(rready) + 1
           /\ \A k \in 1..Len(rready) : rready'[k] = rready[k]
           /\ rready'[Len(rready) + 1] = l
           /\ ryield' = ryield /\ rcur' = rcur
<1>1. rready \in Seq(Leases) /\ rready' = Append(rready, l)
  BY Zenon DEF ControlInv, SlotsType, PoolType, PushReady
<1>2. ryield' = ryield /\ rcur' = rcur
  BY Zenon DEF PushReady, ioVars
<1> QED
  BY <1>1, <1>2, AppendProperties

(* Where a response goes: the writer task takes the oldest one that yielded, or else the oldest
   ready one, puts it back at a frame boundary, and drops it when it flushed or fails. *)
TakeYielded ==
    /\ rcur = NoResponse /\ rready' = rready /\ Len(ryield) \in Nat \ {0} /\ rcur' = ryield[1]
    /\ Len(ryield') = Len(ryield) - 1 /\ \A k \in 1..Len(ryield') : ryield'[k] = ryield[k + 1]
TakeReady ==
    /\ rcur = NoResponse /\ ryield' = ryield /\ Len(rready) \in Nat \ {0}
    /\ rcur' = [NoResponse EXCEPT !.lease = rready[1], !.stage = "reserved"]
    /\ Len(rready') = Len(rready) - 1 /\ \A k \in 1..Len(rready') : rready'[k] = rready[k + 1]
PutBack ==
    /\ rcur # NoResponse /\ rready' = rready /\ rcur' = NoResponse
    /\ Len(ryield) \in Nat /\ Len(ryield') = Len(ryield) + 1
    /\ \A k \in 1..Len(ryield) : ryield'[k] = ryield[k]
    /\ ryield'[Len(ryield) + 1] = [rcur EXCEPT !.frame = rcur.frame + 1, !.sent = "none"]
DropAll == rready' = rready /\ rcur' = NoResponse /\ ryield' \in {ryield, <<>>}
DropReady ==
    /\ ryield' = ryield /\ rcur' = rcur /\ rcur = NoResponse /\ ryield = <<>>
    /\ Len(rready) \in Nat \ {0} /\ rsub'[IO].record = rready[1]
    /\ Len(rready') = Len(rready) - 1 /\ \A k \in 1..Len(rready') : rready'[k] = rready[k + 1]
SamePlaces == rready' = rready /\ ryield' = ryield /\ rcur'.lease = rcur.lease

(* close_and_reclaim pops a ready record and closes it. *)
LEMMA DrainEffect ==
    ASSUME ControlInv, DrainReady, rready # <<>>
    PROVE  DropReady
<1>0. rready \in Seq(Leases) /\ rsub \in [Threads -> SubCall] /\ IO \in Threads
  BY Zenon DEF ControlInv, SlotsType, PoolType, CallType, Threads
<1>1. rcur' = rcur /\ ryield' = ryield /\ rcur = NoResponse /\ ryield = <<>>
  BY Zenon DEF DrainReady, IOAt, ControlInv, TaskInv
<1>2. /\ Len(rready) \in Nat \ {0} /\ Head(rready) = rready[1] /\ Len(Tail(rready)) = Len(rready) - 1
      /\ \A k \in 1..Len(Tail(rready)) : Tail(rready)[k] = rready[k + 1]
  BY <1>0, HeadTailProperties
<1>3. rready' = Tail(rready) /\ rsub'[IO].record = Head(rready)
  BY <1>0 DEF DrainReady, Call
<1> QED
  BY Zenon, <1>1, <1>2, <1>3 DEF DropReady

(* A response at its next frame. *)
LEMMA NextFrame ==
    ASSUME NEW r \in Response, NEW n \in Nat
    PROVE  [r EXCEPT !.frame = n, !.sent = "none"] \in Response
  BY Zenon DEF Response

(* Every step of the writer task is one of those for the responses. *)
LEMMA TaskPlaces ==
    ASSUME ControlInv, TaskMove
    PROVE  /\ \/ SamePlaces \/ (NextResponse /\ (TakeYielded \/ TakeReady)) \/ (WriteEnd /\ PutBack)
              \/ ((Flush \/ ExitIO) /\ DropAll) \/ (DrainReady /\ DropReady)
<1>0. /\ rready \in Seq(Leases) /\ ryield \in Seq(Response) /\ rcur \in Response
      /\ rsub \in [Threads -> SubCall] /\ IO \in Threads
  BY Zenon DEF ControlInv, SlotsType, PoolType, WriterType, CallType, Threads
<1>1. CASE NextResponse
  <2>1. CASE ryield # <<>> /\ rcur' = Head(ryield) /\ ryield' = Tail(ryield) /\ rready' = rready
    <3>1. /\ Len(ryield) \in Nat \ {0} /\ Head(ryield) = ryield[1] /\ Len(ryield') = Len(ryield) - 1
          /\ \A k \in 1..Len(ryield') : ryield'[k] = ryield[k + 1]
      BY <1>0, <2>1, HeadTailProperties
    <3> QED
      BY Zenon, <1>1, <2>1, <3>1 DEF NextResponse, TakeYielded
  <2>2. CASE /\ rready # <<>> /\ rready' = Tail(rready) /\ ryield' = ryield
             /\ rcur' = [NoResponse EXCEPT !.lease = Head(rready), !.stage = "reserved"]
    <3>1. /\ Len(rready) \in Nat \ {0} /\ Head(rready) = rready[1] /\ Len(rready') = Len(rready) - 1
          /\ \A k \in 1..Len(rready') : rready'[k] = rready[k + 1]
      BY <1>0, <2>2, HeadTailProperties
    <3> QED
      BY Zenon, <1>1, <2>2, <3>1 DEF NextResponse, TakeReady
  <2>3. CASE rready' = rready /\ ryield' = ryield /\ rcur' = rcur
    BY Zenon, <2>3 DEF SamePlaces
  <2> QED
    BY Zenon, <1>1, <2>1, <2>2, <2>3 DEF NextResponse
<1>2. CASE WriteEnd
  <2>0. rready' = rready
    BY Zenon, <1>2 DEF WriteEnd
  <2>1. CASE ryield' = ryield /\ (\E s \in Stages : Stage(s))
    BY Zenon, <1>0, <2>0, <2>1 DEF Stage, SamePlaces, Response
  <2>2. CASE ryield' = Append(ryield, [rcur EXCEPT !.frame = rcur.frame + 1, !.sent = "none"]) /\ rcur' = NoResponse
    <3>1. rcur.frame + 1 \in Nat
      BY <1>0 DEF Response
    <3>2. [rcur EXCEPT !.frame = rcur.frame + 1, !.sent = "none"] \in Response
      BY Zenon, <1>0, <3>1, NextFrame
    <3>3. rcur # NoResponse
      BY <1>2 DEF WriteEnd, MayWrite, NoResponse
    <3> QED
      BY <1>0, <1>2, <2>0, <2>2, <3>2, <3>3, AppendProperties DEF PutBack
  <2> QED
    BY Zenon, <1>2, <2>1, <2>2 DEF WriteEnd, Terminal, Stages
<1>3. CASE Flush
  BY Zenon, <1>3 DEF Flush, DropAll
<1>4. CASE ExitIO
  BY Zenon, <1>4 DEF ExitIO, DropAll
<1>5. CASE DrainReady
  BY Zenon, <1>5, DrainEffect DEF DrainReady, SamePlaces
<1>6. CASE ChooseStage \/ WritePart
  <2>1. rready' = rready /\ ryield' = ryield
    BY Zenon, <1>6 DEF ChooseStage, WritePart
  <2>2. rcur'.lease = rcur.lease
    BY Zenon, <1>0, <1>6 DEF ChooseStage, WritePart, Stage, Terminal, Response
  <2> QED
    BY Zenon, <2>1, <2>2 DEF SamePlaces
<1>7. CASE WakeIO \/ FenceSlots \/ CloseSlots \/ Settle \/ Sweep
  BY Zenon, <1>7 DEF WakeIO, FenceSlots, CloseSlots, Settle, Sweep, SamePlaces
<1> QED
  BY Zenon, <1>1, <1>2, <1>3, <1>4, <1>5, <1>6, <1>7 DEF TaskMove

(* A response stays in one place at a time; what the task has flushed, or closed, is in none. *)
LEMMA TaskPlaceStep ==
    ASSUME ControlInv, PlaceInv, TaskMove
    PROVE  /\ PlaceInv'
           /\ \A m \in Leases : InFlight(m)' => InFlight(m)
           /\ \A m \in Leases : InReady(m)' => InReady(m)
           /\ Flush => \A m \in Leases : InFlight(m)' => m # rcur.lease
           /\ DropReady => \A m \in Leases : InFlight(m)' => m # rready[1]
<1> USE DEF PlaceInv, InFlight, InReady, InYield
<1>0. None \notin Leases /\ NoResponse.lease = None /\ rcur \in Response
  BY Zenon, SlotsAssumption DEF NoResponse, ControlInv, SlotsType, WriterType
<1>1. Flush => \A m \in Leases : InFlight(m)' => m # rcur.lease
  BY Zenon, <1>0 DEF Flush
<1>2. DropReady => \A m \in Leases : InFlight(m)' => m # rready[1]
  BY <1>0 DEF DropReady
<1> DEFINE Goal == /\ PlaceInv'
                   /\ \A m \in Leases : InFlight(m)' => InFlight(m)
                   /\ \A m \in Leases : InReady(m)' => InReady(m)
<1>3. ASSUME SamePlaces PROVE Goal
  BY Zenon, <1>3 DEF SamePlaces
<1>4. ASSUME TakeYielded PROVE Goal
  <2>1. /\ rready' = rready /\ rcur.lease = None /\ Len(ryield) \in Nat \ {0}
        /\ rcur'.lease = ryield[1].lease /\ Len(ryield') = Len(ryield) - 1
        /\ \A k \in 1..Len(ryield') : ryield'[k].lease = ryield[k + 1].lease
    BY Zenon, <1>0, <1>4 DEF TakeYielded
  <2> HIDE DEF PlaceInv, InFlight, InReady, InYield
  <2>2. \A m \in Leases : InReady(m)' <=> InReady(m)
    BY Zenon, <2>1 DEF InReady
  <2>3. /\ 1 \in 1..Len(ryield) /\ \A k \in 1..Len(ryield') : k + 1 \in 1..Len(ryield) /\ k + 1 # 1
        /\ \A j, k \in 1..Len(ryield') : j + 1 = k + 1 => j = k
    BY <2>1
  <2>4. InYield(rcur'.lease) /\ \A m \in Leases : InYield(m)' => InYield(m) /\ m # rcur'.lease
    BY Zenon, <2>1, <2>3 DEF InYield, PlaceInv
  <2>5. ASSUME NEW j \in 1..Len(ryield'), NEW k \in 1..Len(ryield'), ryield'[j].lease = ryield'[k].lease
        PROVE  j = k
    <3>1. ryield[j + 1].lease = ryield[k + 1].lease
      BY Zenon, <2>1, <2>5
    <3>2. j + 1 = k + 1
      BY Zenon, <2>3, <3>1 DEF PlaceInv
    <3> QED
      BY Zenon, <2>3, <3>2
  <2> QED
    BY Zenon, <1>0, <2>1, <2>2, <2>4, <2>5 DEF PlaceInv, InFlight
<1>5. ASSUME TakeReady PROVE Goal
  <2>1. rcur'.lease = rready[1]
    BY Zenon, <1>5 DEF TakeReady, NoResponse
  <2>2. /\ ryield' = ryield /\ rcur.lease = None /\ Len(rready) \in Nat \ {0}
        /\ Len(rready') = Len(rready) - 1 /\ \A k \in 1..Len(rready') : rready'[k] = rready[k + 1]
    BY Zenon, <1>0, <1>5 DEF TakeReady
  <2> HIDE DEF PlaceInv, InFlight, InReady, InYield
  <2>3. \A m \in Leases : InYield(m)' <=> InYield(m)
    BY Zenon, <2>2 DEF InYield
  <2>4. /\ 1 \in 1..Len(rready) /\ \A k \in 1..Len(rready') : k + 1 \in 1..Len(rready) /\ k + 1 # 1
        /\ \A j, k \in 1..Len(rready') : j + 1 = k + 1 => j = k
    BY <2>2
  <2>7. \A k \in 1..Len(rready') : rready[k + 1] # rready[1]
    BY Zenon, <2>4 DEF PlaceInv
  <2>5. InReady(rcur'.lease) /\ \A m \in Leases : InReady(m)' => InReady(m) /\ m # rcur'.lease
    BY Zenon, <2>1, <2>2, <2>4, <2>7 DEF InReady
  <2>6. ASSUME NEW j \in 1..Len(rready'), NEW k \in 1..Len(rready'), rready'[j] = rready'[k]
        PROVE  j = k
    <3>1. rready[j + 1] = rready[k + 1]
      BY Zenon, <2>2, <2>6
    <3>2. j + 1 = k + 1
      BY Zenon, <2>4, <3>1 DEF PlaceInv
    <3> QED
      BY Zenon, <2>4, <3>2
  <2> QED
    BY Zenon, <1>0, <2>2, <2>3, <2>5, <2>6 DEF PlaceInv, InFlight
<1>6. ASSUME PutBack PROVE Goal
  <2>1. ryield'[Len(ryield) + 1].lease = rcur.lease
    BY Zenon, <1>0, <1>6 DEF PutBack, Response
  <2>2. /\ rready' = rready /\ rcur'.lease = None /\ Len(ryield) \in Nat
        /\ Len(ryield') = Len(ryield) + 1
        /\ \A k \in 1..Len(ryield) : ryield'[k].lease = ryield[k].lease
    BY Zenon, <1>0, <1>6 DEF PutBack
  <2> HIDE DEF PlaceInv, InFlight, InReady, InYield
  <2>3. \A m \in Leases : InReady(m)' <=> InReady(m)
    BY Zenon, <2>2 DEF InReady
  <2>8. \A k \in 1..Len(ryield') : k \in 1..Len(ryield) \/ k = Len(ryield) + 1
    BY <2>2
  <2>4. \A m \in Leases : InYield(m)' => InYield(m) \/ m = rcur.lease
    BY Zenon, <2>1, <2>2, <2>8 DEF InYield
  <2>5. rcur.lease \in Leases
    BY Zenon, <1>6 DEF PutBack, ControlInv, PresentInv, Present
  <2>6. \A k \in 1..Len(ryield) : ryield[k].lease # rcur.lease
    BY Zenon, <2>5 DEF InYield, PlaceInv
  <2>7. \A j, k \in 1..Len(ryield') : ryield'[j].lease = ryield'[k].lease => j = k
    BY Zenon, <2>1, <2>2, <2>6, <2>8 DEF PlaceInv
  <2> QED
    BY <1>0, <2>2, <2>3, <2>4, <2>7 DEF PlaceInv, InFlight
<1>7. ASSUME DropAll PROVE Goal
  BY <1>0, <1>7, EmptySeq DEF DropAll
<1>8. ASSUME DropReady PROVE Goal
  BY <1>0, <1>8 DEF DropReady
<1> QED
  BY Zenon, <1>1, <1>2, <1>3, <1>4, <1>5, <1>6, <1>7, <1>8, TaskPlaces

(* Only PushReady puts a record in flight. *)
LEMMA OwnerPlaceStep ==
    ASSUME ControlInv, PlaceInv, NEW l \in Leases, OwnerMove(l), PushReady(l) => ~InFlight(l)
    PROVE  /\ PlaceInv'
           /\ \A m \in Leases : InFlight(m)' => InFlight(m) \/ (m = l /\ PushReady(l))
           /\ \A m \in Leases : InReady(m)' => InReady(m) \/ (m = l /\ PushReady(l))
<1> USE DEF PlaceInv, InFlight, InReady, InYield
<1>1. CASE PushReady(l)
  <2>1. /\ ryield' = ryield /\ rcur' = rcur /\ Len(rready) \in Nat /\ Len(rready') = Len(rready) + 1
        /\ \A k \in 1..Len(rready) : rready'[k] = rready[k]
        /\ rready'[Len(rready) + 1] = l
    BY Zenon, <1>1, PushEffect
  <2> HIDE DEF PlaceInv, InFlight, InReady, InYield
  <2>2. \A m \in Leases : InYield(m)' <=> InYield(m)
    BY Zenon, <2>1 DEF InYield
  <2>6. \A k \in 1..Len(rready') : k \in 1..Len(rready) \/ k = Len(rready) + 1
    BY <2>1
  <2>3. \A m \in Leases : InReady(m)' => InReady(m) \/ m = l
    BY Zenon, <2>1, <2>6 DEF InReady
  <2>4. \A k \in 1..Len(rready) : rready[k] # l
    BY Zenon, <1>1 DEF InReady, InFlight
  <2>5. \A j, k \in 1..Len(rready') : rready'[j] = rready'[k] => j = k
    BY Zenon, <2>1, <2>4, <2>6 DEF PlaceInv
  <2> QED
    BY Zenon, <1>1, <2>1, <2>2, <2>3, <2>5 DEF PlaceInv, InFlight
<1>2. CASE ~PushReady(l)
  BY Zenon, <1>2, OwnerEffects, OwnerFrame
<1> QED
  BY Zenon, <1>1, <1>2

(* A completion routine moves no response. *)
LEMMA SubPlaceStep ==
    ASSUME NEW t \in Threads, SubMove(t)
    PROVE  /\ PlaceInv => PlaceInv'
           /\ \A m \in Leases : (InFlight(m)' <=> InFlight(m)) /\ (InReady(m)' <=> InReady(m))
  BY Zenon, SubFrame DEF PlaceInv, InFlight, InReady, InYield
-----------------------------------------------------------------------------
(* Recycling is the only way to stop holding a slot. *)
LEMMA OwnerHolders ==
    ASSUME ControlInv, NEW l \in Leases, OwnerMove(l)
    PROVE  Holders \subseteq Holders'
<1>1. CASE Reserve(l) /\ rfree # <<>>
  BY Zenon, <1>1, ReserveEffect
<1>2. CASE ~(Reserve(l) /\ rfree # <<>>)
  BY Zenon, <1>2, OwnerQuiet DEF Quiet
<1> QED
  BY Zenon, <1>1, <1>2

(* A completion routine ends the hold of its own record at most. *)
LEMMA SubHolders ==
    ASSUME ControlInv, NEW t \in Threads, SubMove(t)
    PROVE  Holders' = IF Recycle(t) THEN Holders \ {rsub[t].record} ELSE Holders
<1>1. CASE Recycle(t)
  BY Zenon, <1>1, RecycleEffect
<1>2. CASE RecycleIndex(t)
  BY Zenon, <1>2, RecycleIndexEffect DEF Holders, Flagged, Recycle, RecycleIndex, SubAt
<1>3. CASE ~Recycle(t) /\ ~RecycleIndex(t)
  BY Zenon, <1>3, SubQuiet DEF Quiet
<1> QED
  BY Zenon, <1>1, <1>2, <1>3

(* A completion routine does not touch what the others' settled records are made of. *)
LEMMA SubSettled ==
    ASSUME ControlInv, NEW t \in Threads, SubMove(t), NEW m \in Leases, m # t
    PROVE  /\ rpc'[m] = rpc[m] /\ rsub'[m] = rsub[m] /\ rused' = rused
           /\ "activated" \in rec'[m].flags <=> Flagged(m, "activated")
<1>0. SlotsType /\ m \in Threads
  BY Zenon DEF ControlInv, Threads
<1>1. rsub[t].at # "none" /\ rsub'[m] = rsub[m]
  BY Zenon, <1>0, SubLocal
<1>2. rsub[t].record \in Leases
  BY Zenon, <1>1 DEF ControlInv, RoutineInv, Present
<1>3. "activated" \in rec'[m].flags <=> Flagged(m, "activated")
  BY <1>0, <1>2, SubRecord DEF Flagged
<1> QED
  BY Zenon, <1>1, <1>3, SubFrame

(* Who may answer an ask is settled once. *)
LEMMA ClaimKept ==
    ASSUME ControlInv, [SlotsNext]_rvars, NEW m \in Leases, rused[AskOf[m]] # {}
    PROVE  rused'[AskOf[m]] = rused[AskOf[m]]
<1>0. rused \in [Asks -> SUBSET Leases] /\ \A l \in Leases : AskOf[l] \in Asks
  BY Zenon DEF ControlInv, SlotsType, PoolType, Asks
<1>1. ASSUME NEW l \in Leases, OwnerMove(l) PROVE rused'[AskOf[m]] = rused[AskOf[m]]
  <2>1. CASE ClaimReply(l)
    BY Zenon, <1>0, <2>1 DEF ClaimReply
  <2>2. CASE ~ClaimReply(l)
    BY Zenon, <1>1, <2>2, OwnerEffects
  <2> QED
    BY Zenon, <2>1, <2>2
<1>2. ASSUME UNCHANGED rvars PROVE rused'[AskOf[m]] = rused[AskOf[m]]
  BY Zenon, <1>2 DEF rvars, ownerVars
<1> QED
  BY Zenon, <1>1, <1>2, StepCases, SubFrame, TaskFrame

(* An owner becomes pending when it reserves, and stays so until it pushed its record or called
   a completion routine. *)
LEMMA OwnerPending ==
    ASSUME ControlInv, NEW l \in Leases, OwnerMove(l), FlagInv(l), Pending(l)'
    PROVE  /\ Pending(l) \/ (Reserve(l) /\ rfree # <<>>)
           /\ rsub'[l].at = "none"
<1> USE DEF Pending, OwnerAt, OwnerGoto, Opening, Pushing, Flagged, Activated
<1>0. /\ rpc \in [Leases -> Labels] /\ rec \in [Leases -> Record] /\ rsub \in [Threads -> SubCall]
      /\ l \in Threads /\ rsub[l].at = "none"
  BY Zenon, OwnerLocal DEF ControlInv, SlotsType, LabelType, RecordType, CallType, Threads
<1>1. CASE TakeJob(l) \/ TakeBytes(l) \/ BeginReserve(l) \/ Reserve(l) \/ EndReserve(l)
  BY Zenon, <1>0, <1>1 DEF TakeJob, TakeBytes, BeginReserve, Reserve, EndReserve
<1>2. CASE CheckReserved(l)
  BY Zenon, <1>0, <1>2 DEF CheckReserved
<1>3. CASE ClaimReply(l)
  BY Zenon, <1>0, <1>3 DEF ClaimReply
<1>4. CASE BeginPublish(l)
  BY Zenon, <1>0, <1>4 DEF BeginPublish
<1>5. CASE StorePayload(l)
  BY Zenon, <1>0, <1>5 DEF StorePayload
<1>6. CASE Cancel(l)
  BY Zenon, <1>0, <1>6 DEF Cancel, Record
<1>7. CASE Activate(l)
  BY Zenon, <1>0, <1>7 DEF Activate, Record
<1>8. CASE BeginActivate(l)
  BY Zenon, <1>0, <1>8 DEF BeginActivate
<1>9. CASE CheckActivate(l)
  BY Zenon, <1>0, <1>9 DEF CheckActivate
<1>10. CASE PushReady(l) \/ EndActivate(l) \/ NotifyLease(l)
  BY Zenon, <1>0, <1>10 DEF PushReady, EndActivate, NotifyLease
<1>11. CASE EnableWait(l) \/ ReadState(l) \/ AwaitState(l)
  BY Zenon, <1>0, <1>11 DEF EnableWait, ReadState, AwaitState
<1>12. CASE DropWait(l)
  BY Zenon, <1>0, <1>12 DEF DropWait, FlagInv, Pushed
<1> QED
  BY Zenon, <1>1, <1>2, <1>3, <1>4, <1>5, <1>6, <1>7, <1>8, <1>9, <1>10, <1>11, <1>12 DEF OwnerMove

(* An owner that pushed its record stays settled: another activate only wakes the task. *)
LEMMA OwnerSettled ==
    ASSUME ControlInv, NEW l \in Leases, OwnerMove(l), Settled(l)
    PROVE  /\ "activated" \in rec'[l].flags /\ rpc'[l] \in Late /\ rsub'[l].at = "none"
           /\ rused' = rused /\ ~PushReady(l)
<1> USE DEF Settled, OwnerAt, OwnerGoto, Late, Pushed, Flagged, Activated
<1>0. /\ rpc \in [Leases -> Labels] /\ rec \in [Leases -> Record] /\ SlotsType
  BY Zenon DEF ControlInv, SlotsType, LabelType, RecordType
<1>1. CASE Cancel(l) \/ Activate(l)
  BY <1>0, <1>1 DEF Cancel, Activate, Record, PushReady, ownerVars
<1>2. CASE EndActivate(l) \/ NotifyLease(l)
  BY Zenon, <1>0, <1>2 DEF EndActivate, NotifyLease, PushReady
<1>3. CASE EnableWait(l) \/ ReadState(l) \/ AwaitState(l) \/ DropWait(l)
  BY Zenon, <1>0, <1>3 DEF EnableWait, ReadState, AwaitState, DropWait, PushReady
<1>4. CASE TakeJob(l) \/ TakeBytes(l) \/ BeginReserve(l) \/ Reserve(l) \/ EndReserve(l)
  BY Zenon, <1>4 DEF TakeJob, TakeBytes, BeginReserve, Reserve, EndReserve
<1>5. CASE CheckReserved(l) \/ ClaimReply(l) \/ BeginPublish(l) \/ StorePayload(l) \/ BeginActivate(l)
           \/ CheckActivate(l) \/ PushReady(l)
  BY Zenon, <1>5
     DEF CheckReserved, ClaimReply, BeginPublish, StorePayload, BeginActivate, CheckActivate, PushReady
<1> QED
  BY Zenon, <1>1, <1>2, <1>3, <1>4, <1>5 DEF OwnerMove
=============================================================================
