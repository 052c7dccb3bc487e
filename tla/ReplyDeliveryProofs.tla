------------------------- MODULE ReplyDeliveryProofs -------------------------
(***************************************************************************)
(* What the reply slots deliver: a leased reply is written by the writer   *)
(* task alone, whole or turned back at a frame boundary, and its owner     *)
(* learns of it after the capacity is back.                                *)
(***************************************************************************)
EXTENDS ReplySlotsProofs

(* A pending record keeps its slot until close_and_reclaim drains and sweeps. *)
LEMMA PendingStep ==
    ASSUME ControlInv, [SlotsNext]_rvars, \A l \in Leases : FlagInv(l) /\ PendingInv(l) /\ FlightInv(l)
    PROVE  \A m \in Leases : PendingInv(m)'
<1>0. SlotsType /\ Leases \subseteq Threads /\ IO \notin Leases
  BY Zenon, SlotsAssumption DEF ControlInv, Threads
<1> SUFFICES ASSUME NEW m \in Leases, Pending(m)'
             PROVE  rsub'[m].at = "none" /\ (iopc' \notin {"ready", "sweep", "exited"} => m \in Holders')
  BY Zenon DEF PendingInv
<1> DEFINE Before == Pending(m) /\ rsub[m].at = "none" /\ (iopc \notin {"ready", "sweep", "exited"} => m \in Holders)
           Goal == rsub'[m].at = "none" /\ (iopc' \notin {"ready", "sweep", "exited"} => m \in Holders')
<1>1. Pending(m) => Before
  BY Zenon DEF PendingInv
<1>2. ASSUME NEW l \in Leases, OwnerMove(l) PROVE Goal
  <2>1. iopc' = iopc /\ Holders \subseteq Holders'
    BY Zenon, <1>2, OwnerFrame, OwnerHolders
  <2>2. CASE m = l
    <3>1. Pending(m) \/ (Reserve(m) /\ rfree # <<>>)
      BY Zenon, <1>2, <2>2, OwnerPending
    <3>2. rsub'[m].at = "none"
      BY Zenon, <1>2, <2>2, OwnerPending
    <3>3. Reserve(m) /\ rfree # <<>> => m \in Holders'
      BY <1>2, <2>2, ReserveEffect
    <3> QED
      BY Zenon, <1>1, <2>1, <3>1, <3>2, <3>3
  <2>3. CASE m # l
    <3>1. rpc'[m] = rpc[m] /\ rsub'[m] = rsub[m] /\ rec'[m] = rec[m]
      BY <1>0, <1>2, <2>3, OwnerLocal, OwnerRecord
    <3>2. Pending(m)
      BY Zenon, <3>1 DEF Pending, Flagged
    <3> QED
      BY Zenon, <1>1, <2>1, <3>1, <3>2
  <2> QED
    BY Zenon, <2>2, <2>3
<1>3. ASSUME NEW t \in Threads, rsub[t].at # "none", SubMove(t) PROVE Goal
  <2>1. iopc' = iopc /\ rpc' = rpc
    BY Zenon, <1>3, SubFrame
  <2>2. m # t
    <3>1. ASSUME m = t PROVE FALSE
      <4>1. /\ rsub[t].record = t /\ rec'[t].flags \in {rec[t].flags, rec[t].flags \cup {"recycled"}}
        BY Zenon, <1>0, <1>3, <3>1, SubRecord DEF ControlInv, CallInv
      <4>2. Pending(m)
        BY Zenon, <2>1, <3>1, <4>1 DEF Pending, Flagged
      <4> QED
        BY Zenon, <1>1, <1>3, <3>1, <4>2
    <3> QED
      BY Zenon, <3>1
  <2>3. /\ rsub'[m] = rsub[m] /\ ("activated" \in rec'[m].flags <=> Flagged(m, "activated"))
    BY Zenon, <1>3, <2>2, SubSettled
  <2>4. Pending(m)
    BY Zenon, <2>1, <2>3 DEF Pending, Flagged
  <2>5. iopc \notin {"ready", "sweep", "exited"} => rsub[t].record # m
    <3>1. t \in Leases => rsub[t].record = t
      BY Zenon, <1>3 DEF ControlInv, CallInv
    <3>2. t = IO /\ iopc \notin {"ready", "sweep", "exited"} /\ rsub[t].record = m => Settled(m)
      BY Zenon, <1>3 DEF ControlInv, TaskInv, FlightInv
    <3>3. ~Settled(m)
      BY Zenon, <2>4 DEF Pending, Settled, Opening, Pushing, Late, Pushed
    <3> QED
      BY Zenon, <2>2, <3>1, <3>2, <3>3 DEF Threads
  <2> QED
    BY Zenon, <1>1, <1>3, <2>1, <2>3, <2>4, <2>5, SubHolders
<1>4. ASSUME TaskMove PROVE Goal
  <2>1. rec' = rec /\ rpc' = rpc
    BY Zenon, <1>4, TaskFrame
  <2>2. rsub'[m] = rsub[m]
    BY Zenon, <1>0, <1>4, TaskLocal DEF ControlInv, PresentInv, Present
  <2>3. iopc \in {"ready", "sweep", "exited"} => iopc' \in {"ready", "sweep", "exited"}
    <3>1. CASE NextResponse \/ WakeIO \/ ChooseStage \/ WritePart \/ WriteEnd \/ Flush
      BY Zenon, <3>1
         DEF NextResponse, WakeIO, ChooseStage, WritePart, WriteEnd, MayWrite, Flush, IOAt
    <3>2. CASE ExitIO \/ FenceSlots \/ CloseSlots \/ Settle \/ DrainReady \/ Sweep
      BY Zenon, <3>2 DEF ExitIO, FenceSlots, CloseSlots, Settle, DrainReady, Sweep, IOAt
    <3> QED
      BY Zenon, <1>4, <3>1, <3>2 DEF TaskMove
  <2>4. Pending(m) /\ Holders' = Holders
    BY Zenon, <2>1 DEF Pending, Holders, Flagged
  <2> QED
    BY Zenon, <1>1, <2>2, <2>3, <2>4
<1>5. ASSUME UNCHANGED rvars PROVE Goal
  <2>1. Pending(m) /\ Holders' = Holders /\ iopc' = iopc /\ rsub' = rsub
    BY Zenon, <1>5 DEF rvars, ownerVars, ioVars, Pending, Holders, Flagged
  <2> QED
    BY Zenon, <1>1, <2>1
<1> QED
  BY Zenon, <1>2, <1>3, <1>4, <1>5, StepCases

(* An interval from 1 tells its end. *)
LEMMA SameInterval ==
    ASSUME NEW a \in Nat, NEW b \in Nat, 1..a = 1..b
    PROVE  a = b
<1>1. a > b => a \in 1..a /\ a \notin 1..b
  OBVIOUS
<1>2. a < b => b \in 1..b /\ b \notin 1..a
  OBVIOUS
<1> QED
  BY <1>1, <1>2

(* The parts of a streamed reply. *)
LEMMA PartsSeq ==
    ASSUME NEW n \in Nat
    PROVE  /\ Parts(n) \in Seq(Frames) /\ Len(Parts(n)) = n
           /\ \A i \in 1..n : Parts(n)[i] = "part"
<1>1. Parts(n) \in [1..n -> Frames]
  BY Zenon DEF Parts, Frames
<1>2. Parts(n) \in Seq(Frames)
  BY Zenon, <1>1, SeqDef
<1>3. DOMAIN Parts(n) = 1..Len(Parts(n)) /\ Len(Parts(n)) \in Nat
  BY Zenon, <1>2, LenProperties
<1>4. DOMAIN Parts(n) = 1..n
  BY Zenon DEF Parts
<1>5. Len(Parts(n)) = n
  BY Zenon, <1>3, <1>4, SameInterval
<1> QED
  BY Zenon, <1>2, <1>5 DEF Parts

(* One more part. *)
LEMMA PartsNext ==
    ASSUME NEW n \in Nat
    PROVE  Parts(0) = <<>> /\ Append(Parts(n), "part") = Parts(n + 1)
<1>1. Parts(0) = <<>>
  BY Zenon, PartsSeq, EmptySeq
<1>2. "part" \in Frames /\ n + 1 \in Nat
  BY DEF Frames
<1>3. /\ Append(Parts(n), "part") \in Seq(Frames) /\ Len(Append(Parts(n), "part")) = n + 1
      /\ \A i \in 1..n + 1 : Append(Parts(n), "part")[i] = "part"
  BY <1>2, PartsSeq, AppendProperties
<1>4. /\ Parts(n + 1) \in Seq(Frames) /\ Len(Parts(n + 1)) = n + 1
      /\ \A i \in 1..n + 1 : Parts(n + 1)[i] = "part"
  BY Zenon, <1>2, PartsSeq
<1>5. Append(Parts(n), "part") = Parts(n + 1)
  BY Zenon, <1>3, <1>4, SeqEqual
<1> QED
  BY Zenon, <1>1, <1>5

(* The last frame of what was just appended to. *)
LEMMA AppendedFrame ==
    ASSUME NEW w \in Seq(Frames), NEW f \in Frames
    PROVE  /\ Append(w, f) # <<>> /\ Append(w, f)[Len(Append(w, f))] = f
           /\ Append(w, f) \in Seq(Frames)
  BY AppendProperties

(* Whole replies end with the frame that answers the ask, and what precedes it answers nothing. *)
LEMMA WholeAnswers ==
    ASSUME NEW l \in Leases, rwire[l] \in WholeReplies
    PROVE  Answered(l)
<1>1. BigFrames - 1 \in Nat /\ {"inline", "part", "last", "abort", "terminal"} = Frames
  BY SlotsAssumption DEF Frames
<1>2. ASSUME NEW f \in {"inline", "terminal"}, rwire[l] = <<f>> PROVE Answered(l)
  <2>1. <<f>> # <<>> /\ <<f>>[Len(<<f>>)] = f
    OBVIOUS
  <2>2. LastFrame(l) = f
    BY Zenon, <1>2, <2>1 DEF LastFrame
  <2> QED
    BY Zenon, <2>2 DEF Answered
<1>3. CASE rwire[l] = Append(Parts(BigFrames - 1), "last")
  <2>1. Parts(BigFrames - 1) \in Seq(Frames)
    BY Zenon, <1>1, PartsSeq
  <2>2. rwire[l] # <<>> /\ rwire[l][Len(rwire[l])] = "last"
    BY <1>1, <1>3, <2>1, AppendedFrame
  <2> QED
    BY Zenon, <2>2 DEF Answered, LastFrame
<1>4. ASSUME NEW n \in 1..BigFrames - 1, rwire[l] = Append(Append(Parts(n), "abort"), "terminal")
      PROVE  Answered(l)
  <2>1. n \in Nat
    BY <1>1
  <2>2. Append(Parts(n), "abort") \in Seq(Frames)
    BY Zenon, <1>1, <2>1, PartsSeq, AppendedFrame
  <2> QED
    BY <1>1, <1>4, <2>2, AppendedFrame DEF Answered, LastFrame
<1> QED
  BY Zenon, <1>2, <1>3, <1>4 DEF WholeReplies

(* In flight a record is the writer task's, and it gives it up once it is answered. *)
LEMMA FlightStep ==
    ASSUME ControlInv, [SlotsNext]_rvars, PlaceInv, WireInv,
           \A l \in Leases : FlagInv(l) /\ ClaimInv(l) /\ PendingInv(l) /\ FlightInv(l)
    PROVE  PlaceInv' /\ \A m \in Leases : FlightInv(m)'
<1>0. /\ SlotsType /\ Leases \subseteq Threads /\ IO \notin Leases /\ IO \in Threads
      /\ None \notin Leases
  BY Zenon, SlotsAssumption DEF ControlInv, Threads
<1> DEFINE Runs(m) == rsub[IO].at # "none" /\ rsub[IO].record = m
           Hand(m) == InFlight(m) => m \in Holders /\ Settled(m) /\ ~Runs(m)
           Done(m) == Runs(m) /\ rsub[IO].kind = "complete" => Settled(m) /\ Answered(m)
<1>1. \A m \in Leases : Hand(m) /\ Done(m)
  BY Zenon DEF FlightInv
<1>2. ASSUME NEW l \in Leases, OwnerMove(l)
      PROVE  PlaceInv' /\ \A m \in Leases : Hand(m)' /\ Done(m)'
  <2>1. /\ rsub'[IO] = rsub[IO] /\ Holders \subseteq Holders' /\ rwire' = rwire
        /\ \A m \in Leases \ {l} : rpc'[m] = rpc[m] /\ rsub'[m] = rsub[m] /\ rec'[m] = rec[m]
    BY Zenon, <1>0, <1>2, OwnerFrame, OwnerHolders, OwnerLocal, OwnerRecord
  <2>2. \A m \in Leases : Settled(m) => Settled(m)'
    <3>1. Settled(l) => Settled(l)'
      BY Zenon, <1>2, OwnerSettled DEF Settled, Flagged
    <3>2. ASSUME NEW m \in Leases \ {l}, Settled(m) PROVE Settled(m)'
      <4>1. rused'[AskOf[m]] = {m}
        BY Zenon, <3>2, ClaimKept DEF Settled
      <4> QED
        BY Zenon, <2>1, <3>2, <4>1 DEF Settled, Flagged
    <3> QED
      BY Zenon, <3>1, <3>2
  <2>3. PushReady(l) => ~Settled(l) /\ l \in Holders /\ ~Runs(l) /\ Settled(l)'
    <3> SUFFICES ASSUME PushReady(l) PROVE ~Settled(l) /\ l \in Holders /\ ~Runs(l) /\ Settled(l)'
      OBVIOUS
    <3>1. rpc[l] = "ready" /\ rpc'[l] = "readied" /\ rec' = rec /\ rsub' = rsub /\ rused' = rused
      BY Zenon, <1>0 DEF PushReady, OwnerAt, OwnerGoto, SlotsType, LabelType
    <3>2. ~Settled(l)
      BY Zenon, <3>1 DEF Settled, Late, Pushed
    <3>3. iopc \notin {"ready", "sweep", "exited"}
      BY Zenon, <3>1 DEF ControlInv, CallInv, Counted, TaskInv
    <3>4. l \in Holders /\ rsub[l].at = "none"
      BY Zenon, <3>1, <3>3 DEF PendingInv, Pending, Pushing
    <3>5. ~Runs(l)
      BY Zenon, <1>1, <3>2, <3>3 DEF ControlInv, TaskInv
    <3>6. Settled(l)'
      BY Zenon, <3>1, <3>4
         DEF Settled, Flagged, FlagInv, ClaimInv, Pushing, Late, Pushed, Early, Opening
    <3> QED
      BY Zenon, <3>2, <3>4, <3>5, <3>6
  <2>4. PushReady(l) => ~InFlight(l)
    BY Zenon, <1>1, <2>3
  <2>5. /\ PlaceInv'
        /\ \A m \in Leases : InFlight(m)' => InFlight(m) \/ (m = l /\ PushReady(l))
    BY Zenon, <1>2, <2>4, OwnerPlaceStep
  <2>6. \A m \in Leases : Answered(m)' <=> Answered(m)
    BY Zenon, <2>1 DEF Answered, LastFrame
  <2> QED
    BY Zenon, <1>1, <2>1, <2>2, <2>3, <2>5, <2>6
<1>3. ASSUME NEW t \in Threads, SubMove(t)
      PROVE  PlaceInv' /\ \A m \in Leases : Hand(m)' /\ Done(m)'
  <2>1. /\ rwire' = rwire /\ rsub[t].at # "none" /\ \A u \in Threads \ {t} : rsub'[u] = rsub[u]
        /\ \/ rsub'[t] = NoSub
           \/ rsub'[t].record = rsub[t].record /\ rsub'[t].kind = rsub[t].kind
    BY Zenon, <1>0, <1>3, SubFrame, SubLocal
  <2>2. ASSUME NEW m \in Leases, Settled(m) PROVE Settled(m)' /\ m # t
    <3>1. m # t
      BY Zenon, <2>1, <2>2 DEF Settled
    <3>2. /\ rpc'[m] = rpc[m] /\ rsub'[m] = rsub[m] /\ rused' = rused
          /\ "activated" \in rec'[m].flags <=> Flagged(m, "activated")
      BY Zenon, <1>3, <3>1, SubSettled
    <3> QED
      BY Zenon, <2>2, <3>1, <3>2 DEF Settled, Flagged
  <2>3. PlaceInv' /\ \A m \in Leases : (InFlight(m)' <=> InFlight(m))
    BY Zenon, <1>3, SubPlaceStep
  <2>4. \A m \in Leases : Answered(m)' <=> Answered(m)
    BY Zenon, <2>1 DEF Answered, LastFrame
  <2>5. \A m \in Leases : Runs(m)' => Runs(m) /\ rsub'[IO].kind = rsub[IO].kind
    BY <1>0, <2>1 DEF NoSub
  <2>6. ASSUME NEW m \in Leases, InFlight(m) PROVE m \in Holders'
    <3>1. m \in Holders /\ ~Runs(m) /\ m # t
      BY Zenon, <1>1, <2>2, <2>6
    <3>2. t \in Leases => rsub[t].record = t
      BY Zenon, <2>1 DEF ControlInv, CallInv
    <3>3. rsub[t].record # m
      BY Zenon, <2>1, <3>1, <3>2 DEF Threads
    <3> QED
      BY Zenon, <1>3, <3>1, <3>3, SubHolders
  <2> QED
    BY Zenon, <1>1, <2>2, <2>3, <2>4, <2>5, <2>6
<1>4. ASSUME TaskMove
      PROVE  PlaceInv' /\ \A m \in Leases : Hand(m)' /\ Done(m)'
  <2>1. /\ rec' = rec /\ rpc' = rpc /\ rused' = rused /\ \A m \in Leases : rsub'[m] = rsub[m]
        /\ rsub[IO].at = "none"
    BY Zenon, <1>0, <1>4, TaskFrame, TaskLocal DEF ControlInv, PresentInv, Present
  <2>2. Holders' = Holders /\ \A m \in Leases : Settled(m)' <=> Settled(m)
    BY Zenon, <2>1 DEF Holders, Settled, Flagged
  <2>3. PlaceInv' /\ \A m \in Leases : InFlight(m)' => InFlight(m)
    BY Zenon, <1>4, TaskPlaceStep
  <2>4. \A m \in Leases : (InFlight(m)' => ~Runs(m)') /\ Done(m)'
    <3>1. CASE Flush
      <4>1. rsub'[IO].record = rcur.lease /\ rwire' = rwire /\ rcur.stage = "flushing"
        BY Zenon, <1>0, <3>1 DEF Flush, Call, SlotsType, CallType
      <4>2. rcur # NoResponse /\ rcur.lease \in Leases
        BY <4>1 DEF NoResponse, ControlInv, PresentInv, Present
      <4>3. Settled(rcur.lease)
        BY Zenon, <1>1, <4>2 DEF InFlight
      <4>4. Answered(rcur.lease)
        BY Zenon, <4>1, <4>2, WholeAnswers DEF WireInv, CurShape
      <4>5. \A m \in Leases : InFlight(m)' => m # rcur.lease
        BY Zenon, <1>4, <3>1, TaskPlaceStep
      <4>6. \A m \in Leases : Answered(m)' <=> Answered(m)
        BY Zenon, <4>1 DEF Answered, LastFrame
      <4> QED
        BY Zenon, <2>2, <4>1, <4>3, <4>4, <4>5, <4>6
    <3>2. CASE DrainReady
      <4>1. CASE rready = <<>>
        BY Zenon, <2>1, <3>2, <4>1 DEF DrainReady
      <4>2. CASE rready # <<>>
        <5>1. rsub'[IO].kind = "closed" /\ rready' = Tail(rready)
          BY <1>0, <3>2, <4>2 DEF DrainReady, Call, SlotsType, CallType
        <5>2. DropReady
          BY Zenon, <3>2, <4>2, DrainEffect
        <5>3. \A m \in Leases : InFlight(m)' => m # rready[1]
          BY Zenon, <1>4, <5>2, TaskPlaceStep
        <5> QED
          BY Zenon, <5>1, <5>2, <5>3 DEF DropReady
      <4> QED
        BY Zenon, <4>1, <4>2
    <3>3. CASE Sweep
      <4>1. rready' = <<>> /\ rcur' = NoResponse /\ ryield' = <<>>
        BY Zenon, <3>3 DEF Sweep, IOAt, ControlInv, TaskInv
      <4>2. \A m \in Leases : ~InFlight(m)'
        BY <1>0, <4>1, EmptySeq DEF InFlight, InReady, InYield, NoResponse
      <4>3. rsub' = rsub \/ rsub'[IO].kind = "closed"
        BY <1>0, <3>3 DEF Sweep, Call, SlotsType, CallType
      <4> QED
        BY Zenon, <2>1, <4>2, <4>3
    <3>4. CASE rsub' = rsub
      BY Zenon, <2>1, <3>4
    <3>5. CASE NextResponse \/ WakeIO \/ ChooseStage \/ WritePart \/ WriteEnd
      BY Zenon, <3>4, <3>5 DEF NextResponse, WakeIO, ChooseStage, WritePart, WriteEnd
    <3>6. CASE ExitIO \/ FenceSlots \/ CloseSlots \/ Settle
      BY Zenon, <3>4, <3>6 DEF ExitIO, FenceSlots, CloseSlots, Settle
    <3> QED
      BY Zenon, <1>4, <3>1, <3>2, <3>3, <3>5, <3>6 DEF TaskMove
  <2> QED
    BY Zenon, <1>1, <2>2, <2>3, <2>4
<1>5. ASSUME UNCHANGED rvars
      PROVE  PlaceInv' /\ \A m \in Leases : Hand(m)' /\ Done(m)'
  <2>1. /\ rec' = rec /\ rpc' = rpc /\ rused' = rused /\ rsub' = rsub /\ rwire' = rwire
        /\ rready' = rready /\ ryield' = ryield /\ rcur' = rcur
    BY Zenon, <1>5 DEF rvars, ownerVars, ioVars
  <2>2. /\ Holders' = Holders /\ PlaceInv'
        /\ \A m \in Leases : /\ Settled(m)' <=> Settled(m)
                             /\ Answered(m)' <=> Answered(m)
                             /\ InFlight(m)' <=> InFlight(m)
    BY Zenon, <2>1
       DEF Holders, Settled, Flagged, Answered, LastFrame, PlaceInv, InFlight, InReady, InYield
  <2> QED
    BY Zenon, <1>1, <2>1, <2>2
<1>6. PlaceInv' /\ \A m \in Leases : Hand(m)' /\ Done(m)'
  BY Zenon, <1>2, <1>3, <1>4, <1>5, StepCases
<1> QED
  BY Zenon, <1>6 DEF FlightInv
-----------------------------------------------------------------------------
(* A frame by itself. *)
LEMMA SingleFrame ==
    ASSUME NEW f
    PROVE  Append(<<>>, f) = <<f>>
  OBVIOUS

(* A response whose record is not pushed yet, or waits in the ready set, was so before. *)
LEMMA UnwrittenStep ==
    ASSUME ControlInv, PlaceInv, [SlotsNext]_rvars, NEW m \in Leases, Unwritten(m)'
    PROVE  Unwritten(m)
<1>0. SlotsType /\ Leases \subseteq Threads
  BY Zenon DEF ControlInv, Threads
<1>1. ASSUME NEW l \in Leases, OwnerMove(l), m # l PROVE Unwritten(m)
  <2>1. rpc'[m] = rpc[m] /\ rec'[m] = rec[m]
    BY <1>0, <1>1, OwnerLocal, OwnerRecord
  <2>2. InReady(m)' => InReady(m)
    <3>1. CASE PushReady(l)
      BY <1>1, <3>1, PushEffect DEF InReady
    <3>2. CASE ~PushReady(l)
      BY Zenon, <1>1, <3>2, OwnerEffects DEF InReady
    <3> QED
      BY Zenon, <3>1, <3>2
  <2> QED
    BY Zenon, <2>1, <2>2 DEF Unwritten, Flagged
<1>2. ASSUME OwnerMove(m), Flagged(m, "activated"), rpc[m] \notin Pushing PROVE Unwritten(m)
  <2>1. ~PushReady(m) /\ InReady(m)' => InReady(m)
    BY Zenon, <1>2, OwnerEffects DEF InReady
  <2>2. ~PushReady(m)
    BY Zenon, <1>2 DEF PushReady, OwnerAt, Pushing
  <2>3. "activated" \in rec'[m].flags
    <3>1. CASE Reserve(m) /\ rfree # <<>>
      BY <1>2, <3>1, ReserveEffect DEF Flagged, NoRecord
    <3>2. CASE ~(Reserve(m) /\ rfree # <<>>)
      BY Zenon, <1>0, <1>2, <3>2, OwnerKeeps DEF Flagged
    <3> QED
      BY Zenon, <3>1, <3>2
  <2>4. rpc'[m] \notin Pushing
    <3> USE DEF Pushing, OwnerAt, OwnerGoto, Activated
    <3>0. rpc \in [Leases -> Labels]
      BY Zenon, <1>0 DEF SlotsType, LabelType
    <3>1. CASE TakeJob(m) \/ TakeBytes(m) \/ BeginReserve(m) \/ Reserve(m) \/ EndReserve(m)
      BY Zenon, <3>0, <3>1 DEF TakeJob, TakeBytes, BeginReserve, Reserve, EndReserve
    <3>2. CASE CheckReserved(m) \/ ClaimReply(m) \/ BeginPublish(m) \/ StorePayload(m) \/ Cancel(m)
      BY Zenon, <3>0, <3>2 DEF CheckReserved, ClaimReply, BeginPublish, StorePayload, Cancel
    <3>3. CASE Activate(m) \/ BeginActivate(m) \/ CheckActivate(m) \/ PushReady(m) \/ EndActivate(m)
      BY Zenon, <1>2, <3>0, <3>3 DEF Activate, BeginActivate, CheckActivate, PushReady, EndActivate
    <3>4. CASE NotifyLease(m) \/ EnableWait(m) \/ ReadState(m) \/ AwaitState(m) \/ DropWait(m)
      BY Zenon, <3>0, <3>4 DEF NotifyLease, EnableWait, ReadState, AwaitState, DropWait
    <3> QED
      BY Zenon, <1>2, <3>1, <3>2, <3>3, <3>4 DEF OwnerMove
  <2> QED
    BY Zenon, <2>1, <2>2, <2>3, <2>4 DEF Unwritten, Flagged
<1>3. ASSUME NEW t \in Threads, SubMove(t), rsub[t].at # "none" PROVE Unwritten(m)
  <2>1. rsub[t].record \in Leases
    BY Zenon, <1>3 DEF ControlInv, RoutineInv, Present
  <2>2. "activated" \in rec'[m].flags <=> "activated" \in rec[m].flags
    BY <1>0, <1>3, <2>1, SubRecord
  <2>3. rpc' = rpc /\ (InReady(m)' <=> InReady(m))
    BY Zenon, <1>3, SubFrame, SubPlaceStep
  <2> QED
    BY Zenon, <2>2, <2>3 DEF Unwritten, Flagged
<1>4. ASSUME TaskMove PROVE Unwritten(m)
  BY Zenon, <1>4, TaskFrame, TaskPlaceStep DEF Unwritten, Flagged
<1>5. ASSUME UNCHANGED rvars PROVE Unwritten(m)
  BY Zenon, <1>5 DEF rvars, ownerVars, Unwritten, Flagged, InReady
<1>6. ASSUME OwnerMove(m) PROVE Unwritten(m)
  BY Zenon, <1>2, <1>6 DEF Unwritten
<1> QED
  BY Zenon, <1>1, <1>3, <1>4, <1>5, <1>6, StepCases

(* What the wire shows of the response being written when a frame of it ends. *)
LEMMA WireEnd ==
    ASSUME ControlInv, WireInv, WriteEnd
    PROVE  /\ rcur.lease \in Leases /\ rwire'[rcur.lease] \in Shapes
           /\ rcur' # NoResponse => CurShape'
           /\ ryield' # ryield =>
                /\ rcur.stage = "normal" /\ rcur.frame + 1 \in 1..BigFrames - 1
                /\ rwire'[rcur.lease] = Parts(rcur.frame + 1)
<1> DEFINE l == rcur.lease
           w == rwire[l]
<1>0. /\ rcur \in Response /\ rwire \in [Leases -> Seq(Frames)] /\ BigFrames \in Nat \ {0}
      /\ rcur # NoResponse /\ l \in Leases /\ CurShape
  <2>1. rcur # NoResponse
    BY DEF WriteEnd, MayWrite, NoResponse
  <2> QED
    BY Zenon, <2>1, SlotsAssumption
       DEF ControlInv, SlotsType, WriterType, PresentInv, Present, WireInv
<1>1. CASE rcur.stage \in {"inline", "terminal"}
  <2>1. /\ rwire'[l] = Append(w, rcur.stage) /\ rcur'.stage = "flushing" /\ rcur'.lease = l
        /\ ryield' = ryield
    BY Zenon, <1>0, <1>1 DEF WriteEnd, Stage, Response
  <2>2. rwire'[l] \in WholeReplies
    <3>1. CASE w = <<>>
      BY Zenon, <1>1, <2>1, <3>1, SingleFrame DEF WholeReplies
    <3>2. CASE rcur.stage = "terminal" /\ \E n \in 1..BigFrames - 1 : w = Append(Parts(n), "abort")
      BY Zenon, <2>1, <3>2 DEF WholeReplies
    <3> QED
      BY Zenon, <1>0, <1>1, <3>1, <3>2 DEF CurShape
  <2> QED
    BY Zenon, <1>0, <2>1, <2>2 DEF CurShape, Shapes
<1>2. CASE rcur.stage = "abort"
  <2>1. /\ rwire'[l] = Append(w, "abort") /\ rcur'.stage = "terminal" /\ rcur'.lease = l
        /\ ryield' = ryield
    BY Zenon, <1>0, <1>2 DEF WriteEnd, Stage, Terminal, Response
  <2>2. \E n \in 1..BigFrames - 1 : rwire'[l] = Append(Parts(n), "abort")
    BY Zenon, <1>0, <1>2, <2>1 DEF CurShape
  <2> QED
    BY Zenon, <1>0, <2>1, <2>2 DEF CurShape, Shapes
<1>3. CASE rcur.stage = "normal" /\ rcur.frame + 1 = BigFrames
  <2>1. /\ rwire'[l] = Append(w, "last") /\ rcur'.stage = "flushing" /\ rcur'.lease = l
        /\ ryield' = ryield
    BY Zenon, <1>0, <1>3 DEF WriteEnd, Stage, Response
  <2>2. w = Parts(rcur.frame) /\ rcur.frame = BigFrames - 1
    BY <1>0, <1>3 DEF CurShape, Response
  <2>3. rwire'[l] \in WholeReplies
    BY Zenon, <2>1, <2>2 DEF WholeReplies
  <2> QED
    BY Zenon, <1>0, <2>1, <2>3 DEF CurShape, Shapes
<1>4. CASE rcur.stage = "normal" /\ rcur.frame + 1 # BigFrames
  <2>1. /\ rwire'[l] = Append(w, "part")
        /\ \/ rcur'.stage = "abort" /\ rcur'.lease = l /\ ryield' = ryield
           \/ rcur' = NoResponse
    BY Zenon, <1>0, <1>4 DEF WriteEnd, Stage, Response
  <2>2. /\ w = Parts(rcur.frame) /\ rcur.frame \in Nat /\ rcur.frame + 1 \in 1..BigFrames - 1
        /\ rcur.frame + 1 \in 0..BigFrames - 1
    BY <1>0, <1>4 DEF CurShape, Response
  <2>3. rwire'[l] = Parts(rcur.frame + 1)
    BY Zenon, <2>1, <2>2, PartsNext
  <2> QED
    BY Zenon, <1>0, <1>4, <2>1, <2>2, <2>3 DEF CurShape, Shapes
<1> QED
  BY Zenon, <1>1, <1>2, <1>3, <1>4 DEF WriteEnd, MayWrite

(* A response that yields at a frame boundary. *)
LEMMA WirePutBack ==
    ASSUME ControlInv, PlaceInv, WireInv, WriteEnd
    PROVE  \A k \in 1..Len(ryield') : YieldShape(ryield'[k], rwire')
<1> DEFINE l == rcur.lease
           r == [rcur EXCEPT !.frame = rcur.frame + 1, !.sent = "none"]
<1>0. /\ rcur \in Response /\ ryield \in Seq(Response) /\ rwire \in [Leases -> Seq(Frames)]
      /\ l \in Leases /\ rcur.frame + 1 \in Nat
  BY WireEnd DEF ControlInv, SlotsType, WriterType, Response
<1>1. \A k \in 1..Len(ryield) : YieldShape(ryield[k], rwire')
  <2> SUFFICES ASSUME NEW k \in 1..Len(ryield)
               PROVE  /\ ryield[k].stage = "normal" /\ ryield[k].frame \in 1..BigFrames - 1
                      /\ ryield[k].sent = "none" /\ rwire'[ryield[k].lease] = Parts(ryield[k].frame)
    BY Zenon DEF YieldShape
  <2>1. ryield[k].lease \in Leases /\ ryield[k].lease # l
    BY Zenon, <1>0 DEF ControlInv, PresentInv, Present, PlaceInv, InYield
  <2>2. rwire'[ryield[k].lease] = rwire[ryield[k].lease]
    BY Zenon, <1>0, <2>1 DEF WriteEnd
  <2> QED
    BY Zenon, <2>2 DEF WireInv, YieldShape
<1>2. CASE ryield' = ryield
  BY Zenon, <1>1, <1>2
<1>3. CASE ryield' # ryield
  <2>1. ryield' = Append(ryield, r)
    BY Zenon, <1>3 DEF WriteEnd
  <2>2. r \in Response
    BY Zenon, <1>0, NextFrame
  <2>3. /\ Len(ryield) \in Nat /\ Len(ryield') = Len(ryield) + 1 /\ ryield'[Len(ryield) + 1] = r
        /\ \A k \in 1..Len(ryield) : ryield'[k] = ryield[k]
    BY <1>0, <2>1, <2>2, AppendProperties
  <2>4. /\ rcur.stage = "normal" /\ rcur.frame + 1 \in 1..BigFrames - 1
        /\ rwire'[l] = Parts(rcur.frame + 1)
    BY Zenon, <1>3, WireEnd
  <2>5. r.stage = "normal" /\ r.frame = rcur.frame + 1 /\ r.sent = "none" /\ r.lease = l
    BY Zenon, <1>0, <2>4 DEF Response
  <2>6. YieldShape(r, rwire')
    BY Zenon, <2>4, <2>5 DEF YieldShape
  <2>7. ASSUME NEW k \in 1..Len(ryield') PROVE k = Len(ryield) + 1 \/ k \in 1..Len(ryield)
    BY <2>3, <2>7
  <2>8. ASSUME NEW k \in 1..Len(ryield'), ryield'[k] = r \/ (k \in 1..Len(ryield) /\ ryield'[k] = ryield[k])
        PROVE  YieldShape(ryield'[k], rwire')
    BY Zenon, <1>1, <2>6, <2>8
  <2> QED
    BY Zenon, <2>3, <2>7, <2>8
<1> QED
  BY Zenon, <1>2, <1>3

(* The frames written for a lease agree with where its response is. *)
LEMMA WireStep ==
    ASSUME ControlInv, PlaceInv, WireInv, [SlotsNext]_rvars, \A l \in Leases : FlightInv(l)
    PROVE  WireInv'
<1>0. /\ rcur \in Response /\ ryield \in Seq(Response) /\ rwire \in [Leases -> Seq(Frames)]
      /\ BigFrames \in Nat \ {0} /\ Parts(0) = <<>>
  BY Zenon, SlotsAssumption, PartsNext DEF ControlInv, SlotsType, WriterType
<1> DEFINE Wires == \A m \in Leases : rwire[m] \in Shapes /\ (Unwritten(m) => rwire[m] = <<>>)
           Yields == \A k \in 1..Len(ryield) : YieldShape(ryield[k], rwire)
           Cur == rcur # NoResponse => CurShape
<1>1. Wires /\ Yields /\ Cur
  BY Zenon DEF WireInv
<1>2. ASSUME rwire' = rwire PROVE Wires'
  BY Zenon, <1>1, <1>2, UnwrittenStep
<1>3. ASSUME rwire' = rwire, rcur' = rcur PROVE Cur'
  BY Zenon, <1>1, <1>3 DEF CurShape
<1>4. ASSUME rwire' = rwire, ryield' = ryield PROVE Yields'
  BY Zenon, <1>1, <1>4 DEF YieldShape
<1>5. ASSUME rwire' = rwire, ryield' = <<>> PROVE Yields'
  BY <1>5, EmptySeq
<1>6. ASSUME NEW l \in Leases, OwnerMove(l) PROVE WireInv'
  BY Zenon, <1>2, <1>3, <1>4, <1>6, OwnerFrame DEF WireInv
<1>7. ASSUME NEW t \in Threads, SubMove(t) PROVE WireInv'
  BY Zenon, <1>2, <1>3, <1>4, <1>7, SubFrame DEF WireInv
<1>8. ASSUME UNCHANGED rvars PROVE WireInv'
  <2>1. rwire' = rwire /\ rcur' = rcur /\ ryield' = ryield
    BY Zenon, <1>8 DEF rvars, ioVars
  <2> QED
    BY Zenon, <1>2, <1>3, <1>4, <2>1 DEF WireInv
<1>9. ASSUME TaskMove PROVE WireInv'
  <2>1. CASE NextResponse
    <3>1. rwire' = rwire
      BY Zenon, <2>1 DEF NextResponse
    <3>2. (rcur' = rcur /\ ryield' = ryield) \/ TakeYielded \/ TakeReady
      <4>1. CASE SamePlaces
        BY <1>0, <2>1, <4>1 DEF NextResponse, SamePlaces, NoResponse
      <4>2. ~WriteEnd /\ ~Flush /\ ~DrainReady
        BY Zenon, <2>1 DEF NextResponse, NoResponse, WriteEnd, MayWrite, Flush, DrainReady, IOAt
      <4>3. ~ExitIO
        BY Zenon, <2>1 DEF NextResponse, ExitIO, IOAt
      <4> QED
        BY Zenon, <1>9, <4>1, <4>2, <4>3, TaskPlaces
    <3>3. CASE TakeYielded
      <4>1. Yields'
        <5> SUFFICES ASSUME NEW k \in 1..Len(ryield') PROVE YieldShape(ryield'[k], rwire')
          OBVIOUS
        <5>1. k + 1 \in 1..Len(ryield) /\ ryield'[k] = ryield[k + 1]
          BY <3>3 DEF TakeYielded
        <5>2. YieldShape(ryield[k + 1], rwire)
          BY Zenon, <1>1, <5>1
        <5> QED
          BY Zenon, <3>1, <5>1, <5>2 DEF YieldShape
      <4>2. 1 \in 1..Len(ryield) /\ rcur' = ryield[1]
        BY <3>3 DEF TakeYielded
      <4>3. YieldShape(rcur', rwire)
        BY Zenon, <1>1, <4>2
      <4>4. CurShape'
        BY <1>0, <3>1, <4>3 DEF YieldShape, CurShape
      <4> QED
        BY Zenon, <1>2, <3>1, <4>1, <4>4 DEF WireInv
    <3>4. CASE TakeReady
      <4>1. /\ 1 \in 1..Len(rready) /\ ryield' = ryield
            /\ rcur' = [NoResponse EXCEPT !.lease = rready[1], !.stage = "reserved"]
        BY <3>4 DEF TakeReady
      <4>2. rready[1] \in Leases /\ InReady(rready[1])
        BY Zenon, <4>1 DEF ControlInv, PresentInv, Present, InReady
      <4>3. rwire[rready[1]] = <<>>
        BY Zenon, <1>1, <4>2 DEF Unwritten
      <4>4. rcur'.lease = rready[1] /\ rcur'.stage = "reserved" /\ rcur'.frame = 0
        BY Zenon, <4>1 DEF NoResponse
      <4>5. CurShape'
        BY Zenon, <3>1, <4>3, <4>4 DEF CurShape
      <4> QED
        BY Zenon, <1>2, <1>4, <3>1, <4>1, <4>5 DEF WireInv
    <3> QED
      BY Zenon, <1>2, <1>3, <1>4, <3>1, <3>2, <3>3, <3>4 DEF WireInv
  <2>2. CASE ChooseStage
    <3>1. rwire' = rwire /\ ryield' = ryield /\ rcur'.lease = rcur.lease /\ rcur'.frame = rcur.frame
      BY Zenon, <1>0, <2>2 DEF ChooseStage, Stage, Terminal, Response
    <3>2. rcur # NoResponse
      BY <2>2 DEF ChooseStage, NoResponse
    <3>3. \/ rcur.stage = "reserved" /\ rcur'.stage \in {"inline", "normal", "terminal"}
          \/ rcur.stage = "inline" /\ rcur'.stage = "terminal"
          \/ rcur.stage = "normal" /\ rcur.frame = 0 /\ rcur'.stage = "terminal"
          \/ rcur.stage = "normal" /\ rcur.frame # 0 /\ rcur'.stage = "abort"
      BY Zenon, <1>0, <2>2 DEF ChooseStage, Stage, Terminal, Response
    <3>4. CurShape'
      BY <1>0, <1>1, <3>1, <3>2, <3>3 DEF CurShape
    <3> QED
      BY Zenon, <1>2, <1>4, <3>1, <3>4 DEF WireInv
  <2>3. CASE WritePart
    <3>1. /\ rwire' = rwire /\ ryield' = ryield /\ rcur'.lease = rcur.lease /\ rcur'.frame = rcur.frame
          /\ rcur'.stage = rcur.stage /\ rcur # NoResponse
      BY <1>0, <2>3 DEF WritePart, MayWrite, Response, NoResponse
    <3>2. CurShape'
      BY Zenon, <1>1, <3>1 DEF CurShape
    <3> QED
      BY Zenon, <1>2, <1>4, <3>1, <3>2 DEF WireInv
  <2>4. CASE WriteEnd
    <3>1. /\ rcur.lease \in Leases /\ rwire'[rcur.lease] \in Shapes
          /\ rcur' # NoResponse => CurShape'
      BY Zenon, <2>4, WireEnd
    <3>2. ~Unwritten(rcur.lease)
      BY Zenon, <3>1 DEF FlightInv, InFlight, Settled, Unwritten, PlaceInv, Late, Pushed, Pushing
    <3>3. \A m \in Leases : m # rcur.lease => rwire'[m] = rwire[m]
      BY Zenon, <1>0, <2>4 DEF WriteEnd
    <3>4. Wires'
      BY Zenon, <1>1, <3>1, <3>2, <3>3, UnwrittenStep
    <3> QED
      BY Zenon, <2>4, <3>1, <3>4, WirePutBack DEF WireInv
  <2>5. CASE Flush \/ ExitIO
    <3>1. rwire' = rwire /\ rcur' = NoResponse /\ (ryield' = ryield \/ ryield' = <<>>)
      BY Zenon, <2>5 DEF Flush, ExitIO
    <3> QED
      BY Zenon, <1>2, <1>4, <1>5, <3>1 DEF WireInv
  <2>6. CASE WakeIO \/ FenceSlots \/ CloseSlots \/ Settle \/ DrainReady \/ Sweep
    <3>1. rwire' = rwire /\ rcur' = rcur /\ ryield' = ryield
      BY Zenon, <2>6 DEF WakeIO, FenceSlots, CloseSlots, Settle, DrainReady, Sweep
    <3> QED
      BY Zenon, <1>2, <1>3, <1>4, <3>1 DEF WireInv
  <2> QED
    BY Zenon, <1>9, <2>1, <2>2, <2>3, <2>4, <2>5, <2>6 DEF TaskMove
<1> QED
  BY Zenon, <1>6, <1>7, <1>8, <1>9, StepCases

(* The owner of an answered ask learns of it once nothing of its record is left to give back. *)
LEMMA CompletionStep ==
    ASSUME ControlInv, RecycleInv, [SlotsNext]_rvars,
           \A l \in Leases : ClaimInv(l) /\ FlightInv(l) /\ CompletionInv(l)
    PROVE  \A m \in Leases : CompletionInv(m)'
<1>0. /\ SlotsType /\ Leases \subseteq Threads /\ IO \notin Leases /\ IO \in Threads
      /\ \A t \in Returning : Present(rsub[t].record)
  BY Zenon, SlotsAssumption DEF ControlInv, Threads, RoutineInv, Returning
<1> SUFFICES ASSUME NEW m \in Leases, rec'[m].state = "complete"
             PROVE  /\ rused'[AskOf[m]] # {}
                    /\ rused'[AskOf[m]] = {m} => /\ "recycled" \in rec'[m].flags
                                                 /\ \A t \in Returning' : rsub'[t].record # m
  BY Zenon DEF CompletionInv, Flagged
<1> DEFINE Kept == /\ Present(m) /\ rused'[AskOf[m]] # {} /\ (rused'[AskOf[m]] = {m} => rused[AskOf[m]] = {m})
                   /\ rused[AskOf[m]] = {m} => Flagged(m, "recycled") /\ \A t \in Returning : rsub[t].record # m
           Goal == /\ rused'[AskOf[m]] # {}
                   /\ rused'[AskOf[m]] = {m} => /\ "recycled" \in rec'[m].flags
                                                /\ \A t \in Returning' : rsub'[t].record # m
<1>1. ASSUME rec[m].state = "complete" PROVE Kept
  BY Zenon, <1>1, ClaimKept DEF CompletionInv, Present
<1>2. ASSUME Kept, \A t \in Returning' : t \in Returning /\ rsub'[t].record = rsub[t].record PROVE Goal
  BY Zenon, <1>2, RecycledKept
<1>3. ASSUME NEW l \in Leases, OwnerMove(l) PROVE Goal
  <2>1. rec[m].state = "complete"
    <3>1. CASE Reserve(l) /\ rfree # <<>>
      BY Zenon, <1>3, <3>1, ReserveEffect
    <3>2. CASE ~(Reserve(l) /\ rfree # <<>>)
      BY <1>0, <1>3, <3>2, OwnerKeeps, OwnerRecord
    <3> QED
      BY Zenon, <3>1, <3>2
  <2>2. \A t \in Returning' : t \in Returning /\ rsub'[t].record = rsub[t].record
    BY Zenon, <1>0, <1>3, OwnerLocal DEF Returning
  <2> QED
    BY Zenon, <1>1, <1>2, <2>1, <2>2
<1>4. ASSUME TaskMove PROVE Goal
  <2>1. rec[m].state = "complete"
    BY Zenon, <1>4, TaskFrame
  <2>2. \A t \in Returning' : t \in Returning /\ rsub'[t].record = rsub[t].record
    BY Zenon, <1>0, <1>4, TaskLocal DEF Returning, Threads, ControlInv, PresentInv, Present
  <2> QED
    BY Zenon, <1>1, <1>2, <2>1, <2>2
<1>5. ASSUME UNCHANGED rvars PROVE Goal
  <2>1. rec[m].state = "complete" /\ \A t \in Returning' : t \in Returning /\ rsub'[t].record = rsub[t].record
    BY Zenon, <1>5 DEF rvars, Returning
  <2> QED
    BY Zenon, <1>1, <1>2, <2>1
<1>6. ASSUME NEW t \in Threads, rsub[t].at # "none", SubMove(t) PROVE Goal
  <2>1. /\ rused' = rused /\ Present(rsub[t].record)
        /\ \A u \in Threads \ {t} : rsub'[u] = rsub[u]
    BY Zenon, <1>0, <1>6, SubFrame, SubLocal DEF ControlInv, RoutineInv
  <2>2. CASE rec[m].state = "complete"
    <3>1. Kept
      BY Zenon, <1>1, <2>2
    <3>2. CASE Recycle(t)
      <4>1. rsub'[t].at \in {"complete", "release"} /\ rsub'[t].record = rsub[t].record
            /\ (rsub'[t].at = "release" => ~Flagged(rsub[t].record, "recycled"))
        BY Zenon, <1>0, <3>2 DEF Recycle, SubGoto, SlotsType, CallType, SubCall
      <4>2. \A u \in Returning' : u = t \/ (u \in Returning /\ rsub'[u].record = rsub[u].record)
        BY Zenon, <2>1 DEF Returning
      <4>3. t \in Returning' => rsub[t].record # m \/ rused[AskOf[m]] # {m}
        BY Zenon, <3>1, <4>1 DEF Returning
      <4>4. "recycled" \in rec'[m].flags \/ rused[AskOf[m]] # {m}
        BY Zenon, <3>1, RecycledKept
      <4> QED
        BY Zenon, <2>1, <3>1, <4>1, <4>2, <4>3, <4>4
    <3>3. CASE ~Recycle(t)
      <4>1. t \in Returning' => t \in Returning /\ rsub'[t].record = rsub[t].record
        BY Zenon, <1>6, <3>3, SubOrder DEF Returning
      <4> QED
        BY Zenon, <1>2, <2>1, <3>1, <4>1 DEF Returning
    <3> QED
      BY Zenon, <3>2, <3>3
  <2>3. CASE rec[m].state # "complete"
    <3>1. Complete(t) /\ rsub[t].record = m /\ rsub[t].kind # "closed"
      <4>1. rsub[t].record \in Leases
        BY Zenon, <2>1 DEF Present
      <4>2. rsub[t].record = m
        BY Zenon, <1>0, <1>6, <2>3, <4>1, SubRecord
      <4>3. rec[m] \in Record
        BY Zenon, <1>0 DEF SlotsType, RecordType
      <4>4. Complete(t) \/ rec'[m].state = rec[m].state
        <5>1. CASE SubLoad(t) \/ SubSwap(t) \/ RecycleIndex(t)
          BY Zenon, <5>1 DEF SubLoad, SubSwap, RecycleIndex
        <5>2. CASE ClosePublication(t) \/ Recycle(t)
          BY <1>0, <4>2, <4>3, <5>2 DEF ClosePublication, Recycle, SlotsType, RecordType, Record
        <5>3. CASE ReleasePermits(t)
          BY Zenon, <1>0, <4>2, <4>3, <5>3 DEF ReleasePermits, SlotsType, RecordType, Record
        <5> QED
          BY Zenon, <1>6, <5>1, <5>2, <5>3 DEF SubMove
      <4>5. Complete(t) => rec'[m].state = IF rec[m].state # "reserved" THEN rec[m].state
                                           ELSE IF rsub[t].kind = "closed" THEN "closed" ELSE "complete"
        BY <1>0, <4>2, <4>3 DEF Complete, SlotsType, RecordType, Record
      <4> QED
        BY Zenon, <2>3, <4>2, <4>4, <4>5
    <3>2. rsub[t].at = "complete" /\ rsub' = [rsub EXCEPT ![t] = NoSub]
      BY Zenon, <3>1 DEF Complete, SubAt, SubDone
    <3>3. rused[AskOf[m]] # {}
      <4>1. CASE t \in Leases
        BY <1>6, <3>1, <4>1 DEF ControlInv, CallInv, ClaimInv
      <4>2. CASE t = IO
        BY Zenon, <1>6, <3>1, <4>2 DEF ControlInv, TaskInv, FlightInv, Settled
      <4> QED
        BY Zenon, <4>1, <4>2 DEF Threads
    <3>4. rused[AskOf[m]] = {m} => t = IO /\ rsub[m].at = "none"
      <4>1. CASE t \in Leases
        BY Zenon, <1>6, <3>1, <4>1 DEF ControlInv, CallInv, ClaimInv
      <4>2. CASE t = IO
        BY Zenon, <1>6, <3>1, <4>2 DEF ControlInv, TaskInv, FlightInv, Settled
      <4> QED
        BY Zenon, <4>1, <4>2 DEF Threads
    <3>5. Flagged(m, "recycled")
      BY Zenon, <1>6, <3>1, <3>2 DEF RecycleInv
    <3>6. "recycled" \in rec'[m].flags
      BY Zenon, <2>1, <3>1, <3>5, RecycledKept
    <3>7. ASSUME rused[AskOf[m]] = {m}, NEW u \in Returning', rsub'[u].record = m PROVE FALSE
      <4>1. u \in Threads /\ u # t /\ rsub[u].at \in {"release", "index"} /\ rsub[u].record = m
        BY Zenon, <1>0, <1>6, <2>1, <3>2, <3>7 DEF Returning, NoSub, SlotsType, CallType
      <4>2. u \in Leases
        BY Zenon, <3>4, <3>7, <4>1 DEF Threads
      <4>3. u = m
        BY Zenon, <4>1, <4>2 DEF ControlInv, CallInv
      <4> QED
        BY Zenon, <3>4, <3>7, <4>1, <4>3
    <3> QED
      BY Zenon, <2>1, <3>3, <3>6, <3>7
  <2> QED
    BY Zenon, <2>2, <2>3
<1> QED
  BY Zenon, <1>3, <1>4, <1>5, <1>6, StepCases

(* The initial states satisfy the delivery invariant. *)
LEMMA DeliveryInit == SlotsInit => DeliveryInv
<1> SUFFICES ASSUME SlotsInit PROVE DeliveryInv
  OBVIOUS
<1>0. BigFrames \in Nat \ {0} /\ None \notin Leases /\ Parts(0) = <<>> /\ Leases \subseteq Threads /\ IO \in Threads
  BY Zenon, SlotsAssumption, PartsNext DEF Threads
<1>1. rready = <<>> /\ ryield = <<>> /\ rcur = NoResponse /\ rcur.lease = None
  BY Zenon DEF SlotsInit, NoResponse
<1>2. \A l \in Leases : ~InReady(l) /\ ~InYield(l) /\ rcur.lease # l
  BY <1>0, <1>1, EmptySeq DEF InReady, InYield
<1>3. PlaceInv
  BY <1>1, <1>2, EmptySeq DEF PlaceInv
<1>4. WireInv
  <2>1. \A l \in Leases : rwire[l] = <<>>
    BY Zenon DEF SlotsInit
  <2>2. <<>> \in Shapes
    BY <1>0 DEF Shapes
  <2> QED
    BY <1>1, <2>1, <2>2, EmptySeq DEF WireInv
<1>5. ASSUME NEW l \in Leases PROVE PendingInv(l) /\ FlightInv(l) /\ CompletionInv(l)
  <2>1. rpc[l] = "start" /\ rec[l].state = "absent" /\ rsub[IO].at = "none"
    BY Zenon, <1>0 DEF SlotsInit, NoRecord, NoSub
  <2>2. ~Pending(l) /\ ~InFlight(l)
    BY Zenon, <1>2, <2>1 DEF Pending, Opening, Pushing, InFlight
  <2> QED
    BY Zenon, <2>1, <2>2 DEF PendingInv, FlightInv, CompletionInv
<1> QED
  BY Zenon, <1>3, <1>4, <1>5 DEF DeliveryInv

(* The steps keep it. *)
LEMMA DeliveryStep == ResourceInv /\ DeliveryInv /\ [SlotsNext]_rvars => DeliveryInv'
<1> SUFFICES ASSUME ResourceInv, DeliveryInv, [SlotsNext]_rvars PROVE DeliveryInv'
  OBVIOUS
<1>1. /\ ControlInv /\ RecycleInv /\ PlaceInv /\ WireInv
      /\ \A l \in Leases : ClaimInv(l) /\ FlagInv(l) /\ PendingInv(l) /\ FlightInv(l) /\ CompletionInv(l)
  BY Zenon DEF ResourceInv, DeliveryInv
<1>2. PlaceInv' /\ \A l \in Leases : FlightInv(l)'
  BY Zenon, <1>1, FlightStep
<1>3. WireInv'
  BY Zenon, <1>1, WireStep
<1>4. \A l \in Leases : PendingInv(l)'
  BY Zenon, <1>1, PendingStep
<1>5. \A l \in Leases : CompletionInv(l)'
  BY Zenon, <1>1, CompletionStep
<1> QED
  BY Zenon, <1>2, <1>3, <1>4, <1>5 DEF DeliveryInv
=============================================================================
