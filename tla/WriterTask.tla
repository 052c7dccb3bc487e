----------------------------- MODULE WriterTask -----------------------------
(***************************************************************************)
(* The task that owns a connection's stream (io_task, stream_writer.rs):   *)
(* its turns over the write lanes, the streaming lanes and the read side.  *)
(* A frame is two units on the wire, so that it can be cut.  The transport *)
(* takes as many units as the peer has left room for.  The queues keep the *)
(* push, the wake-up and prepare_park of WriteQueue; their bounds and      *)
(* their teardown are checked there, a leased reply's stages in            *)
(* ReplySlots.                                                             *)
(***************************************************************************)
EXTENDS Integers, SequencesExt

CONSTANTS
    NackCap,    \* PENDING_ASK_NACK_CAP
    NackBurst,  \* MAX_PER_TURN of drain_pending_ask_nacks
    DeferCap,   \* DEFERRED_ASK_CAP
    BatchCap,   \* RESPONSE_BATCH_BYTE_CAP, in units
    SoftCap,    \* STREAMING_RESPONSE_QUEUE_BYTE_CAP
    MaxStream,  \* MAX_STREAM_SIZE, half of MAX_INFLIGHT_STREAM_BYTES
    Reserve,    \* response_reserve_bytes
    CommandCap, \* STREAMING_RESPONSE_QUEUE_COMMAND_CAP
    ReserveCommands, \* response_reserve_commands
    ReadLimit,  \* READ_BATCH_LIMIT
    ImmBatch,   \* IMMEDIATE_WRITE_BATCH
    OwnerBatch, \* OWNER_BATCH_SIZE
    Window,     \* bound: units the transport buffers
    None,
    WriterScenarios \* bounds: what is sent and received

(* A scenario: the commands of each lane, the messages of the peer, how the peer behaves. *)
ASSUME WriterAssumption ==
    /\ {NackCap, NackBurst, ReadLimit, ImmBatch, OwnerBatch, Window} \subseteq Nat \ {0}
    /\ {DeferCap, BatchCap, SoftCap, MaxStream, Reserve, CommandCap, ReserveCommands} \subseteq Nat
    /\ \A s \in WriterScenarios :
        /\ s.gated \in BOOLEAN    \* a fresh outbound connection
        /\ s.wedge \in BOOLEAN    \* a stuck write may be given up
        /\ s.shutdown \in BOOLEAN \* signal_shutdown may be called
        /\ s.eof \in BOOLEAN      \* the peer closes after its last message
        /\ s.stalls \in Nat       \* flush attempts that may time out

VARIABLES
    plan,       \* the scenario
    q,          \* the lanes: buf, flag, permit, made (commands pushed), told (of which notified)
    net,        \* room, wire (units written), arrived and taken (messages), stalls
    w,          \* the locals of io_task
    identified, \* identify_ready
    shut        \* shutdown_signal
tvars == <<plan, q, net, w, identified, shut>>

Lanes == {"imm", "cmd", "stream", "lease"}
(* The locals of io_task: pending_stream_cmd, yielded_stream_cmd, pending_ordinary_write,
   leftover_commands, pending_immediate_cmd, pending_cmd, deferred_asks, response_batch, the
   LocalStreamingQueue with its NACKs, the rotation, the batch being written with its
   accumulators, the flags of the turn, the wedge clocks and bytes_since_flush. *)
Idle == [did |-> FALSE, blocked |-> FALSE, asked |-> FALSE, total |-> 0]
EmptyLocal == [queue |-> <<>>, deferred |-> None, inFlight |-> FALSE, suspended |-> FALSE,
               flushPending |-> FALSE, expects |-> FALSE, bytes |-> 0]
WriterInit ==
    /\ plan \in WriterScenarios
    /\ q = [l \in Lanes |-> [buf |-> <<>>, flag |-> FALSE, permit |-> FALSE, made |-> 0, told |-> 0]]
    /\ net = [room |-> Window, wire |-> <<>>, arrived |-> 0, taken |-> 0, stalls |-> plan.stalls]
    /\ w = [pc |-> "top", turn |-> Idle, count |-> 0, stream |-> None, yielded |-> <<>>,
            ordinary |-> None, leftovers |-> <<>>, imm |-> <<>>, cmd |-> <<>>,
            deferred |-> <<>>, batch |-> <<>>, local |-> EmptyLocal, nacks |-> <<>>,
            cursor |-> 0, cmds |-> <<>>, chunks |-> <<>>, inline |-> <<>>, direct |-> <<>>,
            stalled |-> FALSE, wedged |-> FALSE, flushWedged |-> FALSE, unflushed |-> 0,
            ended |-> "no"]
    /\ identified = ~plan.gated
    /\ shut = FALSE

-----------------------------------------------------------------------------
(* Producers: the push, then notify_data; a lease is pushed on the ready set and always
   notified.  The first immediate command of a gated connection is its identifying frame. *)
Push(l) ==
    /\ q[l].made < Len(plan[l]) /\ q[l].told = q[l].made
    /\ w.ended = "no" /\ ~shut
    /\ q' = [q EXCEPT ![l].made = @ + 1, ![l].buf = Append(@, q[l].made + 1)]
    /\ UNCHANGED <<plan, net, w, identified, shut>>
NotifyData(l) ==
    /\ q[l].told < q[l].made
    /\ q' = [q EXCEPT ![l].told = q[l].made, ![l].flag = (l # "lease"),
                      ![l].permit = @ \/ ~q[l].flag]
    /\ UNCHANGED <<plan, net, w, identified, shut>>
MarkIdentified ==
    /\ ~identified /\ q["imm"].told > 0
    /\ identified' = TRUE
    /\ UNCHANGED <<plan, q, net, w, shut>>
SignalShutdownSilent ==  \* mutant of SignalShutdown: no lane is woken
    /\ plan.shutdown /\ ~shut
    /\ shut' = TRUE
    /\ UNCHANGED <<plan, q, net, w, identified>>
SignalShutdown ==
    /\ plan.shutdown /\ ~shut
    /\ shut' = TRUE
    /\ q' = [q EXCEPT !["cmd"].permit = TRUE, !["stream"].permit = TRUE]
    /\ UNCHANGED <<plan, net, w, identified>>

(* The peer: it reads what is on the wire, sends its messages and, perhaps, closes. *)
PeerReads ==
    /\ net.room < Window
    /\ net' = [net EXCEPT !.room = @ + 1]
    /\ UNCHANGED <<plan, q, w, identified, shut>>
PeerSends ==
    /\ net.arrived < Len(plan.inbound) + (IF plan.eof THEN 1 ELSE 0)
    /\ net' = [net EXCEPT !.arrived = @ + 1]
    /\ UNCHANGED <<plan, q, w, identified, shut>>

-----------------------------------------------------------------------------
(* One write of the units of fs after off: what fits, and what that puts on the wire. *)
Units(fs) == 2 * Len(fs)
Fit(fs, off) == Min({net.room, Units(fs) - off})
Emit(fs, off, n) ==
    [net EXCEPT !.room = @ - n,
                !.wire = @ \o [k \in 1..n |-> <<fs[(off + k + 1) \div 2], ((off + k - 1) % 2) + 1>>]]
Pending(kind, fs, off) == [kind |-> kind, frames |-> fs, off |-> off]

End(how) == [w EXCEPT !.pc = "closed", !.ended = how]
(* record_slice_attempt: the first attempt without progress starts the clock, a later one
   may find the budget spent. *)
Attempted(n, next) ==
    \/ w' = [next EXCEPT !.wedged = (n = 0)]
    \/ n = 0 /\ w.wedged /\ plan.wedge /\ w' = End("abrupt")

(* bounded_stream_flush: it completes, or times out while the transport may still stall. *)
BoundedFlush(done, pending) ==
    \/ w' = [done EXCEPT !.flushWedged = FALSE] /\ UNCHANGED net
    \/ /\ net.stalls > 0
       /\ net' = [net EXCEPT !.stalls = @ - 1]
       /\ \/ w' = [pending EXCEPT !.flushWedged = TRUE]
          \/ w.flushWedged /\ plan.wedge /\ w' = End("abrupt")

(* The identify gate: until the identifying frame is queued nothing is read or written. *)
Gate ==
    /\ w.pc = "top" /\ ~identified /\ ~shut
    /\ w' = [w EXCEPT !.pc = "gated"]
    /\ UNCHANGED <<plan, q, net, identified, shut>>
Ungate ==
    /\ w.pc = "gated" /\ identified
    /\ w' = [w EXCEPT !.pc = "top"]
    /\ UNCHANGED <<plan, q, net, identified, shut>>

-----------------------------------------------------------------------------
(* LocalStreamingQueue: streamed responses of the read side, each followed by its Flush. *)
HardCap == 2 * MaxStream + SoftCap
FlushCommand == [ask |-> 0, bytes |-> 0]
Bytes(commands) == FoldLeft(LAMBDA sum, c : sum + c.bytes, 0, commands)
DeferredCommands(local) == IF local.deferred = None THEN <<>> ELSE local.deferred
RetainedBytes(local) == Bytes(local.queue) + local.bytes + Bytes(DeferredCommands(local))
RetainedCommands(local) ==
    Len(local.queue) + Len(DeferredCommands(local))
        + (IF local.inFlight \/ local.flushPending THEN 1 ELSE 0)
FitsQueue(local, n, b) ==
    RetainedCommands(local) + n =< CommandCap /\ RetainedBytes(local) + b =< SoftCap
AdmitSingleOversize(local, n, b) ==
    /\ local.queue = <<>> /\ ~local.inFlight /\ local.deferred = None
    /\ RetainedBytes(local) = 0 /\ SoftCap < b /\ b =< HardCap /\ n =< CommandCap
CanDefer(local, n, b) ==
    /\ local.deferred = None
    /\ n =< ReserveCommands /\ RetainedCommands(local) + n =< CommandCap
    /\ Bytes(local.queue) + local.bytes + b =< HardCap
CanAdmit(local, n, b) ==
    FitsQueue(local, n, b) \/ AdmitSingleOversize(local, n, b) \/ CanDefer(local, n, b)
IsFullButDeferred(local) ==  \* mutant of IsFull: the deferred slot is not looked at
    RetainedBytes(local) + MaxStream + SoftCap > HardCap
IsFull(local) ==
    \/ local.deferred # None
    \/ RetainedBytes(local) + MaxStream + SoftCap > HardCap
    \/ /\ local.queue # <<>>
       /\ \/ Len(local.queue) + ReserveCommands > CommandCap
          \/ Bytes(local.queue) >= SoftCap \/ Bytes(local.queue) + Reserve > SoftCap
TryExtend(local, commands) ==
    LET n == Len(commands) b == Bytes(commands)
    IN  IF FitsQueue(local, n, b) \/ AdmitSingleOversize(local, n, b)
        THEN [local EXCEPT !.queue = @ \o commands]
        ELSE [local EXCEPT !.deferred = commands]

HasPending(local) == local.queue # <<>> \/ local.deferred # None
Promoted(local) ==
    IF local.queue = <<>> THEN [local EXCEPT !.queue = local.deferred, !.deferred = None] ELSE local
PopFront(local) ==
    LET l == Promoted(local) rest == Tail(l.queue)
    IN  IF Head(l.queue) = FlushCommand
        THEN [l EXCEPT !.queue = rest, !.bytes = IF l.flushPending THEN @ ELSE 0]
        ELSE [l EXCEPT !.queue = rest, !.inFlight = TRUE, !.bytes = Head(l.queue).bytes,
                       !.expects = rest # <<>> /\ Head(rest) = FlushCommand]
ResponseYielded(local) == [local EXCEPT !.suspended = local.inFlight]
ResponseFinished(local) ==
    IF ~local.inFlight THEN local
    ELSE [local EXCEPT !.inFlight = FALSE, !.suspended = FALSE, !.expects = FALSE,
                       !.flushPending = @ \/ local.expects,
                       !.bytes = IF local.expects THEN @ ELSE 0]
FlushFinished(local) ==
    IF local.flushPending THEN [local EXCEPT !.flushPending = FALSE, !.bytes = 0] ELSE local

-----------------------------------------------------------------------------
(* StreamingRotation: the next lane after the last one served that has a command to give.
   A suspended response holds its queue back, and the choice is repeated. *)
Ready(i) ==
    CASE i = 0 -> w.yielded # <<>>
      [] i = 1 -> q["lease"].buf # <<>>
      [] i = 2 -> HasPending(w.local)
      [] i = 3 -> q["stream"].buf # <<>>
Gives(i) == Ready(i) /\ (i = 2 => ~(w.local.inFlight /\ w.local.suspended))
Choose(ready) == (w.cursor + Min({s \in 0..3 : (w.cursor + s) % 4 \in ready})) % 4
Streaming(src, id, frames) ==
    [src |-> src, id |-> id, frames |-> frames, at |-> 1, off |-> 0]
(* A shared or leased command of no frames is a Flush. *)
Taken(i) ==
    CASE i = 0 -> Head(w.yielded)
      [] i = 1 -> Streaming("lease", Head(q["lease"].buf), plan["lease"][Head(q["lease"].buf)])
      [] i = 2 -> LET c == Head(Promoted(w.local).queue)
                  IN  Streaming("answer", c.ask, IF c = FlushCommand THEN 0 ELSE 2)
      [] i = 3 -> Streaming("stream", Head(q["stream"].buf), plan["stream"][Head(q["stream"].buf)])

(* park_ask_response_batch: the inline responses become the pending ordinary write. *)
Parked(v) ==
    IF v.batch = <<>> \/ v.ordinary # None THEN v
    ELSE [v EXCEPT !.ordinary = Pending("chunks", [k \in 1..Len(v.batch) |-> <<"answer", v.batch[k], 1>>], 0),
                   !.batch = <<>>]

(* The top of a turn: the flags are reset, parked responses take the free wire, and a
   streaming command is chosen unless an ordinary frame is pending. *)
TopOfTurn ==
    /\ w.pc = "top" /\ identified /\ ~shut
    /\ LET v == [(IF w.stream = None THEN Parked(w) ELSE w) EXCEPT !.turn = Idle, !.count = 0]
           ready == {i \in 0..3 : Ready(i)}
           giving == {i \in ready : Gives(i)}
           i == Choose(giving)
       IN  \/ /\ v.ordinary # None
              /\ w' = [v EXCEPT !.pc = "poll"] /\ UNCHANGED q
           \/ /\ v.ordinary = None /\ v.stream # None
              /\ w' = [v EXCEPT !.pc = "slice", !.turn.did = TRUE] /\ UNCHANGED q
           \/ /\ v.ordinary = None /\ v.stream = None /\ ready = {}
              /\ w' = [v EXCEPT !.pc = "nacks"] /\ UNCHANGED q
           \/ /\ v.ordinary = None /\ v.stream = None /\ giving # {}
              /\ w' = [v EXCEPT !.pc = "slice", !.turn.did = TRUE, !.stream = Taken(i),
                                !.cursor = (i + 1) % 4,
                                !.yielded = IF i = 0 THEN Tail(@) ELSE @,
                                !.local = IF i = 2 THEN PopFront(@) ELSE @]
              /\ q' = [l \in Lanes |->
                        IF <<i, l>> \in {<<1, "lease">>, <<3, "stream">>}
                        THEN [q[l] EXCEPT !.buf = Tail(@)] ELSE q[l]]
    /\ UNCHANGED net
(* One slice of the streaming command: at most the rest of its current frame. *)
Sliced(v, stream) ==
    [v EXCEPT !.stream = stream, !.count = 0, !.pc = IF stream = None THEN "nacks" ELSE "flush"]
StreamSlice ==
    /\ w.pc = "slice" /\ w.stream.frames > 0
    /\ LET s == w.stream
           frame == << <<s.src, s.id, s.at>> >>
           n == Fit(frame, s.off)
           cut == s.off + n < 2
           rest == IF cut THEN [s EXCEPT !.off = @ + n] ELSE [s EXCEPT !.off = 0, !.at = @ + 1]
           done == ~cut /\ s.at = s.frames
           yields == ~cut /\ ~done /\ s.src # "stream"
       IN  /\ net' = Emit(frame, s.off, n)
           /\ Attempted(n, [Sliced(w, IF done \/ yields THEN None ELSE rest) EXCEPT
                  !.turn.total = n,
                  !.yielded = IF yields THEN Append(@, rest) ELSE @,
                  !.local = IF s.src # "answer" \/ cut THEN @
                            ELSE IF done THEN ResponseFinished(@) ELSE ResponseYielded(@)])
    /\ UNCHANGED q
FlushSlice ==
    /\ w.pc = "slice" /\ w.stream.frames = 0
    /\ BoundedFlush([Sliced(w, None) EXCEPT
                        !.unflushed = 0,
                        !.local = IF w.stream.src = "answer" THEN FlushFinished(@) ELSE @],
                    Sliced(w, w.stream))
    /\ UNCHANGED q

-----------------------------------------------------------------------------
(* drain_pending_ask_nacks, at its three places: while the wire is free, at most NackBurst
   headers, up to the first one that does not fit. *)
AfterNacks(v) ==
    CASE v.pc = "nacks" -> [v EXCEPT !.pc = "poll", !.count = 0]
      [] v.pc = "nacks2" -> [v EXCEPT !.pc = "batch", !.count = 0]
      [] v.pc = "nacks3" -> [Parked(v) EXCEPT !.pc = "top", !.count = 0]
DrainRestarts ==  \* mutant of DrainNacks: a header that is cut is queued again
    /\ w.pc \in {"nacks", "nacks2", "nacks3"}
    /\ w.ordinary = None
    /\ LET frame == << <<"nack", Head(w.nacks), 1>> >>
           n == Fit(frame, 0)
       IN  \/ /\ w.nacks = <<>> \/ w.count = NackBurst
              /\ w' = AfterNacks(w) /\ UNCHANGED net
           \/ /\ w.nacks # <<>> /\ w.count < NackBurst
              /\ net' = Emit(frame, 0, n)
              /\ LET v == [w EXCEPT !.nacks = IF n = 2 THEN Tail(@) ELSE @, !.unflushed = @ + n,
                                    !.turn.did = @ \/ n > 0, !.count = @ + 1]
                 IN  w' = IF n = 2 THEN v ELSE AfterNacks(v)
    /\ UNCHANGED q
DrainNacks ==
    /\ w.pc \in {"nacks", "nacks2", "nacks3"}
    /\ w.ordinary = None
    /\ LET frame == << <<"nack", Head(w.nacks), 1>> >>
           n == Fit(frame, 0)
       IN  \/ /\ w.nacks = <<>> \/ w.count = NackBurst
              /\ w' = AfterNacks(w) /\ UNCHANGED net
           \/ /\ w.nacks # <<>> /\ w.count < NackBurst
              /\ net' = Emit(frame, 0, n)
              /\ LET v == [w EXCEPT !.nacks = Tail(@), !.unflushed = @ + n,
                                    !.turn.did = @ \/ n > 0, !.count = @ + 1,
                                    !.ordinary = IF n = 2 THEN None ELSE Pending("nack", frame, n)]
                 IN  w' = IF n = 2 THEN v ELSE AfterNacks(v)
    /\ UNCHANGED q

(* The pending ordinary write: what is written of it, and what is left. *)
Rest == LET p == w.ordinary n == Fit(p.frames, p.off)
        IN  IF p.off + n = Units(p.frames) THEN None ELSE [p EXCEPT !.off = @ + n]
(* It is polled once before anything else is written; while it does not finish, no other
   ordinary frame is started. *)
PollPending ==
    /\ w.pc = "poll" /\ w.ordinary # None
    /\ LET n == Fit(w.ordinary.frames, w.ordinary.off)
       IN  /\ net' = Emit(w.ordinary.frames, w.ordinary.off, n)
           /\ Attempted(n, [w EXCEPT !.ordinary = Rest, !.turn.total = @ + n,
                                     !.turn.did = @ \/ n > 0, !.turn.blocked = (n = 0),
                                     !.stalled = @ /\ n = 0,
                                     !.pc = IF Rest = None THEN "nacks2" ELSE "flush"])
    /\ UNCHANGED q

(* The owner batch: what was left over, or the priority burst followed by the normal one. *)
FirstOf(s, k) == SubSeq(s, 1, Min({k, Len(s)}))
From(l, ids) == [k \in 1..Len(ids) |-> <<l, ids[k]>>]
GatherNormalFirst ==  \* mutant of Gather: the held commands follow those of the queue
    /\ w.pc = "batch" \/ (w.pc = "poll" /\ w.ordinary = None)
    /\ w' = [w EXCEPT !.cmds = w.leftovers \o From("imm", q["imm"].buf) \o From("cmd", q["cmd"].buf)
                                \o From("imm", w.imm) \o From("cmd", w.cmd),
                      !.leftovers = <<>>, !.imm = <<>>, !.cmd = <<>>, !.turn.did = TRUE,
                      !.pc = "command"]
    /\ q' = [q EXCEPT !["imm"].buf = <<>>, !["cmd"].buf = <<>>]
    /\ UNCHANGED net
Gather ==
    /\ w.pc = "batch" \/ (w.pc = "poll" /\ w.ordinary = None)
    /\ LET burst == FirstOf(q["imm"].buf, ImmBatch - Len(w.imm))
           normal == FirstOf(q["cmd"].buf, OwnerBatch)
           batch == From("imm", w.imm \o burst) \o From("cmd", w.cmd \o normal)
           fresh == w.leftovers = <<>>
           cmds == IF fresh THEN batch ELSE w.leftovers
       IN  /\ w' = [w EXCEPT !.cmds = cmds, !.leftovers = <<>>,
                             !.imm = IF fresh THEN <<>> ELSE @, !.cmd = IF fresh THEN <<>> ELSE @,
                             !.turn.did = @ \/ cmds # <<>>,
                             !.pc = IF cmds = <<>> THEN "flush" ELSE "command"]
           /\ q' = IF fresh
                   THEN [q EXCEPT !["imm"].buf = SubSeq(@, Len(burst) + 1, Len(@)),
                                  !["cmd"].buf = SubSeq(@, Len(normal) + 1, Len(@))]
                   ELSE q
    /\ UNCHANGED net

(* Consecutive commands of one kind are written together: plain chunks, fixed headers
   (HeaderInline32) and direct asks; a command of another kind first sends what was gathered,
   and a command with its own buffers is written by itself.  No wedge clock runs here: a batch
   starts when the pending frame has left. *)
Kind(c) == plan[c[1]][c[2]]
Frame(c) == <<c[1], c[2], 1>>
Accumulators == {"chunks", "inline", "direct"}
SentBefore(k) ==
    IF k = "direct"
    THEN IF w.chunks # <<>> THEN {"chunks"}
         ELSE IF w.inline # <<>> THEN {"inline"}
         ELSE IF Len(w.direct) = OwnerBatch THEN {"direct"} ELSE {}
    ELSE IF w.inline # <<>> \/ w.direct # <<>> THEN {"inline", "direct"}
         ELSE IF k # "single" /\ w.chunks # <<>> THEN {"chunks"} ELSE {}
Gathered(as) ==
    (IF "chunks" \in as THEN w.chunks ELSE <<>>) \o (IF "inline" \in as THEN w.inline ELSE <<>>)
        \o (IF "direct" \in as THEN w.direct ELSE <<>>)
Without(v, as) == [a \in DOMAIN v |-> IF a \in as THEN <<>> ELSE v[a]]
SendBefore ==
    /\ w.pc = "command" /\ w.cmds # <<>>
    /\ LET as == SentBefore(Kind(Head(w.cmds))) fs == Gathered(as) n == Fit(fs, 0)
       IN  /\ as # {}
           /\ net' = Emit(fs, 0, n)
           /\ w' = IF n = Units(fs)
                   THEN [Without(w, as) EXCEPT !.turn.total = @ + n]
                   ELSE [Without(w, as) EXCEPT !.turn.total = @ + n, !.cmds = <<>>, !.wedged = (n = 0),
                            !.ordinary = Pending("chunks", fs, n), !.leftovers = w.cmds]
    /\ UNCHANGED q
Accept ==
    /\ w.pc = "command" /\ w.cmds # <<>>
    /\ LET c == Head(w.cmds) k == Kind(c)
           a == IF k = "single" THEN "chunks" ELSE k
           next == IF c[1] = "imm" THEN "immflush" ELSE "command"
       IN  /\ SentBefore(k) = {} /\ k # "own"
           /\ w' = [w EXCEPT ![a] = Append(@, Frame(c)), !.cmds = Tail(@), !.pc = next,
                             !.turn.asked = @ \/ k = "direct"]
    /\ UNCHANGED <<q, net>>
WriteOwn ==
    /\ w.pc = "command" /\ w.cmds # <<>>
    /\ LET c == Head(w.cmds) fs == <<Frame(c)>> n == Fit(fs, 0)
       IN  /\ SentBefore(Kind(c)) = {} /\ Kind(c) = "own"
           /\ net' = Emit(fs, 0, n)
           /\ w' = IF n = 2
                   THEN [w EXCEPT !.turn.total = @ + n, !.cmds = Tail(@),
                                  !.pc = IF c[1] = "imm" THEN "immflush" ELSE @]
                   ELSE [w EXCEPT !.turn.total = @ + n, !.cmds = <<>>, !.leftovers = Tail(w.cmds),
                                  !.wedged = (n = 0), !.ordinary = Pending("own", fs, n)]
    /\ UNCHANGED q
(* After an immediate command, what was written is flushed at once. *)
ImmediateFlush ==
    /\ w.pc = "immflush"
    /\ LET next == [w EXCEPT !.pc = "command"]
       IN  IF w.turn.total = 0 THEN w' = next /\ UNCHANGED net
           ELSE BoundedFlush([next EXCEPT !.turn.total = 0], next)
    /\ UNCHANGED q
(* The end of the batch sends what is still gathered. *)
WriteTail ==
    /\ w.pc = "command" /\ w.cmds = <<>>
    /\ LET fs == Gathered(Accumulators) n == Fit(fs, 0)
       IN  \/ fs = <<>> /\ w' = [w EXCEPT !.pc = "flush"] /\ UNCHANGED net
           \/ /\ fs # <<>>
              /\ net' = Emit(fs, 0, n)
              /\ w' = [Without(w, Accumulators) EXCEPT
                        !.turn.total = @ + n, !.pc = "flush", !.wedged = (n = 0),
                        !.ordinary = IF n = Units(fs) THEN @ ELSE Pending("chunks", fs, n)]
    /\ UNCHANGED q

(* Where the turn goes on: to the read side when there was or is work, else past it. *)
Reads == w.turn.did \/ w.turn.blocked \/ w.stalled \/ w.deferred # <<>>
AfterReads(v) == IF w.turn.blocked /\ v.ordinary # None THEN "retry" ELSE "settle"
AfterFlush == IF Reads THEN "read" ELSE AfterReads(w)
(* The turn's bytes are flushed unless a streaming frame is under way. *)
FlushTurn ==
    /\ w.pc = "flush"
    /\ LET v == [w EXCEPT !.unflushed = @ + w.turn.total, !.count = 0, !.pc = AfterFlush]
       IN  IF v.unflushed > 0 /\ w.stream = None /\ w.yielded = <<>>
           THEN BoundedFlush([v EXCEPT !.unflushed = 0], v)
           ELSE w' = v /\ UNCHANGED net
    /\ UNCHANGED q

-----------------------------------------------------------------------------
(* The read side. *)
Occupied == IF w.ordinary # None /\ w.ordinary.kind = "nack" THEN 1 ELSE 0
RoomForNack == Len(w.nacks) + Occupied < NackCap
RetainedInline == 2 * Len(w.batch) + (IF w.ordinary = None THEN 0 ELSE Units(w.ordinary.frames) - w.ordinary.off)
BudgetExhausted == RetainedInline >= BatchCap
IsActorAsk(m) == plan.inbound[m].kind \in {"inline", "stream", "nack"}
Asks == {m \in 1..Len(plan.inbound) : plan.inbound[m].kind # "tell"}

(* queue_ask_nack fails the connection when the queue is full. *)
Nacked(v, m) ==
    IF Len(v.nacks) < NackCap THEN [v EXCEPT !.nacks = Append(@, m)]
    ELSE [v EXCEPT !.pc = "closed", !.ended = "capacity"]
ParkDeferredDrops(v, m) ==  \* mutant of ParkDeferred: an ask that finds the deque full is dropped
    IF Len(v.deferred) < DeferCap THEN [v EXCEPT !.deferred = Append(@, m)] ELSE v
ParkDeferred(v, m) ==
    CASE Len(v.deferred) < DeferCap -> [v EXCEPT !.deferred = Append(@, m)]
      [] Len(v.deferred) >= DeferCap /\ RoomForNack -> Nacked(v, m)
      [] Len(v.deferred) = DeferCap /\ ~RoomForNack -> [v EXCEPT !.deferred = Append(@, m)]
      [] Len(v.deferred) > DeferCap /\ ~RoomForNack -> [v EXCEPT !.pc = "closed", !.ended = "capacity"]
(* The handler runs: an inline answer joins the batch, a streamed one the local queue or,
   when that refuses it, the NACKs; errors, unknown actors and direct asks are NACKed. *)
Dispatched(v, m) ==
    LET a == plan.inbound[m] commands == <<[ask |-> m, bytes |-> a.bytes], FlushCommand>>
    IN  CASE a.kind = "tell" -> v
          [] a.kind = "inline" -> [v EXCEPT !.batch = Append(@, m), !.turn.asked = TRUE]
          [] a.kind = "stream" /\ CanAdmit(v.local, 2, a.bytes) ->
                [v EXCEPT !.local = TryExtend(@, commands), !.turn.asked = TRUE]
          [] a.kind = "stream" /\ ~CanAdmit(v.local, 2, a.bytes) ->
                Nacked([v EXCEPT !.turn.asked = TRUE], m)
          [] a.kind = "nack" -> Nacked([v EXCEPT !.turn.asked = TRUE], m)
          [] a.kind = "direct" -> Nacked(v, m)
AskBudgetAction(m) ==
    CASE ~IsActorAsk(m) -> "Dispatch"
      [] IsActorAsk(m) /\ IsFull(w.local) -> "Nack"
      [] IsActorAsk(m) /\ ~IsFull(w.local) /\ ~BudgetExhausted -> "Dispatch"
      [] IsActorAsk(m) /\ ~IsFull(w.local) /\ BudgetExhausted -> "Defer"
(* One message of a read loop; a full count leaves the loop. *)
Handled(v, m) ==
    LET goesOn == [v EXCEPT !.count = @ + 1] leaves == [v EXCEPT !.count = ReadLimit]
    IN  CASE AskBudgetAction(m) = "Dispatch" -> Dispatched(goesOn, m)
          [] AskBudgetAction(m) = "Nack" /\ RoomForNack -> Nacked(goesOn, m)
          [] AskBudgetAction(m) = "Nack" /\ ~RoomForNack -> ParkDeferred(leaves, m)
          [] AskBudgetAction(m) = "Defer" -> ParkDeferred(IF v.pc = "read" THEN goesOn ELSE leaves, m)

PartialFramePossible ==
    w.ordinary # None \/ (w.stream # None /\ (w.stream.at > 1 \/ w.stream.off > 0))
(* The peer closed: answer its close unless a frame may be cut. *)
Arrived == net.taken < Min({net.arrived, Len(plan.inbound)})
AtEof == net.taken = Len(plan.inbound) /\ net.arrived > net.taken
FinishAfterReadExit ==
    w' = IF PartialFramePossible THEN End("abrupt") ELSE End("clean")

(* The read loops: of a turn ("read"), and after a message that woke the task ("drain"),
   which does not take up deferred asks. *)
MayRead ==
    /\ w.count < ReadLimit /\ RoomForNack
    /\ w.stream = None \/ 2 * Len(w.batch) < BatchCap
OverByteCap == w.stream = None /\ w.ordinary = None /\ w.batch # <<>> /\ 2 * Len(w.batch) >= BatchCap
TakesDeferred == w.pc = "read" /\ w.deferred # <<>> /\ ~BudgetExhausted
ReadLoop ==
    /\ w.pc \in {"read", "drain"} /\ MayRead /\ ~OverByteCap
    /\ \/ /\ TakesDeferred
          /\ w' = Handled([w EXCEPT !.deferred = Tail(@)], Head(w.deferred))
          /\ UNCHANGED net
       \/ /\ ~TakesDeferred /\ Arrived
          /\ w' = Handled(w, net.taken + 1)
          /\ net' = [net EXCEPT !.taken = @ + 1]
       \/ ~TakesDeferred /\ AtEof /\ FinishAfterReadExit /\ UNCHANGED net
    /\ UNCHANGED q
ReadsDone ==
    LET v == IF w.stream = None THEN Parked(w) ELSE w
    IN  /\ w' = [v EXCEPT !.pc = AfterReads(v), !.turn.asked = @ \/ v.ordinary # w.ordinary]
        /\ UNCHANGED net
DrainDone ==
    LET v == [(IF w.stream = None THEN Parked(w) ELSE w) EXCEPT !.pc = "top"]
    IN  IF v.unflushed > 0 THEN BoundedFlush([v EXCEPT !.unflushed = 0], v)
        ELSE w' = v /\ UNCHANGED net
ReadLoopEnds ==
    /\ w.pc \in {"read", "drain"}
    /\ \/ ~MayRead
       \/ OverByteCap
       \/ MayRead /\ ~TakesDeferred /\ ~Arrived /\ ~AtEof
    /\ IF w.pc = "read" THEN ReadsDone ELSE DrainDone
    /\ UNCHANGED q
(* A blocked ordinary frame gets one more, bounded, attempt. *)
RetryPending ==
    /\ w.pc = "retry"
    /\ LET p == w.ordinary n == Fit(p.frames, p.off)
       IN  /\ net' = Emit(p.frames, p.off, n)
           /\ Attempted(n, [w EXCEPT !.ordinary = Rest, !.unflushed = @ + n, !.pc = "settle",
                                     !.turn.did = @ \/ n > 0, !.stalled = (n = 0)])
    /\ UNCHANGED q

-----------------------------------------------------------------------------
(* The end of a turn: asks and answers are flushed at once; then park on the stalled frame,
   or on the lanes and the socket when there was nothing to do, or go round. *)
AfterTurnForgets ==  \* mutant of AfterTurn: deferred asks and NACKs do not keep the task awake
    IF w.ordinary # None /\ (w.turn.blocked \/ w.stalled \/ ~w.turn.did) THEN "stalled"
    ELSE IF ~w.turn.did /\ w.ordinary = None THEN "clear" ELSE "top"
AfterTurn ==
    IF w.ordinary # None /\ (w.turn.blocked \/ w.stalled \/ ~w.turn.did) THEN "stalled"
    ELSE IF ~w.turn.did /\ w.ordinary = None /\ w.deferred = <<>> /\ w.nacks = <<>> THEN "clear"
    ELSE "top"
Settle ==
    /\ w.pc = "settle"
    /\ LET v == [w EXCEPT !.count = 1, !.pc = AfterTurn]
       IN  IF w.turn.asked /\ w.unflushed > 0
           THEN BoundedFlush([v EXCEPT !.unflushed = 0], v)
           ELSE w' = v /\ UNCHANGED net
    /\ UNCHANGED q

(* A wake-up of a lane, and the command it takes out: none when the queue is empty. *)
Consumed(l) == [q EXCEPT ![l].permit = FALSE, ![l].buf = IF l \in {"imm", "cmd"} THEN SubSeq(@, 2, Len(@)) ELSE @]
Woken(l) ==
    CASE l = "imm" -> [w EXCEPT !.imm = FirstOf(q[l].buf, 1), !.pc = "top"]
      [] l = "cmd" -> [w EXCEPT !.cmd = FirstOf(q[l].buf, 1), !.pc = "top"]
      [] l \in {"stream", "lease"} -> [w EXCEPT !.pc = "top"]
(* Parked on the stalled frame: it moves, the maintenance timer fires, or a lane wakes. *)
StalledMoves ==
    /\ w.pc = "stalled" /\ net.room > 0
    /\ LET p == w.ordinary n == Fit(p.frames, p.off)
       IN  /\ net' = Emit(p.frames, p.off, n)
           /\ w' = [w EXCEPT !.ordinary = Rest, !.unflushed = @ + n, !.stalled = FALSE,
                             !.wedged = @ /\ Rest # None, !.count = 0,
                             !.pc = IF Rest = None THEN "nacks3" ELSE "top"]
    /\ UNCHANGED q
StalledTimer ==
    /\ w.pc = "stalled" /\ net.room = 0
    /\ Attempted(0, [w EXCEPT !.pc = "top"])
    /\ UNCHANGED <<q, net>>
StalledWake(l) ==
    /\ w.pc = "stalled" /\ q[l].permit
    /\ w' = Woken(l)
    /\ q' = Consumed(l)
    /\ UNCHANGED net

(* prepare_park of the three queues in turn: clear the flag, then look again; a command found
   there arms the flag again. *)
ParkLane == <<"imm", "cmd", "stream">>[w.count]
NoClear ==  \* mutant of ClearPending: the flag stays up
    /\ w.pc = "clear"
    /\ w' = [w EXCEPT !.pc = "recheck"]
    /\ UNCHANGED <<q, net>>
ClearPending ==
    /\ w.pc = "clear"
    /\ q' = [q EXCEPT ![ParkLane].flag = FALSE]
    /\ w' = [w EXCEPT !.pc = "recheck"]
    /\ UNCHANGED net
RecheckUnarmed ==  \* mutant of Recheck: a command found does not arm the flag
    /\ w.pc = "recheck"
    /\ LET l == ParkLane buf == q[l].buf
       IN  /\ q' = [q EXCEPT ![l].buf = SubSeq(@, 2, Len(@))]
           /\ w' = IF buf = <<>>
                   THEN IF w.count < 3 THEN [w EXCEPT !.pc = "clear", !.count = @ + 1]
                        ELSE [w EXCEPT !.pc = "leases"]
                   ELSE IF l = "stream"
                   THEN [w EXCEPT !.pc = "top", !.stream = Streaming(l, Head(buf), plan[l][Head(buf)])]
                   ELSE [w EXCEPT !.pc = "top", ![l] = <<Head(buf)>>]
    /\ UNCHANGED net
Recheck ==
    /\ w.pc = "recheck"
    /\ LET l == ParkLane buf == q[l].buf
       IN  \/ /\ buf = <<>>
              /\ w' = IF w.count < 3 THEN [w EXCEPT !.pc = "clear", !.count = @ + 1]
                      ELSE [w EXCEPT !.pc = "leases"]
              /\ UNCHANGED q
           \/ /\ buf # <<>>
              /\ q' = [q EXCEPT ![l].buf = Tail(@), ![l].flag = TRUE]
              /\ w' = IF l = "stream"
                      THEN [w EXCEPT !.pc = "top", !.stream = Streaming(l, Head(buf), plan[l][Head(buf)])]
                      ELSE [w EXCEPT !.pc = "top", ![l] = <<Head(buf)>>]
    /\ UNCHANGED net
PopLease ==
    /\ w.pc = "leases"
    /\ LET buf == q["lease"].buf
       IN  IF buf = <<>> THEN w' = [w EXCEPT !.pc = "idle"] /\ UNCHANGED q
           ELSE /\ q' = [q EXCEPT !["lease"].buf = Tail(@)]
                /\ w' = [w EXCEPT !.pc = "top", !.stream = Taken(1)]
    /\ UNCHANGED net

(* The idle select: a message, the peer's close, or a wake-up of a lane. *)
IdleRead ==
    /\ w.pc = "idle"
    /\ \/ /\ Arrived
          /\ LET m == net.taken + 1
                 next == IF AskBudgetAction(m) = "Dispatch" THEN "drain" ELSE "top"
             IN  w' = Handled([w EXCEPT !.pc = next, !.count = -1], m)
          /\ net' = [net EXCEPT !.taken = @ + 1]
       \/ AtEof /\ FinishAfterReadExit /\ UNCHANGED net
    /\ UNCHANGED q
IdleWake(l) ==
    /\ w.pc = "idle" /\ q[l].permit
    /\ w' = Woken(l)
    /\ q' = Consumed(l)
    /\ UNCHANGED net
(* The loop ends on shutdown: a graceful close, which may fail, only between frames. *)
Close ==
    /\ w.pc = "top" /\ shut
    /\ w' = IF PartialFramePossible THEN End("abrupt") ELSE End("clean")
    /\ UNCHANGED <<q, net>>

Reading == ReadLoop \/ ReadLoopEnds \/ RetryPending
Writing ==
    \/ StreamSlice \/ FlushSlice \/ DrainNacks \/ PollPending \/ Gather \/ SendBefore \/ Accept
    \/ WriteOwn \/ ImmediateFlush \/ WriteTail \/ FlushTurn
Parking ==
    \/ Settle \/ StalledMoves \/ StalledTimer \/ ClearPending \/ Recheck \/ PopLease
    \/ IdleRead
    \/ \E l \in Lanes : StalledWake(l) \/ IdleWake(l)
IoTask ==
    /\ TopOfTurn \/ Close \/ Reading \/ Writing \/ Parking
    /\ UNCHANGED <<plan, identified, shut>>
WriterNext ==
    \/ \E l \in Lanes : Push(l) \/ NotifyData(l)
    \/ MarkIdentified \/ SignalShutdown \/ PeerReads \/ PeerSends
    \/ Gate \/ Ungate \/ IoTask
(* The task runs, a producer that pushed goes on to notify, an outbound connection is
   identified, and the peer reads. *)
WriterFairness ==
    /\ WF_tvars(IoTask) /\ WF_tvars(Gate) /\ WF_tvars(Ungate) /\ WF_tvars(MarkIdentified)
    /\ \A l \in Lanes : WF_tvars(NotifyData(l))
    /\ WF_tvars(PeerReads)
WriterSpec == WriterInit /\ [][WriterNext]_tvars /\ WriterFairness

-----------------------------------------------------------------------------
(* Frames are never cut into: on the wire every first half is followed by its own second
   half and by nothing else, whichever of the lanes, the responses, the NACKs and the retries
   of a partial write it came from (pending_stream_cmd and pending_ordinary_write own the wire
   exclusively); and the stream is closed cleanly only between two frames, so that the peer
   never takes a truncated frame for an orderly end (partial_frame_possible). *)
FramesContiguous ==
    /\ \A k \in 2..Len(net.wire) :
          net.wire[k][2] = 2 <=> net.wire[k - 1] = <<net.wire[k][1], 1>>
    /\ w.ended = "clean" => net.wire = <<>> \/ net.wire[Len(net.wire)][2] = 2

(* A lane's commands leave in the order they were queued, and a streamed answer's frames in
   their order: no leftover, held or yielded command is overtaken by a later one of its own
   lane, and nothing is written twice. *)
Later(f, g) ==
    /\ f[1] = g[1]
    /\ (f[2] = g[2] /\ f[3] >= g[3]) \/ (f[2] > g[2] /\ f[1] \in {"imm", "cmd", "stream"})
LaneOrder ==
    LET starts == SelectSeq(net.wire, LAMBDA u : u[2] = 1)
    IN  \A j, k \in 1..Len(starts) :
            j < k => ~Later(starts[j][1], starts[k][1])

(* Where the answer to an ask is: an ask the connection consumed is in exactly one place, from
   the deferred asks to the last half frame on the wire, so that it is neither lost nor
   answered twice, however it is deferred, NACKed, parked or streamed. *)
FinalFrame(m) ==
    {<<"nack", m, 1>>, <<"answer", m, IF plan.inbound[m].kind = "stream" THEN 2 ELSE 1>>}
Places(m) ==
    LET in(s) == IF Contains(s, m) THEN 1 ELSE 0
        commands(s) == in([k \in 1..Len(s) |-> s[k].ask])
        unsent == IF w.ordinary = None THEN <<>>
                  ELSE SubSeq(w.ordinary.frames, (w.ordinary.off \div 2) + 1, Len(w.ordinary.frames))
        streams == w.yielded \o (IF w.stream = None THEN <<>> ELSE <<w.stream>>)
    IN  in(w.deferred) + in(w.nacks) + in(w.batch)
            + commands(w.local.queue) + commands(DeferredCommands(w.local))
            + Cardinality({k \in 1..Len(unsent) : unsent[k] \in FinalFrame(m)})
            + Cardinality({k \in 1..Len(streams) : streams[k].src = "answer" /\ streams[k].id = m})
            + Cardinality({k \in 1..Len(net.wire) : net.wire[k][1] \in FinalFrame(m) /\ net.wire[k][2] = 2})
AskInOnePlace ==
    w.ended = "no" => \A m \in Asks : Places(m) = IF m =< net.taken THEN 1 ELSE 0

(* Room is kept before it is needed: the read loops leave room for a NACK before they read, so
   the NACKs, with the one on the wire, never pass their cap, the extra slot behind the deferred
   asks stays unused and the connection is never failed for capacity (queue_ask_nack,
   park_deferred_ask); and while the queue of streamed answers is not full an answer of any size
   fits it, so an ask handed to its handler is never NACKed afterwards (is_full against
   can_admit_response). *)
RoomKept ==
    /\ Len(w.nacks) + Occupied =< NackCap
    /\ Len(w.deferred) =< DeferCap
    /\ w.ended # "capacity"
    /\ ~IsFull(w.local) => \A b \in 1..MaxStream : CanAdmit(w.local, 2, b)

(* The task parks on its lanes only when it holds no work: no command, frame, answer or NACK
   waits in a local of the task, and what is in a queue has a wake-up stored or coming. *)
ParkedDry ==
    w.pc = "idle" =>
        /\ w.stream = None /\ w.ordinary = None
        /\ \A s \in {w.yielded, w.leftovers, w.imm, w.cmd, w.cmds, w.batch, w.nacks, w.deferred} : s = <<>>
        /\ ~HasPending(w.local)
        /\ \A l \in Lanes : q[l].buf # <<>> => q[l].permit \/ q[l].told < q[l].made

(* A command accepted by a write queue is in the queue, in the task or on the wire, however the
   wake-ups fall: the park on a stalled frame overwrites the command it holds at a second
   wake-up of a lane, and none comes because prepare_park arms the flag for what it pops. *)
CommandKept ==
    w.ended = "no" =>
        \A l \in {"imm", "cmd"} : \A i \in 1..q[l].made :
            LET f == <<l, i, 1>> gathered == w.chunks \o w.inline \o w.direct
            IN  \/ Contains(q[l].buf, i) \/ Contains(w[l], i)
                \/ Contains(w.cmds \o w.leftovers, <<l, i>>) \/ Contains(gathered, f)
                \/ w.ordinary # None /\ Contains(w.ordinary.frames, f)
                \/ Contains(net.wire, <<f, 2>>)

(* Every ask that was consumed gets its answer or its NACK onto the wire, and every command,
   streamed frame and leased reply that was queued leaves, unless the connection ends, while
   the peer goes on reading: the task neither parks on work nor loops in the choice of a lane. *)
WorkLeaves ==
    <>[](\/ w.ended # "no"
         \/ /\ \A m \in Asks : m =< net.taken =>
                  \E k \in 1..Len(net.wire) : net.wire[k][1] \in FinalFrame(m) /\ net.wire[k][2] = 2
            /\ \A l \in Lanes : \A i \in 1..q[l].made :
                  Cardinality({k \in 1..Len(net.wire) : net.wire[k][1][1] = l /\ net.wire[k][1][2] = i
                                                       /\ net.wire[k][2] = 2})
                      = IF l \in {"imm", "cmd"} THEN 1 ELSE plan[l][i])

(* A shutdown ends the task wherever it is parked, once it is identified. *)
ShutdownEnds == <>[](shut /\ identified => w.ended # "no")
=============================================================================
