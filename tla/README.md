# A TLA+ verification of icanact-remote

`icanact-remote` is a peer-to-peer transport and actor registry in Rust: TLS
connections between nodes that know each other by key, asks and tells over
them, and a gossip protocol that lets every node look up the actors of the
others. This directory holds its formal model: TLA+ modules translated from the
source under `src/src/`, the configurations TLC checks them with, and theorems
about them that TLAPS proves. `PROJECT.json` maps every definition to the lines
it stands for, and lists the runs, the mutants that show each property can
fail, the findings, the hazards of the code and the theorems.

## The system and its modules

| Part | Source | What makes it hard | Modules | Proofs |
|---|---|---|---|---|
| Correlation tracker | `connection_pool/correlation.rs`, ask paths of `connection_pool/handle.rs` | lock-free ring; ids that differ by 8192 share a slot; timeouts, cancels and replies race | `Correlation` | `CorrelationProofs` |
| Queues to the writer | `connection_pool/constants.rs` | sleeping writer, cancelled and late producers, close with a spin on try_push_state | `WriteQueue` | `WriteQueueProofs` |
| Reply slots and leases | `reply_lease.rs`, `connection_pool/reply_slots.rs`, the leased answers of `stream_writer.rs` | three completion routines race for one record; permits and indices come back once | `ReplySlots`, abstractly `ReplyDelivery` | `ReplySlotsTypes`, `ReplySlotsProofs`, `ReplyDeliveryProofs`, `ReplySlotsTheorems` |
| Writer task | `connection_pool/stream_writer.rs`, reads of `read_pipeline.rs` | one loop over four write lanes, answers, NACKs and reads, any write of which may be short | `WriterTask` | |
| Address ownership | `registry_owner.rs`, `addr_ownership.rs`, callers in `registry.rs` and `handle.rs` | one owner task, many callers that apply its answers later and in any order | `RegistryOwner`, `AddressClaims` | `OwnerCommands`, `OwnerProofs` |
| Actor directory | `registry.rs`, `lib.rs` | replicated with deltas, full syncs, vector clocks and tombstones, across outages and restarts | `ActorDirectory` | |

An ask takes a slot of the correlation tracker, is queued to the writer task
and written; the peer's writer task reads it, its actor answers directly or
through a reply lease, and the answer completes the slot. The registry gossips
its directory over the same connections, and asks the registry owner which
address belongs to which peer whenever a session starts or ends, an operator
configures a peer, DNS moves one, the dead-peer sweep gives one up, or the
bound on the peer table evicts one.

### Correlation

One process per ask, reader and teardown; one step per atomic access of the
slot state. `slotState`, `slotId`, `slotResp` and `slotWaker` are the fields of
`PendingResponseSlot`; `slotResp` records for which request the reply in the
cell is. `pc` follows the code: `AllocFetch`, `AllocClaim`, `AllocInstall`,
`AllocPublish` are `allocate`; `Send` is the write; `Take`, `Took`, `Load1`,
`RegisterIfOwner`, `Load2`, `Poll` are one poll of `wait_for_response`;
`TimeoutClaim`, `TimeoutEvict`, `LoadT` its timeout branch; `CancelClaim`,
`CancelRelease` are `cancel`; `Receive`, `CompleteClaim`, `CompletePublish` the
dispatch of a reply or NACK; `CloseStart`, `CloseSlot`, `CloseDrop` are
`cancel_all`. An ask is *timed*, *untimed* (both under a `SlotGuard`) or
*deferred* (a `PendingAsk`).

### WriteQueue

Producers call the blocking push of a `WriteQueue`, its `try` form, or the push
of a `StreamingQueue`; each atomic access, `Notify` call and await is a step,
and a waiting call may be cancelled. `qbuf`, `qflag`, `qfence`, `qguards` are
the queue, `data_pending`, the closed bit and the count of `try_push_state`.
The writer drains, clears the flag, looks again and parks (`prepare_park`), and
on a fault or a shutdown runs `close_and_reclaim`. A tokio `Notify` is external:
at most one stored permit, first-in first-out for `notify_one`, nothing stored
by `notify_waiters`.

### ReplySlots and ReplyDelivery

A record (`rec[l]`) is named by its lease. The owner of a lease runs
`try_reserve`, the claim of the ask, `publish`, `activate` and `wait_complete`
(`TakeJob` ... `AwaitState`), or drops it at an await (`DropWait`, `Cancel`).
`rsub[t]` is the completion routine (`finish`, `discard`, `remove_closed`) that
thread `t` runs: load the table entry, swap it out, close the publication,
recycle once, give permits and index back, store the state. The writer task
takes ready or yielded leases, writes their frames slice by slice, flushes, and
on exit fences, settles, drains and sweeps (`close_and_reclaim`).
`ReplyDelivery` is what this promises: capacity is bounded; an ask is claimed
once and answered at most once by its claimant while that holds a slot; no slot
comes back before the answer is out, unless the lease may not answer or the
connection is shut.

### WriterTask

`w` holds the locals of `io_task`, one step per stretch of the loop between
writes that may be short. A frame is two units on the wire so that it can be
cut; the transport takes as many units as the peer has made room for. Producers
push and notify as in `WriteQueue`; inbound messages are tells and asks whose
answers are inline, direct, streamed or refused. Deferral of asks, the NACK
queue, the response budgets, rotation, the wedge clocks, flushes, gating until
the identifying frame, parking, shutdown and the peer's close are modelled.

### RegistryOwner and AddressClaims

A command of the owner task is an operator from its state to the next
(`ClaimSession`, `ReleaseSession`, `ReserveForReap`, `ConfigurePeer`, `Migrate`, ...);
the state is the fourteen tables of the owner, its published snapshot among
them. `AddressClaims` has the callers: sessions that claim, project the claim
into `GossipState`, are rejected and roll back, receive frames, exit; sweeps
that select, reserve, decide, destroy, mark and release, and may be aborted;
configuration requests with retries; DNS refreshes with their compensation;
`enforce_bounds`, which removes entries under the lock and releases their
addresses after it. Between a command and its projection anything else may run.

A `FullSync` or `FullSyncResponse` claims again (`FrameSession`, `OwnerClaim`,
`ProjectFrame`), then takes the lock twice more: `BindFrame` checks the claim's
watermark and, for a `FullSync`, moves the entry of the observed source to the
claimed address (`migrate_peer_entry`) and adds an anonymous entry where there is
none; `SettleFrame`, after the merge, checks again, moves the entry for a
`FullSyncResponse`, and resets the failures when the session is still current.
Whether it is, and which of two merged entries was tried later, is left open.
The auxiliary variable `loose` holds the addresses whose entry was written or
removed by something other than the projection of a claim.

### ActorDirectory

`dir[n][x]` holds what node `n` has under the three maps `local_actors`,
`known_actors` and `removed_actors`. Registration and removal are two steps
(before and after the await for the lock); `op[n][c]` is the call `c` a node has
between them, and calls of one node overlap. A full sync is answered in three
steps, since the code takes the snapshot, then the lock and the sequence, and then
sends. A gossip round commits the pending changes and
picks a delta or a full sync per peer, frames travel in order per session and
are lost with it. Reaps, expiries, outages, reconnects and restarts are bounded
by the scenario.

## What the runs check

| Run | Instance | What it shows |
|---|---|---|
| `correlation_alias` | one slot, so every id aliases; two asks of any kind, a reader, a teardown, two of the reply's lookups | `TypeOK`; `ExclusiveWriting` and `CellInitialised` (the response cell is entered by one process and read only when written); `OwnReplyOnly`; `WakerOfOwner`; `WaiterKeepsSlot` (nobody stale evicts a waiter); `GuardReleasesSlot` |
| `correlation_live` | two slots, one ask of each kind, `next_id` starting at the reserved 0, a teardown | `PublishedReplyTaken` (no lost wakeup), `OperationsEnd` (asks return by their deadline, the spin loops of `cancel` and `cancel_all` end) |
| `correlation_leak` | one deferred ask | violation of `DeferredReleasesSlot`, see Findings |
| `correlation_lost_wake` | two asks that alias | violation of `PublishedReplyTaken`, see Findings |
| `connection` | queue: capacity 1, three producers, five scenarios of calls, faults and shutdown; leases: three, two from clones of one responder, 1-2 slots and jobs, two-frame replies, six scenarios of drops, refusals and crashes | `NoSleepingWriter`, `ReclaimedAfterClose`; `SlotsExclusive`, `BudgetConserved`, `CompletionAfterRelease`, `NothingHeldAfterClose`, `WireShape`; `ImplementsDelivery` (refinement); `CallsReturn`, `AcceptedDone` (liveness) |
| `writer_turns` | eleven scenarios: every lane and kind of command, answers of every kind, stalls, a gated connection, shutdown, the peer's close | `FramesContiguous`, `LaneOrder`, `AskInOnePlace`, `RoomKept`, `ParkedDry`, `CommandKept`; `WorkLeaves`, `ShutdownEnds` (liveness) |
| `writer_nack` | one command, one answer, one refused ask | violation of `FramesContiguous`, see Findings |
| `addresses` | two peers, two addresses, four sessions, two sweeps, two requests, one refresh, an eviction, in thirteen scenarios | `OwnerCoherent`, `ReapFenced`, `ProjectionConverges`, `ReceiptsKept`; `RequestsEnd` (liveness) |
| `directory_safety` | two nodes, one name: registrations and removals that overlap on one node; a restart with immediate gossip and expiries; an outage and a reap | `OwnNamesKept`, `UnregisterHolds`, `SequenceGate` |
| `directory_converge` | two nodes: an actor removed while rounds cross; an outage and a reap, or a restart, with a removal or with crossing rounds | `GhostsVanish`, `LiveActorsVisible`, `GateReopens` (liveness) |
| `directory_ghost` | three nodes, default intervals, a scripted prefix and then fair gossip | violation of `GhostsVanish`, see Findings |
| `directory_race` | two nodes, a scripted overlap of register and unregister and then fair gossip | violation of `LiveActorsVisible`, see Findings |

The mutants of `PROJECT.json` replace one mapped definition each by a plausible
bug (a dropped guard, a swapped order, a missing reset); TLC finds the property
violated under the same configuration.

### Bounds, and why they are enough

- The ring has one slot where aliasing matters: with `N = 1` every operation on
  an ended request meets the slot of a live one, the worst case of the 8192.
  Ids are taken modulo `IdSpace`, 8 for the code's 2^32; no id is fetched a second
  time, so a behaviour, also in the proofs, ends before `next_id` has come round
  once. The proofs lift `N`, the id space and the number of asks and readers.
- One element of queue capacity makes every second producer wait; three
  producers suffice for one that waits, one that fills the queue behind it and
  one that is woken instead.
- Three leases give a clone race and an independent ask; `BigFrames = 2` has one
  frame boundary to cancel at. The proofs lift all of them.
- A frame of two units can be cut once, a window of three cuts it at either
  place; the caps of the writer (`NackCap`, `DeferCap`, `BatchCap`, ...) are
  chosen at 1 to 6 so that each overflows in some scenario. A scenario has at
  most seven inbound messages or four commands of one lane.
- Two addresses and two peers let a claim, a migration and a sweep collide; the
  watermark capacity is 1 so that pruning happens, and `MaxPeers` is 1 so that a
  second entry is one too many. `MaxFailures = 1` failure is recorded; the
  instants before, at and after it are distinct. A session receives at most one
  claiming frame, and a behaviour has at most one eviction.
- Two nodes suffice for the gate, the tombstones and the reap, which are per
  pair; relays need three, and only the finding's run has them: the exhaustive
  three-node space is out of reach. `Calls` is the number of calls a node may have
  in progress, two where the scenario registers more than once; in
  `directory_converge` each name is registered once, so that one suffices.
  `MaxHistory = 1`, `FullSyncInterval = 1` make
  deltas fall out of the history and full syncs happen at once.

Deadlock is checked for the directory. The other systems stop when their
scenario is over.

### Fairness

- Correlation: weak fairness of every ask's own steps, of a poll once woken, of
  its timer, of the readers and of the teardown: the executor runs ready tasks,
  and timers fire. An unwoken poll is possible but never owed.
- Connection: weak fairness of each producer, of the writer task, of a shutdown
  signal once stored, of each owner of a lease and of the writer's delivery.
  Cancelling a call is never owed.
- Writer: weak fairness of the task, the gate, identification, `notify_data`
  after a push, and of the peer's reads; a transport that takes nothing for ever
  ends in the wedge clocks, which only scenarios with `wedge` exercise.
- Addresses: weak fairness of the sweeps and of the configuration requests,
  which run in tasks of their own. Nothing is owed by sessions and the operator.
- Directory: weak fairness of the second halves of register and unregister, of
  immediate gossip, of receipt, reply and reconnect, and strong fairness of
  `Round`: the gossip timer ticks for ever, but a round with nothing to commit is
  disabled while the session is down, its channel is full (`Capacity`) or, where
  the scenario forbids crossing rounds, the other end's frame is under way; so
  it is enabled again and again rather than continuously.

## What is proved

The theorems hold for every value of the constants that satisfies the named
assumptions (`ConstantsAssumption`, `QueueAssumption`, `SlotsAssumption`,
`OwnerAssumption`, `ClaimsAssumption`): positive sizes, finite sets where the code
has a finite table, values outside the sets for *absent*, and total plans.
TLC evaluates them on the runs. None bounds the number of processes.

### Correlation tracker (`CorrelationProofs`)

`SlotInvariant` is the inductive invariant `SlotInv`: the types and what each
program counter implies (`Control`); ids are given out once (`DistinctIds`); a
reply being taken or dropped is the slot owner's (`HeldReply`); a registered
waker belongs to an ask that has its id (`RegisteredAsk`); until the teardown an
occupied slot is neither freed nor renamed (`OccupiedSlot`); and the four
properties themselves. The invariants are not inductive alone: that no reply is
handed to the wrong ask, for instance, needs that the id in the slot does not
change while somebody is in `SLOT_WRITING`. Most steps touch one slot, so each
step is first shown to change the shared state only at its own slot (`Local`),
and the invariant is preserved slot by slot.

- `TypeCorrect`, `CellSafety`, `CellAlwaysInitialised`, `ReplyIsolation`,
  `WakerOwnership`, `NoEviction`: consequences of `SlotInv`.
- `GuardAlwaysReleases`: an ask under a `SlotGuard` that has returned left its slot
  neither WAITING nor READY under its id. It needs `GuardInv` on top: where such a
  slot still carries the id, whoever holds it is about to install another
  (`GuardFreed`), and an id that is still being allocated is in no slot
  (`FreshIds`), so nobody can bring the old one back.

### Queues (`WriteQueueProofs`)

- `NoLostWakeup`: with `WakeInv`, from the writer's second look on, the flag is
  only up if a permit is stored or a producer is about to store one, and a
  command behind a cleared flag belongs to a producer that has yet to raise it.
- `NothingRetained`: with `ReclaimInv`, whoever may still push is counted, and the
  last drain runs once nobody is.

### Reply slots (`ReplySlotsTypes` to `ReplySlotsTheorems`)

Two inductive invariants, the second on top of the first.

`ResourceInv` (`SlotsResources`): types and control (`ControlInv`: an owner is
counted exactly while it publishes; the fence precedes the closed flag and that
the settling; what the writer can take a lease from names existing records);
claims and flags are the owner's progress (`ClaimInv`, `FlagInv`); a record is
recycled once and by one routine (`RecycleInv`); the table names the holders, and a
holder that is not in the table is in the hands of one routine (`TableInv`); indices are
free once, held once or returned once (`IndexInv`); and the budget. With
respect to indices a step takes one, starts to return one, returns it, or does
nothing (`IndexCases`); with respect to permits it takes one, gives one back, or
does nothing (`PermitMove`). The counting theorems of `FiniteSetTheorems` are
applied to these cases only.

`DeliveryInv` (`SlotsDelivered`): a lease is in one place of the writer's (`PlaceInv`);
while it is there, its record is a holder, its owner is done with it and the ask is
its own (`FlightInv`); a pending record stays a holder until the closing drain
(`PendingInv`); a completed record has nothing left to return (`CompletionInv`); the
frames written are those of its stage (`WireInv`).

- `SlotsAlwaysExclusive`, `BudgetAlwaysConserved`, `CompletionFollowsRelease`,
  `NothingStaysAfterClose`, `WireAlwaysShaped`: the five safety invariants of the run.
- `SlotsImplementDelivery`: `SlotsSpec` implements `ReplyDelivery` under the mapping
  in `ReplySlots` (`held` is the set of unrecycled records, `claim` the ask's claim,
  `answer` the last frame of the lease, `shut` the fence). Each step is shown to be
  one of `Grant`, `Claim`, `Answer`, `Release`, `Shut`, or a stutter; that at most
  `Limit` leases are held is the pigeonhole of indices and of permits.

### Address ownership (`OwnerCommands`, `OwnerProofs`)

`OwnerCommands` is about single commands and knows no caller: each keeps the tables
and the snapshot in agreement (`Coherent`); no command other than the holder's own
consumption or release touches a reserved address beyond taking its owner away
(`Fenced`); the commit sequence grows, and a receipt appears only at an address with a
new generation (`Stamped`). `OwnerProofs` adds what the callers remember.

- `OwnerStaysCoherent`: with `ClaimsInv`, the callers, evictions included, send
  commands about known addresses and peers.
- `ReapsStayFenced`: with `EntriesInv` (the peer entries that give a sweep its
  instant are well formed, those a rejected candidate restores or a frame moves
  included) and
  `FenceInv` (a sweep between its reservation and its release has the address
  reserved for itself, finds the owner, evidence and pin it selected or no owner,
  and sees no newer evidence before it consumes the reservation).
- `ReceiptsAlwaysKept`, an action property: with `ReceiptInv`. A rollback retracts an
  address with all its receipts; that these are the session's own holds because it
  rolls back only a claim that created the generation the address still has, and
  `Stamped` forbids another receipt under that generation. An eviction takes the
  receipts of an address only if its owner and generation are those of the
  evicted entry: whoever claimed since keeps theirs.

The strengthened invariants were checked by TLC on the instances of the runs
before they were proved.

### What is only model-checked

- Liveness (`PublishedReplyTaken`, `OperationsEnd`, `CallsReturn`, `AcceptedDone`,
  `WorkLeaves`, `ShutdownEnds`, `RequestsEnd`, `GhostsVanish`, `LiveActorsVisible`,
  `GateReopens`): the prover does not do fairness.
- The actor directory: a delta is applied change by change, a fold over a
  sequence, and what a fold computes is an induction the provers cannot do. This
  concerns `OwnNamesKept`, `UnregisterHolds` and `SequenceGate`.
- The writer task: its properties are about the sequence of units on the wire and
  about budgets that are folds over the queues, for the same reason.
- `ProjectionConverges`: which watermarks survive pruning is a choice of a subset by
  size; the convergence argument needs counting over it that was not attempted.

## Findings

Each is a run that TLC ends with a counterexample to what the repository says of
itself; `PROJECT.json` quotes both sides.

- `correlation_leak`, `correlation.rs:569`: the timer of a deferred ask meets a
  completer in `SLOT_WRITING`, sees `SLOT_READY` next and returns `Timeout`;
  `PendingAsk::wait` has disarmed its drop, so the slot stays READY for good.
- `correlation_lost_wake`, `correlation.rs:414`: a stale `cancel` that finds another
  id restores `SLOT_READY` without a wake; the owner that registered and parked
  during the transient state is never woken.
- `directory_ghost`, `registry.rs:10567`: `should_use_delta_state` compares the own
  sequence with the peer's; an unregister travels as an omission, leaves no
  tombstone, and a relay brings the actor back for good.
- `directory_race`, `registry.rs:7480`: a registration that overlaps the removal of
  the same name takes its clock before the removal's tombstone is written; whichever
  gets the lock first, the removal dominates at the peers and the live actor stays
  hidden. `OwnNamesKept` therefore does not say that a local name has no tombstone:
  one that it has is the node's own explicit one.
- `writer_nack`, `stream_writer.rs:3349`: after a pending frame completes, a NACK
  header is cut by a full transport, and the batch of the same turn is written
  into it.

### Observations

Met while modelling; no run states them as properties, because no document
promises otherwise or because the part is not modelled.

- Correlation: `allocate` may report exhaustion while a slot is free (its sweep
  is one pass of a moving counter).
- Queues and leases: a caller may be told `ConnectionClosed` for a command that was
  processed; `activate`'s `remove_closed` and the closing sweep may both run
  `complete_closed` on one record, and only the first recycles (`RecycleInv`).
- Writer: `signal_shutdown` does not wake a gated writer (hence `identified` in
  `ShutdownEnds`, and no gated scenario with a shutdown); a tell may overtake a
  deferred ask; an answer above the stream limit gets neither an answer nor a
  NACK; a stalled park overwrites `pending_cmd`, which is safe because
  `prepare_park` re-arms; a failed flush is not retried on a quiet connection
  (`stream_writer.rs:4257`).
- Directory: a restarted node that registers a name it had explicitly unregistered
  is refused until the tombstone expires; `last_sent_sequence` is never read; a
  `FullSyncResponse` built before a round can confirm a restart that never happened
  (`registry.rs:10289`); replacing a learned actor leaves its name in
  `peer_to_actors`; after a reap an older explicit tombstone may hide a live actor.
- Addresses: `Provisional` ownership and `reap_baseline_activity_detected` are
  unreachable; the early return of `configure_peer` does not advance the
  generation (`registry_owner.rs:3484`). The entry of an owned address may be lost
  or become another peer's in four ways, the `loose` addresses that
  `ProjectionConverges` leaves out: `restore_inbound_claim_projection` removes the
  entry a newer claim of the same peer projected (`registry.rs:3734`; its comment says
  a newer projection is left untouched, and only the node is compared);
  `migrate_peer_entry` takes the entry from a source address the peer still owns, and
  overwrites an entry of another identity at the claimed address
  (`registry.rs:2432`; the comment at its call, `pool_connect.rs:5331`, says
  "without overwriting state already established at the bind key");
  `enforce_bounds` removes an entry and then does not release an address that was
  claimed again meanwhile; the compensation of `refresh_peer_dns` fails. An
  eviction that decided while a session was between its claim's projection and its
  publication releases the receipt of a session that is then live.

The passing scenarios of the writer leave out the combination of `writer_nack`,
and `correlation_live` has one ask, so that the two known defects do not hide
others.

## What is not modelled

- Publication and teardown of sessions (tie-break of simultaneous connects, the
  current-connection indices, disconnect notifications), the session epochs of
  a peer with several sockets, and the failure bookkeeping and reconnect
  supervision that act on them: about a hundred steps over five unlocked indices,
  more than a run explores. `ActorDirectory` has one session per pair, and
  `AddressClaims` takes a session's acceptance or rejection as given, and holds a
  peer exempt from eviction only when its single session was kept and is up.
- In address ownership: the writers of `GossipState::peers` that hold no commit (the
  `DeltaGossip` handler, `connect_to_peer` and `PeerHandle::connect`, which add an entry
  where there is none, and the failure reset of a delta) and
  `release_client_only_session`.
- In the directory: shutdown, admission caps and the compact budget, clock
  compaction, address repair. In the writer: the io_uring variant and the idle
  select without a read context. In the read pipeline: the assembly of streamed
  payloads.
- Publish/subscribe, peer discovery, the ask forwarder, route interning: tables
  behind one lock or users of the parts above.
- TLS, names and allowlists (a node of the model is an authenticated key), the
  handshake, framing and alignment, configuration, sockets and DNS lookups
  themselves, remote actor references, test support: sequential code or pure I/O.

The components of `PROJECT.json` say this per part.

## Running

    tlc -workers 2 -config Connection.cfg MCConnection
    tlapm ReplySlotsTheorems.tla

Each run ends within five minutes; each proof module is checked by itself, those
it extends are taken as proved, and takes up to twenty minutes from nothing.
