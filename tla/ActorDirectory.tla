--------------------------- MODULE ActorDirectory ---------------------------
(***************************************************************************)
(* The replicated actor directory (registry.rs): registration, removal,    *)
(* periodic and immediate gossip, delta and full-sync application with     *)
(* vector clocks and tombstones, the reap of dead peers, reconnects and    *)
(* restarts.  A node is its authenticated identity: it stands for peer_id, *)
(* node_id (ordered, as the tie-breaks need) and its only address.         *)
(***************************************************************************)
EXTENDS Integers, Sequences, FiniteSets, SequencesExt

CONSTANTS
    Nodes,            \* a set of naturals, ordered like GossipNodeId
    Names,            \* actor names
    WallTimes,        \* wall_clock_time of a registration
    SmallCluster,     \* whether healthy nodes <= small_cluster_threshold
    FullSyncInterval, \* full_sync_interval
    MaxHistory,       \* max_delta_history
    Capacity,         \* bound on gossip frames in flight on one link, one way
    Calls,            \* bound: the registration calls a node may have in progress at once
    Scenarios,        \* bounds: the initial values of budget
    None              \* absence

ASSUME NodesAssumption == Nodes \subseteq Nat /\ None \notin Nodes

VARIABLES
    dir,      \* dir[n][x]: local_actors, known_actors, removed_actors at name x
    pending,  \* pending_changes, per name
    urgent,   \* urgent_changes, per name
    history,  \* delta_history
    gseq,     \* gossip_sequence
    peer,     \* peer[n][m]: PeerInfo of m at n, and peer_to_actors[m]
    up,       \* up[n][m]: an authenticated session between n and m is current
    net,      \* net[n][m]: frames written by n and not yet read by m
    reply,    \* reply[n][m]: how far n is with its FullSyncResponse to m
    op,       \* op[n][c]: the registration calls in progress at n
    trig,     \* trig[n]: a call of trigger_immediate_gossip is due at n
    inc,      \* inc[n]: number of restarts of n
    budget    \* bounds: how many registrations, reaps, actor expiries, tombstone
              \* expiries, outages and restarts are left; which nodes register and dial,
              \* with which priorities, and whether the rounds of two ends may cross

vars == <<dir, pending, urgent, history, gseq, peer, up, net, reply, op, trig, inc, budget>>

-----------------------------------------------------------------------------
(* VectorClock: an absent component reads as 0. *)
NoClock == [m \in Nodes |-> 0]
Increment(c, n) == [c EXCEPT ![n] = @ + 1]
Merge(c, d) == [m \in Nodes |-> IF c[m] >= d[m] THEN c[m] ELSE d[m]]
Leq(c, d) == \A m \in Nodes : c[m] <= d[m]
After(c, d) == Leq(d, c) /\ c # d
Concurrent(c, d) == ~Leq(c, d) /\ ~Leq(d, c)

(* The order of to_vec(): the sorted (node, clock) pairs, compared as lists. *)
VecGreater(c, d) ==
    \E m \in Nodes :
        /\ \A k \in Nodes : k < m => c[k] = d[k]
        /\ c[m] # d[m]
        /\ IF c[m] # 0 /\ d[m] # 0 THEN c[m] > d[m]
           ELSE IF d[m] = 0 THEN \A k \in Nodes : k > m => d[k] = 0
                ELSE \E k \in Nodes : k > m /\ c[k] # 0

(* stable_concurrent_location_wins; one address per node, so the later tie-breaks
   compare equal values. *)
LocationWins(cand, old) ==
    \/ cand.wall > old.wall
    \/ cand.wall = old.wall /\ cand.owner > old.owner

RemovalWins(by, clock, old) ==
    \/ VecGreater(clock, old.clock)
    \/ clock = old.clock /\ by > old.owner

(* Mutant of OwnerRecoveryWins: a direct announcement beats any tombstone. *)
RecoversAlways(loc, sender, t, restarted) == loc.owner = sender

(* owner_recovery_wins_tombstone *)
OwnerRecoveryWins(loc, sender, t, restarted) ==
    /\ loc.owner = sender
    /\ \/ loc.clock[loc.owner] > t.clock[loc.owner]
       \/ loc.clock[loc.owner] = t.clock[loc.owner] /\ t.kind = "death"
       \/ restarted /\ t.kind = "death"

(* current_actor_upsert_plan: whether loc, sent by sender, replaces entry e of n. *)
UpsertAccepted(n, e, loc, sender, restarted) ==
    /\ loc.owner # n
    /\ e.local = None
    /\ e.tomb # None => \/ After(loc.clock, e.tomb.clock)
                        \/ OwnerRecoveryWins(loc, sender, e.tomb, restarted)
    /\ e.known # None => \/ After(loc.clock, e.known.clock)
                         \/ ~After(e.known.clock, loc.clock) /\ LocationWins(loc, e.known)

Upsert(e, loc) == [e EXCEPT !.known = loc, !.tomb = None]

(* current_actor_removal_plan: the clock to record, None to ignore the removal. *)
RemovalClock(e, ch) ==
    CASE e.local # None -> None
      [] e.local = None /\ e.known # None ->
            IF \/ After(ch.clock, e.known.clock)
               \/ Concurrent(ch.clock, e.known.clock) /\ RemovalWins(ch.by, ch.clock, e.known)
            THEN ch.clock ELSE None
      [] e.local = None /\ e.known = None ->
            IF e.tomb = None THEN ch.clock
            ELSE IF Leq(ch.clock, e.tomb.clock) THEN None
            ELSE Merge(ch.clock, e.tomb.clock)

(* The kind of the tombstone a removal leaves: what the reporter is to the owner,
   merged with the kind already recorded (merge_tombstone_kind). *)
RemovalKind(e, by) ==
    LET owner == IF e.known # None THEN e.known.owner
                 ELSE IF e.tomb # None THEN e.tomb.owner ELSE None
        inferred == CASE owner # None /\ owner = by -> "explicit"
                      [] e.known # None /\ owner # by -> "death"
                      [] OTHER -> "unknown"
        kinds == {inferred} \cup (IF e.tomb # None THEN {e.tomb.kind} ELSE {})
    IN CASE "explicit" \in kinds -> "explicit"
         [] "explicit" \notin kinds /\ "death" \in kinds -> "death"
         [] OTHER -> "unknown"

RemovalOwner(e, by) ==
    CASE e.known # None -> e.known.owner
      [] e.known = None /\ e.tomb # None /\ e.tomb.owner # None -> e.tomb.owner
      [] OTHER -> IF RemovalKind(e, by) = "explicit" THEN by ELSE None

Discard(e, ch) ==
    [e EXCEPT !.known = None,
              !.tomb = [clock |-> RemovalClock(e, ch), kind |-> RemovalKind(e, ch.by),
                        owner |-> RemovalOwner(e, ch.by)]]

-----------------------------------------------------------------------------
(* RegistryChange and the gossip frames. *)
Added(loc) == [type |-> "add", loc |-> loc]
Removed(clock, by) == [type |-> "remove", clock |-> clock, by |-> by]
ClockOf(ch) == IF ch.type = "add" THEN ch.loc.clock ELSE ch.clock

(* change_wins: causal order, then remove-wins. *)
ChangeWins(cand, old) ==
    \/ After(ClockOf(cand), ClockOf(old))
    \/ /\ ~After(ClockOf(old), ClockOf(cand))
       /\ cand.type = "remove" /\ old.type = "add"

(* deduplicate_changes on the changes of one name. *)
Deduplicate(changes) ==
    FoldLeft(LAMBDA acc, ch : IF acc = <<>> \/ ChangeWins(ch, acc[1]) THEN <<ch>> ELSE acc,
             <<>>, changes)

Present(loc) == IF loc = None THEN <<>> ELSE <<Added(loc)>>

(* create_delta_from_state: the directory too when the peer has sent nothing yet. *)
DeltaBody(n, hist, since) ==
    [x \in Names |->
        Deduplicate(
            (IF since = 0 THEN Present(dir[n][x].local) \o Present(dir[n][x].known) ELSE <<>>)
            \o FoldLeft(LAMBDA acc, h : IF h.seq > since THEN acc \o h.changes[x] ELSE acc,
                        <<>>, hist))]

(* The actor maps of a FullSync; a name is never in both maps. *)
Snapshot(d) == [x \in Names |-> IF d[x].local # None THEN d[x].local ELSE d[x].known]

Larger(a, b) == IF a >= b THEN a ELSE b
Smaller(a, b) == IF a <= b THEN a ELSE b

NewPeer == [last |-> 0, deltas |-> 0, armed |-> FALSE, restarted |-> FALSE, actors |-> {}]
(* arm_sequence_reset_for_new_session *)
Arm(p) == [p EXCEPT !.armed = TRUE, !.restarted = FALSE]
NoEntry == [local |-> None, known |-> None, tomb |-> None]
NoChanges == [x \in Names |-> <<>>]
Idle == [kind |-> "idle"]
Peers(n) == Nodes \ {n}

(* should_use_delta_state, for peer m of n once hist and g are committed. *)
ShouldUseDelta(p, hist, g) ==
    /\ ~(p.last = 0 /\ g = 0)
    /\ SmallCluster => g > p.last
    /\ p.deltas < FullSyncInterval
    /\ p.last > 0 => p.last >= (IF hist = <<>> THEN g ELSE hist[1].seq)

(* Empty registries; every session is up and its initial syncs are exchanged. *)
Init ==
    /\ dir = [n \in Nodes |-> [x \in Names |-> NoEntry]]
    /\ pending = [n \in Nodes |-> NoChanges]
    /\ urgent = [n \in Nodes |-> NoChanges]
    /\ history = [n \in Nodes |-> <<>>]
    /\ gseq = [n \in Nodes |-> 0]
    /\ peer = [n \in Nodes |-> [m \in Peers(n) |-> NewPeer]]
    /\ up = [n \in Nodes |-> [m \in Peers(n) |-> TRUE]]
    /\ net = [n \in Nodes |-> [m \in Peers(n) |-> <<>>]]
    /\ reply = [n \in Nodes |-> [m \in Peers(n) |-> None]]
    /\ op = [n \in Nodes |-> [c \in Calls |-> Idle]]
    /\ trig = [n \in Nodes |-> FALSE]
    /\ inc = [n \in Nodes |-> 0]
    /\ budget \in Scenarios

linkVars == <<up, net, reply>>
Spend(b) == budget[b] > 0 /\ budget' = [budget EXCEPT ![b] = @ - 1]

-----------------------------------------------------------------------------
(* Registration calls, which may overlap.  The checks, the clock and the removal from
   local_actors run before the gossip_state lock is taken; *End is the critical section. *)
Location(n, clock, wall, priority) ==
    [owner |-> n, clock |-> Increment(clock, n), wall |-> wall, priority |-> priority,
     inc |-> inc[n]]
TombClock(e) == IF e.tomb = None THEN NoClock ELSE e.tomb.clock

(* register_actor_with_priority, up to the lock; it fails at once if the name is taken. *)
Registering(n, x, clock, wall, priority) ==
    LET e == dir[n][x] IN
    IF e.local = None /\ e.known = None
    THEN [kind |-> "register", name |-> x,
          loc |-> Location(n, Merge(clock, TombClock(e)), wall, priority)]
    ELSE Idle

(* A call begins in a free slot, whichever: they are interchangeable. *)
Free(n) == {c \in Calls : op[n][c] = Idle}
Begin(n, call) == Free(n) # {} /\ op' = [op EXCEPT ![n][CHOOSE c \in Free(n) : TRUE] = call]
Return(n, c) == op' = [op EXCEPT ![n][c] = Idle]

RegisterBegin(n, x, wall, priority) ==
    /\ dir[n][x].local = None /\ dir[n][x].known = None
    /\ Begin(n, Registering(n, x, NoClock, wall, priority))
    /\ Spend("regs")
    /\ UNCHANGED <<dir, pending, urgent, history, gseq, peer, linkVars, trig, inc>>

(* register_actor_replacing_known: the learned location is dropped and its clock kept; the
   registration goes on after a wait for the lock. *)
RegisterReplacing(n, x, wall) ==
    LET e == dir[n][x] IN
    /\ e.known # None
    /\ dir' = [dir EXCEPT ![n][x].known = None]
    /\ Begin(n, [kind |-> "replace", name |-> x, clock |-> e.known.clock, wall |-> wall])
    /\ Spend("regs")
    /\ UNCHANGED <<pending, urgent, history, gseq, peer, linkVars, trig, inc>>
RegisterResume(n, c) ==
    LET call == op[n][c] IN
    /\ call.kind = "replace"
    /\ op' = [op EXCEPT ![n][c] = Registering(n, call.name, call.clock, call.wall, "normal")]
    /\ UNCHANGED <<dir, pending, urgent, history, gseq, peer, linkVars, trig, inc, budget>>

(* change[x] is the change a call queues for name x; trigger_immediate_gossip follows
   when one of them has immediate priority. *)
Queue(n, change, priority) ==
    LET hasty == {x \in DOMAIN change : priority[x] = "immediate"} IN
    /\ pending' = [pending EXCEPT ![n] = [x \in Names |->
                     IF x \in DOMAIN change THEN Append(@[x], change[x]) ELSE @[x]]]
    /\ urgent' = [urgent EXCEPT ![n] = [x \in Names |->
                    IF x \in hasty THEN Append(@[x], change[x]) ELSE @[x]]]
    /\ trig' = [trig EXCEPT ![n] = @ \/ hasty # {}]

(* Mutant of RegisterEnd: the name is not checked again under the lock. *)
RegisterEndUnchecked(n, c) ==
    LET x == op[n][c].name
        loc == op[n][c].loc
    IN
    /\ op[n][c].kind = "register"
    /\ dir' = [dir EXCEPT ![n][x].local = loc, ![n][x].tomb = None]
    /\ Queue(n, x :> Added(loc), x :> loc.priority)
    /\ Return(n, c)
    /\ UNCHANGED <<history, gseq, peer, linkVars, inc, budget>>

RegisterEnd(n, c) ==
    LET x == op[n][c].name
        loc == op[n][c].loc
    IN
    /\ op[n][c].kind = "register"
    /\ Return(n, c)
    /\ \/ /\ dir[n][x].local # None \/ dir[n][x].known # None
          /\ UNCHANGED <<dir, pending, urgent, trig>>
       \/ /\ dir[n][x].local = None /\ dir[n][x].known = None
          /\ dir' = [dir EXCEPT ![n][x].local = loc, ![n][x].tomb = None]
          /\ Queue(n, x :> Added(loc), x :> loc.priority)
    /\ UNCHANGED <<history, gseq, peer, linkVars, inc, budget>>

UnregisterBegin(n, x) ==
    /\ dir[n][x].local # None
    /\ dir' = [dir EXCEPT ![n][x].local = None]
    /\ Begin(n, [kind |-> "unregister", name |-> x, loc |-> dir[n][x].local])
    /\ UNCHANGED <<pending, urgent, history, gseq, peer, linkVars, trig, inc, budget>>

(* The tombstone is written without a second look at the name: a registration may have taken
   it in between. *)
UnregisterEnd(n, c) ==
    LET x == op[n][c].name
        loc == op[n][c].loc
        clock == Increment(loc.clock, n)
    IN
    /\ op[n][c].kind = "unregister"
    /\ dir' = [dir EXCEPT ![n][x].tomb = [clock |-> clock, kind |-> "explicit", owner |-> n]]
    /\ Queue(n, x :> Removed(clock, n), x :> loc.priority)
    /\ Return(n, c)
    /\ UNCHANGED <<history, gseq, peer, linkVars, inc, budget>>

-----------------------------------------------------------------------------
(* Sending. *)
Room(n) == {m \in Peers(n) : /\ up[n][m] /\ Len(net[n][m]) < Capacity
                             /\ n \in budget.crossing \/ net[m][n] = <<>>}
Write(n, frame) ==
    net' = [net EXCEPT ![n] = [m \in Peers(n) |->
              IF m \in DOMAIN frame THEN Append(@[m], frame[m]) ELSE @[m]]]

(* prepare_gossip_round and the fire-and-forget send of its tasks: commit what is
   queued as one history entry, then a delta or a full sync for every peer.  A peer
   whose link is down or at Capacity gets nothing this round. *)
Round(n) ==
    LET combined == [x \in Names |-> pending[n][x] \o urgent[n][x]]
        dirty == combined # NoChanges
        g == IF dirty THEN gseq[n] + 1 ELSE gseq[n]
        longer == Append(history[n], [seq |-> g, changes |-> combined])
        hist == IF ~dirty THEN history[n]
                ELSE IF Len(longer) > MaxHistory THEN Tail(longer) ELSE longer
        Frame(m) == IF ShouldUseDelta(peer[n][m], hist, g)
                    THEN [type |-> "delta", seq |-> g, body |-> DeltaBody(n, hist, peer[n][m].last)]
                    ELSE [type |-> "full", seq |-> g, body |-> Snapshot(dir[n])]
    IN
    /\ dirty \/ Room(n) # {}
    /\ gseq' = [gseq EXCEPT ![n] = g]
    /\ history' = [history EXCEPT ![n] = hist]
    /\ pending' = [pending EXCEPT ![n] = NoChanges]
    /\ urgent' = [urgent EXCEPT ![n] = NoChanges]
    /\ Write(n, [m \in Room(n) |-> Frame(m)])
    /\ UNCHANGED <<dir, peer, up, reply, op, trig, inc, budget>>

(* trigger_immediate_gossip: the urgent changes to every live peer; what could not
   be sent to all of them goes back to pending_changes. *)
TriggerImmediate(n) ==
    LET Frame(m) == [type |-> "delta", seq |-> 0, body |-> urgent[n]]
        live == {m \in Peers(n) : up[n][m]}
        failed == live = {} \/ live # Room(n)
    IN
    /\ trig[n]
    /\ trig' = [trig EXCEPT ![n] = FALSE]
    /\ urgent' = [urgent EXCEPT ![n] = NoChanges]
    /\ IF urgent[n] = NoChanges
       THEN UNCHANGED <<pending, net>>
       ELSE /\ Write(n, [m \in Room(n) |-> Frame(m)])
            /\ pending' = [pending EXCEPT ![n] =
                             IF failed THEN [x \in Names |-> pending[n][x] \o urgent[n][x]] ELSE @]
    /\ UNCHANGED <<dir, history, gseq, peer, up, reply, op, inc, budget>>

-----------------------------------------------------------------------------
(* Receiving.  A connection's frames are handled one after the other, the answer to a
   full sync included. *)

(* One change of a delta: acc is the entry, the removals to forward, and whether
   peer_to_actors[sender] lists the name. *)
ApplyChange(n, m, acc, ch) ==
    IF ch.type = "add"
    THEN IF UpsertAccepted(n, acc.entry, ch.loc, m, peer[n][m].restarted)
         THEN [acc EXCEPT !.entry = Upsert(@, ch.loc), !.listed = TRUE]
         ELSE acc
    ELSE IF RemovalClock(acc.entry, ch) = None
         THEN acc
         ELSE [entry |-> Discard(acc.entry, ch),
               forward |-> Append(acc.forward, Removed(RemovalClock(acc.entry, ch), ch.by)),
               listed |-> acc.listed /\ acc.entry.known = None]

(* handle_incoming_message on DeltaGossip, and apply_delta_from. *)
ReceiveDelta(n, m) ==
    LET msg == Head(net[m][n])
        p == peer[n][m]
        result == [x \in Names |->
                     FoldLeft(LAMBDA acc, ch : ApplyChange(n, m, acc, ch),
                              [entry |-> dir[n][x], forward |-> <<>>, listed |-> x \in p.actors],
                              msg.body[x])]
    IN
    /\ net[m][n] # <<>> /\ msg.type = "delta" /\ reply[n][m] = None
    /\ net' = [net EXCEPT ![m][n] = Tail(@)]
    /\ dir' = [dir EXCEPT ![n] = [x \in Names |-> result[x].entry]]
    /\ pending' = [pending EXCEPT ![n] = [x \in Names |-> @[x] \o result[x].forward]]
    /\ peer' = [peer EXCEPT ![n][m] =
                  [@ EXCEPT !.last = Larger(@, msg.seq),
                            !.deltas = Smaller(@ + 1, FullSyncInterval),
                            !.actors = {x \in Names : result[x].listed}]]
    /\ UNCHANGED <<urgent, history, gseq, up, reply, op, trig, inc, budget>>

(* The sequence gate of merge_full_sync_from_guarded. *)
ReplayedNever(p, msg) == FALSE            \* mutant of Replayed
Replayed(p, msg) == msg.seq < p.last /\ ~p.armed
(* Mutant of GatedPeer: the high-water mark survives the restart it just admitted. *)
GatedPeerMax(p, msg) ==
    [p EXCEPT !.armed = FALSE, !.last = Larger(@, msg.seq), !.restarted = @ \/ msg.seq < p.last]

GatedPeer(p, msg) ==
    [p EXCEPT !.armed = FALSE,
              !.last = IF msg.seq < p.last THEN msg.seq ELSE Larger(@, msg.seq),
              !.restarted = @ \/ msg.seq < p.last]

(* merge_full_sync_from_guarded on the directory: upserts, then the omission prune of
   what the sender used to advertise and still owns. *)
MergedEntry(n, m, p, msg, x) ==
    LET e == dir[n][x]
        loc == msg.body[x]
    IN IF loc # None /\ UpsertAccepted(n, e, loc, m, p.restarted) THEN Upsert(e, loc) ELSE e
(* Mutant of Advertised: an actor announced again unchanged is not counted. *)
AdvertisedAnew(n, m, p, msg) ==
    {x \in Names : /\ msg.body[x] # None
                   /\ UpsertAccepted(n, dir[n][x], msg.body[x], m, p.restarted)}
Advertised(n, m, p, msg) ==
    {x \in Names : /\ msg.body[x] # None /\ msg.body[x].owner # n
                   /\ \/ UpsertAccepted(n, dir[n][x], msg.body[x], m, p.restarted)
                      \/ dir[n][x].known # None}
OmittedNever(n, m, p, msg, x) == FALSE  \* mutant of Omitted
Omitted(n, m, p, msg, x) ==
    /\ x \in peer[n][m].actors \ Advertised(n, m, p, msg)
    /\ dir[n][x].local = None
    /\ dir[n][x].known # None /\ dir[n][x].known.owner = m

ReceiveFull(n, m) ==
    LET msg == Head(net[m][n])
        p == GatedPeer(peer[n][m], msg)
        merged == IF Replayed(peer[n][m], msg) THEN dir[n]
                  ELSE [x \in Names |-> IF Omitted(n, m, p, msg, x)
                                        THEN [dir[n][x] EXCEPT !.known = None]
                                        ELSE MergedEntry(n, m, p, msg, x)]
        gated == IF Replayed(peer[n][m], msg) THEN peer[n][m]
                 ELSE [p EXCEPT !.actors = Advertised(n, m, p, msg)]
    IN
    /\ net[m][n] # <<>> /\ msg.type \in {"full", "response"} /\ reply[n][m] = None
    /\ net' = [net EXCEPT ![m][n] = Tail(@)]
    /\ dir' = [dir EXCEPT ![n] = merged]
    /\ peer' = [peer EXCEPT ![n][m] =
                  IF msg.type = "full" THEN [gated EXCEPT !.deltas = 0] ELSE gated]
    /\ reply' = [reply EXCEPT ![n][m] = IF msg.type = "full" THEN [type |-> "merged"] ELSE @]
    /\ UNCHANGED <<pending, urgent, history, gseq, up, op, trig, inc, budget>>

(* The answer to a full sync: the actors are read without the lock, the sequence under it. *)
SnapshotReply(n, m) ==
    /\ reply[n][m] # None /\ reply[n][m].type = "merged"
    /\ reply' = [reply EXCEPT ![n][m] = [type |-> "snapshot", body |-> Snapshot(dir[n])]]
    /\ UNCHANGED <<dir, pending, urgent, history, gseq, peer, up, net, op, trig, inc, budget>>

SequenceReply(n, m) ==
    /\ reply[n][m] # None /\ reply[n][m].type = "snapshot"
    /\ reply' = [reply EXCEPT ![n][m] =
                   [type |-> "response", seq |-> gseq[n], body |-> reply[n][m].body]]
    /\ UNCHANGED <<dir, pending, urgent, history, gseq, peer, up, net, op, trig, inc, budget>>

(* The response is written to the peer's current connection, or given up and the
   peer marked for a full sync when that connection is gone or its queue is full. *)
SendReply(n, m) ==
    /\ reply[n][m] # None /\ reply[n][m].type = "response"
    /\ reply' = [reply EXCEPT ![n][m] = None]
    /\ \/ /\ up[n][m] /\ Len(net[n][m]) <= Capacity
          /\ net' = [net EXCEPT ![n][m] = Append(@, reply[n][m])]
          /\ UNCHANGED peer
       \/ /\ ~up[n][m] \/ Len(net[n][m]) > Capacity
          /\ peer' = [peer EXCEPT ![n][m].deltas = Smaller(MaxHistory, FullSyncInterval)]
          /\ UNCHANGED net
    /\ UNCHANGED <<dir, pending, urgent, history, gseq, up, op, trig, inc, budget>>

-----------------------------------------------------------------------------
(* Outages, restarts and the sweeps over absent peers. *)
(* A connection is lost with everything in flight on it. *)
Outage(n, m) ==
    /\ n < m /\ up[n][m]
    /\ up' = [up EXCEPT ![n][m] = FALSE, ![m][n] = FALSE]
    /\ net' = [net EXCEPT ![n][m] = <<>>, ![m][n] = <<>>]
    /\ Spend("outages")
    /\ UNCHANGED <<dir, pending, urgent, history, gseq, peer, reply, op, trig, inc>>

(* n dials m: the session is armed at both ends, and the first frame on it is the
   FullSync by which n identifies itself. *)
Connect(n, m) ==
    /\ ~up[n][m] /\ n \in budget.dialers
    /\ up' = [up EXCEPT ![n][m] = TRUE, ![m][n] = TRUE]
    /\ peer' = [peer EXCEPT ![n][m] = Arm(@), ![m][n] = Arm(@)]
    /\ net' = [net EXCEPT ![n][m] = <<[type |-> "full", seq |-> gseq[n], body |-> Snapshot(dir[n])]>>]
    /\ UNCHANGED <<dir, pending, urgent, history, gseq, reply, op, trig, inc, budget>>

(* The process of n restarts with an empty registry and a new sequence line. *)
Restart(n) ==
    /\ Spend("restarts")
    /\ inc' = [inc EXCEPT ![n] = @ + 1]
    /\ dir' = [dir EXCEPT ![n] = [x \in Names |-> NoEntry]]
    /\ pending' = [pending EXCEPT ![n] = NoChanges]
    /\ urgent' = [urgent EXCEPT ![n] = NoChanges]
    /\ history' = [history EXCEPT ![n] = <<>>]
    /\ gseq' = [gseq EXCEPT ![n] = 0]
    /\ peer' = [peer EXCEPT ![n] = [m \in Peers(n) |-> NewPeer]]
    /\ op' = [op EXCEPT ![n] = [c \in Calls |-> Idle]]
    /\ trig' = [trig EXCEPT ![n] = FALSE]
    /\ reply' = [reply EXCEPT ![n] = [m \in Peers(n) |-> None]]
    /\ up' = [k \in Nodes |-> [m \in Peers(k) |-> up[k][m] /\ n \notin {k, m}]]
    /\ net' = [k \in Nodes |-> [m \in Peers(k) |-> IF n \in {k, m} THEN <<>> ELSE net[k][m]]]

(* cleanup_dead_peers and reap_reserved_candidates, for a peer m unreachable since
   dead_peer_timeout: the actors it still owns are removed on its behalf. *)
Reap(n, m) ==
    LET dead == {x \in peer[n][m].actors : dir[n][x].known # None /\ dir[n][x].known.owner = m}
        clock(x) == Increment(dir[n][x].known.clock, n)
    IN
    /\ n # m /\ ~up[n][m]
    /\ peer[n][m].actors # {}
    /\ Spend("reaps")
    /\ dir' = [dir EXCEPT ![n] = [x \in Names |->
                 IF x \in dead
                 THEN [@[x] EXCEPT !.known = None,
                                   !.tomb = [clock |-> clock(x), kind |-> "death", owner |-> m]]
                 ELSE @[x]]]
    /\ Queue(n, [x \in dead |-> Removed(clock(x), n)], [x \in dead |-> dir[n][x].known.priority])
    /\ peer' = [peer EXCEPT ![n][m].actors = {}]
    /\ UNCHANGED <<history, gseq, linkVars, op, inc>>

(* cleanup_stale_actors: a known actor past its ttl whose owner is not connected. *)
ExpireActor(n, x) ==
    LET e == dir[n][x] IN
    /\ e.known # None /\ ~up[n][e.known.owner]
    /\ Spend("expiries")
    /\ dir' = [dir EXCEPT ![n][x].known = None]
    /\ UNCHANGED <<pending, urgent, history, gseq, peer, linkVars, op, trig, inc>>

(* cleanup_stale_actors: a tombstone past vector_clock_retention_period. *)
ExpireTombstone(n, x) ==
    /\ dir[n][x].tomb # None
    /\ Spend("forgotten")
    /\ dir' = [dir EXCEPT ![n][x].tomb = None]
    /\ UNCHANGED <<pending, urgent, history, gseq, peer, linkVars, op, trig, inc>>

-----------------------------------------------------------------------------
Next ==
    \/ \E n \in budget.hosts, x \in Names, w \in WallTimes :
           \/ \E pr \in budget.priorities : RegisterBegin(n, x, w, pr)
           \/ RegisterReplacing(n, x, w)
    \/ \E n \in budget.removers, x \in Names : UnregisterBegin(n, x)
    \/ \E n \in Nodes, x \in Names : ExpireActor(n, x) \/ ExpireTombstone(n, x)
    \/ \E n \in Nodes, c \in Calls : RegisterResume(n, c) \/ RegisterEnd(n, c) \/ UnregisterEnd(n, c)
    \/ \E n \in Nodes : TriggerImmediate(n) \/ Round(n) \/ Restart(n)
    \/ \E n \in Nodes : \E m \in Peers(n) :
           \/ ReceiveDelta(n, m) \/ ReceiveFull(n, m)
           \/ SnapshotReply(n, m) \/ SequenceReply(n, m) \/ SendReply(n, m)
           \/ Outage(n, m) \/ Connect(n, m) \/ Reap(n, m)

Spec == Init /\ [][Next]_vars

(* The gossip timer, the readers, the writers, the dialler and every call in progress
   run on; nobody has to register, fail or time out.  A round is disabled again and again
   only by the bound on frames in flight, so it is strongly fair. *)
Fairness ==
    /\ \A n \in Nodes :
          /\ SF_vars(Round(n))
          /\ WF_vars(\/ TriggerImmediate(n)
                     \/ \E c \in Calls : \/ RegisterResume(n, c) \/ RegisterEnd(n, c)
                                        \/ UnregisterEnd(n, c))
    /\ \A n \in Nodes : \A m \in Peers(n) :
          /\ WF_vars(\/ ReceiveDelta(n, m) \/ ReceiveFull(n, m)
                     \/ SnapshotReply(n, m) \/ SequenceReply(n, m) \/ SendReply(n, m))
          /\ n < m => WF_vars(Connect(n, m) \/ Connect(m, n))

FairSpec == Spec /\ Fairness

-----------------------------------------------------------------------------
(* Own names are the node's own, however its calls overlap: a locally registered name never
   has a learned location beside it (register checks again under the lock, gossip refuses a
   name that is local), the only tombstone it can have is that of an unregister of its own that
   ran across the registration, never one gossip brought, and a node never learns its own
   actor back from a peer (current_actor_upsert_plan, current_actor_removal_plan). *)
OwnNamesKept ==
    \A n \in Nodes, x \in Names :
        LET e == dir[n][x] IN
        /\ e.local # None => e.known = None
        /\ e.local # None /\ e.tomb # None => e.tomb.kind = "explicit" /\ e.tomb.owner = n
        /\ e.known # None => e.known.owner # n

(* While a node holds the tombstone of an explicit unregister, no gossip, reconnect or
   restart brings back a location the unregister had seen (owner_recovery_wins_tombstone). *)
UnregisterHolds ==
    [][\A n \in Nodes, x \in Names :
          (/\ dir[n][x].tomb # None /\ dir[n][x].tomb.kind = "explicit"
           /\ dir[n][x].known = None /\ dir'[n][x].known # None)
          => ~Leq(dir'[n][x].known.clock, dir[n][x].tomb.clock)]_vars

(* The high-water mark of a peer goes down only by spending the one-shot exemption its
   current session was armed with, or with the whole process (R-11). *)
SequenceGate ==
    [][\A n \in Nodes : \A m \in Peers(n) :
          peer'[n][m].last < peer[n][m].last
          => \/ inc'[n] > inc[n]
             \/ peer[n][m].armed /\ ~peer'[n][m].armed]_vars

(* From some point on, a learned location is the registration its owner still has: the
   gossip of removals and the omission prune leave no ghost (REMOTE-1). *)
GhostsVanish ==
    <>[](\A n \in Nodes, x \in Names :
            dir[n][x].known # None => dir[n][x].known = dir[dir[n][x].known.owner][x].local)

(* From some point on, a name some node hosts is hosted or known everywhere: removals,
   reaps and tombstones hide no live actor for good. *)
LiveActorsVisible ==
    <>[](\A n, m \in Nodes, x \in Names :
            dir[m][x].local # None => dir[n][x].local # None \/ dir[n][x].known # None)

(* From some point on, no peer's sequence gate is ahead of the sequence it gossips: a
   restarted peer is not dropped as old for ever (R-11). *)
GateReopens ==
    <>[](\A n \in Nodes : \A m \in Peers(n) : peer[n][m].last <= gseq[m])
=============================================================================
