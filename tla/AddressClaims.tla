--------------------------- MODULE AddressClaims ---------------------------
(***************************************************************************)
(* Everyone who asks the registry owner, and the projection of its         *)
(* decisions into GossipState: inbound and outbound sessions claim and     *)
(* give back addresses, the operator configures peers, DNS refreshes move  *)
(* them, the dead-peer sweep reaps them and the bound on the peer table    *)
(* evicts them.  A caller's command is one step of the owner; the caller   *)
(* applies the answer in a later step, under the gossip_state lock, and    *)
(* others run in between.                                                  *)
(*                                                                         *)
(* Only comparisons of instants matter, so time is the number of failures  *)
(* recorded: failure k happens at 2k, evidence gathered between failures k *)
(* and k+1 at 2k+1.                                                        *)
(***************************************************************************)
EXTENDS RegistryOwner, FiniteSetsExt

CONSTANTS Sweeps, Requests, Refreshes,
          SessionOf,      \* instance -> [peer, source, target, inbound]
          RequestOf,      \* request -> [peer, addr]
          RefreshOf,      \* refresh -> [from, to]
          MarkCapacity, MarkTarget, MaxPeers,
          MaxFailures,    \* failures recorded in one behaviour
          ClaimScenarios

ASSUME ClaimsAssumption ==
    /\ SessionOf \in [Instances -> [peer : Peers, source : Addrs, target : Addrs, inbound : BOOLEAN]]
    /\ RequestOf \in [Requests -> [peer : Peers, addr : Addrs]]
    /\ RefreshOf \in [Refreshes -> [from : Addrs, to : Addrs]]
    /\ \A d \in Refreshes : RefreshOf[d].from # RefreshOf[d].to
    /\ MaxPeers \in Nat \ {0}

VARIABLES o,          \* the owner task's state
          peers,      \* GossipState::peers: node and instant of the failure
          mark,       \* ownership_commit_seq, 0 when absent
          pruned,     \* ownership_pruned_through
          loose,      \* auxiliary: the addresses whose entry was last written,
                      \* removed or left behind by something other than the
                      \* projection of a claim on them
          fails,      \* failures recorded so far
          sess, sweep, req, dns, resp, evict,
          scen

gossip == <<peers, mark, pruned, loose>>
callers == <<sess, sweep, req, dns, resp, evict>>
cvars == <<o, gossip, fails, callers, scen>>

Now == 2 * fails + 1

PeerOf(i) == SessionOf[i].peer

IdleSession == [acc |-> "idle", io |-> "none", by |-> "accept", a |-> None, kind |-> None,
                at |-> 0, g |-> 0, created |-> FALSE, prior |-> None, tomb |-> {}, frames |-> 0,
                form |-> None]
IdleSweep == [pc |-> "idle", todo |-> {}, c |-> None, seq |-> 0]
IdleRequest == [pc |-> "idle", exp |-> None, g |-> 0, evicted |-> None, ok |-> FALSE]
IdleRefresh == [pc |-> "idle", token |-> None, g |-> 0]
IdleResponse == [pc |-> "idle", a |-> None, at |-> 0]
IdleEviction == [pc |-> "idle", todo |-> {}, released |-> {}]

(* A scenario says which actors take part and which addresses are already  *)
(* known, without an owner.                                                *)
ClaimsInit ==
    /\ scen \in ClaimScenarios
    /\ o = OwnerInit
    /\ peers = [a \in Addrs |-> IF a \in scen.known THEN [node |-> None, failed |-> 0] ELSE None]
    /\ mark = [a \in Addrs |-> 0] /\ pruned = 0 /\ loose = {} /\ fails = 0
    /\ sess = [i \in Instances |-> IdleSession]
    /\ sweep = [w \in Sweeps |-> IdleSweep]
    /\ req = [r \in Requests |-> IdleRequest]
    /\ dns = [d \in Refreshes |-> IdleRefresh]
    /\ resp = IdleResponse
    /\ evict = IdleEviction

(***************************************************************************)
(* The projection in GossipState.                                          *)
(***************************************************************************)
(* A slip in CanAdmit: the address's watermark is not looked at. *)
AdmitUnpruned(a, g) == g > pruned

CanAdmit(a, g) == IF mark[a] # 0 THEN g >= mark[a] ELSE g > pruned

(* Over capacity the oldest watermarks without a peer entry are compacted  *)
(* into one floor.                                                         *)
Dropped(m, keep) ==
    LET kept == {a \in Addrs : m[a] # 0}
        tombs == {a \in kept : peers[a] = None /\ a \notin keep}
        excess == Cardinality(kept) - MarkTarget
    IN  IF Cardinality(kept) <= MarkCapacity THEN {}
        ELSE IF Cardinality(tombs) <= excess THEN tombs
        ELSE CHOOSE D \in kSubset(excess, tombs) :
                \A a \in D, b \in tombs \ D : m[a] <= m[b]

Compacted(m, floor, keep) ==
    LET D == Dropped(m, keep)
    IN  [mark |-> [a \in Addrs |-> IF a \in D THEN 0 ELSE m[a]],
         pruned |-> Max({floor} \union {m[a] : a \in D})]

PruneMarks(m, keep) ==
    LET c == Compacted(m, pruned, keep) IN mark' = c.mark /\ pruned' = c.pruned

Admit(a, g) == PruneMarks([mark EXCEPT ![a] = g], {a})

TombstoneProjection(A, g) ==
    PruneMarks([a \in Addrs |-> IF a \in A /\ g > mark[a] THEN g ELSE mark[a]], {})

(* A new entry, or the entry rekeyed to its new owner with its failures    *)
(* forgotten.                                                              *)
Upserted(a, p) ==
    CASE peers[a] = None -> [node |-> p, failed |-> 0]
      [] peers[a] # None /\ peers[a].node = None -> [peers[a] EXCEPT !.node = p]
      [] peers[a] # None /\ peers[a].node = p -> peers[a]
      [] OTHER -> [node |-> p, failed |-> 0]

RoutesTo(a, p) == Token(o, a) # None /\ Token(o, a).node = p

(* Apply an accepted claim; a stale one only asks whether p still owns a.  *)
ProjectClaim(a, p, g) ==
    IF CanAdmit(a, g)
    THEN /\ Admit(a, g)
         /\ peers' = [peers EXCEPT ![a] = Upserted(a, p)]
         /\ loose' = loose \ {a}
    ELSE UNCHANGED gossip

ProjectionAccepted(a, p, g) == CanAdmit(a, g) \/ RoutesTo(a, p)

(* The entry at old moves to new.  An entry of the same peer there is      *)
(* merged, and keeps its failure when it was tried later; any other is     *)
(* overwritten.                                                            *)
MigratePeerEntry(old, new, later) ==
    LET moved == peers[old]
        same == peers[new] # None /\ moved.node # None /\ peers[new].node = moved.node
    IN  IF moved = None THEN peers
        ELSE [peers EXCEPT ![old] = None,
                           ![new] = IF same /\ later THEN @ ELSE moved]

(***************************************************************************)
(* Sessions.  acc is the accepting (or dialing) task, io the connection's  *)
(* I/O task; "by" says which of them handles the claiming frame.           *)
(***************************************************************************)
(* What a task that has returned still has: its I/O side. *)
Returned(s) == [IdleSession EXCEPT !.acc = "done", !.io = s.io, !.tomb = s.tomb, !.frames = s.frames]

Session(i, s) == sess' = [sess EXCEPT ![i] = s] /\ UNCHANGED <<fails, sweep, req, dns, resp, evict, scen>>

ClaimKind(i, a) ==
    IF a = SessionOf[i].source \/ o.required[PeerOf(i)] = a THEN Verified ELSE Provisional

(* Snapshot the projections a rejected candidate would have to restore and *)
(* take the instant of the evidence.                                       *)
AcceptSession(i) ==
    /\ sess[i].acc = "idle" /\ SessionOf[i].inbound
    /\ Session(i, [sess[i] EXCEPT !.acc = "claim", !.a = SessionOf[i].target, !.at = Now,
                                  !.kind = ClaimKind(i, SessionOf[i].target), !.prior = peers])
    /\ UNCHANGED <<o, gossip>>

DialSession(i) ==
    /\ sess[i].acc = "idle" /\ ~SessionOf[i].inbound
    /\ Session(i, [sess[i] EXCEPT !.acc = "claim", !.a = SessionOf[i].target, !.at = Now,
                                  !.kind = Verified])
    /\ UNCHANGED <<o, gossip>>

(* A rejected claim of an advertised address falls back to the observed    *)
(* source; without one the connection or the frame is dropped.             *)
FallBack(i, retry) ==
    IF sess[i].a # SessionOf[i].source /\ (SessionOf[i].inbound \/ sess[i].frames > 0)
    THEN Session(i, [sess[i] EXCEPT !.acc = retry, !.a = SessionOf[i].source,
                                    !.kind = Verified, !.at = Now])
    ELSE Session(i, Returned(sess[i]))

OwnerClaim(i) ==
    LET s == sess[i]
    IN  /\ s.acc \in {"claim", "frameClaim"}
        /\ o' = ClaimSession(o, s.a, PeerOf(i), s.kind, i, s.at)
        /\ IF Accepts(o, s.a, PeerOf(i), s.kind)
           THEN Session(i, [s EXCEPT !.acc = IF @ = "claim" THEN "project" ELSE "frameProject",
                                     !.g = o.seq + 1, !.created = o.owner[s.a] = None])
           ELSE FallBack(i, s.acc)
        /\ UNCHANGED gossip

ProjectSession(i) ==
    LET s == sess[i]
    IN  /\ s.acc = "project"
        /\ ProjectClaim(s.a, PeerOf(i), s.g)
        /\ IF ProjectionAccepted(s.a, PeerOf(i), s.g)
           THEN Session(i, [s EXCEPT !.acc = "decide", !.io = "up"])
           ELSE FallBack(i, "claim")
        /\ UNCHANGED o

(* The tie-break with the peer's other connections keeps the session, whose *)
(* first frame the accepting task still handles.                           *)
KeepSession(i) ==
    /\ sess[i].acc = "decide"
    /\ Session(i, [Returned(sess[i]) EXCEPT !.acc = IF SessionOf[i].inbound THEN "first" ELSE @])
    /\ UNCHANGED <<o, gossip>>

(* ... or rejects it: its I/O task is shut down, and ownership this        *)
(* candidate created is rolled back.                                       *)
RejectSession(i) ==
    /\ sess[i].acc = "decide" /\ i \in scen.rejected
    /\ LET s == [sess[i] EXCEPT !.io = IF @ = "up" THEN "exit" ELSE @]
       IN  Session(i, IF SessionOf[i].inbound /\ s.created
                      THEN [s EXCEPT !.acc = "rollback"] ELSE Returned(s))
    /\ UNCHANGED <<o, gossip>>

RollbackClaim(i) ==
    LET s == sess[i]
    IN  /\ s.acc = "rollback"
        /\ o' = Release(o, s.a, PeerOf(i), s.g)
        /\ Session(i, IF Releases(o, s.a, PeerOf(i), s.g)
                      THEN [s EXCEPT !.acc = "retract", !.g = o.seq + 1]
                      ELSE Returned(s))
        /\ UNCHANGED gossip

RollbackMark(i) ==
    /\ sess[i].acc = "retract"
    /\ TombstoneProjection({sess[i].a}, sess[i].g)
    /\ Session(i, [sess[i] EXCEPT !.acc = "restore"])
    /\ UNCHANGED <<o, peers, loose>>

StillCandidate(i) == peers[sess[i].a] # None /\ peers[sess[i].a].node = PeerOf(i)

RestoreProjection(i) ==
    /\ sess[i].acc = "restore"
    /\ peers' = IF StillCandidate(i)
                THEN [peers EXCEPT ![sess[i].a] = sess[i].prior[sess[i].a]] ELSE peers
    /\ loose' = IF StillCandidate(i) THEN loose \union {sess[i].a} ELSE loose
    /\ Session(i, Returned(sess[i]))
    /\ UNCHANGED <<o, mark, pruned>>

(* A FullSync or a FullSyncResponse claims again: the first frame in the   *)
(* accepting task, later ones inside the I/O task.                         *)
FrameSession(i) ==
    LET s == sess[i]
    IN  /\ s.frames = 0 /\ i \in scen.frames
        /\ s.acc = "first" \/ (s.acc = "done" /\ s.io = "up")
        /\ \E form \in {"full", "response"} :
             Session(i, [s EXCEPT !.by = IF s.acc = "first" THEN "accept" ELSE "io",
                                  !.acc = "frameClaim", !.a = SessionOf[i].target, !.at = Now,
                                  !.kind = IF SessionOf[i].target = SessionOf[i].source
                                           THEN Verified ELSE Provisional,
                                  !.frames = @ + 1, !.form = form])
        /\ UNCHANGED <<o, gossip>>

ProjectFrame(i) ==
    LET s == sess[i]
    IN  /\ s.acc = "frameProject"
        /\ ProjectClaim(s.a, PeerOf(i), s.g)
        /\ Session(i, [s EXCEPT !.acc = "frameBind"])
        /\ UNCHANGED o

(* The peer table with the entry of the observed source moved to the       *)
(* claimed address, and the entries that move leaves without their owner.  *)
Rehomed(i, later) ==
    IF sess[i].a = SessionOf[i].source THEN peers
    ELSE MigratePeerEntry(SessionOf[i].source, sess[i].a, later)

Disturbed(i) ==
    LET source == SessionOf[i].source
    IN  IF sess[i].a = source \/ peers[source] = None THEN {}
        ELSE IF peers[source].node = PeerOf(i) THEN {source} ELSE {source, sess[i].a}

Present(table, a) == [table EXCEPT ![a] = IF @ = None THEN [node |-> None, failed |-> 0] ELSE @]
Cleared(table, a) == [table EXCEPT ![a] = IF @ = None THEN None ELSE [@ EXCEPT !.failed = 0]]

(* Under a new lock the claim must still be admitted.  A FullSync then     *)
(* moves the entry of the observed source to the claimed address, and adds *)
(* an anonymous entry where there is still none.                           *)
BindFrame(i) ==
    LET s == sess[i]
    IN  /\ s.acc = "frameBind"
        /\ IF CanAdmit(s.a, s.g)
           THEN /\ Admit(s.a, s.g)
                /\ IF s.form = "full"
                   THEN /\ \E later \in BOOLEAN : peers' = Present(Rehomed(i, later), s.a)
                        /\ loose' = loose \union Disturbed(i)
                   ELSE UNCHANGED <<peers, loose>>
                /\ Session(i, [s EXCEPT !.acc = "frameSettle"])
           ELSE UNCHANGED gossip /\ Session(i, Returned(s))
        /\ UNCHANGED o

(* After the merge, under a third lock: a FullSyncResponse moves the entry *)
(* only now, and a frame of the peer's current session resets the failures. *)
SettleFrame(i) ==
    LET s == sess[i]
        response == s.form = "response"
    IN  /\ s.acc = "frameSettle"
        /\ \E current, later \in BOOLEAN :
             LET table == IF response THEN Rehomed(i, later) ELSE peers
             IN  IF CanAdmit(s.a, s.g) /\ (current \/ response)
                 THEN /\ Admit(s.a, s.g)
                      /\ peers' = IF current THEN Cleared(table, s.a) ELSE table
                      /\ loose' = IF response THEN loose \union Disturbed(i) ELSE loose
                 ELSE UNCHANGED gossip
        /\ Session(i, Returned(s))
        /\ UNCHANGED o

(* The I/O task ends, whatever the accepting task is doing; a frame it was *)
(* handling itself is abandoned.                                           *)
ExitIO(i) ==
    LET s == sess[i]
    IN  /\ s.io = "up"
        /\ LET e == [s EXCEPT !.io = "exit"]
           IN  Session(i, IF s.by = "io" THEN Returned(e) ELSE e)
        /\ UNCHANGED <<o, gossip>>

ReleaseIO(i) ==
    LET A == SessionReleases(o, PeerOf(i), i)
        seqs == RetractSeqs(o, A)
    IN  /\ sess[i].io = "exit"
        /\ o' = ReleaseSession(o, PeerOf(i), i)
        /\ Session(i, [sess[i] EXCEPT !.io = IF A = {} THEN "gone" ELSE "mark",
                                      !.tomb = {<<a, seqs[a]>> : a \in A}])
        /\ UNCHANGED gossip

MarkIO(i) ==
    /\ sess[i].io = "mark"
    /\ \E t \in sess[i].tomb :
         /\ TombstoneProjection({t[1]}, t[2])
         /\ Session(i, [sess[i] EXCEPT !.tomb = @ \ {t},
                                       !.io = IF sess[i].tomb = {t} THEN "gone" ELSE @])
    /\ UNCHANGED <<o, peers, loose>>

(***************************************************************************)
(* Failures and responses of the peers known at an address.                *)
(***************************************************************************)
(* A lost connection fails every entry of its peer. *)
Failing(a) == {a} \union {b \in Addrs : /\ peers[a].node # None
                                        /\ peers[b] # None /\ peers[b].node = peers[a].node}

Fail(a) ==
    /\ peers[a] # None /\ fails < MaxFailures
    /\ fails' = fails + 1
    /\ peers' = [b \in Addrs |->
          IF b \in Failing(a)
          THEN [peers[b] EXCEPT !.failed = 2 * fails'] ELSE peers[b]]
    /\ UNCHANGED <<o, mark, pruned, loose, callers, scen>>

Response(a) ==
    /\ scen.responds /\ resp.pc = "idle" /\ peers[a] # None
    /\ resp' = [pc |-> "note", a |-> a, at |-> Now]
    /\ UNCHANGED <<o, gossip, fails, sess, sweep, req, dns, evict, scen>>

NoteResponse ==
    /\ resp.pc = "note"
    /\ o' = NoteLivenessEvidence(o, resp.a, resp.at)
    /\ resp' = [resp EXCEPT !.pc = "reset"]
    /\ UNCHANGED <<gossip, fails, sess, sweep, req, dns, evict, scen>>

ResetFailures ==
    /\ resp.pc = "reset"
    /\ peers' = Cleared(peers, resp.a)
    /\ resp' = [resp EXCEPT !.pc = "done"]
    /\ UNCHANGED <<o, mark, pruned, loose, fails, sess, sweep, req, dns, evict, scen>>

(***************************************************************************)
(* The dead-peer sweep.  Any failure may be old enough when it looks.      *)
(***************************************************************************)
Sweep(w, s) == sweep' = [sweep EXCEPT ![w] = s] /\ UNCHANGED <<fails, sess, req, dns, resp, evict, scen>>

OwnerIdentity(a) == IF Token(o, a) # None THEN Token(o, a).node ELSE o.snapPin[a]

Candidates ==
    {[a |-> a, node |-> peers[a].node, before |-> peers[a].failed,
      token |-> Token(o, a), pin |-> o.snapPin[a]] :
        a \in {b \in Addrs : /\ peers[b] # None /\ peers[b].failed > 0
                             /\ \/ peers[b].node = None
                                \/ OwnerIdentity(b) \in {None, peers[b].node}}}

SelectDead(w) ==
    /\ sweep[w].pc = "idle" /\ Candidates # {}
    /\ Sweep(w, [sweep[w] EXCEPT !.pc = "next", !.todo = Candidates])
    /\ UNCHANGED <<o, gossip>>

NextCandidate(todo) ==
    [IdleSweep EXCEPT !.pc = IF todo = {} THEN "done" ELSE "next", !.todo = todo]

ReserveDead(w) ==
    /\ sweep[w].pc = "next"
    /\ \E c \in sweep[w].todo :
         /\ o' = ReserveForReap(o, c.a, c.before, c.token, c.pin, c.node)
         /\ Sweep(w, IF Reserves(o, c.a, c.before, c.token, c.pin, c.node)
                     THEN [sweep[w] EXCEPT !.pc = "held", !.c = c, !.todo = @ \ {c}]
                     ELSE NextCandidate(sweep[w].todo \ {c}))
    /\ UNCHANGED gossip

AskVerdict(w) ==
    LET c == sweep[w].c
    IN  /\ sweep[w].pc = "held"
        /\ Sweep(w, [sweep[w] EXCEPT
              !.pc = IF c.node = None \/ HasNewerEvidence(o, c.a, c.before)
                     THEN "release" ELSE "verdict"])
        /\ UNCHANGED <<o, gossip>>

(* A consumed reservation authorises the destruction of the peer's actors. *)
ConsumeReservation(w) ==
    LET a == sweep[w].c.a
    IN  /\ sweep[w].pc = "verdict"
        /\ o' = TryConsume(o, a)
        /\ Sweep(w, [sweep[w] EXCEPT !.pc = IF o.reserved[a] = "pending"
                                            THEN "destroy" ELSE "release"])
        /\ UNCHANGED gossip

ReleaseDead(w) ==
    LET c == sweep[w].c
    IN  /\ sweep[w].pc = "destroy"
        /\ o' = ReleaseDeadPeer(o, c.node, c.a, c.before)
        /\ Sweep(w, IF DeadReleases(o, c.node, c.a, c.before)
                    THEN [sweep[w] EXCEPT !.pc = "mark", !.seq = o.seq + 1]
                    ELSE [sweep[w] EXCEPT !.pc = "release"])
        /\ UNCHANGED gossip

MarkDead(w) ==
    /\ sweep[w].pc = "mark"
    /\ TombstoneProjection({sweep[w].c.a}, sweep[w].seq)
    /\ Sweep(w, [sweep[w] EXCEPT !.pc = "release"])
    /\ UNCHANGED <<o, peers, loose>>

FreeReservation(w) ==
    /\ sweep[w].pc = "release"
    /\ o' = ReleaseReservation(o, sweep[w].c.a)
    /\ Sweep(w, NextCandidate(sweep[w].todo))
    /\ UNCHANGED gossip

(* A slip in AbortSweep: the reservation's guard is not dropped. *)
AbortHolding(w) ==
    /\ scen.aborts /\ sweep[w].pc \in {"held", "verdict", "destroy", "mark"}
    /\ Sweep(w, [IdleSweep EXCEPT !.pc = "done"])
    /\ UNCHANGED <<o, gossip>>

(* The task is aborted; the guard's drop queues the release. *)
AbortSweep(w) ==
    /\ scen.aborts /\ sweep[w].pc \in {"held", "verdict", "destroy", "mark"}
    /\ Sweep(w, [sweep[w] EXCEPT !.pc = "release", !.todo = {}])
    /\ UNCHANGED <<o, gossip>>

(***************************************************************************)
(* The operator's configuration requests.                                  *)
(***************************************************************************)
Request(r, s) == req' = [req EXCEPT ![r] = s] /\ UNCHANGED <<fails, sess, sweep, dns, resp, evict, scen>>

(* First call and retries; the generation answered is the next expectation. *)
AskConfigure(r) ==
    LET a == RequestOf[r].addr
        p == RequestOf[r].peer
        out == ConfigureOutcome(o, a, p, req[r].exp)
    IN  /\ r \in scen.requests /\ req[r].pc \in {"idle", "retry"}
        /\ o' = ConfigurePeer(o, a, p, req[r].exp)
        /\ Request(r, [req[r] EXCEPT
              !.pc = CASE out = "blocked" -> "retry" [] out = "applied" -> "project"
                       [] OTHER -> "done",
              !.exp = ConfigureGeneration(o, a, p, @), !.g = o.seq + 1,
              !.evicted = IF out = "applied" /\ EvictedOwned(o, a, p) # {}
                          THEN EvictedPin(o, a, p) ELSE None])
        /\ UNCHANGED gossip

ProjectConfigured(r) ==
    LET a == RequestOf[r].addr
        p == RequestOf[r].peer
    IN  /\ req[r].pc = "project"
        /\ ProjectClaim(a, p, req[r].g)
        /\ Request(r, [req[r] EXCEPT !.pc = "mark", !.ok = ProjectionAccepted(a, p, req[r].g)])
        /\ UNCHANGED o

(* The evicted address was released by the commit after the claim's. *)
MarkEvicted(r) ==
    /\ req[r].pc = "mark"
    /\ IF req[r].evicted = None THEN UNCHANGED <<mark, pruned>>
       ELSE TombstoneProjection({req[r].evicted}, req[r].g + 1)
    /\ Request(r, [req[r] EXCEPT !.pc = IF req[r].ok THEN "notify" ELSE "done"])
    /\ UNCHANGED <<o, peers, loose>>

(* The connect handler is called only while the pin is still this one. *)
NotifyConnect(r) ==
    /\ req[r].pc = "notify"
    /\ Request(r, [req[r] EXCEPT
          !.pc = IF PinIsCurrent(o, RequestOf[r].addr, RequestOf[r].peer) THEN "told" ELSE "done"])
    /\ UNCHANGED <<o, gossip>>

(* An ordinary connect call asks for a route. *)
ConnectRoute(p, a) ==
    /\ <<p, a>> \in scen.routes
    /\ o' = SetOrdinaryConnectRoute(o, p, a)
    /\ scen' = [scen EXCEPT !.routes = @ \ {<<p, a>>}]
    /\ UNCHANGED <<gossip, fails, callers>>

(***************************************************************************)
(* A DNS refresh moves the owner, then the entry; when the entry cannot    *)
(* move, the owner is moved back.                                          *)
(***************************************************************************)
Refresh(d, s) == dns' = [dns EXCEPT ![d] = s] /\ UNCHANGED <<fails, sess, sweep, req, resp, evict, scen>>

ResolveName(d) ==
    /\ d \in scen.refreshes /\ dns[d].pc = "idle" /\ peers[RefreshOf[d].from] # None
    /\ Refresh(d, [dns[d] EXCEPT !.pc = "migrate", !.token = Token(o, RefreshOf[d].from)])
    /\ UNCHANGED <<o, gossip>>

MigrateOwner(d) ==
    LET from == RefreshOf[d].from
        to == RefreshOf[d].to
    IN  /\ dns[d].pc = "migrate"
        /\ o' = Migrate(o, from, to, dns[d].token)
        /\ Refresh(d, [dns[d] EXCEPT !.g = o.seq + 1,
              !.pc = IF Migrates(o, from, to, dns[d].token) THEN "project" ELSE "done"])
        /\ UNCHANGED gossip

EntryMoves(from, to, p) == peers[to] = None /\ peers[from] # None /\ peers[from].node = p

MoveEntry(d) ==
    LET from == RefreshOf[d].from
        to == RefreshOf[d].to
        g == dns[d].g
        admitted == CanAdmit(from, g) /\ CanAdmit(to, g)
        moves == admitted /\ EntryMoves(from, to, dns[d].token.node)
    IN  /\ dns[d].pc = "project"
        /\ IF admitted THEN PruneMarks([mark EXCEPT ![from] = g, ![to] = g], {from, to})
           ELSE UNCHANGED <<mark, pruned>>
        /\ peers' = IF moves THEN [peers EXCEPT ![to] = [peers[from] EXCEPT !.failed = 0],
                                                ![from] = None]
                    ELSE peers
        /\ loose' = IF moves THEN loose \ {to}
                    ELSE loose \union {a \in {from, to} : CanAdmit(a, g)}
        /\ Refresh(d, [dns[d] EXCEPT !.pc = IF moves THEN "done" ELSE "restore"])
        /\ UNCHANGED o

MoveBack(d) ==
    LET from == RefreshOf[d].from
        to == RefreshOf[d].to
        token == [node |-> dns[d].token.node, gen |-> dns[d].g]
    IN  /\ dns[d].pc = "restore"
        /\ o' = Migrate(o, to, from, token)
        /\ Refresh(d, [dns[d] EXCEPT !.g = o.seq + 1,
              !.pc = IF Migrates(o, to, from, token) THEN "mark" ELSE "stranded"])
        /\ UNCHANGED gossip

MarkBack(d) ==
    /\ dns[d].pc = "mark"
    /\ TombstoneProjection({RefreshOf[d].from, RefreshOf[d].to}, dns[d].g)
    /\ Refresh(d, [dns[d] EXCEPT !.pc = "done"])
    /\ UNCHANGED <<o, peers, loose>>

(***************************************************************************)
(* The bound on the peer table.  Entries of configured peers and of peers  *)
(* with a live connection are exempt.  The pool's indices are not          *)
(* modelled: a peer surely has a live connection when the one session it   *)
(* ever had was kept and is up.                                            *)
(***************************************************************************)
Evict(e) == evict' = e /\ UNCHANGED <<fails, sess, sweep, req, dns, resp, scen>>

Live(p) ==
    \E i \in Instances :
        /\ PeerOf(i) = p /\ sess[i].io = "up" /\ sess[i].acc \notin {"project", "decide"}
        /\ \A j \in Instances \ {i} : PeerOf(j) = p => sess[j].io = "none"

Exempt(a) ==
    LET p == peers[a].node
    IN  \/ \E q \in Peers : o.required[q] = a
        \/ p # None /\ (o.required[p] # None \/ Live(p))

(* Under the lock: which entries go, and the owner and the generation last *)
(* projected at each.                                                      *)
EnforceBounds ==
    LET known == {a \in Addrs : peers[a] # None}
        evictable == {a \in known : ~Exempt(a)}
    IN  /\ scen.evicts /\ evict.pc = "idle"
        /\ Cardinality(known) > MaxPeers
        /\ \E D \in SUBSET evictable :
             /\ D # {} /\ Cardinality(D) <= Cardinality(known) - MaxPeers
             /\ D = evictable \/ Cardinality(D) = Cardinality(known) - MaxPeers
             /\ peers' = [a \in Addrs |-> IF a \in D THEN None ELSE peers[a]]
             /\ loose' = loose \union D
             /\ Evict([IdleEviction EXCEPT !.pc = "release",
                   !.todo = {[a |-> a, node |-> peers[a].node, gen |-> mark[a]] :
                               a \in {b \in D : peers[b].node # None /\ mark[b] # 0}}])
        /\ UNCHANGED <<o, mark, pruned>>

(* After it: the owner releases what nobody has claimed since. *)
ReleaseEvicted ==
    /\ evict.pc = "release"
    /\ \E e \in evict.todo :
         /\ o' = Release(o, e.a, e.node, e.gen)
         /\ Evict([evict EXCEPT !.todo = @ \ {e},
               !.released = IF Releases(o, e.a, e.node, e.gen)
                            THEN @ \union {[a |-> e.a, seq |-> o.seq + 1]} ELSE @])
    /\ UNCHANGED gossip

MarkReleased ==
    LET Tombstoned(e, c) ==
            Compacted([c.mark EXCEPT ![e.a] = Max({@, e.seq})], c.pruned, {})
        c == FoldSet(Tombstoned, [mark |-> mark, pruned |-> pruned], evict.released)
    IN  /\ evict.pc = "release" /\ evict.todo = {}
        /\ mark' = c.mark /\ pruned' = c.pruned
        /\ Evict([IdleEviction EXCEPT !.pc = "done"])
        /\ UNCHANGED <<o, peers, loose>>

SessionStep(i) ==
    \/ AcceptSession(i) \/ DialSession(i) \/ OwnerClaim(i) \/ ProjectSession(i)
    \/ KeepSession(i) \/ RejectSession(i) \/ RollbackClaim(i) \/ RollbackMark(i)
    \/ RestoreProjection(i) \/ FrameSession(i) \/ ProjectFrame(i)
    \/ BindFrame(i) \/ SettleFrame(i) \/ ExitIO(i) \/ ReleaseIO(i) \/ MarkIO(i)

SweepStep(w) ==
    \/ SelectDead(w) \/ ReserveDead(w) \/ AskVerdict(w) \/ ConsumeReservation(w)
    \/ ReleaseDead(w) \/ MarkDead(w) \/ FreeReservation(w)

RequestStep(r) ==
    AskConfigure(r) \/ ProjectConfigured(r) \/ MarkEvicted(r) \/ NotifyConnect(r)

RefreshStep(d) ==
    ResolveName(d) \/ MigrateOwner(d) \/ MoveEntry(d) \/ MoveBack(d) \/ MarkBack(d)

EvictionStep == EnforceBounds \/ ReleaseEvicted \/ MarkReleased

ClaimsNext ==
    \/ \E i \in Instances : i \in scen.sessions /\ SessionStep(i)
    \/ \E a \in Addrs : Fail(a) \/ Response(a)
    \/ NoteResponse \/ ResetFailures
    \/ \E w \in Sweeps : w \in scen.sweeps /\ (SweepStep(w) \/ AbortSweep(w))
    \/ \E r \in Requests : RequestStep(r)
    \/ \E p \in Peers, a \in Addrs : ConnectRoute(p, a)
    \/ \E d \in Refreshes : RefreshStep(d)
    \/ EvictionStep

ClaimsSpec == ClaimsInit /\ [][ClaimsNext]_cvars

(***************************************************************************)
(* A sweep and a configuration request that have begun go on: the owner    *)
(* serves its queues and tasks are scheduled.  Nothing is asked of the     *)
(* sessions, the refreshes, the evictions and the peers.                   *)
(***************************************************************************)
ClaimsFairness ==
    /\ \A w \in Sweeps : WF_cvars(w \in scen.sweeps /\ SweepStep(w))
    /\ \A r \in Requests : WF_cvars(RequestStep(r))

ClaimsFairSpec == ClaimsSpec /\ ClaimsFairness

(***************************************************************************)
(* The owner's tables and the published snapshot agree after every         *)
(* command, whoever sent it and whatever ran in between (Coherent).        *)
(***************************************************************************)
OwnerCoherent == Coherent(o)

(***************************************************************************)
(* A reservation is one sweep's alone; no evidence newer than the failure  *)
(* a sweep acts on is known when it consumes the reservation; and while it *)
(* destroys the peer's state nobody has claimed, repinned or moved the     *)
(* address since it was selected (its last session may have given it up).  *)
(***************************************************************************)
ReapFenced ==
    /\ \A w \in Sweeps : sweep[w].c # None =>
         /\ o.reserved[sweep[w].c.a] # "none"
         /\ \A v \in Sweeps \ {w} : sweep[v].c # None => sweep[v].c.a # sweep[w].c.a
    /\ \A w \in Sweeps : LET c == sweep[w].c IN
         /\ sweep[w].pc = "verdict" /\ o.reserved[c.a] = "pending"
               => ~HasNewerEvidence(o, c.a, c.before)
         /\ sweep[w].pc = "destroy" =>
               /\ o.committed[c.a] <= c.before
               /\ CurrentToken(o, c.a) \in {None, c.token}
               /\ o.pinned[c.a] = c.pin

(***************************************************************************)
(* A session loses the receipt that backs its peer's address only by its   *)
(* own end or rollback, to the sweep that reaps the address, to the        *)
(* eviction of the address's entry when nobody has claimed the address     *)
(* since, or when the operator moves the peer's pin away; a migration      *)
(* carries it along.  Another session's end or rejection never takes it.   *)
(***************************************************************************)
ReceiptLossExplained ==
    \A r \in o.receipts \ o'.receipts :
       LET i == r[2] IN
       \/ sess[i].io = "exit" /\ sess'[i].io # "exit"
       \/ sess[i].acc = "rollback" /\ sess'[i].acc = "retract" /\ sess[i].a = r[3]
       \/ \E w \in Sweeps : sweep[w].pc = "destroy" /\ sweep'[w].pc # "destroy"
                            /\ sweep[w].c.a = r[3]
       \/ \E e \in evict.todo \ evict'.todo :
             e.a = r[3] /\ CurrentToken(o, r[3]) = [node |-> e.node, gen |-> e.gen]
       \/ o.pinnedBy[r[1]] = r[3] /\ o'.pinnedBy[r[1]] # r[3]
       \/ \E d \in Refreshes : dns'[d] # dns[d] /\ \E a \in Addrs : <<r[1], i, a>> \in o'.receipts

(* No step takes a receipt in any other way: release_session and           *)
(* release_addr of one session keep the other sessions', and an eviction   *)
(* that raced a later claim takes nothing.                                 *)
ReceiptsKept == [][ReceiptLossExplained]_cvars

(* No commit is waiting to be projected. *)
Projected ==
    /\ \A i \in Instances : /\ sess[i].acc \notin {"project", "frameProject", "retract", "restore"}
                            /\ sess[i].io # "mark"
    /\ \A w \in Sweeps : sweep[w].pc # "mark"
    /\ \A r \in Requests : req[r].pc \notin {"project", "mark"}
    /\ \A d \in Refreshes : dns[d].pc \notin {"project", "restore", "mark"}
    /\ evict.released = {}

(***************************************************************************)
(* Once every commit has been projected, in whatever order the lock was    *)
(* taken, the peer entry of an owned address is its owner's: a delayed     *)
(* projection never resurrects an earlier owner and none is lost.  Left    *)
(* out are the entries that something else has written or removed since    *)
(* the last projection of a claim on their address (loose): the rollback   *)
(* of a rejected session, the entry a frame moves from its observed        *)
(* source, an eviction, and a DNS refresh that could not move the entry.   *)
(***************************************************************************)
ProjectionConverges ==
    Projected => \A a \in Addrs \ loose :
                    o.owner[a] # None => peers[a] # None /\ peers[a].node = o.owner[a].node

(***************************************************************************)
(* Every reservation is given back and every configuration request comes   *)
(* to an end, also when sweeps are aborted.                                *)
(***************************************************************************)
RequestsEnd ==
    <>[](/\ \A a \in Addrs : o.reserved[a] = "none"
         /\ \A r \in scen.requests : req[r].pc \in {"done", "told"})
=============================================================================
