---------------------------- MODULE OwnerProofs ----------------------------
(***************************************************************************)
(* For any peers, addresses, sessions, requests, refreshes, sweeps and     *)
(* evictions: the owner's tables agree after every command                 *)
(* (OwnerCoherent), a reap finds what its sweep reserved (ReapFenced) and  *)
(* no session takes another's receipt (ReceiptsKept).  OwnerCommands proves the commands; left is     *)
(* what the callers in AddressClaims remember between two of them.         *)
(***************************************************************************)
EXTENDS AddressClaims, OwnerCommands

(***************************************************************************)
(* The commands that sessions, sweeps and evictions send are about         *)
(* addresses.                                                              *)
(***************************************************************************)
SessionFields == {"acc", "io", "by", "a", "kind", "at", "g", "created", "prior", "tomb", "frames",
                  "form"}
Claiming == {"claim", "project", "decide", "rollback", "frameClaim"}

SessionOK(s) ==
    /\ DOMAIN s = SessionFields /\ s = [f \in SessionFields |-> s[f]]
    /\ s.acc \in Claiming => s.a \in Addrs /\ s.kind \in {Provisional, Verified}

SweepFields == {"pc", "todo", "c", "seq"}
Holding == {"held", "verdict", "destroy", "mark", "release"}

SweepOK(s) ==
    /\ DOMAIN s = SweepFields /\ s = [f \in SweepFields |-> s[f]]
    /\ \A c \in s.todo : c.a \in Addrs
    /\ s.pc \in Holding => s.c.a \in Addrs

EvictFields == {"pc", "todo", "released"}

EvictOK(e) ==
    /\ DOMAIN e = EvictFields /\ e = [f \in EvictFields |-> e[f]]
    /\ \A c \in e.todo : c.a \in Addrs

ClaimsInv ==
    /\ OwnerOK(o) /\ EvictOK(evict)
    /\ DOMAIN sess = Instances /\ \A i \in Instances : SessionOK(sess[i])
    /\ DOMAIN sweep = Sweeps /\ \A w \in Sweeps : SweepOK(sweep[w])

(* A session step keeps the invariant when its command and its record do.     *)
LEMMA SessionKeeps ==
    ASSUME ClaimsInv, NEW i \in Instances, NEW s, SessionOK(s), Session(i, s), OwnerOK(o')
    PROVE  ClaimsInv'
<1>1. DOMAIN sess' = Instances /\ \A j \in Instances : sess'[j] = IF j = i THEN s ELSE sess[j]
  BY Zenon DEF ClaimsInv, Session
<1>2. \A j \in Instances : SessionOK(sess'[j])
  BY Zenon, <1>1 DEF ClaimsInv
<1>3. sweep' = sweep /\ evict' = evict
  BY Zenon DEF Session
<1>4. QED
  BY Zenon, <1>1, <1>2, <1>3 DEF ClaimsInv

(* So does a step of a reap sweep.                                            *)
LEMMA SweepKeeps ==
    ASSUME ClaimsInv, NEW w \in Sweeps, NEW s, SweepOK(s), Sweep(w, s), OwnerOK(o')
    PROVE  ClaimsInv'
<1>1. DOMAIN sweep' = Sweeps /\ \A v \in Sweeps : sweep'[v] = IF v = w THEN s ELSE sweep[v]
  BY Zenon DEF ClaimsInv, Sweep
<1>2. \A v \in Sweeps : SweepOK(sweep'[v])
  BY Zenon, <1>1 DEF ClaimsInv
<1>3. sess' = sess /\ evict' = evict
  BY Zenon DEF Sweep
<1>4. QED
  BY Zenon, <1>1, <1>2, <1>3 DEF ClaimsInv

(* A session that has returned is well formed.                                *)
LEMMA ReturnedOK == ASSUME NEW s PROVE SessionOK(Returned(s))
  BY ZenonT(30) DEF SessionOK, SessionFields, Claiming, Returned, IdleSession

(* So is one that falls back to the address of its transport.                 *)
LEMMA FallBackKeeps ==
    ASSUME ClaimsInv, NEW i \in Instances, NEW retry, FallBack(i, retry), OwnerOK(o')
    PROVE  ClaimsInv'
<1> DEFINE f == [sess[i] EXCEPT !.acc = retry, !.a = SessionOf[i].source,
                                !.kind = Verified, !.at = Now]
<1>1. SessionOK(f)
  BY ZenonT(30), ClaimsAssumption DEF ClaimsInv, SessionOK, SessionFields
<1> HIDE DEF f
<1>2. Session(i, f) \/ Session(i, Returned(sess[i]))
  BY Zenon DEF FallBack, f
<1>3. QED
  BY Zenon, <1>1, <1>2, SessionKeeps, ReturnedOK

(* Every step of a session keeps the invariant.                               *)
LEMMA SessionStepOK ==
    ASSUME ClaimsInv, NEW i \in Instances, SessionStep(i)
    PROVE  ClaimsInv'
<1> DEFINE s == sess[i]
<1>0. SessionOK(s) /\ OwnerOK(o) /\ PeerOf(i) \in Peers /\ SessionOf[i].target \in Addrs
  BY Zenon, ClaimsAssumption DEF ClaimsInv, PeerOf
<1>1. CASE AcceptSession(i)
  <2>1. ClaimKind(i, SessionOf[i].target) \in {Provisional, Verified}
    BY Zenon DEF ClaimKind
  <2>2. SessionOK([s EXCEPT !.acc = "claim", !.a = SessionOf[i].target, !.at = Now,
                            !.kind = ClaimKind(i, SessionOf[i].target), !.prior = peers])
    BY ZenonT(30), <1>0, <2>1 DEF SessionOK, SessionFields
  <2>3. QED
    BY Zenon, <1>0, <1>1, <2>2, SessionKeeps DEF AcceptSession
<1>2. CASE DialSession(i)
  <2>1. SessionOK([s EXCEPT !.acc = "claim", !.a = SessionOf[i].target, !.at = Now,
                            !.kind = Verified])
    BY ZenonT(30), <1>0 DEF SessionOK, SessionFields
  <2>2. QED
    BY Zenon, <1>0, <1>2, <2>1, SessionKeeps DEF DialSession
<1>3. CASE OwnerClaim(i)
  <2>1. s.a \in Addrs /\ s.kind \in {Provisional, Verified}
    BY Zenon, <1>0, <1>3 DEF OwnerClaim, SessionOK, Claiming
  <2>2. OwnerOK(o')
    BY Zenon, <1>0, <1>3, <2>1, ClaimSessionOK DEF OwnerClaim
  <2> DEFINE t == [s EXCEPT !.acc = IF @ = "claim" THEN "project" ELSE "frameProject",
                            !.g = o.seq + 1, !.created = o.owner[s.a] = None]
  <2>3. SessionOK(t)
    BY ZenonT(30), <1>0, <2>1 DEF SessionOK, SessionFields
  <2> HIDE DEF t
  <2>4. Session(i, t) \/ FallBack(i, s.acc)
    BY Zenon, <1>3 DEF OwnerClaim, t
  <2>5. QED
    BY Zenon, <2>2, <2>3, <2>4, SessionKeeps, FallBackKeeps
<1>4. CASE ProjectSession(i)
  <2> DEFINE t == [s EXCEPT !.acc = "decide", !.io = "up"]
  <2>1. SessionOK(t)
    BY ZenonT(30), <1>0, <1>4 DEF ProjectSession, SessionOK, SessionFields, Claiming
  <2> HIDE DEF t
  <2>2. o' = o /\ (Session(i, t) \/ FallBack(i, "claim"))
    BY Zenon, <1>4 DEF ProjectSession, t
  <2>3. QED
    BY Zenon, <1>0, <2>1, <2>2, SessionKeeps, FallBackKeeps
<1>5. CASE KeepSession(i)
  <2> DEFINE t == [Returned(s) EXCEPT !.acc = IF SessionOf[i].inbound THEN "first" ELSE @]
  <2>1. SessionOK(t)
    BY ZenonT(30) DEF SessionOK, SessionFields, Claiming, Returned, IdleSession
  <2> HIDE DEF t
  <2>2. o' = o /\ Session(i, t)
    BY Zenon, <1>5 DEF KeepSession, t
  <2>3. QED
    BY Zenon, <1>0, <2>1, <2>2, SessionKeeps
<1>6. CASE RejectSession(i)
  <2> DEFINE t == [s EXCEPT !.io = IF @ = "up" THEN "exit" ELSE @]
             u == [t EXCEPT !.acc = "rollback"]
  <2>1. SessionOK(u)
    BY ZenonT(30), <1>0, <1>6 DEF RejectSession, SessionOK, SessionFields, Claiming
  <2> HIDE DEF u
  <2>2. o' = o /\ (Session(i, u) \/ Session(i, Returned(t)))
    BY Zenon, <1>6 DEF RejectSession, u
  <2>3. QED
    BY Zenon, <1>0, <2>1, <2>2, SessionKeeps, ReturnedOK
<1>7. CASE RollbackClaim(i)
  <2>1. s.a \in Addrs
    BY Zenon, <1>0, <1>7 DEF RollbackClaim, SessionOK, Claiming
  <2>2. OwnerOK(o')
    BY Zenon, <1>0, <1>7, <2>1, ReleaseOK DEF RollbackClaim
  <2> DEFINE t == [s EXCEPT !.acc = "retract", !.g = o.seq + 1]
  <2>3. SessionOK(t)
    BY ZenonT(30), <1>0 DEF SessionOK, SessionFields, Claiming
  <2> HIDE DEF t
  <2>4. Session(i, t) \/ Session(i, Returned(s))
    BY Zenon, <1>7 DEF RollbackClaim, t
  <2>5. QED
    BY Zenon, <2>2, <2>3, <2>4, SessionKeeps, ReturnedOK
<1>8. CASE RollbackMark(i)
  <2>1. SessionOK([s EXCEPT !.acc = "restore"])
    BY Zenon, <1>0 DEF SessionOK, SessionFields, Claiming
  <2>2. QED
    BY Zenon, <1>0, <1>8, <2>1, SessionKeeps DEF RollbackMark
<1>9. CASE RestoreProjection(i)
  BY Zenon, <1>0, <1>9, SessionKeeps, ReturnedOK DEF RestoreProjection
<1>10. CASE FrameSession(i)
  <2> DEFINE t(form) == [s EXCEPT !.by = IF s.acc = "first" THEN "accept" ELSE "io",
                                  !.acc = "frameClaim", !.a = SessionOf[i].target, !.at = Now,
                                  !.kind = IF SessionOf[i].target = SessionOf[i].source
                                           THEN Verified ELSE Provisional,
                                  !.frames = @ + 1, !.form = form]
  <2>1. \A form : SessionOK(t(form))
    BY ZenonT(30), <1>0 DEF SessionOK, SessionFields
  <2>2. o' = o /\ \E form : Session(i, t(form))
    BY Zenon, <1>10 DEF FrameSession
  <2> HIDE DEF t
  <2>3. QED
    BY Zenon, <1>0, <2>1, <2>2, SessionKeeps
<1>11. CASE ProjectFrame(i) \/ BindFrame(i) \/ SettleFrame(i)
  <2>1. SessionOK([s EXCEPT !.acc = "frameBind"]) /\ SessionOK([s EXCEPT !.acc = "frameSettle"])
    BY ZenonT(30), <1>0 DEF SessionOK, SessionFields, Claiming
  <2>2. /\ o' = o
        /\ \/ Session(i, [s EXCEPT !.acc = "frameBind"])
           \/ Session(i, [s EXCEPT !.acc = "frameSettle"])
           \/ Session(i, Returned(s))
    BY Zenon, <1>11 DEF ProjectFrame, BindFrame, SettleFrame
  <2>3. QED
    BY Zenon, <1>0, <2>1, <2>2, SessionKeeps, ReturnedOK
<1>12. CASE ExitIO(i)
  <2> DEFINE t == [s EXCEPT !.io = "exit"]
  <2>1. SessionOK(t)
    BY Zenon, <1>0 DEF SessionOK, SessionFields
  <2> HIDE DEF t
  <2>2. o' = o /\ (Session(i, t) \/ Session(i, Returned(t)))
    BY Zenon, <1>12 DEF ExitIO, t
  <2>3. QED
    BY Zenon, <1>0, <2>1, <2>2, SessionKeeps, ReturnedOK
<1>13. CASE ReleaseIO(i)
  <2>1. PICK x, y : Session(i, [s EXCEPT !.io = x, !.tomb = y])
    BY ZenonT(30), <1>13 DEF ReleaseIO
  <2>2. SessionOK([s EXCEPT !.io = x, !.tomb = y])
    BY ZenonT(30), <1>0 DEF SessionOK, SessionFields
  <2>3. OwnerOK(o')
    BY Zenon, <1>0, <1>13, ReleaseSessionOK DEF ReleaseIO
  <2>4. QED
    BY Zenon, <2>1, <2>2, <2>3, SessionKeeps
<1>14. CASE MarkIO(i)
  <2>1. PICK x, y : Session(i, [s EXCEPT !.tomb = y, !.io = x])
    <3>1. PICK t \in s.tomb :
             Session(i, [s EXCEPT !.tomb = @ \ {t}, !.io = IF s.tomb = {t} THEN "gone" ELSE @])
      BY ZenonT(30), <1>14 DEF MarkIO
    <3>2. QED
      BY ZenonT(30), <3>1
  <2>2. SessionOK([s EXCEPT !.tomb = y, !.io = x])
    BY ZenonT(30), <1>0 DEF SessionOK, SessionFields
  <2>3. QED
    BY Zenon, <1>0, <1>14, <2>1, <2>2, SessionKeeps DEF MarkIO
<1>15. QED
  BY Zenon, <1>1, <1>2, <1>3, <1>4, <1>5, <1>6, <1>7, <1>8, <1>9, <1>10, <1>11, <1>12, <1>13, <1>14
  DEF SessionStep

(* A sweep that goes on to its next candidate is well formed.                 *)
LEMMA NextCandidateOK ==
    ASSUME NEW T, \A c \in T : c.a \in Addrs
    PROVE  SweepOK(NextCandidate(T))
  BY ZenonT(30) DEF SweepOK, SweepFields, Holding, NextCandidate, IdleSweep

(* Every step of a reap sweep keeps the invariant.                            *)
LEMMA SweepStepOK ==
    ASSUME ClaimsInv, NEW w \in Sweeps, SweepStep(w) \/ AbortSweep(w)
    PROVE  ClaimsInv'
<1> DEFINE s == sweep[w]
<1>0. SweepOK(s) /\ OwnerOK(o)
  BY Zenon DEF ClaimsInv
<1>1. CASE SelectDead(w)
  <2>1. \A c \in Candidates : c.a \in Addrs
    BY DEF Candidates
  <2>2. SweepOK([s EXCEPT !.pc = "next", !.todo = Candidates])
    BY ZenonT(30), <1>0, <2>1 DEF SweepOK, SweepFields, Holding
  <2>3. QED
    BY Zenon, <1>0, <1>1, <2>2, SweepKeeps DEF SelectDead
<1>2. CASE ReserveDead(w)
  <2>1. PICK c \in s.todo :
           /\ o' = ReserveForReap(o, c.a, c.before, c.token, c.pin, c.node)
           /\ \/ Sweep(w, [s EXCEPT !.pc = "held", !.c = c, !.todo = @ \ {c}])
              \/ Sweep(w, NextCandidate(s.todo \ {c}))
    BY ZenonT(30), <1>2 DEF ReserveDead
  <2>2. OwnerOK(o')
    BY ZenonT(30), <1>0, <2>1, EvidenceOK DEF ReserveForReap
  <2>3. SweepOK([s EXCEPT !.pc = "held", !.c = c, !.todo = @ \ {c}])
    BY ZenonT(30), <1>0 DEF SweepOK, SweepFields
  <2>4. SweepOK(NextCandidate(s.todo \ {c}))
    BY ZenonT(30), <1>0, NextCandidateOK DEF SweepOK
  <2>5. QED
    BY Zenon, <2>1, <2>2, <2>3, <2>4, SweepKeeps
<1>3. CASE AskVerdict(w)
  <2>1. PICK x \in {"release", "verdict"} : Sweep(w, [s EXCEPT !.pc = x])
    BY Zenon, <1>3 DEF AskVerdict
  <2>2. SweepOK([s EXCEPT !.pc = x])
    BY Zenon, <1>0, <1>3 DEF AskVerdict, SweepOK, SweepFields, Holding
  <2>3. QED
    BY Zenon, <1>0, <1>3, <2>1, <2>2, SweepKeeps DEF AskVerdict
<1>4. CASE ConsumeReservation(w)
  <2>1. PICK x \in {"release", "destroy"} : Sweep(w, [s EXCEPT !.pc = x])
    BY Zenon, <1>4 DEF ConsumeReservation
  <2>2. SweepOK([s EXCEPT !.pc = x])
    BY Zenon, <1>0, <1>4 DEF ConsumeReservation, SweepOK, SweepFields, Holding
  <2>3. OwnerOK(TryConsume(o, s.c.a))
    BY ZenonT(30), <1>0, EvidenceOK DEF TryConsume
  <2>4. QED
    BY Zenon, <1>4, <2>1, <2>2, <2>3, SweepKeeps DEF ConsumeReservation
<1>5. CASE ReleaseDead(w)
  <2>1. s.c.a \in Addrs
    BY Zenon, <1>0, <1>5 DEF ReleaseDead, SweepOK, Holding
  <2>2. OwnerOK(o')
    BY Zenon, <1>0, <1>5, <2>1, ReleaseDeadPeerOK DEF ReleaseDead
  <2>3. SweepOK([s EXCEPT !.pc = "mark", !.seq = o.seq + 1]) /\ SweepOK([s EXCEPT !.pc = "release"])
    BY ZenonT(30), <1>0, <2>1 DEF SweepOK, SweepFields
  <2>4. \/ Sweep(w, [s EXCEPT !.pc = "mark", !.seq = o.seq + 1])
        \/ Sweep(w, [s EXCEPT !.pc = "release"])
    BY Zenon, <1>5 DEF ReleaseDead
  <2>5. QED
    BY Zenon, <2>2, <2>3, <2>4, SweepKeeps
<1>6. CASE MarkDead(w)
  <2>1. SweepOK([s EXCEPT !.pc = "release"])
    BY Zenon, <1>0, <1>6 DEF MarkDead, SweepOK, SweepFields, Holding
  <2>2. QED
    BY Zenon, <1>0, <1>6, <2>1, SweepKeeps DEF MarkDead
<1>7. CASE FreeReservation(w)
  <2>1. SweepOK(NextCandidate(s.todo))
    BY Zenon, <1>0, NextCandidateOK DEF SweepOK
  <2>2. OwnerOK(o')
    BY ZenonT(30), <1>0, <1>7, EvidenceOK DEF FreeReservation, ReleaseReservation
  <2>3. QED
    BY Zenon, <1>7, <2>1, <2>2, SweepKeeps DEF FreeReservation
<1>8. CASE AbortSweep(w)
  <2>1. SweepOK([s EXCEPT !.pc = "release", !.todo = {}])
    BY ZenonT(30), <1>0, <1>8 DEF AbortSweep, SweepOK, SweepFields, Holding
  <2>2. QED
    BY Zenon, <1>0, <1>8, <2>1, SweepKeeps DEF AbortSweep
<1>9. QED
  BY Zenon, <1>1, <1>2, <1>3, <1>4, <1>5, <1>6, <1>7, <1>8 DEF SweepStep

(* A step of neither keeps it when its command does.                          *)
LEMMA OthersKeep ==
    ASSUME ClaimsInv, OwnerOK(o'), UNCHANGED <<sess, sweep, evict>>
    PROVE  ClaimsInv'
  BY Zenon DEF ClaimsInv

(* Every step of a configuration request keeps the invariant.                 *)
LEMMA RequestStepOK ==
    ASSUME ClaimsInv, NEW r \in Requests, RequestStep(r)
    PROVE  ClaimsInv'
<1>1. UNCHANGED <<sess, sweep, evict>>
  BY Zenon DEF RequestStep, AskConfigure, ProjectConfigured, MarkEvicted, NotifyConnect, Request
<1>2. OwnerOK(o) /\ RequestOf[r].addr \in Addrs /\ RequestOf[r].peer \in Peers
  BY Zenon, ClaimsAssumption DEF ClaimsInv
<1>3. OwnerOK(o')
  <2>1. CASE AskConfigure(r)
    BY Zenon, <1>2, <2>1, ConfigurePeerOK DEF AskConfigure
  <2>2. CASE ~AskConfigure(r)
    BY SMTT(30), <1>2, <2>2 DEF RequestStep, ProjectConfigured, MarkEvicted, NotifyConnect
  <2>3. QED
    BY Zenon, <2>1, <2>2
<1>4. QED
  BY Zenon, <1>1, <1>3, OthersKeep

(* Every step of a DNS refresh keeps the invariant.                           *)
LEMMA RefreshStepOK ==
    ASSUME ClaimsInv, NEW d \in Refreshes, RefreshStep(d)
    PROVE  ClaimsInv'
<1>1. UNCHANGED <<sess, sweep, evict>>
  BY Zenon DEF RefreshStep, ResolveName, MigrateOwner, MoveEntry, MoveBack, MarkBack, Refresh
<1>2. /\ OwnerOK(o) /\ RefreshOf[d].from \in Addrs /\ RefreshOf[d].to \in Addrs
      /\ RefreshOf[d].from # RefreshOf[d].to
  BY Zenon, ClaimsAssumption DEF ClaimsInv
<1>3. OwnerOK(o')
  <2>1. CASE MigrateOwner(d)
    BY Zenon, <1>2, <2>1, MigrateOK DEF MigrateOwner
  <2>2. CASE MoveBack(d)
    BY Zenon, <1>2, <2>2, MigrateOK DEF MoveBack
  <2>3. CASE o' = o
    BY Zenon, <1>2, <2>3
  <2>4. QED
    BY Zenon, <2>1, <2>2, <2>3 DEF RefreshStep, ResolveName, MoveEntry, MarkBack
<1>4. QED
  BY Zenon, <1>1, <1>3, OthersKeep

(* Every step of an eviction keeps the invariant.                             *)
LEMMA EvictionStepOK ==
    ASSUME ClaimsInv, EvictionStep
    PROVE  ClaimsInv'
<1>0. OwnerOK(o) /\ EvictOK(evict)
  BY Zenon DEF ClaimsInv
<1>1. sess' = sess /\ sweep' = sweep
  BY Zenon DEF EvictionStep, EnforceBounds, ReleaseEvicted, MarkReleased, Evict
<1>2. ASSUME NEW T, \A c \in T : c.a \in Addrs, NEW x
      PROVE  EvictOK([IdleEviction EXCEPT !.pc = x, !.todo = T])
  BY ZenonT(30), <1>2 DEF EvictOK, EvictFields, IdleEviction
<1>3. CASE EnforceBounds
  <2>1. PICK D \in SUBSET Addrs :
           evict' = [IdleEviction EXCEPT !.pc = "release",
                   !.todo = {[a |-> a, node |-> peers[a].node, gen |-> mark[a]] :
                               a \in {b \in D : peers[b].node # None /\ mark[b] # 0}}]
    BY ZenonT(30), <1>3 DEF EnforceBounds, Evict
  <2> DEFINE T == {[a |-> a, node |-> peers[a].node, gen |-> mark[a]] :
                      a \in {b \in D : peers[b].node # None /\ mark[b] # 0}}
  <2>2. \A c \in T : c.a \in Addrs
    BY DEF T
  <2> HIDE DEF T
  <2>3. EvictOK(evict')
    BY Zenon, <1>2, <2>1, <2>2 DEF T
  <2>4. o' = o
    BY Zenon, <1>3 DEF EnforceBounds
  <2>5. QED
    BY Zenon, <1>0, <1>1, <2>3, <2>4 DEF ClaimsInv
<1>4. CASE ReleaseEvicted
  <2>1. PICK e \in evict.todo : /\ o' = Release(o, e.a, e.node, e.gen)
                               /\ \E x : evict' = [evict EXCEPT !.todo = @ \ {e},
                                                        !.released = x]
    BY ZenonT(30), <1>4 DEF ReleaseEvicted, Evict
  <2>2. OwnerOK(o')
    BY Zenon, <1>0, <2>1, ReleaseOK DEF EvictOK
  <2>3. EvictOK(evict')
    BY ZenonT(30), <1>0, <2>1 DEF EvictOK, EvictFields
  <2>4. QED
    BY Zenon, <1>1, <2>2, <2>3 DEF ClaimsInv
<1>5. CASE MarkReleased
  <2>1. o' = o /\ evict' = [IdleEviction EXCEPT !.pc = "done"]
    BY Zenon, <1>5 DEF MarkReleased, Evict
  <2>2. EvictOK(evict')
    BY ZenonT(30), <2>1 DEF EvictOK, EvictFields, IdleEviction
  <2>3. QED
    BY Zenon, <1>0, <1>1, <2>1, <2>2 DEF ClaimsInv
<1>6. QED
  BY Zenon, <1>3, <1>4, <1>5 DEF EvictionStep

(* The invariant holds when the registry starts.                              *)
LEMMA ClaimsStart == ClaimsInit => ClaimsInv
<1> SUFFICES ASSUME ClaimsInit PROVE ClaimsInv
  OBVIOUS
<1>1. OwnerOK(o)
  BY Zenon, InitOK DEF ClaimsInit
<1>2. SessionOK(IdleSession) /\ SweepOK(IdleSweep) /\ EvictOK(IdleEviction)
  BY ZenonT(30)
     DEF SessionOK, SessionFields, Claiming, IdleSession, SweepOK, SweepFields, Holding, IdleSweep,
     EvictOK, EvictFields, IdleEviction
<1>3. QED
  BY Zenon, <1>1, <1>2 DEF ClaimsInit, ClaimsInv

(* It is inductive.                                                           *)
LEMMA ClaimsStep == ClaimsInv /\ [ClaimsNext]_cvars => ClaimsInv'
<1> SUFFICES ASSUME ClaimsInv, [ClaimsNext]_cvars PROVE ClaimsInv'
  OBVIOUS
<1>1. ASSUME NEW i \in Instances, SessionStep(i) PROVE ClaimsInv'
  BY Zenon, <1>1, SessionStepOK
<1>2. ASSUME NEW a \in Addrs, Fail(a) \/ Response(a) PROVE ClaimsInv'
  BY Zenon, <1>2 DEF Fail, Response, ClaimsInv, callers
<1>3. CASE NoteResponse
  BY ZenonT(30), <1>3, EvidenceOK DEF NoteResponse, ClaimsInv
<1>4. CASE ResetFailures
  BY Zenon, <1>4 DEF ResetFailures, ClaimsInv
<1>5. ASSUME NEW w \in Sweeps, SweepStep(w) \/ AbortSweep(w) PROVE ClaimsInv'
  BY Zenon, <1>5, SweepStepOK
<1>6. ASSUME NEW r \in Requests, RequestStep(r) PROVE ClaimsInv'
  BY Zenon, <1>6, RequestStepOK
<1>7. ASSUME NEW p \in Peers, NEW a \in Addrs, ConnectRoute(p, a) PROVE ClaimsInv'
  BY Zenon, <1>7, RouteOK DEF ConnectRoute, ClaimsInv, callers
<1>8. ASSUME NEW d \in Refreshes, RefreshStep(d) PROVE ClaimsInv'
  BY Zenon, <1>8, RefreshStepOK
<1>9. CASE EvictionStep
  BY Zenon, <1>9, EvictionStepOK
<1>10. CASE UNCHANGED cvars
  BY Zenon, <1>10 DEF cvars, callers, ClaimsInv
<1>11. QED
  BY Zenon, <1>1, <1>2, <1>3, <1>4, <1>5, <1>6, <1>7, <1>8, <1>9, <1>10 DEF ClaimsNext

(***************************************************************************)
(* The owner's tables and the published snapshot agree after every command *)
(* of the owner task (RegistryOwnerHandle), for any peers, addresses,      *)
(* sessions, sweeps, requests, refreshes and evictions.                    *)
(***************************************************************************)
THEOREM OwnerStaysCoherent == ClaimsSpec => []OwnerCoherent
<1>1. ClaimsInit => ClaimsInv
  BY Zenon, ClaimsStart
<1>2. ClaimsInv /\ [ClaimsNext]_cvars => ClaimsInv'
  BY Zenon, ClaimsStep
<1>3. ClaimsInv => OwnerCoherent
  BY Zenon DEF ClaimsInv, OwnerOK, OwnerCoherent
<1>4. QED
  BY <1>1, <1>2, <1>3, PTL DEF ClaimsSpec

(***************************************************************************)
(* Peer entries carry the instant of a failure, also the ones a rejected   *)
(* candidate restores.                                                     *)
(***************************************************************************)
Entry == [node : Peers \union {None}, failed : Nat]

EntriesOK(f) == DOMAIN f = Addrs /\ \A a \in Addrs : f[a] # None => f[a] \in Entry

PriorOK(i, s) ==
    (\/ s.acc \in {"claim", "project", "decide"} /\ SessionOf[i].inbound
     \/ s.acc \in {"rollback", "retract", "restore"}) => EntriesOK(s.prior)

EntriesInv ==
    /\ fails \in Nat
    /\ EntriesOK(peers)
    /\ \A i \in Instances : PriorOK(i, sess[i])

(* An accepted claim leaves a well-formed entry.                              *)
LEMMA ProjectedOK ==
    ASSUME EntriesOK(peers), NEW a, NEW p \in Peers, NEW g, ProjectClaim(a, p, g)
    PROVE  EntriesOK(peers')
<1>1. CASE peers' = peers
  BY Zenon, <1>1
<1>2. CASE peers' = [peers EXCEPT ![a] = Upserted(a, p)]
  <2>1. a \in Addrs => Upserted(a, p) \in Entry
    <3> SUFFICES ASSUME a \in Addrs PROVE Upserted(a, p) \in Entry
      OBVIOUS
    <3>1. [node |-> p, failed |-> 0] \in Entry
      BY Zenon DEF Entry
    <3>2. peers[a] # None => peers[a] \in Entry /\ [peers[a] EXCEPT !.node = p] \in Entry
      BY Zenon DEF EntriesOK, Entry
    <3>3. QED
      BY Zenon, <3>1, <3>2 DEF Upserted
  <2>2. QED
    BY Zenon, <1>2, <2>1 DEF EntriesOK
<1>3. QED
  BY Zenon, <1>1, <1>2 DEF ProjectClaim, gossip

(* So does a peer table in which an entry was moved, added or cleared.        *)
LEMMA RehomedOK ==
    ASSUME EntriesOK(peers), NEW i \in Instances, NEW later
    PROVE  EntriesOK(Rehomed(i, later))
<1>1. SessionOf[i].source \in Addrs
  BY Zenon, ClaimsAssumption
<1>2. QED
  BY <1>1, SMTT(30) DEF EntriesOK, Rehomed, MigratePeerEntry

(* Adding an anonymous entry and forgetting failures leaves well-formed entries. *)
LEMMA EntryEditsOK ==
    ASSUME NEW table, EntriesOK(table), NEW a
    PROVE  EntriesOK(Present(table, a)) /\ EntriesOK(Cleared(table, a))
<1>1. [node |-> None, failed |-> 0] \in Entry
  BY Zenon DEF Entry
<1>2. \A b \in Addrs : table[b] # None => [table[b] EXCEPT !.failed = 0] \in Entry
  BY Zenon DEF EntriesOK, Entry
<1>3. EntriesOK(Present(table, a))
  BY Zenon, <1>1 DEF EntriesOK, Present
<1>4. EntriesOK(Cleared(table, a))
  BY Zenon, <1>2 DEF EntriesOK, Cleared
<1>5. QED
  BY Zenon, <1>3, <1>4

(* A session's step keeps the entries when its own are kept.                  *)
LEMMA SessionEntries ==
    ASSUME ClaimsInv, EntriesInv, NEW i \in Instances, NEW s, Session(i, s),
           PriorOK(i, s), EntriesOK(peers')
    PROVE  EntriesInv'
<1>1. fails' = fails /\ \A j \in Instances : sess'[j] = IF j = i THEN s ELSE sess[j]
  BY Zenon DEF ClaimsInv, Session
<1>2. QED
  BY Zenon, <1>1 DEF EntriesInv

(* A session that has returned or falls back restores nothing new.            *)
LEMMA FallBackEntries ==
    ASSUME ClaimsInv, EntriesInv, NEW i \in Instances, NEW retry,
           retry \in {"claim", "frameClaim"}, FallBack(i, retry), EntriesOK(peers'),
           retry = "claim" => sess[i].acc \in {"claim", "project"}
    PROVE  EntriesInv'
<1> DEFINE f == [sess[i] EXCEPT !.acc = retry, !.a = SessionOf[i].source,
                                !.kind = Verified, !.at = Now]
<1>1. f.acc = retry /\ f.prior = sess[i].prior
  BY Zenon DEF ClaimsInv, SessionOK, SessionFields
<1>2. Session(i, f) \/ Session(i, Returned(sess[i]))
  BY Zenon DEF FallBack
<1> HIDE DEF f
<1>3. PriorOK(i, f)
  BY Zenon, <1>1 DEF EntriesInv, PriorOK
<1>4. PriorOK(i, Returned(sess[i]))
  BY Zenon DEF PriorOK, Returned, IdleSession
<1>5. QED
  BY Zenon, <1>2, <1>3, <1>4, SessionEntries

(* Every step of a session keeps the entries well formed.                     *)
LEMMA SessionStepEntries ==
    ASSUME ClaimsInv, EntriesInv, NEW i \in Instances, SessionStep(i)
    PROVE  EntriesInv'
<1> DEFINE s == sess[i]
<1>0. /\ SessionOK(s) /\ PeerOf(i) \in Peers /\ EntriesOK(peers) /\ PriorOK(i, s)
      /\ \A t : PriorOK(i, Returned(t))
  BY Zenon, ClaimsAssumption DEF ClaimsInv, EntriesInv, PeerOf, PriorOK, Returned, IdleSession
<1>1. CASE AcceptSession(i)
  <2> DEFINE t == [s EXCEPT !.acc = "claim", !.a = SessionOf[i].target, !.at = Now,
                            !.kind = ClaimKind(i, SessionOf[i].target), !.prior = peers]
  <2>1. t.prior = peers
    BY Zenon, <1>0 DEF SessionOK, SessionFields
  <2>2. Session(i, t) /\ peers' = peers
    BY Zenon, <1>1 DEF AcceptSession, gossip
  <2> HIDE DEF t
  <2>3. QED
    BY Zenon, <1>0, <2>1, <2>2, SessionEntries DEF PriorOK
<1>2. CASE DialSession(i)
  <2> DEFINE t == [s EXCEPT !.acc = "claim", !.a = SessionOf[i].target, !.at = Now,
                            !.kind = Verified]
  <2>1. t.acc = "claim" /\ ~SessionOf[i].inbound
    BY Zenon, <1>0, <1>2 DEF SessionOK, SessionFields, DialSession
  <2>2. Session(i, t) /\ peers' = peers
    BY Zenon, <1>2 DEF DialSession, gossip
  <2> HIDE DEF t
  <2>3. QED
    BY Zenon, <1>0, <2>1, <2>2, SessionEntries DEF PriorOK
<1>3. CASE OwnerClaim(i)
  <2> DEFINE t == [s EXCEPT !.acc = IF @ = "claim" THEN "project" ELSE "frameProject",
                            !.g = o.seq + 1, !.created = o.owner[s.a] = None]
  <2>1. /\ t.prior = s.prior /\ s.acc \in {"claim", "frameClaim"}
        /\ t.acc = IF s.acc = "claim" THEN "project" ELSE "frameProject"
    BY ZenonT(30), <1>0, <1>3 DEF SessionOK, SessionFields, OwnerClaim
  <2>2. (Session(i, t) \/ FallBack(i, s.acc)) /\ peers' = peers
    BY Zenon, <1>3 DEF OwnerClaim, gossip
  <2> HIDE DEF t
  <2>3. PriorOK(i, t)
    BY Zenon, <1>0, <2>1 DEF PriorOK
  <2>4. QED
    BY Zenon, <1>0, <2>1, <2>2, <2>3, SessionEntries, FallBackEntries
<1>4. CASE ProjectSession(i)
  <2> DEFINE t == [s EXCEPT !.acc = "decide", !.io = "up"]
  <2>1. t.prior = s.prior /\ t.acc = "decide" /\ s.acc = "project"
    BY Zenon, <1>0, <1>4 DEF SessionOK, SessionFields, ProjectSession
  <2>2. Session(i, t) \/ FallBack(i, "claim")
    BY Zenon, <1>4 DEF ProjectSession
  <2> HIDE DEF t
  <2>3. PriorOK(i, t)
    BY Zenon, <1>0, <2>1 DEF PriorOK
  <2>4. EntriesOK(peers')
    BY Zenon, <1>0, <1>4, ProjectedOK DEF ProjectSession
  <2>5. QED
    BY Zenon, <2>1, <2>2, <2>3, <2>4, SessionEntries, FallBackEntries
<1>5. CASE KeepSession(i)
  <2> DEFINE t == [Returned(s) EXCEPT !.acc = IF SessionOf[i].inbound THEN "first" ELSE @]
  <2>1. t.acc \in {"first", "done"}
    BY ZenonT(30) DEF Returned, IdleSession
  <2>2. Session(i, t) /\ peers' = peers
    BY Zenon, <1>5 DEF KeepSession, gossip
  <2> HIDE DEF t
  <2>3. PriorOK(i, t)
    BY Zenon, <2>1 DEF PriorOK
  <2>4. QED
    BY Zenon, <1>0, <2>2, <2>3, SessionEntries
<1>6. CASE RejectSession(i)
  <2> DEFINE t == [s EXCEPT !.io = IF @ = "up" THEN "exit" ELSE @]
             u == [t EXCEPT !.acc = "rollback"]
  <2>1. u.prior = s.prior /\ s.acc = "decide"
    BY Zenon, <1>0, <1>6 DEF RejectSession, SessionOK, SessionFields
  <2>2. /\ peers' = peers
        /\ \/ SessionOf[i].inbound /\ Session(i, u)
           \/ Session(i, Returned(t))
    BY Zenon, <1>6 DEF RejectSession, gossip
  <2> HIDE DEF u
  <2>3. SessionOf[i].inbound => PriorOK(i, u)
    BY Zenon, <1>0, <2>1 DEF PriorOK
  <2>4. QED
    BY Zenon, <1>0, <2>2, <2>3, SessionEntries
<1>7. CASE RollbackClaim(i)
  <2> DEFINE t == [s EXCEPT !.acc = "retract", !.g = o.seq + 1]
  <2>1. t.prior = s.prior /\ s.acc = "rollback"
    BY Zenon, <1>0, <1>7 DEF RollbackClaim, SessionOK, SessionFields
  <2>2. peers' = peers /\ (Session(i, t) \/ Session(i, Returned(s)))
    BY Zenon, <1>7 DEF RollbackClaim, gossip
  <2> HIDE DEF t
  <2>3. PriorOK(i, t)
    BY Zenon, <1>0, <2>1 DEF PriorOK
  <2>4. QED
    BY Zenon, <1>0, <2>2, <2>3, SessionEntries
<1>8. CASE RollbackMark(i)
  <2> DEFINE t == [s EXCEPT !.acc = "restore"]
  <2>1. t.prior = s.prior /\ s.acc = "retract"
    BY Zenon, <1>0, <1>8 DEF RollbackMark, SessionOK, SessionFields
  <2>2. peers' = peers /\ Session(i, t)
    BY Zenon, <1>8 DEF RollbackMark
  <2> HIDE DEF t
  <2>3. PriorOK(i, t)
    BY Zenon, <1>0, <2>1 DEF PriorOK
  <2>4. QED
    BY Zenon, <1>0, <2>2, <2>3, SessionEntries
<1>9. CASE RestoreProjection(i)
  <2>1. EntriesOK(s.prior)
    BY Zenon, <1>0, <1>9 DEF RestoreProjection, PriorOK
  <2>2. peers' = peers \/ peers' = [peers EXCEPT ![s.a] = s.prior[s.a]]
    BY Zenon, <1>9 DEF RestoreProjection
  <2>3. EntriesOK(peers')
    BY Zenon, <1>0, <2>1, <2>2 DEF EntriesOK
  <2>4. QED
    BY Zenon, <1>0, <1>9, <2>3, SessionEntries DEF RestoreProjection
<1>10. CASE FrameSession(i)
  <2> DEFINE t(form) == [s EXCEPT !.by = IF s.acc = "first" THEN "accept" ELSE "io",
                                  !.acc = "frameClaim", !.a = SessionOf[i].target, !.at = Now,
                                  !.kind = IF SessionOf[i].target = SessionOf[i].source
                                           THEN Verified ELSE Provisional,
                                  !.frames = @ + 1, !.form = form]
  <2>1. \A form : t(form).acc = "frameClaim"
    BY ZenonT(30), <1>0 DEF SessionOK, SessionFields
  <2>2. peers' = peers /\ \E form : Session(i, t(form))
    BY Zenon, <1>10 DEF FrameSession, gossip
  <2> HIDE DEF t
  <2>3. \A form : PriorOK(i, t(form))
    BY Zenon, <2>1 DEF PriorOK
  <2>4. QED
    BY Zenon, <1>0, <2>2, <2>3, SessionEntries
<1>11. CASE ProjectFrame(i) \/ BindFrame(i) \/ SettleFrame(i)
  <2>1. /\ [s EXCEPT !.acc = "frameBind"].acc = "frameBind"
        /\ [s EXCEPT !.acc = "frameSettle"].acc = "frameSettle"
    BY ZenonT(30), <1>0 DEF SessionOK, SessionFields
  <2>2. /\ PriorOK(i, [s EXCEPT !.acc = "frameBind"])
        /\ PriorOK(i, [s EXCEPT !.acc = "frameSettle"])
    BY Zenon, <2>1 DEF PriorOK
  <2>3. \/ Session(i, [s EXCEPT !.acc = "frameBind"])
        \/ Session(i, [s EXCEPT !.acc = "frameSettle"])
        \/ Session(i, Returned(s))
    BY Zenon, <1>11 DEF ProjectFrame, BindFrame, SettleFrame
  <2>4. EntriesOK(peers')
    <3>1. CASE ProjectFrame(i)
      BY Zenon, <1>0, <3>1, ProjectedOK DEF ProjectFrame
    <3>2. \A later : EntriesOK(Rehomed(i, later))
      BY Zenon, <1>0, RehomedOK
    <3>3. CASE BindFrame(i)
      <4>1. peers' = peers \/ \E later : peers' = Present(Rehomed(i, later), s.a)
        BY Zenon, <3>3 DEF BindFrame, gossip
      <4>2. QED
        BY Zenon, <1>0, <3>2, <4>1, EntryEditsOK
    <3>4. CASE SettleFrame(i)
      <4>1. PICK table : /\ table = peers \/ \E later : table = Rehomed(i, later)
                         /\ peers' \in {peers, table, Cleared(table, s.a)}
        BY ZenonT(30), <3>4 DEF SettleFrame, gossip
      <4>2. EntriesOK(table)
        BY Zenon, <1>0, <3>2, <4>1
      <4>3. QED
        BY Zenon, <1>0, <4>1, <4>2, EntryEditsOK
    <3>5. QED
      BY Zenon, <1>11, <3>1, <3>3, <3>4
  <2>5. QED
    BY Zenon, <1>0, <2>2, <2>3, <2>4, SessionEntries
<1>12. CASE ExitIO(i) \/ ReleaseIO(i) \/ MarkIO(i)
  <2>1. peers' = peers
    BY Zenon, <1>12 DEF ExitIO, ReleaseIO, MarkIO, gossip
  <2>2. PICK t : /\ Session(i, t)
                 /\ \/ t.acc = s.acc /\ t.prior = s.prior
                    \/ \E u : t = Returned(u)
    <3>1. CASE ExitIO(i)
      <4> DEFINE e == [s EXCEPT !.io = "exit"]
      <4>1. e.acc = s.acc /\ e.prior = s.prior
        BY Zenon, <1>0 DEF SessionOK, SessionFields
      <4>2. Session(i, e) \/ Session(i, Returned(e))
        BY Zenon, <3>1 DEF ExitIO
      <4> HIDE DEF e
      <4>3. QED
        BY Zenon, <4>1, <4>2
    <3>2. CASE ReleaseIO(i)
      <4>1. PICK x, y : Session(i, [s EXCEPT !.io = x, !.tomb = y])
        BY ZenonT(30), <3>2 DEF ReleaseIO
      <4>2. [s EXCEPT !.io = x, !.tomb = y].acc = s.acc /\ [s EXCEPT !.io = x, !.tomb = y].prior = s.prior
        BY Zenon, <1>0 DEF SessionOK, SessionFields
      <4>3. QED
        BY Zenon, <4>1, <4>2
    <3>3. CASE MarkIO(i)
      <4>1. PICK x, y : Session(i, [s EXCEPT !.tomb = y, !.io = x])
        <5>1. PICK t \in s.tomb :
             Session(i, [s EXCEPT !.tomb = @ \ {t}, !.io = IF s.tomb = {t} THEN "gone" ELSE @])
          BY ZenonT(30), <3>3 DEF MarkIO
        <5>2. QED
          BY ZenonT(30), <5>1
      <4>2. [s EXCEPT !.tomb = y, !.io = x].acc = s.acc /\ [s EXCEPT !.tomb = y, !.io = x].prior = s.prior
        BY Zenon, <1>0 DEF SessionOK, SessionFields
      <4>3. QED
        BY Zenon, <4>1, <4>2
    <3>4. QED
      BY Zenon, <1>12, <3>1, <3>2, <3>3
  <2>3. PriorOK(i, t)
    BY Zenon, <1>0, <2>2 DEF PriorOK
  <2>4. QED
    BY Zenon, <1>0, <2>1, <2>2, <2>3, SessionEntries
<1>13. QED
  BY Zenon, <1>1, <1>2, <1>3, <1>4, <1>5, <1>6, <1>7, <1>8, <1>9, <1>10, <1>11, <1>12
     DEF SessionStep

(* Every step keeps the entries well formed.                                  *)
LEMMA EntriesStep ==
    ASSUME ClaimsInv, EntriesInv, ClaimsNext
    PROVE  EntriesInv'
<1> USE DEF gossip, callers
<1>1. ASSUME UNCHANGED sess, fails' \in Nat, EntriesOK(peers') PROVE EntriesInv'
  BY Zenon, <1>1 DEF EntriesInv
<1>2. ASSUME UNCHANGED <<sess, fails, peers>> PROVE EntriesInv'
  BY Zenon, <1>1, <1>2 DEF EntriesInv
<1>3. ASSUME NEW i \in Instances, SessionStep(i) PROVE EntriesInv'
  BY Zenon, <1>3, SessionStepEntries
<1>4. ASSUME NEW a \in Addrs, Fail(a) PROVE EntriesInv'
  <2>1. fails' \in Nat /\ fails' = fails + 1 /\ 2 * fails' \in Nat
    BY <1>4 DEF Fail, EntriesInv
  <2>2. \A b \in Failing(a) : peers[b] # None
    BY Zenon, <1>4 DEF Fail, Failing
  <2>3. \A b \in Addrs : peers[b] # None => [peers[b] EXCEPT !.failed = 2 * fails'] \in Entry
    BY Zenon, <2>1 DEF EntriesInv, EntriesOK, Entry
  <2>4. peers' = [b \in Addrs |-> IF b \in Failing(a)
                                  THEN [peers[b] EXCEPT !.failed = 2 * fails'] ELSE peers[b]]
    BY Zenon, <1>4 DEF Fail
  <2>5. EntriesOK(peers')
    BY Zenon, <2>2, <2>3, <2>4 DEF EntriesInv, EntriesOK
  <2>6. QED
    BY Zenon, <1>1, <1>4, <2>1, <2>5 DEF Fail
<1>5. ASSUME NEW a \in Addrs, Response(a) PROVE EntriesInv'
  BY Zenon, <1>2, <1>5 DEF Response
<1>6. CASE NoteResponse
  BY Zenon, <1>2, <1>6 DEF NoteResponse
<1>7. CASE ResetFailures
  <2>1. EntriesOK(peers')
    BY Zenon, <1>7, EntryEditsOK DEF ResetFailures, EntriesInv
  <2>2. QED
    BY Zenon, <1>1, <1>7, <2>1 DEF ResetFailures, EntriesInv
<1>8. ASSUME NEW w \in Sweeps, SweepStep(w) \/ AbortSweep(w) PROVE EntriesInv'
  BY Zenon, <1>2, <1>8 DEF SweepStep, AbortSweep, SelectDead, ReserveDead, AskVerdict,
     ConsumeReservation, ReleaseDead, MarkDead, FreeReservation, Sweep
<1>9. ASSUME NEW r \in Requests, RequestStep(r) PROVE EntriesInv'
  <2>1. CASE ProjectConfigured(r)
    <3>1. EntriesOK(peers')
      BY Zenon, <2>1, ClaimsAssumption, ProjectedOK DEF ProjectConfigured, EntriesInv
    <3>2. QED
      BY Zenon, <1>1, <2>1, <3>1 DEF ProjectConfigured, Request, EntriesInv
  <2>2. CASE AskConfigure(r) \/ MarkEvicted(r) \/ NotifyConnect(r)
    BY Zenon, <1>2, <2>2 DEF AskConfigure, MarkEvicted, NotifyConnect, Request
  <2>3. QED
    BY Zenon, <1>9, <2>1, <2>2 DEF RequestStep
<1>10. ASSUME NEW p \in Peers, NEW a \in Addrs, ConnectRoute(p, a) PROVE EntriesInv'
  BY Zenon, <1>2, <1>10 DEF ConnectRoute
<1>11. ASSUME NEW d \in Refreshes, RefreshStep(d) PROVE EntriesInv'
  <2>1. CASE MoveEntry(d)
    <3> DEFINE from == RefreshOf[d].from
               to == RefreshOf[d].to
    <3>1. \/ peers' = peers
          \/ /\ peers[from] # None
             /\ peers' = [peers EXCEPT ![to] = [peers[from] EXCEPT !.failed = 0], ![from] = None]
      BY Zenon, <2>1 DEF MoveEntry, EntryMoves
    <3>2. from \in Addrs /\ to \in Addrs
      BY Zenon, ClaimsAssumption
    <3> HIDE DEF from, to
    <3>3. peers[from] # None => [peers[from] EXCEPT !.failed = 0] \in Entry
      BY Zenon, <3>2 DEF EntriesInv, EntriesOK, Entry
    <3>4. EntriesOK(peers')
      BY Zenon, <3>1, <3>2, <3>3 DEF EntriesInv, EntriesOK
    <3>5. QED
      BY Zenon, <1>1, <2>1, <3>4 DEF MoveEntry, Refresh, EntriesInv
  <2>2. CASE ResolveName(d) \/ MigrateOwner(d) \/ MoveBack(d) \/ MarkBack(d)
    BY Zenon, <1>2, <2>2 DEF ResolveName, MigrateOwner, MoveBack, MarkBack, Refresh
  <2>3. QED
    BY Zenon, <1>11, <2>1, <2>2 DEF RefreshStep
<1>12. CASE EvictionStep
  <2>1. CASE EnforceBounds
    <3>1. PICK D : peers' = [a \in Addrs |-> IF a \in D THEN None ELSE peers[a]]
      BY Zenon, <2>1 DEF EnforceBounds
    <3>2. EntriesOK(peers')
      BY Zenon, <3>1 DEF EntriesInv, EntriesOK
    <3>3. QED
      BY Zenon, <1>1, <2>1, <3>2 DEF EnforceBounds, Evict, EntriesInv
  <2>2. CASE ReleaseEvicted \/ MarkReleased
    BY Zenon, <1>2, <2>2 DEF ReleaseEvicted, MarkReleased, Evict
  <2>3. QED
    BY Zenon, <1>12, <2>1, <2>2 DEF EvictionStep
<1>13. QED
  BY Zenon, <1>3, <1>4, <1>5, <1>6, <1>7, <1>8, <1>9, <1>10, <1>11, <1>12 DEF ClaimsNext

(***************************************************************************)
(* What a sweep that holds a reservation relies on: the address is         *)
(* reserved, was not claimed, repinned or moved since it was selected, and *)
(* no newer evidence is known until the reservation is consumed.           *)
(***************************************************************************)
SweepFence(t, s) ==
    /\ t.pc \notin Holding => t.c = None
    /\ \A c \in t.todo : c.before \in Nat
    /\ t.pc \in Holding => t.c.before \in Nat /\ s.reserved[t.c.a] # "none"
    /\ t.pc \in {"held", "verdict", "destroy"} =>
         /\ s.committed[t.c.a] <= t.c.before
         /\ CurrentToken(s, t.c.a) \in {None, t.c.token}
         /\ s.pinned[t.c.a] = t.c.pin
    /\ t.pc = "verdict" /\ s.reserved[t.c.a] = "pending" => ~HasNewerEvidence(s, t.c.a, t.c.before)

FenceInv ==
    /\ \A w \in Sweeps : SweepFence(sweep[w], o)
    /\ \A v, w \in Sweeps : v # w /\ sweep[v].pc \in Holding /\ sweep[w].pc \in Holding
                              => sweep[v].c.a # sweep[w].c.a

(* A sweep whose address is left alone keeps what it relies on.               *)
LEMMA FencedSweep ==
    ASSUME NEW t, NEW s, NEW r, SweepFence(t, s), t.pc \in Holding => FencedAt(s, r, t.c.a)
    PROVE  SweepFence(t, r)
<1>1. CASE t.pc \notin Holding
  BY Zenon, <1>1 DEF SweepFence, Holding
<1>2. CASE t.pc \in Holding
  <2>1. FencedAt(s, r, t.c.a) /\ t.c.before \in Nat
    BY Zenon, <1>2 DEF SweepFence
  <2>2. t.pc \in {"held", "verdict", "destroy"} =>
           /\ r.committed[t.c.a] <= t.c.before
           /\ CurrentToken(r, t.c.a) \in {None, t.c.token}
           /\ r.pinned[t.c.a] = t.c.pin
    BY <2>1 DEF SweepFence, FencedAt, CurrentToken
  <2>3. t.pc = "verdict" /\ r.reserved[t.c.a] = "pending" => ~HasNewerEvidence(r, t.c.a, t.c.before)
    BY <2>1 DEF SweepFence, FencedAt, HasNewerEvidence
  <2>4. QED
    BY Zenon, <1>2, <2>1, <2>2, <2>3 DEF SweepFence, FencedAt
<1>3. QED
  BY Zenon, <1>1, <1>2

(* Commands that spare reserved addresses keep the fence of every sweep.      *)
LEMMA FenceKept ==
    ASSUME ClaimsInv, FenceInv, Fenced(o, o'), UNCHANGED sweep
    PROVE  FenceInv'
<1>1. ASSUME NEW w \in Sweeps PROVE SweepFence(sweep[w], o')
  <2>1. SweepOK(sweep[w]) /\ SweepFence(sweep[w], o)
    BY Zenon DEF ClaimsInv, FenceInv
  <2>2. sweep[w].pc \in Holding => FencedAt(o, o', sweep[w].c.a)
    BY Zenon, <2>1 DEF SweepOK, SweepFence, Fenced
  <2>3. QED
    BY Zenon, <2>1, <2>2, FencedSweep
<1>2. QED
  BY Zenon, <1>1 DEF FenceInv

(* A step of one sweep keeps the fence of the others.                         *)
LEMMA FenceMoved ==
    ASSUME ClaimsInv, FenceInv, NEW w \in Sweeps, NEW t, Sweep(w, t), SweepFence(t, o'),
           \A v \in Sweeps \ {w} : sweep[v].pc \in Holding =>
               /\ FencedAt(o, o', sweep[v].c.a)
               /\ t.pc \in Holding => sweep[v].c.a # t.c.a
    PROVE  FenceInv'
<1>1. \A v \in Sweeps : sweep'[v] = IF v = w THEN t ELSE sweep[v]
  BY Zenon DEF ClaimsInv, Sweep
<1>2. \A v \in Sweeps : SweepFence(sweep'[v], o')
  BY Zenon, <1>1, FencedSweep DEF FenceInv
<1>3. QED
  BY Zenon, <1>1, <1>2 DEF FenceInv

(* Every step of a reap sweep keeps the fences.                               *)
LEMMA SweepStepFence ==
    ASSUME ClaimsInv, EntriesInv, FenceInv, NEW w \in Sweeps, SweepStep(w) \/ AbortSweep(w)
    PROVE  FenceInv'
<1> DEFINE s == sweep[w]
<1>0. /\ SweepOK(s) /\ SweepFence(s, o) /\ OwnerOK(o)
      /\ \A v \in Sweeps \ {w} : sweep[v].pc \in Holding =>
             /\ sweep[v].c.a \in Addrs /\ o.reserved[sweep[v].c.a] # "none"
             /\ s.pc \in Holding => sweep[v].c.a # s.c.a
  BY Zenon DEF ClaimsInv, FenceInv, SweepOK, SweepFence
<1>a. ASSUME NEW t, Sweep(w, t), SweepFence(t, o'), Fenced(o, o'),
             t.pc \in Holding => s.pc \in Holding /\ t.c = s.c
      PROVE  FenceInv'
  <2>1. \A v \in Sweeps \ {w} : sweep[v].pc \in Holding =>
               /\ FencedAt(o, o', sweep[v].c.a)
               /\ t.pc \in Holding => sweep[v].c.a # t.c.a
    BY Zenon, <1>0, <1>a DEF Fenced
  <2>2. QED
    BY Zenon, <1>a, <2>1, FenceMoved
<1>b. Fenced(o, o)
  BY Zenon DEF Fenced, FencedAt
<1>c. ASSUME NEW T, \A c \in T : c.before \in Nat, NEW r
      PROVE  /\ SweepFence(NextCandidate(T), r) /\ NextCandidate(T).pc \notin Holding
  <2>1. /\ NextCandidate(T).pc \in {"done", "next"} /\ NextCandidate(T).c = None
        /\ NextCandidate(T).todo = T
    BY ZenonT(30) DEF NextCandidate, IdleSweep
  <2>2. QED
    BY Zenon, <1>c, <2>1 DEF SweepFence, Holding
<1>d. ASSUME NEW a \in Addrs, NEW v, o' = [o EXCEPT !.reserved[a] = v]
      PROVE  /\ o'.owner = o.owner /\ o'.gen = o.gen /\ o'.committed = o.committed
             /\ o'.pinned = o.pinned /\ o'.seen = o.seen /\ o'.reserved[a] = v
             /\ \A b \in Addrs : b # a => FencedAt(o, o', b)
  <2>1. /\ o'.owner = o.owner /\ o'.gen = o.gen /\ o'.committed = o.committed
        /\ o'.pinned = o.pinned /\ o'.seen = o.seen /\ o'.reserved = [o.reserved EXCEPT ![a] = v]
    BY Zenon, <1>0, <1>d DEF OwnerOK, OwnerType, IsRecord, Tables
  <2>2. DOMAIN o.reserved = Addrs
    BY Zenon, <1>0 DEF OwnerOK, OwnerType
  <2>3. QED
    BY Zenon, <2>1, <2>2 DEF FencedAt
<1>1. CASE SelectDead(w)
  <2> DEFINE t == [s EXCEPT !.pc = "next", !.todo = Candidates]
  <2>1. \A c \in Candidates : c.before \in Nat
    <3> SUFFICES ASSUME NEW c \in Candidates PROVE c.before \in Nat
      OBVIOUS
    <3>1. PICK a \in Addrs : peers[a] # None /\ c.before = peers[a].failed
      BY DEF Candidates
    <3>2. QED
      BY Zenon, <3>1 DEF EntriesInv, EntriesOK, Entry
  <2>2. t.pc = "next" /\ t.todo = Candidates /\ t.c = s.c /\ s.pc = "idle"
    BY Zenon, <1>0, <1>1 DEF SelectDead, SweepOK, SweepFields
  <2>3. Sweep(w, t) /\ o' = o
    BY Zenon, <1>1 DEF SelectDead
  <2> HIDE DEF t
  <2>4. SweepFence(t, o) /\ t.pc \notin Holding
    BY Zenon, <1>0, <2>1, <2>2 DEF SweepFence, Holding
  <2>5. QED
    BY Zenon, <1>a, <1>b, <2>3, <2>4
<1>2. CASE ReserveDead(w)
  <2>1. PICK c \in s.todo :
           /\ o' = ReserveForReap(o, c.a, c.before, c.token, c.pin, c.node)
           /\ Sweep(w, IF Reserves(o, c.a, c.before, c.token, c.pin, c.node)
                     THEN [s EXCEPT !.pc = "held", !.c = c, !.todo = @ \ {c}]
                     ELSE NextCandidate(s.todo \ {c}))
    BY ZenonT(30), <1>2 DEF ReserveDead
  <2>2. c.a \in Addrs /\ c.before \in Nat /\ \A d \in s.todo \ {c} : d.before \in Nat
    BY Zenon, <1>0 DEF SweepOK, SweepFence
  <2>3. CASE ~Reserves(o, c.a, c.before, c.token, c.pin, c.node)
    <3>1. o' = o /\ Sweep(w, NextCandidate(s.todo \ {c}))
      BY Zenon, <2>1, <2>3 DEF ReserveForReap
    <3>2. QED
      BY Zenon, <1>a, <1>b, <1>c, <2>2, <3>1
  <2>4. CASE Reserves(o, c.a, c.before, c.token, c.pin, c.node)
    <3> DEFINE t == [s EXCEPT !.pc = "held", !.c = c, !.todo = @ \ {c}]
    <3>1. o' = [o EXCEPT !.reserved[c.a] = "pending"] /\ Sweep(w, t)
      BY Zenon, <2>1, <2>4 DEF ReserveForReap
    <3>2. t.pc = "held" /\ t.c = c /\ t.todo = s.todo \ {c}
      BY ZenonT(30), <1>0 DEF SweepOK, SweepFields
    <3> HIDE DEF t
    <3>3. /\ o'.owner = o.owner /\ o'.gen = o.gen /\ o'.committed = o.committed
          /\ o'.pinned = o.pinned /\ o'.reserved[c.a] = "pending"
          /\ \A b \in Addrs : b # c.a => FencedAt(o, o', b)
      BY Zenon, <1>d, <2>2, <3>1
    <3>4. SweepFence(t, o')
      BY Zenon, <2>2, <2>4, <3>2, <3>3 DEF SweepFence, Holding, Reserves, CurrentToken
    <3>5. o.reserved[c.a] = "none"
      BY Zenon, <2>4 DEF Reserves
    <3>6. \A v \in Sweeps \ {w} : sweep[v].pc \in Holding =>
               FencedAt(o, o', sweep[v].c.a) /\ sweep[v].c.a # t.c.a
      BY Zenon, <1>0, <3>2, <3>3, <3>5
    <3>7. QED
      BY Zenon, <3>1, <3>4, <3>6, FenceMoved
  <2>5. QED
    BY Zenon, <2>3, <2>4
<1>3. CASE AskVerdict(w)
  <2>1. PICK x : /\ Sweep(w, [s EXCEPT !.pc = x]) /\ o' = o
                 /\ x = "release" \/ (x = "verdict" /\ ~HasNewerEvidence(o, s.c.a, s.c.before))
    BY Zenon, <1>3 DEF AskVerdict
  <2> DEFINE t == [s EXCEPT !.pc = x]
  <2>2. t.pc = x /\ t.c = s.c /\ t.todo = s.todo /\ s.pc = "held"
    BY Zenon, <1>0, <1>3 DEF AskVerdict, SweepOK, SweepFields
  <2> HIDE DEF t
  <2>3. SweepFence(t, o)
    BY Zenon, <1>0, <2>1, <2>2 DEF SweepFence, Holding
  <2>4. QED
    BY Zenon, <1>a, <1>b, <2>1, <2>2, <2>3 DEF t, Holding
<1>4. CASE ConsumeReservation(w)
  <2>1. s.pc = "verdict" /\ s.c.a \in Addrs
    BY Zenon, <1>0, <1>4 DEF ConsumeReservation, SweepOK, Holding
  <2>2. PICK x : /\ Sweep(w, [s EXCEPT !.pc = x])
                 /\ x = IF o.reserved[s.c.a] = "pending" THEN "destroy" ELSE "release"
    BY Zenon, <1>4 DEF ConsumeReservation
  <2> DEFINE t == [s EXCEPT !.pc = x]
             v == IF o.reserved[s.c.a] = "pending" THEN "committed" ELSE o.reserved[s.c.a]
  <2>3. o' = [o EXCEPT !.reserved[s.c.a] = v]
    BY Zenon, <1>0, <1>4 DEF ConsumeReservation, TryConsume, OwnerOK, OwnerType, IsRecord, Tables
  <2>4. t.pc = x /\ t.c = s.c /\ t.todo = s.todo
    BY Zenon, <1>0 DEF SweepOK, SweepFields
  <2>5. v # "none"
    BY Zenon, <1>0, <2>1 DEF SweepFence, Holding
  <2> HIDE DEF t, v
  <2>6. /\ o'.owner = o.owner /\ o'.gen = o.gen /\ o'.committed = o.committed
        /\ o'.pinned = o.pinned /\ o'.reserved[s.c.a] = v
        /\ \A b \in Addrs : b # s.c.a => FencedAt(o, o', b)
    BY Zenon, <1>d, <2>1, <2>3
  <2>7. SweepFence(t, o')
    <3>1. /\ s.c.before \in Nat /\ \A c \in s.todo : c.before \in Nat
          /\ o.committed[s.c.a] <= s.c.before
          /\ CurrentToken(o, s.c.a) \in {None, s.c.token}
          /\ o.pinned[s.c.a] = s.c.pin
      BY Zenon, <1>0, <2>1 DEF SweepFence, Holding
    <3>2. CurrentToken(o', s.c.a) = CurrentToken(o, s.c.a)
      BY Zenon, <2>6 DEF CurrentToken
    <3>3. t.pc \in {"destroy", "release"}
      BY Zenon, <2>2, <2>4
    <3>4. QED
      BY <2>4, <2>5, <2>6, <3>1, <3>2, <3>3 DEF SweepFence, Holding
  <2>8. \A u \in Sweeps \ {w} : sweep[u].pc \in Holding =>
             FencedAt(o, o', sweep[u].c.a) /\ sweep[u].c.a # t.c.a
    BY Zenon, <1>0, <2>1, <2>4, <2>6 DEF Holding
  <2>9. QED
    BY Zenon, <2>2, <2>7, <2>8, FenceMoved DEF t
<1>5. CASE ReleaseDead(w)
  <2>1. s.pc = "destroy" /\ s.c.a \in Addrs
    BY Zenon, <1>0, <1>5 DEF ReleaseDead, SweepOK, Holding
  <2>2. Fenced(o, o')
    BY Zenon, <1>0, <1>5, <2>1, ReleaseDeadPeerOrderly DEF ReleaseDead, Orderly
  <2>3. PICK t : /\ Sweep(w, t) /\ t.c = s.c /\ t.todo = s.todo /\ t.pc \in {"mark", "release"}
    <3>1. \/ Sweep(w, [s EXCEPT !.pc = "mark", !.seq = o.seq + 1])
          \/ Sweep(w, [s EXCEPT !.pc = "release"])
      BY Zenon, <1>5 DEF ReleaseDead
    <3>2. /\ [s EXCEPT !.pc = "mark", !.seq = o.seq + 1].c = s.c
          /\ [s EXCEPT !.pc = "mark", !.seq = o.seq + 1].todo = s.todo
          /\ [s EXCEPT !.pc = "mark", !.seq = o.seq + 1].pc = "mark"
          /\ [s EXCEPT !.pc = "release"].c = s.c /\ [s EXCEPT !.pc = "release"].todo = s.todo
          /\ [s EXCEPT !.pc = "release"].pc = "release"
      BY Zenon, <1>0 DEF SweepOK, SweepFields
    <3>3. QED
      BY Zenon, <3>1, <3>2
  <2>4. SweepFence(t, o)
    BY Zenon, <1>0, <2>1, <2>3 DEF SweepFence, Holding
  <2>5. SweepFence(t, o')
    <3>1. o.reserved[s.c.a] # "none"
      BY Zenon, <1>0, <2>1 DEF SweepFence, Holding
    <3>2. FencedAt(o, o', t.c.a)
      BY Zenon, <2>1, <2>2, <2>3, <3>1 DEF Fenced
    <3>3. QED
      BY Zenon, <2>4, <3>2, FencedSweep
  <2>6. QED
    BY Zenon, <1>a, <2>1, <2>2, <2>3, <2>5 DEF Holding
<1>6. CASE MarkDead(w) \/ AbortSweep(w)
  <2>1. PICK t : /\ Sweep(w, t) /\ t.c = s.c /\ t.todo \in {s.todo, {}} /\ t.pc = "release"
    <3>1. \/ Sweep(w, [s EXCEPT !.pc = "release"])
          \/ Sweep(w, [s EXCEPT !.pc = "release", !.todo = {}])
      BY Zenon, <1>6 DEF MarkDead, AbortSweep
    <3>2. /\ [s EXCEPT !.pc = "release"].c = s.c /\ [s EXCEPT !.pc = "release"].todo = s.todo
          /\ [s EXCEPT !.pc = "release"].pc = "release"
          /\ [s EXCEPT !.pc = "release", !.todo = {}].c = s.c
          /\ [s EXCEPT !.pc = "release", !.todo = {}].todo = {}
          /\ [s EXCEPT !.pc = "release", !.todo = {}].pc = "release"
      BY Zenon, <1>0 DEF SweepOK, SweepFields
    <3>3. QED
      BY Zenon, <3>1, <3>2
  <2>2. o' = o /\ s.pc \in Holding
    BY Zenon, <1>6 DEF MarkDead, AbortSweep, Holding
  <2>3. SweepFence(t, o)
    BY <1>0, <2>1, <2>2 DEF SweepFence, Holding
  <2>4. QED
    BY Zenon, <1>a, <1>b, <2>1, <2>2, <2>3
<1>7. CASE FreeReservation(w)
  <2>1. s.pc = "release" /\ s.c.a \in Addrs /\ \A c \in s.todo : c.before \in Nat
    BY Zenon, <1>0, <1>7 DEF FreeReservation, SweepOK, SweepFence, Holding
  <2>2. o' = [o EXCEPT !.reserved[s.c.a] = "none"] /\ Sweep(w, NextCandidate(s.todo))
    BY Zenon, <1>7 DEF FreeReservation, ReleaseReservation
  <2>3. \A b \in Addrs : b # s.c.a => FencedAt(o, o', b)
    BY Zenon, <1>d, <2>1, <2>2
  <2>4. SweepFence(NextCandidate(s.todo), o') /\ NextCandidate(s.todo).pc \notin Holding
    BY Zenon, <1>c, <2>1
  <2>5. \A v \in Sweeps \ {w} : sweep[v].pc \in Holding => FencedAt(o, o', sweep[v].c.a)
    BY Zenon, <1>0, <2>1, <2>3 DEF Holding
  <2>6. QED
    BY Zenon, <2>2, <2>4, <2>5, FenceMoved
<1>8. QED
  BY Zenon, <1>1, <1>2, <1>3, <1>4, <1>5, <1>6, <1>7 DEF SweepStep

(* Commands of sessions, requests, refreshes, evictions and connects are      *)
(* orderly.                                                                   *)
LEMMA OthersOrderly ==
    ASSUME ClaimsInv,
           \/ \E i \in Instances : SessionStep(i)
           \/ \E r \in Requests : RequestStep(r)
           \/ \E p \in Peers, a \in Addrs : ConnectRoute(p, a)
           \/ \E d \in Refreshes : RefreshStep(d)
           \/ EvictionStep
    PROVE  Orderly(o, o') /\ UNCHANGED sweep
<1>0. OwnerOK(o)
  BY Zenon DEF ClaimsInv
<1>1. Orderly(o, o)
  BY Zenon, <1>0, SameOrderly
<1>2. ASSUME NEW i \in Instances, SessionStep(i) PROVE Orderly(o, o') /\ UNCHANGED sweep
  <2>0. SessionOK(sess[i]) /\ PeerOf(i) \in Peers
    BY Zenon, ClaimsAssumption DEF ClaimsInv, PeerOf
  <2>1. UNCHANGED sweep
    BY Zenon, <1>2
       DEF SessionStep, AcceptSession, DialSession, OwnerClaim, ProjectSession, KeepSession,
       RejectSession, RollbackClaim, RollbackMark, RestoreProjection, FrameSession, ProjectFrame,
       BindFrame, SettleFrame, ExitIO, ReleaseIO, MarkIO, FallBack, Session
  <2>2. CASE OwnerClaim(i)
    <3>1. sess[i].a \in Addrs
      BY Zenon, <2>0, <2>2 DEF OwnerClaim, SessionOK, Claiming
    <3>2. QED
      BY Zenon, <1>0, <2>0, <2>1, <2>2, <3>1, ClaimSessionOrderly DEF OwnerClaim
  <2>3. CASE RollbackClaim(i)
    <3>1. sess[i].a \in Addrs
      BY Zenon, <2>0, <2>3 DEF RollbackClaim, SessionOK, Claiming
    <3>2. QED
      BY Zenon, <1>0, <2>1, <2>3, <3>1, ReleaseOrderly DEF RollbackClaim
  <2>4. CASE ReleaseIO(i)
    BY Zenon, <1>0, <2>1, <2>4, ReleaseSessionOrderly DEF ReleaseIO
  <2>5. CASE o' = o
    BY Zenon, <1>1, <2>1, <2>5
  <2>6. QED
    BY Zenon, <1>2, <2>2, <2>3, <2>4, <2>5
       DEF SessionStep, AcceptSession, DialSession, ProjectSession,
       KeepSession, RejectSession, RollbackMark, RestoreProjection, FrameSession, ProjectFrame,
       BindFrame, SettleFrame, ExitIO, MarkIO
<1>3. ASSUME NEW r \in Requests, RequestStep(r) PROVE Orderly(o, o') /\ UNCHANGED sweep
  <2>1. UNCHANGED sweep
    BY Zenon, <1>3
       DEF RequestStep, AskConfigure, ProjectConfigured, MarkEvicted, NotifyConnect, Request
  <2>2. CASE AskConfigure(r)
    BY Zenon, <1>0, <2>1, <2>2, ClaimsAssumption, ConfigurePeerOrderly DEF AskConfigure
  <2>3. CASE o' = o
    BY Zenon, <1>1, <2>1, <2>3
  <2>4. QED
    BY Zenon, <1>3, <2>2, <2>3 DEF RequestStep, ProjectConfigured, MarkEvicted, NotifyConnect
<1>4. ASSUME NEW p \in Peers, NEW a \in Addrs, ConnectRoute(p, a)
      PROVE  Orderly(o, o') /\ UNCHANGED sweep
  BY Zenon, <1>0, <1>4, RouteOrderly DEF ConnectRoute, callers
<1>5. ASSUME NEW d \in Refreshes, RefreshStep(d) PROVE Orderly(o, o') /\ UNCHANGED sweep
  <2>1. UNCHANGED sweep
    BY Zenon, <1>5
       DEF RefreshStep, ResolveName, MigrateOwner, MoveEntry, MoveBack, MarkBack, Refresh
  <2>2. RefreshOf[d].from \in Addrs /\ RefreshOf[d].to \in Addrs /\ RefreshOf[d].from # RefreshOf[d].to
    BY Zenon, ClaimsAssumption
  <2>3. CASE MigrateOwner(d)
    BY Zenon, <1>0, <2>1, <2>2, <2>3, MigrateOrderly DEF MigrateOwner
  <2>4. CASE MoveBack(d)
    BY Zenon, <1>0, <2>1, <2>2, <2>4, MigrateOrderly DEF MoveBack
  <2>5. CASE o' = o
    BY Zenon, <1>1, <2>1, <2>5
  <2>6. QED
    BY Zenon, <1>5, <2>3, <2>4, <2>5 DEF RefreshStep, ResolveName, MoveEntry, MarkBack
<1>6. CASE EvictionStep
  <2>1. UNCHANGED sweep
    BY Zenon, <1>6 DEF EvictionStep, EnforceBounds, ReleaseEvicted, MarkReleased, Evict
  <2>2. CASE ReleaseEvicted
    <3>1. PICK e \in evict.todo : o' = Release(o, e.a, e.node, e.gen)
      BY Zenon, <2>2 DEF ReleaseEvicted
    <3>2. e.a \in Addrs
      BY Zenon DEF ClaimsInv, EvictOK
    <3>3. QED
      BY Zenon, <1>0, <2>1, <3>1, <3>2, ReleaseOrderly
  <2>3. CASE o' = o
    BY Zenon, <1>1, <2>1, <2>3
  <2>4. QED
    BY Zenon, <1>6, <2>2, <2>3 DEF EvictionStep, EnforceBounds, MarkReleased
<1>7. QED
  BY Zenon, <1>2, <1>3, <1>4, <1>5, <1>6

(* Evidence of life invalidates a reservation that was not yet consumed.      *)
LEMMA NoteFence ==
    ASSUME ClaimsInv, FenceInv, NoteResponse
    PROVE  FenceInv'
<1>1. OwnerOK(o) /\ o' = NoteLivenessEvidence(o, resp.a, resp.at) /\ sweep' = sweep
  BY Zenon DEF ClaimsInv, NoteResponse
<1>2. /\ o'.owner = o.owner /\ o'.gen = o.gen /\ o'.committed = o.committed /\ o'.pinned = o.pinned
      /\ \A b \in Addrs : b # resp.a => o'.seen[b] = o.seen[b] /\ o'.reserved[b] = o.reserved[b]
      /\ resp.a \in Addrs => o'.reserved[resp.a] = IF o.reserved[resp.a] = "pending"
                                                   THEN "invalidated" ELSE o.reserved[resp.a]
  BY <1>1, EvidenceFields
<1>3. ASSUME NEW w \in Sweeps PROVE SweepFence(sweep[w], o')
  <2>1. SweepOK(sweep[w]) /\ SweepFence(sweep[w], o)
    BY Zenon DEF ClaimsInv, FenceInv
  <2>2. CASE sweep[w].pc \notin Holding
    BY Zenon, <2>1, <2>2 DEF SweepFence, Holding
  <2>3. CASE sweep[w].pc \in Holding
    <3> DEFINE b == sweep[w].c.a
    <3>1. b \in Addrs /\ o.reserved[b] # "none"
      BY Zenon, <2>1, <2>3 DEF SweepOK, SweepFence
    <3> HIDE DEF b
    <3>2. /\ o'.reserved[b] # "none"
          /\ o'.reserved[b] = "pending" => o.reserved[b] = "pending" /\ o'.seen[b] = o.seen[b]
      BY Zenon, <1>2, <3>1
    <3>3. CurrentToken(o', b) = CurrentToken(o, b)
      BY Zenon, <1>2 DEF CurrentToken
    <3>4. \A n : HasNewerEvidence(o', b, n) => HasNewerEvidence(o, b, n) \/ o'.reserved[b] # "pending"
      BY Zenon, <1>2, <3>2 DEF HasNewerEvidence
    <3>5. QED
      BY Zenon, <1>2, <2>1, <2>3, <3>2, <3>3, <3>4 DEF SweepFence, b
  <2>4. QED
    BY Zenon, <2>2, <2>3
<1>4. QED
  BY Zenon, <1>1, <1>3 DEF FenceInv

(* Every step keeps the fences.                                               *)
LEMMA FenceStep ==
    ASSUME ClaimsInv, EntriesInv, FenceInv, ClaimsNext
    PROVE  FenceInv'
<1>1. ASSUME NEW w \in Sweeps, SweepStep(w) \/ AbortSweep(w) PROVE FenceInv'
  BY Zenon, <1>1, SweepStepFence
<1>2. CASE NoteResponse
  BY Zenon, <1>2, NoteFence
<1>3. CASE (\E a \in Addrs : Fail(a) \/ Response(a)) \/ ResetFailures
  BY Zenon, <1>3 DEF Fail, Response, ResetFailures, FenceInv, callers
<1>4. ASSUME \/ \E i \in Instances : SessionStep(i)
             \/ \E r \in Requests : RequestStep(r)
             \/ \E p \in Peers, a \in Addrs : ConnectRoute(p, a)
             \/ \E d \in Refreshes : RefreshStep(d)
             \/ EvictionStep
      PROVE  FenceInv'
  <2>1. Orderly(o, o') /\ UNCHANGED sweep
    BY Zenon, <1>4, OthersOrderly
  <2>2. QED
    BY Zenon, <2>1, FenceKept DEF Orderly
<1>5. QED
  BY Zenon, <1>1, <1>2, <1>3, <1>4 DEF ClaimsNext

ReapInv == ClaimsInv /\ EntriesInv /\ FenceInv

(* The fences are those of ReapFenced.                                        *)
LEMMA FencesHold == ReapInv => ReapFenced
<1> SUFFICES ASSUME ReapInv PROVE ReapFenced
  OBVIOUS
<1>1. ASSUME NEW w \in Sweeps PROVE SweepFence(sweep[w], o)
  BY Zenon DEF ReapInv, FenceInv
<1>2. ASSUME NEW w \in Sweeps, sweep[w].c # None
      PROVE  /\ o.reserved[sweep[w].c.a] # "none"
             /\ \A v \in Sweeps \ {w} : sweep[v].c # None => sweep[v].c.a # sweep[w].c.a
  <2>1. \A v \in Sweeps : sweep[v].c # None => sweep[v].pc \in Holding
    BY Zenon, <1>1 DEF SweepFence
  <2>2. QED
    BY Zenon, <1>1, <1>2, <2>1 DEF SweepFence, ReapInv, FenceInv
<1>3. ASSUME NEW w \in Sweeps
      PROVE  LET c == sweep[w].c IN
             /\ sweep[w].pc = "verdict" /\ o.reserved[c.a] = "pending"
                   => ~HasNewerEvidence(o, c.a, c.before)
             /\ sweep[w].pc = "destroy" =>
                   /\ o.committed[c.a] <= c.before
                   /\ CurrentToken(o, c.a) \in {None, c.token}
                   /\ o.pinned[c.a] = c.pin
  <2>1. sweep[w].pc = "destroy" =>
                   /\ o.committed[sweep[w].c.a] <= sweep[w].c.before
                   /\ CurrentToken(o, sweep[w].c.a) \in {None, sweep[w].c.token}
                   /\ o.pinned[sweep[w].c.a] = sweep[w].c.pin
    BY Zenon, <1>1 DEF SweepFence
  <2>2. sweep[w].pc = "verdict" /\ o.reserved[sweep[w].c.a] = "pending"
           => ~HasNewerEvidence(o, sweep[w].c.a, sweep[w].c.before)
    BY Zenon, <1>1 DEF SweepFence
  <2>3. QED
    BY Zenon, <2>1, <2>2
<1>4. \A w \in Sweeps : sweep[w].c # None =>
         /\ o.reserved[sweep[w].c.a] # "none"
         /\ \A v \in Sweeps \ {w} : sweep[v].c # None => sweep[v].c.a # sweep[w].c.a
  BY Zenon, <1>2
<1>5. \A w \in Sweeps : LET c == sweep[w].c IN
         /\ sweep[w].pc = "verdict" /\ o.reserved[c.a] = "pending"
               => ~HasNewerEvidence(o, c.a, c.before)
         /\ sweep[w].pc = "destroy" =>
               /\ o.committed[c.a] <= c.before
               /\ CurrentToken(o, c.a) \in {None, c.token}
               /\ o.pinned[c.a] = c.pin
  BY Zenon, <1>3
<1>6. QED
  BY Zenon, <1>4, <1>5 DEF ReapFenced

(* Nothing is reserved when the registry starts.                              *)
LEMMA ReapStart == ClaimsInit => ReapInv
<1> SUFFICES ASSUME ClaimsInit PROVE ReapInv
  OBVIOUS
<1>1. ClaimsInv
  BY Zenon, ClaimsStart
<1>2. EntriesInv
  <2>1. [node |-> None, failed |-> 0] \in Entry
    BY Zenon DEF Entry
  <2>2. EntriesOK(peers)
    BY Zenon, <2>1 DEF ClaimsInit, EntriesOK
  <2>3. \A i \in Instances : sess[i].acc = "idle"
    BY Zenon DEF ClaimsInit, IdleSession
  <2>4. QED
    BY Zenon, <2>2, <2>3 DEF EntriesInv, PriorOK, ClaimsInit
<1>3. FenceInv
  <2>1. \A w \in Sweeps : sweep[w].pc = "idle" /\ sweep[w].c = None /\ sweep[w].todo = {}
    BY Zenon DEF ClaimsInit, IdleSweep
  <2>2. QED
    BY Zenon, <2>1 DEF FenceInv, SweepFence, Holding
<1>4. QED
  BY Zenon, <1>1, <1>2, <1>3 DEF ReapInv

(* The invariant is inductive.                                                *)
LEMMA ReapStep == ReapInv /\ [ClaimsNext]_cvars => ReapInv'
<1> SUFFICES ASSUME ReapInv, [ClaimsNext]_cvars PROVE ReapInv'
  OBVIOUS
<1>1. CASE ClaimsNext
  BY Zenon, <1>1, ClaimsStep, EntriesStep, FenceStep DEF ReapInv
<1>2. CASE UNCHANGED cvars
  BY Zenon, <1>2, ClaimsStep DEF ReapInv, EntriesInv, FenceInv, cvars, gossip, callers
<1>3. QED
  BY Zenon, <1>1, <1>2

(***************************************************************************)
(* The reap reservation protects what the dead-peer sweep decided on, for  *)
(* any sweeps, sessions, requests, refreshes and evictions: one sweep      *)
(* holds an address, consumes its reservation only without newer evidence  *)
(* of life, and destroys nothing that was claimed, repinned or moved       *)
(* meanwhile.                                                              *)
(***************************************************************************)
THEOREM ReapsStayFenced == ClaimsSpec => []ReapFenced
<1>1. ClaimsInit => ReapInv
  BY Zenon, ReapStart
<1>2. ReapInv /\ [ClaimsNext]_cvars => ReapInv'
  BY Zenon, ReapStep
<1>3. ReapInv => ReapFenced
  BY Zenon, FencesHold
<1>4. QED
  BY <1>1, <1>2, <1>3, PTL DEF ClaimsSpec

(***************************************************************************)
(* A session that created its claim and may still roll it back: as long as *)
(* the address has the generation of that claim, every receipt there is    *)
(* the session's own.                                                      *)
(***************************************************************************)
MayRollBack(t) == (t.acc \in {"project", "decide"} /\ t.created) \/ t.acc = "rollback"

OwnReceipts(i, t, s) ==
    MayRollBack(t) =>
        /\ t.g \in Nat /\ t.g > 0 /\ t.g <= s.seq
        /\ t.a \in Addrs
        /\ s.gen[t.a] = t.g => \A x \in s.receipts : x[3] = t.a => x[2] = i

ReceiptInv ==
    /\ \A i \in Instances : OwnReceipts(i, sess[i], o)
    /\ DOMAIN dns = Refreshes /\ \A d \in Refreshes : "pc" \in DOMAIN dns[d]

(* A command gives an address either a new generation or no receipt.          *)
LEMMA ReceiptsStayOwn ==
    ASSUME NEW i, NEW t, NEW s, NEW r, OwnerOK(s), Stamped(s, r), OwnReceipts(i, t, s)
    PROVE  OwnReceipts(i, t, r)
<1> SUFFICES ASSUME MayRollBack(t) PROVE OwnReceipts(i, t, r)
  BY Zenon DEF OwnReceipts
<1>1. /\ t.g \in Nat /\ t.g > 0 /\ t.g <= s.seq /\ t.a \in Addrs
      /\ s.gen[t.a] = t.g => \A x \in s.receipts : x[3] = t.a => x[2] = i
  BY Zenon DEF OwnReceipts
<1>2. s.seq \in Nat /\ r.seq \in Nat /\ r.seq >= s.seq
  BY Zenon DEF OwnerOK, OwnerType, Stamped
<1>3. r.gen[t.a] = t.g => \A x \in r.receipts : x[3] = t.a => x \in s.receipts /\ s.gen[t.a] = t.g
  BY <1>1, <1>2 DEF Stamped
<1>4. QED
  BY <1>1, <1>2, <1>3 DEF OwnReceipts

(* Every step stamps what it commits.                                         *)
LEMMA StampedStep ==
    ASSUME ClaimsInv, ClaimsNext
    PROVE  Stamped(o, o')
<1>0. OwnerOK(o) /\ Stamped(o, o)
  BY Zenon, SameOrderly DEF ClaimsInv, Orderly
<1>a. ASSUME o'.gen = o.gen, o'.seq = o.seq, o'.receipts = o.receipts PROVE Stamped(o, o')
  BY Zenon, <1>0, <1>a DEF Stamped
<1>b. ASSUME NEW a, NEW v, o' = [o EXCEPT !.reserved[a] = v] PROVE Stamped(o, o')
  BY <1>0, <1>a, <1>b, ReservationFields
<1>1. ASSUME NEW w \in Sweeps, SweepStep(w) \/ AbortSweep(w) PROVE Stamped(o, o')
  <2>0. SweepOK(sweep[w])
    BY Zenon DEF ClaimsInv
  <2>1. CASE ReserveDead(w)
    <3>1. PICK c : o' = ReserveForReap(o, c.a, c.before, c.token, c.pin, c.node)
      BY Zenon, <2>1 DEF ReserveDead
    <3>2. QED
      BY Zenon, <1>0, <1>b, <3>1 DEF ReserveForReap
  <2>2. CASE ConsumeReservation(w)
    <3>1. PICK v : o' = [o EXCEPT !.reserved[sweep[w].c.a] = v]
      BY ZenonT(30), <2>2 DEF ConsumeReservation, TryConsume
    <3>2. QED
      BY Zenon, <1>b, <3>1
  <2>3. CASE ReleaseDead(w)
    <3>1. sweep[w].c.a \in Addrs
      BY Zenon, <2>0, <2>3 DEF ReleaseDead, SweepOK, Holding
    <3>2. QED
      BY Zenon, <1>0, <2>3, <3>1, ReleaseDeadPeerOrderly DEF ReleaseDead, Orderly
  <2>4. CASE FreeReservation(w)
    BY Zenon, <1>b, <2>4 DEF FreeReservation, ReleaseReservation
  <2>5. CASE o' = o
    BY Zenon, <1>0, <2>5
  <2>6. QED
    BY Zenon, <1>1, <2>1, <2>2, <2>3, <2>4, <2>5
       DEF SweepStep, SelectDead, AskVerdict, MarkDead, AbortSweep
<1>2. CASE NoteResponse
  BY <1>0, <1>2, <1>a, EvidenceFields DEF NoteResponse
<1>3. CASE (\E a \in Addrs : Fail(a) \/ Response(a)) \/ ResetFailures
  BY Zenon, <1>0, <1>3 DEF Fail, Response, ResetFailures
<1>4. ASSUME \/ \E i \in Instances : SessionStep(i)
             \/ \E r \in Requests : RequestStep(r)
             \/ \E p \in Peers, a \in Addrs : ConnectRoute(p, a)
             \/ \E d \in Refreshes : RefreshStep(d)
             \/ EvictionStep
      PROVE  Stamped(o, o')
  BY Zenon, <1>4, OthersOrderly DEF Orderly
<1>5. QED
  BY Zenon, <1>1, <1>2, <1>3, <1>4 DEF ClaimsNext

(* A session's step leaves only its own receipts where it may roll back.      *)
LEMMA SessionReceipts ==
    ASSUME ClaimsInv, ReceiptInv, Stamped(o, o'), NEW i \in Instances, SessionStep(i)
    PROVE  OwnReceipts(i, sess'[i], o')
<1> DEFINE s == sess[i]
<1>0. /\ SessionOK(s) /\ PeerOf(i) \in Peers /\ OwnerOK(o) /\ OwnReceipts(i, s, o)
      /\ OwnReceipts(i, s, o')
  BY Zenon, ClaimsAssumption, ReceiptsStayOwn DEF ClaimsInv, ReceiptInv, PeerOf
<1>a. ASSUME NEW t, Session(i, t), ~MayRollBack(t) PROVE OwnReceipts(i, sess'[i], o')
  BY Zenon, <1>a DEF ClaimsInv, Session, OwnReceipts
<1>b. ASSUME NEW t, Session(i, t), t.a = s.a, t.g = s.g, MayRollBack(t) => MayRollBack(s)
      PROVE  OwnReceipts(i, sess'[i], o')
  BY Zenon, <1>0, <1>b DEF ClaimsInv, Session, OwnReceipts
<1>c. ASSUME NEW t PROVE ~MayRollBack(Returned(t))
  BY ZenonT(30) DEF MayRollBack, Returned, IdleSession
<1>d. ASSUME NEW retry, retry \in {"claim", "frameClaim"}, FallBack(i, retry)
      PROVE  OwnReceipts(i, sess'[i], o')
  <2> DEFINE f == [s EXCEPT !.acc = retry, !.a = SessionOf[i].source, !.kind = Verified, !.at = Now]
  <2>1. f.acc = retry
    BY Zenon, <1>0 DEF SessionOK, SessionFields
  <2>2. Session(i, f) \/ Session(i, Returned(s))
    BY Zenon, <1>d DEF FallBack
  <2> HIDE DEF f
  <2>3. QED
    BY Zenon, <1>a, <1>c, <1>d, <2>1, <2>2 DEF MayRollBack
<1>1. CASE AcceptSession(i) \/ DialSession(i) \/ FrameSession(i) \/ RollbackMark(i)
  <2>1. sess'[i].acc \in {"claim", "frameClaim", "restore"}
    <3>1. CASE AcceptSession(i)
      BY Zenon, <1>0, <3>1 DEF AcceptSession, Session, SessionOK, SessionFields, ClaimsInv
    <3>2. CASE DialSession(i)
      BY Zenon, <1>0, <3>2 DEF DialSession, Session, SessionOK, SessionFields, ClaimsInv
    <3>3. CASE FrameSession(i)
      <4> DEFINE t(form) ==
            [s EXCEPT !.by = IF s.acc = "first" THEN "accept" ELSE "io",
                      !.acc = "frameClaim", !.a = SessionOf[i].target, !.at = Now,
                      !.kind = IF SessionOf[i].target = SessionOf[i].source
                               THEN Verified ELSE Provisional,
                      !.frames = @ + 1, !.form = form]
      <4>1. \A form : t(form).acc = "frameClaim"
        BY ZenonT(30), <1>0 DEF SessionOK, SessionFields
      <4>2. \E form : Session(i, t(form))
        BY Zenon, <3>3 DEF FrameSession
      <4> HIDE DEF t
      <4>3. QED
        BY Zenon, <4>1, <4>2 DEF Session, ClaimsInv
    <3>4. CASE RollbackMark(i)
      BY Zenon, <1>0, <3>4 DEF RollbackMark, Session, SessionOK, SessionFields, ClaimsInv
    <3>5. QED
      BY Zenon, <1>1, <3>1, <3>2, <3>3, <3>4
  <2>2. QED
    BY Zenon, <2>1 DEF OwnReceipts, MayRollBack
<1>2. CASE OwnerClaim(i)
  <2> DEFINE t == [s EXCEPT !.acc = IF @ = "claim" THEN "project" ELSE "frameProject",
                            !.g = o.seq + 1, !.created = o.owner[s.a] = None]
  <2>1. CASE ~Accepts(o, s.a, PeerOf(i), s.kind)
    BY Zenon, <1>2, <1>d, <2>1 DEF OwnerClaim
  <2>2. CASE Accepts(o, s.a, PeerOf(i), s.kind)
    <3>1. s.a \in Addrs /\ Session(i, t) /\ o' = ClaimSession(o, s.a, PeerOf(i), s.kind, i, s.at)
      BY Zenon, <1>0, <1>2, <2>2 DEF OwnerClaim, SessionOK, Claiming
    <3>2. /\ t.a = s.a /\ t.g = o.seq + 1 /\ t.acc \in {"project", "frameProject"}
          /\ t.created => o.owner[s.a] = None
      BY ZenonT(30), <1>0 DEF SessionOK, SessionFields
    <3> HIDE DEF t
    <3>3. o'.receipts \subseteq o.receipts \union {<<PeerOf(i), i, s.a>>} /\ o'.seq = o.seq + 1
      BY <1>0, <2>2, <3>1, ClaimSessionOrderly
    <3>4. o.seq \in Nat
      BY Zenon, <1>0 DEF OwnerOK, OwnerType
    <3>5. ASSUME MayRollBack(t), NEW x \in o'.receipts, x[3] = s.a PROVE x[2] = i
      <4>1. o.owner[s.a] = None
        BY Zenon, <3>2, <3>5 DEF MayRollBack
      <4>2. x \notin o.receipts
        BY Zenon, <1>0, <3>5, <4>1 DEF OwnerOK, Coherent, Owned
      <4>3. QED
        BY <3>3, <3>5, <4>2
    <3>6. OwnReceipts(i, t, o')
      BY <3>1, <3>2, <3>3, <3>4, <3>5 DEF OwnReceipts
    <3>7. QED
      BY Zenon, <3>1, <3>6 DEF ClaimsInv, Session
  <2>3. QED
    BY Zenon, <2>1, <2>2
<1>3. CASE ProjectSession(i)
  <2> DEFINE t == [s EXCEPT !.acc = "decide", !.io = "up"]
  <2>1. /\ t.a = s.a /\ t.g = s.g /\ t.created = s.created /\ t.acc = "decide" /\ s.acc = "project"
    BY ZenonT(30), <1>0, <1>3 DEF ProjectSession, SessionOK, SessionFields
  <2>2. Session(i, t) \/ FallBack(i, "claim")
    BY Zenon, <1>3 DEF ProjectSession
  <2> HIDE DEF t
  <2>3. MayRollBack(t) => MayRollBack(s)
    BY Zenon, <2>1 DEF MayRollBack
  <2>4. QED
    BY Zenon, <1>b, <1>d, <2>1, <2>2, <2>3
<1>4. CASE KeepSession(i)
  <2>1. sess'[i].acc \in {"first", "done"}
    BY Zenon, <1>4 DEF KeepSession, Session, Returned, IdleSession, ClaimsInv
  <2>2. QED
    BY Zenon, <2>1 DEF OwnReceipts, MayRollBack
<1>5. CASE RejectSession(i)
  <2> DEFINE t == [s EXCEPT !.io = IF @ = "up" THEN "exit" ELSE @]
             u == [t EXCEPT !.acc = "rollback"]
  <2>1. s.acc = "decide" /\ t.created = s.created /\ u.a = s.a /\ u.g = s.g
    BY ZenonT(30), <1>0, <1>5 DEF RejectSession, SessionOK, SessionFields
  <2>2. \/ t.created /\ Session(i, u)
        \/ Session(i, Returned(t))
    BY Zenon, <1>5 DEF RejectSession
  <2> HIDE DEF t, u
  <2>3. t.created => MayRollBack(s)
    BY Zenon, <2>1 DEF MayRollBack
  <2>4. QED
    BY Zenon, <1>a, <1>b, <1>c, <2>1, <2>2, <2>3
<1>6. CASE RollbackClaim(i)
  <2> DEFINE t == [s EXCEPT !.acc = "retract", !.g = o.seq + 1]
  <2>1. t.acc = "retract"
    BY Zenon, <1>0 DEF SessionOK, SessionFields
  <2>2. Session(i, t) \/ Session(i, Returned(s))
    BY Zenon, <1>6 DEF RollbackClaim
  <2> HIDE DEF t
  <2>3. QED
    BY Zenon, <1>a, <1>c, <2>1, <2>2 DEF MayRollBack
<1>7. CASE RestoreProjection(i) \/ ProjectFrame(i) \/ BindFrame(i) \/ SettleFrame(i)
  <2>1. /\ [s EXCEPT !.acc = "frameBind"].acc = "frameBind"
        /\ [s EXCEPT !.acc = "frameSettle"].acc = "frameSettle"
    BY ZenonT(30), <1>0 DEF SessionOK, SessionFields
  <2>2. \/ Session(i, [s EXCEPT !.acc = "frameBind"])
        \/ Session(i, [s EXCEPT !.acc = "frameSettle"])
        \/ Session(i, Returned(s))
    BY Zenon, <1>7 DEF RestoreProjection, ProjectFrame, BindFrame, SettleFrame
  <2>3. QED
    BY Zenon, <1>a, <1>c, <2>1, <2>2 DEF MayRollBack
<1>8. CASE ExitIO(i)
  <2> DEFINE e == [s EXCEPT !.io = "exit"]
  <2>1. e.a = s.a /\ e.g = s.g /\ e.acc = s.acc /\ e.created = s.created
    BY ZenonT(30), <1>0 DEF SessionOK, SessionFields
  <2>2. Session(i, e) \/ Session(i, Returned(e))
    BY Zenon, <1>8 DEF ExitIO
  <2> HIDE DEF e
  <2>3. MayRollBack(e) => MayRollBack(s)
    BY Zenon, <2>1 DEF MayRollBack
  <2>4. QED
    BY Zenon, <1>a, <1>b, <1>c, <2>1, <2>2, <2>3
<1>9. CASE ReleaseIO(i) \/ MarkIO(i)
  <2>1. PICK x, y : Session(i, [s EXCEPT !.io = x, !.tomb = y])
                    \/ Session(i, [s EXCEPT !.tomb = y, !.io = x])
    <3>1. CASE ReleaseIO(i)
      BY ZenonT(30), <3>1 DEF ReleaseIO
    <3>2. CASE MarkIO(i)
      <4>1. PICK t \in s.tomb :
             Session(i, [s EXCEPT !.tomb = @ \ {t}, !.io = IF s.tomb = {t} THEN "gone" ELSE @])
        BY ZenonT(30), <3>2 DEF MarkIO
      <4>2. QED
        BY ZenonT(30), <4>1
    <3>3. QED
      BY Zenon, <1>9, <3>1, <3>2
  <2> DEFINE e == [s EXCEPT !.io = x, !.tomb = y]
             f == [s EXCEPT !.tomb = y, !.io = x]
  <2>2. /\ e.a = s.a /\ e.g = s.g /\ e.acc = s.acc /\ e.created = s.created
        /\ f.a = s.a /\ f.g = s.g /\ f.acc = s.acc /\ f.created = s.created
    BY ZenonT(30), <1>0 DEF SessionOK, SessionFields
  <2> HIDE DEF e, f
  <2>3. (MayRollBack(e) => MayRollBack(s)) /\ (MayRollBack(f) => MayRollBack(s))
    BY Zenon, <2>2 DEF MayRollBack
  <2>4. Session(i, e) \/ Session(i, f)
    BY Zenon, <2>1 DEF e, f
  <2>5. QED
    BY Zenon, <1>b, <2>2, <2>3, <2>4
<1>10. QED
  BY Zenon, <1>1, <1>2, <1>3, <1>4, <1>5, <1>6, <1>7, <1>8, <1>9 DEF SessionStep

(* Every step keeps the receipts of the sessions that may roll back.          *)
LEMMA ReceiptStep ==
    ASSUME ClaimsInv, ReceiptInv, ClaimsNext
    PROVE  ReceiptInv'
<1>0. Stamped(o, o') /\ OwnerOK(o)
  BY Zenon, StampedStep DEF ClaimsInv
<1>1. \A i \in Instances : OwnReceipts(i, sess[i], o')
  BY Zenon, <1>0, ReceiptsStayOwn DEF ReceiptInv
<1>2. ASSUME NEW i \in Instances, SessionStep(i) PROVE ReceiptInv'
  <2>1. OwnReceipts(i, sess'[i], o')
    BY Zenon, <1>0, <1>2, SessionReceipts
  <2>2. dns' = dns /\ \A j \in Instances \ {i} : sess'[j] = sess[j]
    BY Zenon, <1>2
       DEF ClaimsInv, SessionStep, AcceptSession, DialSession, OwnerClaim, ProjectSession,
       KeepSession, RejectSession, RollbackClaim, RollbackMark, RestoreProjection, FrameSession,
       ProjectFrame, BindFrame, SettleFrame, ExitIO, ReleaseIO, MarkIO, FallBack, Session
  <2>3. QED
    BY Zenon, <1>1, <2>1, <2>2 DEF ReceiptInv
<1>3. ASSUME UNCHANGED <<sess, dns>> PROVE ReceiptInv'
  BY Zenon, <1>1, <1>3 DEF ReceiptInv
<1>4. ASSUME NEW a \in Addrs, Fail(a) \/ Response(a) PROVE ReceiptInv'
  BY Zenon, <1>3, <1>4 DEF Fail, Response, callers
<1>5. CASE NoteResponse \/ ResetFailures
  BY Zenon, <1>3, <1>5 DEF NoteResponse, ResetFailures
<1>6. ASSUME NEW w \in Sweeps, SweepStep(w) \/ AbortSweep(w) PROVE ReceiptInv'
  BY Zenon, <1>3, <1>6 DEF SweepStep, AbortSweep, SelectDead, ReserveDead, AskVerdict,
     ConsumeReservation, ReleaseDead, MarkDead, FreeReservation, Sweep
<1>7. ASSUME NEW r \in Requests, RequestStep(r) PROVE ReceiptInv'
  BY Zenon, <1>3, <1>7
     DEF RequestStep, AskConfigure, ProjectConfigured, MarkEvicted, NotifyConnect, Request
<1>8. ASSUME NEW p \in Peers, NEW a \in Addrs, ConnectRoute(p, a) PROVE ReceiptInv'
  BY Zenon, <1>3, <1>8 DEF ConnectRoute, callers
<1>9. ASSUME NEW d \in Refreshes, RefreshStep(d) PROVE ReceiptInv'
  <2>1. sess' = sess
    BY Zenon, <1>9
       DEF RefreshStep, ResolveName, MigrateOwner, MoveEntry, MoveBack, MarkBack, Refresh
  <2>2. PICK n : dns' = [dns EXCEPT ![d] = n] /\ DOMAIN n = DOMAIN dns[d]
    BY ZenonT(30), <1>9
       DEF RefreshStep, ResolveName, MigrateOwner, MoveEntry, MoveBack, MarkBack, Refresh
  <2>3. DOMAIN dns' = Refreshes /\ \A e \in Refreshes : "pc" \in DOMAIN dns'[e]
    BY Zenon, <2>2 DEF ReceiptInv
  <2>4. QED
    BY Zenon, <1>1, <2>1, <2>3 DEF ReceiptInv
<1>10. CASE EvictionStep
  BY Zenon, <1>3, <1>10 DEF EvictionStep, EnforceBounds, ReleaseEvicted, MarkReleased, Evict
<1>11. QED
  BY Zenon, <1>2, <1>4, <1>5, <1>6, <1>7, <1>8, <1>9, <1>10 DEF ClaimsNext

(* A lost receipt was its own session's, the reaped or evicted address's, the *)
(* lifted pin's, or moved along.                                              *)
LEMMA LossExplained ==
    ASSUME ClaimsInv, ReceiptInv, ClaimsNext
    PROVE  ReceiptLossExplained
<1>0. OwnerOK(o)
  BY Zenon DEF ClaimsInv
<1>a. ASSUME o.receipts \subseteq o'.receipts PROVE ReceiptLossExplained
  BY Zenon, <1>a DEF ReceiptLossExplained
<1>b. ASSUME o' = o PROVE ReceiptLossExplained
  BY Zenon, <1>a, <1>b
<1>1. ASSUME NEW j \in Instances, SessionStep(j) PROVE ReceiptLossExplained
  <2>0. SessionOK(sess[j]) /\ PeerOf(j) \in Peers /\ OwnReceipts(j, sess[j], o)
    BY Zenon, ClaimsAssumption DEF ClaimsInv, PeerOf, ReceiptInv
  <2>1. CASE OwnerClaim(j)
    <3>1. sess[j].a \in Addrs
      BY Zenon, <2>0, <2>1 DEF OwnerClaim, SessionOK, Claiming
    <3>2. QED
      BY Zenon, <1>0, <1>a, <2>0, <2>1, <3>1, ClaimSessionOrderly DEF OwnerClaim
  <2>2. CASE RollbackClaim(j)
    <3> DEFINE s == sess[j]
    <3>1. s.a \in Addrs /\ s.acc = "rollback" /\ o' = Release(o, s.a, PeerOf(j), s.g)
      BY Zenon, <2>0, <2>2 DEF RollbackClaim, SessionOK, Claiming
    <3>2. \A x \in o.receipts : x \in o'.receipts \/ (Releases(o, s.a, PeerOf(j), s.g) /\ x[3] = s.a)
      BY <1>0, <3>1, ReleaseOrderly
    <3>3. \A x \in o.receipts \ o'.receipts : x[3] = s.a /\ x[2] = j
      BY Zenon, <2>0, <3>1, <3>2 DEF Releases, OwnReceipts, MayRollBack
    <3>4. Releases(o, s.a, PeerOf(j), s.g) => sess'[j].acc = "retract"
      BY Zenon, <2>0, <2>2 DEF ClaimsInv, RollbackClaim, Session, SessionOK, SessionFields
    <3>5. QED
      BY Zenon, <3>1, <3>2, <3>3, <3>4 DEF ReceiptLossExplained
  <2>3. CASE ReleaseIO(j)
    <3>1. \A x \in o.receipts \ o'.receipts : x[2] = j
      BY Zenon, <1>0, <2>3, ReleaseSessionOrderly DEF ReleaseIO
    <3>2. sess[j].io = "exit" /\ sess'[j].io # "exit"
      <4> DEFINE A == SessionReleases(o, PeerOf(j), j)
                 x == IF A = {} THEN "gone" ELSE "mark"
      <4>1. PICK y : Session(j, [sess[j] EXCEPT !.io = x, !.tomb = y])
        BY Zenon, <2>3 DEF ReleaseIO
      <4>2. [sess[j] EXCEPT !.io = x, !.tomb = y].io = x /\ x # "exit"
        BY Zenon, <2>0 DEF SessionOK, SessionFields
      <4> HIDE DEF x
      <4>3. QED
        BY Zenon, <2>3, <4>1, <4>2 DEF ClaimsInv, Session, ReleaseIO
    <3>3. QED
      BY Zenon, <3>1, <3>2 DEF ReceiptLossExplained
  <2>4. CASE o' = o
    BY Zenon, <1>b, <2>4
  <2>5. QED
    BY Zenon, <1>1, <2>1, <2>2, <2>3, <2>4
       DEF SessionStep, AcceptSession, DialSession, ProjectSession,
       KeepSession, RejectSession, RollbackMark, RestoreProjection, FrameSession, ProjectFrame,
       BindFrame, SettleFrame, ExitIO, MarkIO
<1>2. CASE NoteResponse
  BY <1>0, <1>2, <1>a, EvidenceFields DEF NoteResponse
<1>3. CASE (\E a \in Addrs : Fail(a) \/ Response(a)) \/ ResetFailures
  BY Zenon, <1>3, <1>b DEF Fail, Response, ResetFailures
<1>4. ASSUME NEW w \in Sweeps, SweepStep(w) \/ AbortSweep(w) PROVE ReceiptLossExplained
  <2>0. SweepOK(sweep[w])
    BY Zenon DEF ClaimsInv
  <2>a. ASSUME NEW a, NEW v, o' = [o EXCEPT !.reserved[a] = v] PROVE ReceiptLossExplained
    BY <1>0, <1>a, <2>a, ReservationFields
  <2>1. CASE ReserveDead(w)
    <3>1. PICK c : o' = ReserveForReap(o, c.a, c.before, c.token, c.pin, c.node)
      BY Zenon, <2>1 DEF ReserveDead
    <3>2. QED
      BY Zenon, <1>b, <2>a, <3>1 DEF ReserveForReap
  <2>2. CASE ConsumeReservation(w)
    <3>1. PICK v : o' = [o EXCEPT !.reserved[sweep[w].c.a] = v]
      BY ZenonT(30), <2>2 DEF ConsumeReservation, TryConsume
    <3>2. QED
      BY Zenon, <2>a, <3>1
  <2>3. CASE ReleaseDead(w)
    <3>1. sweep[w].c.a \in Addrs /\ sweep[w].pc = "destroy"
      BY Zenon, <2>0, <2>3 DEF ReleaseDead, SweepOK, Holding
    <3>2. \A x \in o.receipts \ o'.receipts : x[3] = sweep[w].c.a
      BY Zenon, <1>0, <2>3, <3>1, ReleaseDeadPeerOrderly DEF ReleaseDead
    <3>3. sweep'[w].pc \in {"mark", "release"}
      BY Zenon, <2>0, <2>3 DEF ReleaseDead, Sweep, ClaimsInv, SweepOK, SweepFields
    <3>4. QED
      BY Zenon, <3>1, <3>2, <3>3 DEF ReceiptLossExplained
  <2>4. CASE FreeReservation(w)
    BY Zenon, <2>a, <2>4 DEF FreeReservation, ReleaseReservation
  <2>5. CASE o' = o
    BY Zenon, <1>b, <2>5
  <2>6. QED
    BY Zenon, <1>4, <2>1, <2>2, <2>3, <2>4, <2>5
       DEF SweepStep, SelectDead, AskVerdict, MarkDead, AbortSweep
<1>5. ASSUME NEW q \in Requests, RequestStep(q) PROVE ReceiptLossExplained
  <2>1. CASE AskConfigure(q)
    <3>1. \A x \in o.receipts \ o'.receipts : o.pinnedBy[x[1]] = x[3] /\ o'.pinnedBy[x[1]] # x[3]
      BY <1>0, <2>1, ClaimsAssumption, ConfigurePeerOrderly DEF AskConfigure
    <3>2. QED
      BY Zenon, <3>1 DEF ReceiptLossExplained
  <2>2. CASE o' = o
    BY Zenon, <1>b, <2>2
  <2>3. QED
    BY Zenon, <1>5, <2>1, <2>2 DEF RequestStep, ProjectConfigured, MarkEvicted, NotifyConnect
<1>6. ASSUME NEW p \in Peers, NEW a \in Addrs, ConnectRoute(p, a) PROVE ReceiptLossExplained
  BY Zenon, <1>0, <1>6, <1>a, RouteOrderly DEF ConnectRoute
<1>7. ASSUME NEW d \in Refreshes, RefreshStep(d) PROVE ReceiptLossExplained
  <2>0. /\ RefreshOf[d].from \in Addrs /\ RefreshOf[d].to \in Addrs
        /\ RefreshOf[d].from # RefreshOf[d].to
        /\ d \in DOMAIN dns /\ "pc" \in DOMAIN dns[d]
    BY Zenon, ClaimsAssumption DEF ReceiptInv
  <2>a. ASSUME NEW a \in Addrs, dns'[d] # dns[d],
               \A x \in o.receipts : x \in o'.receipts \/ <<x[1], x[2], a>> \in o'.receipts
        PROVE  ReceiptLossExplained
    BY Zenon, <2>a DEF ReceiptLossExplained
  <2>1. CASE MigrateOwner(d)
    <3>1. dns'[d].pc \in {"project", "done"} /\ dns[d].pc = "migrate"
      BY ZenonT(30), <2>0, <2>1 DEF MigrateOwner, Refresh
    <3>2. o' = Migrate(o, RefreshOf[d].from, RefreshOf[d].to, dns[d].token)
      BY Zenon, <2>1 DEF MigrateOwner
    <3>3. \/ o' = o
          \/ \A x \in o.receipts : x \in o'.receipts \/ <<x[1], x[2], RefreshOf[d].to>> \in o'.receipts
      BY Zenon, <1>0, <2>0, <3>2, MigrateOrderly
    <3>4. QED
      BY Zenon, <1>b, <2>0, <2>a, <3>1, <3>3
  <2>2. CASE MoveBack(d)
    <3>1. dns'[d].pc \in {"mark", "stranded"} /\ dns[d].pc = "restore"
      BY ZenonT(30), <2>0, <2>2 DEF MoveBack, Refresh
    <3>2. PICK token : o' = Migrate(o, RefreshOf[d].to, RefreshOf[d].from, token)
      BY Zenon, <2>2 DEF MoveBack
    <3>3. \/ o' = o
          \/ \A x \in o.receipts : x \in o'.receipts \/ <<x[1], x[2], RefreshOf[d].from>> \in o'.receipts
      BY Zenon, <1>0, <2>0, <3>2, MigrateOrderly
    <3>4. QED
      BY Zenon, <1>b, <2>0, <2>a, <3>1, <3>3
  <2>3. CASE o' = o
    BY Zenon, <1>b, <2>3
  <2>4. QED
    BY Zenon, <1>7, <2>1, <2>2, <2>3 DEF RefreshStep, ResolveName, MoveEntry, MarkBack
<1>8. CASE EvictionStep
  <2>1. CASE ReleaseEvicted
    <3>1. PICK e \in evict.todo : /\ o' = Release(o, e.a, e.node, e.gen)
                                 /\ \E x : evict' = [evict EXCEPT !.todo = @ \ {e},
                                                          !.released = x]
      BY ZenonT(30), <2>1 DEF ReleaseEvicted, Evict
    <3>2. e.a \in Addrs /\ e \notin evict'.todo
      BY ZenonT(30), <3>1 DEF ClaimsInv, EvictOK, EvictFields
    <3>3. \A y \in o.receipts \ o'.receipts : Releases(o, e.a, e.node, e.gen) /\ y[3] = e.a
      BY <1>0, <3>1, <3>2, ReleaseOrderly
    <3>4. Releases(o, e.a, e.node, e.gen)
             => CurrentToken(o, e.a) = [node |-> e.node, gen |-> e.gen]
      BY Zenon DEF Releases, Owned, CurrentToken
    <3>5. QED
      BY Zenon, <3>1, <3>2, <3>3, <3>4 DEF ReceiptLossExplained
  <2>2. CASE EnforceBounds \/ MarkReleased
    BY Zenon, <1>b, <2>2 DEF EnforceBounds, MarkReleased
  <2>3. QED
    BY Zenon, <1>8, <2>1, <2>2 DEF EvictionStep
<1>9. QED
  BY Zenon, <1>1, <1>2, <1>3, <1>4, <1>5, <1>6, <1>7, <1>8 DEF ClaimsNext

(***************************************************************************)
(* A session's receipt is lost only by its own end or rollback, to the     *)
(* reap of its address, to the eviction of an entry (enforce_bounds) whose *)
(* address nobody has claimed since, with the peer's lifted pin, or to the *)
(* address a migration moved it to: release_session and release_addr of    *)
(* one session never take another's, for any sessions, peers, addresses    *)
(* and bound on the peer table.                                            *)
(***************************************************************************)
THEOREM ReceiptsAlwaysKept == ClaimsSpec => ReceiptsKept
<1> DEFINE Inv == ClaimsInv /\ ReceiptInv
<1>1. ClaimsInit => Inv
  <2> SUFFICES ASSUME ClaimsInit PROVE Inv
    OBVIOUS
  <2>1. \A i \in Instances : sess[i].acc = "idle"
    BY Zenon DEF ClaimsInit, IdleSession
  <2>2. DOMAIN dns = Refreshes /\ \A d \in Refreshes : "pc" \in DOMAIN dns[d]
    BY Zenon DEF ClaimsInit, IdleRefresh
  <2>3. QED
    BY Zenon, <2>1, <2>2, ClaimsStart DEF ReceiptInv, OwnReceipts, MayRollBack
<1>2. Inv /\ [ClaimsNext]_cvars => Inv'
  <2> SUFFICES ASSUME Inv, [ClaimsNext]_cvars PROVE Inv'
    OBVIOUS
  <2>1. CASE ClaimsNext
    BY Zenon, <2>1, ClaimsStep, ReceiptStep
  <2>2. CASE UNCHANGED cvars
    BY Zenon, <2>2, ClaimsStep DEF ReceiptInv, cvars, callers
  <2>3. QED
    BY Zenon, <2>1, <2>2
<1>3. Inv /\ [ClaimsNext]_cvars => [ReceiptLossExplained]_cvars
  BY Zenon, LossExplained
<1> HIDE DEF Inv
<1>4. QED
  BY <1>1, <1>2, <1>3, PTL DEF ClaimsSpec, ReceiptsKept
=============================================================================
