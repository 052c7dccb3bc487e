--------------------------- MODULE OwnerCommands ----------------------------
(***************************************************************************)
(* Every command of the owner task keeps its tables in agreement           *)
(* (Coherent): the ones that claim, give back or reserve an address, and   *)
(* the ones that move pins, configure_peer and migrate.  No command but    *)
(* those of the sweep that holds it touches a reserved address (Fenced),   *)
(* and a receipt appears only with a new generation (Stamped).             *)
(***************************************************************************)
EXTENDS RegistryOwner, FiniteSetTheorems, TLAPS

Tables == {"owner", "gen", "committed", "seen", "receipts", "pinned", "pinnedBy", "reserved",
           "cfgGen", "seq", "required", "snapOwner", "snapPin", "snapPinBy"}

IsRecord(s) == DOMAIN s = Tables /\ s = [t \in Tables |-> s[t]]

OwnerType(s) ==
    /\ IsRecord(s)
    /\ s.owner \in [Addrs -> Owner \union {None}]
    /\ s.gen \in [Addrs -> Nat] /\ s.seq \in Nat
    /\ DOMAIN s.committed = Addrs /\ DOMAIN s.seen = Addrs /\ DOMAIN s.reserved = Addrs
    /\ s.receipts \subseteq Peers \X Instances \X Addrs
    /\ s.pinned \in [Addrs -> Peers \union {None}]
    /\ s.pinnedBy \in [Peers -> Addrs \union {None}]
    /\ s.required \in [Peers -> Addrs \union {None}]
    /\ s.snapOwner \in [Addrs -> [owner : Owner, gen : Nat] \union {None}]
    /\ s.snapPin \in [Addrs -> Peers \union {None}]
    /\ s.snapPinBy \in [Peers -> Addrs \union {None}]

OwnerOK(s) == OwnerType(s) /\ Coherent(s)

(* A new owner task has nothing to disagree about. *)
LEMMA InitOK == OwnerOK(OwnerInit)
<1>1. IsRecord(OwnerInit)
  BY SMTT(30) DEF IsRecord, OwnerInit, Tables
<1>2. OwnerType(OwnerInit)
  BY Zenon, <1>1 DEF OwnerType, OwnerInit
<1>3. Coherent(OwnerInit)
  <2> DEFINE i == OwnerInit
  <2>1. /\ i.owner = [a \in Addrs |-> None] /\ i.gen = [a \in Addrs |-> 0] /\ i.seq = 0
        /\ i.receipts = {} /\ i.pinned = [a \in Addrs |-> None]
        /\ i.pinnedBy = [p \in Peers |-> None] /\ i.snapOwner = [a \in Addrs |-> None]
        /\ i.snapPin = i.pinned /\ i.snapPinBy = i.pinnedBy
    BY Zenon DEF OwnerInit
  <2> HIDE DEF i
  <2>2. QED
    BY <2>1, OwnerAssumption DEF Coherent, Owned, i
<1>4. QED
  BY Zenon, <1>2, <1>3 DEF OwnerOK

(* What the tables promise of the pins.                                    *)
LEMMA PinFacts ==
    ASSUME NEW s, OwnerOK(s)
    PROVE  /\ s.pinned \in [Addrs -> Peers \union {None}]
           /\ s.pinnedBy \in [Peers -> Addrs \union {None}]
           /\ s.required \in [Peers -> Addrs \union {None}]
           /\ \A a \in Addrs : s.pinned[a] # None =>
                    s.pinnedBy[s.pinned[a]] = a /\ Owned(s, a, s.pinned[a])
           /\ \A p \in Peers : s.pinnedBy[p] # None =>
                    s.pinned[s.pinnedBy[p]] = p /\ s.required[p] = s.pinnedBy[p]
           /\ s.snapPin = s.pinned /\ s.snapPinBy = s.pinnedBy
  BY Zenon DEF OwnerOK, OwnerType, Coherent

(* What the tables promise of the owners and their generations.            *)
LEMMA StampFacts ==
    ASSUME NEW s, OwnerOK(s)
    PROVE  /\ s.seq \in Nat /\ s.gen \in [Addrs -> Nat]
           /\ s.owner \in [Addrs -> Owner \union {None}]
           /\ \A a \in Addrs : /\ s.owner[a] = None <=> s.gen[a] = 0
                               /\ s.gen[a] <= s.seq
                               /\ s.owner[a] # None => s.owner[a].kind = Verified
                               /\ \A b \in Addrs : s.gen[a] = s.gen[b] /\ s.gen[a] # 0 => a = b
           /\ \A a \in Addrs : s.snapOwner[a] = IF s.owner[a] = None THEN None
                                               ELSE [owner |-> s.owner[a], gen |-> s.gen[a]]
  BY Zenon DEF OwnerOK, OwnerType, Coherent

(* A command that changes nothing but the pins keeps the tables coherent   *)
(* when it leaves pinned and pinnedBy inverse of each other and published. *)
LEMMA RepinnedCoherent ==
    ASSUME NEW s, OwnerOK(s), NEW r,
           r.owner = s.owner, r.gen = s.gen, r.seq = s.seq, r.receipts = s.receipts,
           r.snapOwner = s.snapOwner, r.snapPin = r.pinned, r.snapPinBy = r.pinnedBy,
           \A a \in Addrs : r.pinned[a] # None =>
                    r.pinnedBy[r.pinned[a]] = a /\ Owned(r, a, r.pinned[a]),
           \A p \in Peers : r.pinnedBy[p] # None =>
                    r.pinned[r.pinnedBy[p]] = p /\ r.required[p] = r.pinnedBy[p]
    PROVE  Coherent(r)
  BY DEF OwnerOK, Coherent, Owned

(* What the tables promise of the receipts.                                *)
LEMMA ReceiptFacts ==
    ASSUME NEW s, OwnerOK(s), NEW x \in s.receipts
    PROVE  /\ x \in Peers \X Instances \X Addrs /\ x[3] \in Addrs
           /\ Owned(s, x[3], x[1])
  BY Zenon DEF OwnerOK, OwnerType, Coherent

(* Retracting owners that are not pinned. *)
LEMMA RetractOK ==
    ASSUME NEW s, OwnerOK(s), NEW A \in SUBSET Addrs, \A a \in A : s.pinned[a] = None
    PROVE  OwnerOK(Retract(s, A))
<1> DEFINE r == Retract(s, A)
<1>1. Cardinality(A) \in Nat
  BY Zenon, OwnerAssumption, FS_Subset, FS_CardinalityType
<1>2. IsRecord(r)
  BY ZenonT(30) DEF OwnerOK, OwnerType, IsRecord, Retract, Tables
<1>. /\ r.owner = [a \in Addrs |-> IF a \in A THEN None ELSE s.owner[a]]
     /\ r.gen = [a \in Addrs |-> IF a \in A THEN 0 ELSE s.gen[a]]
     /\ DOMAIN r.committed = Addrs /\ DOMAIN r.seen = Addrs
     /\ r.receipts = {x \in s.receipts : x[3] \notin A}
     /\ r.seq = s.seq + Cardinality(A)
     /\ r.snapOwner = [a \in Addrs |-> IF a \in A THEN None ELSE s.snapOwner[a]]
     /\ r.pinned = s.pinned /\ r.pinnedBy = s.pinnedBy /\ r.reserved = s.reserved
     /\ r.required = s.required /\ r.snapPin = s.snapPin /\ r.snapPinBy = s.snapPinBy
  BY Zenon DEF OwnerOK, OwnerType, IsRecord, Retract, Tables
<1> HIDE DEF r
<1>3. OwnerType(r)
  BY <1>1, <1>2 DEF OwnerOK, OwnerType
<1>4. Coherent(r)
  BY <1>1, OwnerAssumption DEF OwnerOK, OwnerType, Coherent, Owned
<1>5. QED
  BY Zenon, <1>3, <1>4 DEF OwnerOK, r

(* Commands that touch neither owners nor pins, and drop receipts at most. *)
LEMMA SameOK ==
    ASSUME NEW s, OwnerOK(s), NEW r, IsRecord(r),
           r.owner = s.owner, r.gen = s.gen, r.seq = s.seq, r.receipts \subseteq s.receipts,
           DOMAIN r.committed = Addrs, DOMAIN r.seen = Addrs, DOMAIN r.reserved = Addrs,
           r.pinned = s.pinned, r.pinnedBy = s.pinnedBy, r.required = s.required,
           r.snapOwner = s.snapOwner, r.snapPin = s.snapPin, r.snapPinBy = s.snapPinBy
    PROVE  OwnerOK(r)
<1>1. OwnerType(r)
  BY Zenon DEF OwnerOK, OwnerType
<1>2. Coherent(r)
  BY DEF OwnerOK, OwnerType, Coherent, Owned
<1>3. QED
  BY Zenon, <1>1, <1>2 DEF OwnerOK

(* What an accepted claim changes: one owner, which was free or already    *)
(* the claimant's, under a new generation.                                 *)
LEMMA AcceptedClaim ==
    ASSUME NEW s, OwnerOK(s), NEW a \in Addrs, NEW p \in Peers,
           NEW kind \in {Provisional, Verified}, Accepts(s, a, p, kind)
    PROVE  /\ s.owner[a] = None \/ Owned(s, a, p)
           /\ ResolvedKind(s.owner[a], p, kind) = Verified
<1>1. CASE s.owner[a] = None
  BY Zenon, <1>1 DEF Accepts, Arbitrate, ResolvedKind
<1>2. CASE s.owner[a] # None
  <2>1. s.owner[a] \in Owner /\ s.owner[a].kind = Verified
    BY <1>2 DEF OwnerOK, OwnerType, Coherent
  <2>2. s.owner[a].node = p
    BY Zenon, <1>2, <2>1 DEF Accepts, Arbitrate, Provisional, Verified
  <2>3. s.owner[a] = [node |-> p, kind |-> Verified]
    BY Zenon, <2>1, <2>2 DEF Owner
  <2>4. QED
    BY Zenon, <1>2, <2>2, <2>3 DEF ResolvedKind, Owned
<1>3. QED
  BY Zenon, <1>1, <1>2

(* claim_addr: whatever it decides, the tables agree afterwards.              *)
LEMMA ClaimOK ==
    ASSUME NEW s, OwnerOK(s), NEW a \in Addrs, NEW p \in Peers,
           NEW kind \in {Provisional, Verified}
    PROVE  /\ OwnerOK(Claim(s, a, p, kind))
           /\ Accepts(s, a, p, kind) => Owned(Claim(s, a, p, kind), a, p)
<1> DEFINE r == Claim(s, a, p, kind)
<1>1. CASE ~Accepts(s, a, p, kind)
  BY Zenon, <1>1 DEF Claim
<1>2. CASE Accepts(s, a, p, kind)
  <2> DEFINE w == [node |-> p, kind |-> Verified]
  <2>1. /\ s.owner[a] = None \/ Owned(s, a, p)
        /\ ResolvedKind(s.owner[a], p, kind) = Verified
    BY Zenon, <1>2, AcceptedClaim
  <2>2. IsRecord(r)
    BY ZenonT(30), <1>2 DEF OwnerOK, OwnerType, IsRecord, Claim, PublishOwner, Tables
  <2>3. /\ r.owner = [s.owner EXCEPT ![a] = w]
        /\ r.gen = [s.gen EXCEPT ![a] = s.seq + 1]
        /\ r.seq = s.seq + 1
        /\ r.snapOwner = [s.snapOwner EXCEPT ![a] = [owner |-> w, gen |-> s.seq + 1]]
        /\ r.committed = s.committed /\ r.seen = s.seen /\ r.reserved = s.reserved
        /\ r.receipts = s.receipts /\ r.pinned = s.pinned /\ r.pinnedBy = s.pinnedBy
        /\ r.required = s.required /\ r.snapPin = s.snapPin /\ r.snapPinBy = s.snapPinBy
    BY Zenon, <1>2, <2>1 DEF OwnerOK, OwnerType, IsRecord, Claim, PublishOwner, Tables
  <2>4. w \in Owner /\ w.node = p /\ w.kind = Verified
    BY Zenon DEF Owner
  <2> HIDE DEF r, w
  <2>5. OwnerType(r)
    BY <2>2, <2>3, <2>4 DEF OwnerOK, OwnerType
  <2>6. Owned(r, a, p)
    BY <2>3, <2>4, OwnerAssumption DEF OwnerOK, OwnerType, Owned
  <2>7. Coherent(r)
    BY <2>1, <2>3, <2>4, OwnerAssumption DEF OwnerOK, OwnerType, Coherent, Owned
  <2>8. QED
    BY Zenon, <2>5, <2>6, <2>7 DEF OwnerOK, r
<1>3. QED
  BY Zenon, <1>1, <1>2

(* The claim of a session, which also records its receipt.                    *)
LEMMA ClaimSessionOK ==
    ASSUME NEW s, OwnerOK(s), NEW a \in Addrs, NEW p \in Peers, NEW i \in Instances,
           NEW kind \in {Provisional, Verified}, NEW at
    PROVE  OwnerOK(ClaimSession(s, a, p, kind, i, at))
<1> DEFINE c == Claim(s, a, p, kind)
           r == ClaimSession(s, a, p, kind, i, at)
<1>1. CASE ~Accepts(s, a, p, kind)
  BY Zenon, <1>1 DEF ClaimSession
<1>2. CASE Accepts(s, a, p, kind)
  <2>1. OwnerOK(c) /\ Owned(c, a, p)
    BY Zenon, <1>2, ClaimOK
  <2> HIDE DEF c
  <2>2. r = [c EXCEPT !.committed[a] = at,
                      !.receipts = IF s.pinned[a] = p THEN @ ELSE @ \union {<<p, i, a>>}]
    BY Zenon, <1>2 DEF ClaimSession, c
  <2> HIDE DEF r
  <2>3. IsRecord(r)
    BY ZenonT(30), <2>1, <2>2 DEF OwnerOK, OwnerType, IsRecord, Tables
  <2>4. /\ r.owner = c.owner /\ r.gen = c.gen /\ r.seq = c.seq
        /\ r.receipts \in {c.receipts, c.receipts \union {<<p, i, a>>}}
        /\ DOMAIN r.committed = Addrs /\ r.seen = c.seen /\ r.reserved = c.reserved
        /\ r.pinned = c.pinned /\ r.pinnedBy = c.pinnedBy /\ r.required = c.required
        /\ r.snapOwner = c.snapOwner /\ r.snapPin = c.snapPin /\ r.snapPinBy = c.snapPinBy
    BY Zenon, <2>1, <2>2 DEF OwnerOK, OwnerType, IsRecord, Tables
  <2>5. OwnerType(r)
    BY <2>1, <2>3, <2>4 DEF OwnerOK, OwnerType
  <2>6. \A x \in r.receipts : Owned(r, x[3], x[1])
    BY <2>1, <2>4 DEF OwnerOK, Coherent, Owned
  <2>7. Coherent(r)
    BY <2>1, <2>4, <2>6 DEF OwnerOK, OwnerType, Coherent, Owned
  <2>8. QED
    BY Zenon, <2>5, <2>7 DEF OwnerOK, r
<1>3. QED
  BY Zenon, <1>1, <1>2

(* release_addr: a pinned address and one of another owner are left alone.    *)
LEMMA ReleaseOK ==
    ASSUME NEW s, OwnerOK(s), NEW a \in Addrs, NEW p, NEW g
    PROVE  OwnerOK(Release(s, a, p, g))
<1>1. CASE Releases(s, a, p, g)
  BY Zenon, <1>1, RetractOK, \A b \in {a} : s.pinned[b] = None DEF Releases, Release
<1>2. CASE ~Releases(s, a, p, g)
  BY Zenon, <1>2 DEF Release
<1>3. QED
  BY Zenon, <1>1, <1>2

(* Dropping receipts alone. *)
LEMMA DropOK ==
    ASSUME NEW s, OwnerOK(s), NEW R \in SUBSET s.receipts
    PROVE  /\ OwnerOK([s EXCEPT !.receipts = R])
           /\ [s EXCEPT !.receipts = R].pinned = s.pinned
<1> DEFINE r == [s EXCEPT !.receipts = R]
<1>1. IsRecord(r)
  BY Zenon DEF OwnerOK, OwnerType, IsRecord, Tables
<1>2. /\ r.owner = s.owner /\ r.gen = s.gen /\ r.seq = s.seq /\ r.receipts = R
      /\ r.committed = s.committed /\ r.seen = s.seen /\ r.reserved = s.reserved
      /\ r.pinned = s.pinned /\ r.pinnedBy = s.pinnedBy /\ r.required = s.required
      /\ r.snapOwner = s.snapOwner /\ r.snapPin = s.snapPin /\ r.snapPinBy = s.snapPinBy
  BY Zenon DEF OwnerOK, OwnerType, IsRecord, Tables
<1> HIDE DEF r
<1>3. DOMAIN r.committed = Addrs /\ DOMAIN r.seen = Addrs /\ DOMAIN r.reserved = Addrs
  BY Zenon, <1>2 DEF OwnerOK, OwnerType
<1>4. OwnerOK(r)
  BY Zenon, <1>1, <1>2, <1>3, SameOK
<1>5. QED
  BY Zenon, <1>2, <1>4 DEF r

(* A session gives back its own claim, by its receipt.                        *)
LEMMA ReleaseSessionOK ==
    ASSUME NEW s, OwnerOK(s), NEW p, NEW i
    PROVE  OwnerOK(ReleaseSession(s, p, i))
<1> DEFINE R == {x \in s.receipts : ~(x[1] = p /\ x[2] = i)}
           d == [s EXCEPT !.receipts = R]
           A == SessionReleases(s, p, i)
<1>1. OwnerOK(d) /\ d.pinned = s.pinned
  BY Zenon, DropOK, R \in SUBSET s.receipts
<1>2. A \in SUBSET Addrs /\ \A a \in A : s.pinned[a] = None
  BY Zenon DEF SessionReleases
<1>3. ReleaseSession(s, p, i) = Retract(d, A)
  BY Zenon DEF ReleaseSession
<1> HIDE DEF d, A
<1>4. OwnerOK(Retract(d, A))
  BY Zenon, <1>1, <1>2, RetractOK
<1>5. QED
  BY Zenon, <1>3, <1>4

(* The end of a reap takes the claim of a dead peer away.                     *)
LEMMA ReleaseDeadPeerOK ==
    ASSUME NEW s, OwnerOK(s), NEW p, NEW a \in Addrs, NEW before
    PROVE  OwnerOK(ReleaseDeadPeer(s, p, a, before))
<1> DEFINE R == {x \in s.receipts : ~(x[1] = p /\ x[3] = a)}
           d == [s EXCEPT !.receipts = R]
<1>1. OwnerOK(d) /\ d.pinned = s.pinned
  BY Zenon, DropOK, R \in SUBSET s.receipts
<1>2. DeadReleases(s, p, a, before) => s.pinned[a] = None
  BY Zenon DEF DeadReleases
<1>3. ReleaseDeadPeer(s, p, a, before) \in {s, d}
      \/ /\ ReleaseDeadPeer(s, p, a, before) = Retract(d, {a})
         /\ s.pinned[a] = None
  BY <1>2 DEF ReleaseDeadPeer
<1> HIDE DEF d
<1>4. s.pinned[a] = None => OwnerOK(Retract(d, {a}))
  BY Zenon, <1>1, RetractOK, \A b \in {a} : b = a
<1>5. QED
  BY Zenon, <1>1, <1>3, <1>4

(* Evidence, reservations and configuration generations. *)
LEMMA EvidenceOK ==
    ASSUME NEW s, OwnerOK(s), NEW a, NEW at, NEW v
    PROVE  /\ OwnerOK(NoteLivenessEvidence(s, a, at))
           /\ OwnerOK([s EXCEPT !.reserved[a] = v])
           /\ OwnerOK([s EXCEPT !.cfgGen[a] = v])
<1>1. OwnerOK(NoteLivenessEvidence(s, a, at))
  <2> DEFINE r == NoteLivenessEvidence(s, a, at)
  <2>1. IsRecord(r)
    BY ZenonT(30) DEF NoteLivenessEvidence, OwnerOK, OwnerType, IsRecord, Tables
  <2>2. /\ r.owner = s.owner /\ r.gen = s.gen /\ r.seq = s.seq /\ r.receipts = s.receipts
        /\ r.pinned = s.pinned /\ r.pinnedBy = s.pinnedBy /\ r.required = s.required
        /\ r.snapOwner = s.snapOwner /\ r.snapPin = s.snapPin /\ r.snapPinBy = s.snapPinBy
        /\ DOMAIN r.committed = Addrs /\ DOMAIN r.seen = Addrs /\ DOMAIN r.reserved = Addrs
    BY Zenon DEF NoteLivenessEvidence, OwnerOK, OwnerType, IsRecord, Tables
  <2> HIDE DEF r
  <2>3. QED
    BY Zenon, <2>1, <2>2, SameOK DEF r
<1>2. OwnerOK([s EXCEPT !.reserved[a] = v])
  <2> DEFINE r == [s EXCEPT !.reserved[a] = v]
  <2>1. IsRecord(r)
    BY ZenonT(30) DEF OwnerOK, OwnerType, IsRecord, Tables
  <2>2. /\ r.owner = s.owner /\ r.gen = s.gen /\ r.seq = s.seq /\ r.receipts = s.receipts
        /\ r.pinned = s.pinned /\ r.pinnedBy = s.pinnedBy /\ r.required = s.required
        /\ r.snapOwner = s.snapOwner /\ r.snapPin = s.snapPin /\ r.snapPinBy = s.snapPinBy
        /\ DOMAIN r.committed = Addrs /\ DOMAIN r.seen = Addrs /\ DOMAIN r.reserved = Addrs
    BY Zenon DEF OwnerOK, OwnerType, IsRecord, Tables
  <2> HIDE DEF r
  <2>3. QED
    BY ZenonT(30), <2>1, <2>2, SameOK DEF r
<1>3. OwnerOK([s EXCEPT !.cfgGen[a] = v])
  <2> DEFINE r == [s EXCEPT !.cfgGen[a] = v]
  <2>1. IsRecord(r)
    BY Zenon DEF OwnerOK, OwnerType, IsRecord, Tables
  <2>2. /\ r.owner = s.owner /\ r.gen = s.gen /\ r.seq = s.seq /\ r.receipts = s.receipts
        /\ r.pinned = s.pinned /\ r.pinnedBy = s.pinnedBy /\ r.required = s.required
        /\ r.snapOwner = s.snapOwner /\ r.snapPin = s.snapPin /\ r.snapPinBy = s.snapPinBy
        /\ DOMAIN r.committed = Addrs /\ DOMAIN r.seen = Addrs /\ DOMAIN r.reserved = Addrs
    BY Zenon DEF OwnerOK, OwnerType, IsRecord, Tables
  <2> HIDE DEF r
  <2>3. QED
    BY ZenonT(30), <2>1, <2>2, SameOK DEF r
<1>4. QED
  BY Zenon, <1>1, <1>2, <1>3

(* An ordinary connect never moves the route of a pinned peer. *)
LEMMA RouteOK ==
    ASSUME NEW s, OwnerOK(s), NEW p \in Peers, NEW a \in Addrs
    PROVE  OwnerOK(SetOrdinaryConnectRoute(s, p, a))
<1> DEFINE r == [s EXCEPT !.required[p] = a]
<1>1. CASE s.pinnedBy[p] \in {None, a}
  <2>1. IsRecord(r)
    BY Zenon DEF OwnerOK, OwnerType, IsRecord, Tables
  <2>2. /\ r.owner = s.owner /\ r.gen = s.gen /\ r.seq = s.seq /\ r.receipts = s.receipts
        /\ r.pinned = s.pinned /\ r.pinnedBy = s.pinnedBy
        /\ r.required = [s.required EXCEPT ![p] = a]
        /\ r.snapOwner = s.snapOwner /\ r.snapPin = s.snapPin /\ r.snapPinBy = s.snapPinBy
        /\ r.committed = s.committed /\ r.seen = s.seen /\ r.reserved = s.reserved
    BY Zenon DEF OwnerOK, OwnerType, IsRecord, Tables
  <2> HIDE DEF r
  <2>3. OwnerType(r)
    BY SMTT(30), <2>1, <2>2 DEF OwnerOK, OwnerType
  <2>4. Coherent(r)
    BY <1>1, <2>2 DEF OwnerOK, OwnerType, Coherent, Owned
  <2>5. QED
    BY Zenon, <1>1, <2>3, <2>4 DEF OwnerOK, SetOrdinaryConnectRoute, r
<1>2. CASE s.pinnedBy[p] \notin {None, a}
  BY Zenon, <1>2 DEF SetOrdinaryConnectRoute
<1>3. QED
  BY Zenon, <1>1, <1>2

-----------------------------------------------------------------------------
(* Publishing a pin changes the two published tables only. *)
PinPublished(s, r, a, p) ==
    /\ IsRecord(r)
    /\ \A t \in Tables \ {"snapPin", "snapPinBy"} : r[t] = s[t]
    /\ r.snapPin = [s.snapPin EXCEPT ![a] = p]
    /\ r.snapPinBy = [q \in Peers |->
          IF q = p THEN a
          ELSE IF q = s.snapPin[a] /\ (p # None \/ s.snapPinBy[q] = a) THEN None
          ELSE s.snapPinBy[q]]

(* WithPin is such a publication.                                             *)
LEMMA WithPinFields ==
    ASSUME NEW s, IsRecord(s), NEW a, NEW p
    PROVE  PinPublished(s, WithPin(s, a, p), a, p)
<1> DEFINE r == WithPin(s, a, p)
<1>1. IsRecord(r)
  BY ZenonT(30) DEF WithPin, IsRecord, Tables
<1>2. \A t \in Tables \ {"snapPin", "snapPinBy"} : r[t] = s[t]
  BY ZenonT(30) DEF WithPin, IsRecord, Tables
<1>3. r.snapPin = [s.snapPin EXCEPT ![a] = p]
  BY Zenon DEF WithPin, IsRecord, Tables
<1>4. r.snapPinBy = [q \in Peers |->
                 IF q = p THEN a
                 ELSE IF q = s.snapPin[a] /\ (p # None \/ s.snapPinBy[q] = a) THEN None
                 ELSE s.snapPinBy[q]]
  BY Zenon DEF WithPin, IsRecord, Tables
<1>5. QED
  BY Zenon, <1>1, <1>2, <1>3, <1>4 DEF PinPublished

(* Installing a pin leaves owners, evidence and reservations alone; the    *)
(* peer's former pin is lifted and every other one stays.                  *)
PinInstalled(s, r, a, p) ==
    /\ r.owner = s.owner /\ r.gen = s.gen /\ r.seq = s.seq /\ r.receipts = s.receipts
    /\ r.committed = s.committed /\ r.seen = s.seen /\ r.reserved = s.reserved
    /\ r.pinnedBy[p] = a
    /\ EvictedPin(s, a, p) # None => r.pinned[EvictedPin(s, a, p)] = None
    /\ \A b \in Addrs \ {a, EvictedPin(s, a, p)} : r.pinned[b] = s.pinned[b]

(* A pin may be installed on an address its peer owns; the former pin of   *)
(* the peer is lifted.                                                     *)
LEMMA InstallPinOK ==
    ASSUME NEW s, OwnerOK(s), NEW a \in Addrs, NEW p \in Peers, Owned(s, a, p)
    PROVE  /\ OwnerOK(InstallPin(s, a, p))
           /\ PinInstalled(s, InstallPin(s, a, p), a, p)
<1> DEFINE e == EvictedPin(s, a, p)
           r == InstallPin(s, a, p)
           pins == [s EXCEPT
            !.pinned = [b \in Addrs |-> IF b = a THEN p
                                        ELSE IF b = e THEN None ELSE @[b]],
            !.pinnedBy = [q \in Peers |-> IF q = p THEN a
                                          ELSE IF q = s.pinned[a] /\ @[q] = a THEN None
                                          ELSE @[q]],
            !.required[p] = a]
           pub == WithPin(pins, a, p)
           lift == WithPin(pub, e, None)
<1>1. /\ e \in Addrs \union {None} /\ e # a
      /\ e # None => s.pinned[e] = p
      /\ s.pinned[a] \in {None, p}
      /\ \A b \in Addrs : s.pinned[b] = p => b \in {a, e}
      /\ \A q \in Peers : q # p => s.pinnedBy[q] # a
  BY OwnerAssumption DEF EvictedPin, OwnerOK, OwnerType, Coherent, Owned
<1>2. r = IF e = None THEN pub ELSE lift
  BY Zenon DEF InstallPin
<1> HIDE DEF e
<1>3. IsRecord(pins)
  BY ZenonT(60) DEF OwnerOK, OwnerType, IsRecord, Tables
<1>4. /\ pins.owner = s.owner /\ pins.gen = s.gen /\ pins.seq = s.seq
      /\ pins.receipts = s.receipts /\ pins.committed = s.committed /\ pins.seen = s.seen
      /\ pins.reserved = s.reserved /\ pins.snapOwner = s.snapOwner
      /\ pins.snapPin = s.snapPin /\ pins.snapPinBy = s.snapPinBy
      /\ pins.pinned = [b \in Addrs |-> IF b = a THEN p ELSE IF b = e THEN None ELSE s.pinned[b]]
      /\ pins.pinnedBy = [q \in Peers |-> IF q = p THEN a
                              ELSE IF q = s.pinned[a] /\ s.pinnedBy[q] = a THEN None
                              ELSE s.pinnedBy[q]]
      /\ pins.required = [s.required EXCEPT ![p] = a]
  BY Zenon DEF OwnerOK, OwnerType, IsRecord, Tables
<1> HIDE DEF pins
<1>5. PinPublished(pins, pub, a, p)
  BY Zenon, <1>3, WithPinFields
<1> HIDE DEF pub
<1>6. PinPublished(pub, lift, e, None)
  <2>1. IsRecord(pub)
    BY Zenon, <1>5 DEF PinPublished
  <2>2. QED
    BY Zenon, <2>1, WithPinFields
<1> HIDE DEF lift, r
<1>7. IsRecord(r) /\ \A t \in Tables \ {"snapPin", "snapPinBy"} : r[t] = pins[t]
  BY Zenon, <1>2, <1>5, <1>6 DEF PinPublished
<1>8. /\ r.owner = s.owner /\ r.gen = s.gen /\ r.seq = s.seq /\ r.receipts = s.receipts
      /\ r.committed = s.committed /\ r.seen = s.seen /\ r.reserved = s.reserved
      /\ r.snapOwner = s.snapOwner /\ r.pinned = pins.pinned /\ r.pinnedBy = pins.pinnedBy
      /\ r.required = pins.required
  BY Zenon, <1>4, <1>7 DEF Tables
<1>9. r.pinnedBy = [q \in Peers |-> IF q = p THEN a ELSE s.pinnedBy[q]]
  BY SMTT(30), <1>1, <1>4, <1>8, PinFacts
<1>10. r.snapPin = r.pinned
  BY SMTT(30), <1>1, <1>2, <1>4, <1>5, <1>6, <1>8, PinFacts, OwnerAssumption DEF PinPublished
<1>11. r.snapPinBy = r.pinnedBy
  <2>1. pub.snapPinBy = [q \in Peers |-> IF q = p THEN a ELSE s.pinnedBy[q]]
    BY <1>1, <1>4, <1>5, PinFacts, OwnerAssumption DEF PinPublished
  <2>2. e # None => pub.snapPin[e] = p
    BY <1>1, <1>4, <1>5, PinFacts DEF PinPublished
  <2>3. e # None => lift.snapPinBy = pub.snapPinBy
    BY <1>1, <1>6, <2>1, <2>2, OwnerAssumption DEF PinPublished
  <2>4. QED
    BY Zenon, <1>2, <1>9, <2>1, <2>3
<1>12. OwnerType(r)
  BY SMTT(30), <1>4, <1>7, <1>8, <1>9, <1>10, <1>11 DEF OwnerOK, OwnerType
<1>13. Coherent(r)
  <2>1. \A b \in Addrs : r.pinned[b] # None =>
              r.pinnedBy[r.pinned[b]] = b /\ Owned(r, b, r.pinned[b])
    BY <1>1, <1>4, <1>8, <1>9, PinFacts DEF Owned
  <2>2. \A q \in Peers : r.pinnedBy[q] # None =>
              r.pinned[r.pinnedBy[q]] = q /\ r.required[q] = r.pinnedBy[q]
    BY <1>1, <1>4, <1>8, <1>9, PinFacts, OwnerAssumption
  <2>3. QED
    BY Zenon, <1>8, <1>10, <1>11, <2>1, <2>2, RepinnedCoherent
<1>14. e # None => r.pinned[e] = None
  BY Zenon, <1>1, <1>4, <1>8
<1>15. \A b \in Addrs \ {a, e} : r.pinned[b] = s.pinned[b]
  BY <1>4, <1>8
<1>16. PinInstalled(s, r, a, p)
  <2>1. r.pinnedBy[p] = a
    BY Zenon, <1>9
  <2>2. QED
    BY Zenon, <1>8, <1>14, <1>15, <2>1 DEF PinInstalled, e
<1>17. QED
  BY Zenon, <1>12, <1>13, <1>16 DEF OwnerOK, r

(* configure_peer: a refused, a repeated and a moved configuration.           *)
LEMMA ConfigurePeerOK ==
    ASSUME NEW s, OwnerOK(s), NEW a \in Addrs, NEW p \in Peers, NEW expected
    PROVE  OwnerOK(ConfigurePeer(s, a, p, expected))
<1> DEFINE c == [s EXCEPT !.cfgGen[p] = ConfigureGeneration(s, a, p, expected)]
           cl == Claim(c, a, p, Verified)
           pin == InstallPin(cl, a, p)
           e == EvictedPin(c, a, p)
           R == {x \in pin.receipts : ~(x[1] = p /\ x[3] = e)}
           d == [pin EXCEPT !.receipts = R]
           A == EvictedOwned(c, a, p)
<1>1. OwnerOK(c)
  BY ZenonT(30), EvidenceOK
<1>2. CASE ConfigureOutcome(s, a, p, expected) # "applied"
  BY Zenon, <1>1, <1>2 DEF ConfigurePeer
<1>3. CASE ConfigureOutcome(s, a, p, expected) = "applied"
  <2>1. Accepts(s, a, p, Verified)
    BY Zenon, <1>3 DEF ConfigureOutcome
  <2>2. c.owner = s.owner /\ c.reserved = s.reserved
    BY Zenon DEF OwnerOK, OwnerType, IsRecord, Tables
  <2>3. ConfigurePeer(s, a, p, expected) = Reconfigure(c, a, p)
    BY Zenon, <1>3 DEF ConfigurePeer
  <2> HIDE DEF c
  <2>4. Accepts(c, a, p, Verified)
    BY Zenon, <2>1, <2>2 DEF Accepts, ClaimRefusedByReap
  <2>5. OwnerOK(cl) /\ Owned(cl, a, p)
    BY Zenon, <1>1, <2>4, ClaimOK
  <2>6. cl.pinnedBy = c.pinnedBy
    BY Zenon, <1>1, <2>4 DEF Claim, PublishOwner, OwnerOK, OwnerType, IsRecord, Tables
  <2>7. EvictedPin(cl, a, p) = e
    BY Zenon, <2>6 DEF EvictedPin
  <2>8. Reconfigure(c, a, p) = Retract(d, A)
    BY Zenon DEF Reconfigure
  <2> HIDE DEF cl, e
  <2>9. OwnerOK(pin) /\ (e # None => pin.pinned[e] = None)
    BY <2>5, <2>7, InstallPinOK DEF PinInstalled
  <2> HIDE DEF pin
  <2>10. OwnerOK(d) /\ d.pinned = pin.pinned
    BY Zenon, <2>9, DropOK, R \in SUBSET pin.receipts
  <2>11. A \in SUBSET Addrs /\ \A b \in A : b = e /\ b # None
    BY Zenon, OwnerAssumption DEF EvictedOwned, e
  <2> HIDE DEF d, A
  <2>12. OwnerOK(Retract(d, A))
    BY Zenon, <2>9, <2>10, <2>11, RetractOK
  <2>13. QED
    BY Zenon, <2>3, <2>8, <2>12
<1>4. QED
  BY Zenon, <1>2, <1>3

(* A migration takes owner, receipts and pin along. *)
LEMMA MigrateOK ==
    ASSUME NEW s, OwnerOK(s), NEW from \in Addrs, NEW to \in Addrs, from # to, NEW token
    PROVE  OwnerOK(Migrate(s, from, to, token))
<1> DEFINE g == s.seq + 1
           p == s.owner[from].node
           w == [node |-> p, kind |-> Verified]
           m == [s EXCEPT !.owner = [@ EXCEPT ![from] = None, ![to] = w],
                          !.gen = [@ EXCEPT ![from] = 0, ![to] = g],
                          !.seq = g,
                          !.receipts = MovedReceipts(s, from, to),
                          !.committed = Later(@, from, to), !.seen = Later(@, from, to),
                          !.snapOwner[from] = None]
           n == PublishOwner(m, to, w, g)
<1>1. CASE ~Migrates(s, from, to, token)
  BY Zenon, <1>1 DEF Migrate
<1>2. CASE Migrates(s, from, to, token)
  <2>1. s.owner[from] \in Owner /\ s.owner[from].kind = Verified /\ p \in Peers /\ token.node = p
    BY <1>2 DEF Migrates, CurrentToken, OwnerOK, OwnerType, Coherent, Owner
  <2>2. s.owner[to] = None \/ Owned(s, to, p)
    BY Zenon, <1>2, <2>1 DEF Migrates, Owned
  <2>3. Migrate(s, from, to, token) = MovePin(n, from, to)
    BY Zenon, <1>2, <2>1 DEF Migrate, ResolvedKind
  <2>4. IsRecord(n)
    <3>1. IsRecord(m)
      BY ZenonT(60) DEF OwnerOK, OwnerType, IsRecord, Tables
    <3> HIDE DEF m
    <3>2. QED
      BY Zenon, <3>1 DEF PublishOwner, IsRecord, Tables
  <2>5. /\ n.owner = [b \in Addrs |-> IF b = to THEN w ELSE IF b = from THEN None ELSE s.owner[b]]
        /\ n.gen = [b \in Addrs |-> IF b = to THEN g ELSE IF b = from THEN 0 ELSE s.gen[b]]
        /\ n.snapOwner = [b \in Addrs |-> IF b = to THEN [owner |-> w, gen |-> g]
                                          ELSE IF b = from THEN None ELSE s.snapOwner[b]]
        /\ n.seq = g
        /\ n.receipts = MovedReceipts(s, from, to)
    BY SMTT(30) DEF PublishOwner, OwnerOK, OwnerType, IsRecord, Tables
  <2>6. /\ n.pinned = s.pinned /\ n.pinnedBy = s.pinnedBy /\ n.reserved = s.reserved
        /\ n.required = s.required /\ n.snapPin = s.snapPin /\ n.snapPinBy = s.snapPinBy
        /\ DOMAIN n.committed = Addrs /\ DOMAIN n.seen = Addrs
    BY DEF PublishOwner, Later, OwnerOK, OwnerType, IsRecord, Tables
  <2>7. w \in Owner /\ w.node = p /\ w.kind = Verified
    BY Zenon, <2>1 DEF Owner
  <2> DEFINE r == MovePin(n, from, to)
             pins == [n EXCEPT !.pinned[from] = None, !.pinned[to] = p,
                               !.pinnedBy[p] = to, !.required[p] = to]
             off == WithPin(pins, from, None)
             on == WithPin(off, to, p)
  <2> HIDE DEF n, w
  <2>8. s.pinned[from] \in {None, p}
    BY Zenon, <2>1 DEF OwnerOK, OwnerType, Coherent, Owned
  <2>9. r = IF s.pinned[from] = None THEN n ELSE on
    <3>1. n.pinned[from] = s.pinned[from]
      BY Zenon, <2>6
    <3>2. CASE s.pinned[from] = None
      BY Zenon, <3>1, <3>2 DEF MovePin
    <3>3. CASE s.pinned[from] # None
      <4>1. n.pinned[from] = p
        BY Zenon, <2>8, <3>1, <3>3
      <4>2. QED
        BY <3>1, <3>3, <4>1 DEF MovePin
    <3>4. QED
      BY Zenon, <3>2, <3>3
  <2> HIDE DEF r
  <2>10. \A x \in n.receipts : /\ x \in Peers \X Instances \X Addrs
                               /\ x[3] # from
                               /\ x[3] = to => x[1] = p
                               /\ x[3] # to => x \in s.receipts
    BY <2>1, <2>2, <2>5, ReceiptFacts DEF MovedReceipts, Owned
  <2>11. \A x \in n.receipts : Owned(n, x[3], x[1])
    BY SMTT(30), <2>1, <2>5, <2>7, <2>10, ReceiptFacts, OwnerAssumption DEF Owned
  <2>12. \A b \in Addrs : /\ n.owner[b] = None <=> n.gen[b] = 0
                          /\ n.gen[b] <= n.seq
                          /\ n.owner[b] # None => n.owner[b].kind = Verified
                          /\ \A c \in Addrs : n.gen[b] = n.gen[c] /\ n.gen[b] # 0 => b = c
    BY <2>5, <2>7, StampFacts, OwnerAssumption
  <2>16. \A b \in Addrs : n.snapOwner[b] = IF n.owner[b] = None THEN None
                                           ELSE [owner |-> n.owner[b], gen |-> n.gen[b]]
    BY <2>5, <2>7, StampFacts, OwnerAssumption
  <2>13. CASE s.pinned[from] = None
    <3>1. OwnerType(n)
      BY SMTT(30), <2>4, <2>5, <2>6, <2>7, <2>10 DEF OwnerOK, OwnerType
    <3>2. \A b \in Addrs : n.pinned[b] # None =>
            n.pinnedBy[n.pinned[b]] = b /\ Owned(n, b, n.pinned[b])
      BY <2>2, <2>5, <2>6, <2>7, <2>13, PinFacts, OwnerAssumption DEF Owned
    <3>3. /\ \A q \in Peers : n.pinnedBy[q] # None =>
               n.pinned[n.pinnedBy[q]] = q /\ n.required[q] = n.pinnedBy[q]
          /\ n.snapPin = n.pinned /\ n.snapPinBy = n.pinnedBy
      BY <2>6 DEF OwnerOK, Coherent
    <3>5. Coherent(n)
      BY Zenon, <2>11, <2>12, <2>16, <3>2, <3>3 DEF Coherent
    <3>4. QED
      BY Zenon, <2>3, <2>9, <2>13, <3>1, <3>5 DEF OwnerOK, r
  <2>14. CASE s.pinned[from] = p
    <3>1. /\ s.pinnedBy[p] = from /\ s.pinned[to] = None
          /\ \A b \in Addrs : s.pinned[b] = p => b = from
          /\ \A q \in Peers : s.pinnedBy[q] = from => q = p
      BY <2>1, <2>2, <2>14, PinFacts, OwnerAssumption DEF Owned
    <3>2. IsRecord(pins)
      BY ZenonT(30), <2>4 DEF IsRecord, Tables
    <3>3. /\ \A t \in Tables \ {"pinned", "pinnedBy", "required"} : pins[t] = n[t]
          /\ pins.pinned = [s.pinned EXCEPT ![from] = None, ![to] = p]
          /\ pins.pinnedBy = [s.pinnedBy EXCEPT ![p] = to]
          /\ pins.required = [s.required EXCEPT ![p] = to]
      BY ZenonT(30), <2>4, <2>6 DEF IsRecord, Tables
    <3> HIDE DEF pins
    <3>4. PinPublished(pins, off, from, None)
      BY Zenon, <3>2, WithPinFields
    <3> HIDE DEF off
    <3>5. PinPublished(off, on, to, p)
      <4>1. IsRecord(off)
        BY Zenon, <3>4 DEF PinPublished
      <4>2. QED
        BY Zenon, <4>1, WithPinFields
    <3> HIDE DEF on
    <3>6. r = on /\ p # None
      BY Zenon, <2>1, <2>9, <2>14, OwnerAssumption
    <3>7. IsRecord(on) /\ \A t \in Tables \ {"snapPin", "snapPinBy"} : on[t] = pins[t]
      BY Zenon, <3>4, <3>5 DEF PinPublished
    <3>8. /\ on.owner = n.owner /\ on.gen = n.gen /\ on.seq = n.seq /\ on.receipts = n.receipts
          /\ on.committed = n.committed /\ on.seen = n.seen /\ on.reserved = n.reserved
          /\ on.snapOwner = n.snapOwner /\ on.pinned = pins.pinned
          /\ on.pinnedBy = pins.pinnedBy /\ on.required = pins.required
      BY Zenon, <3>3, <3>7 DEF Tables
    <3>9. off.snapPin = [s.pinned EXCEPT ![from] = None]
      BY Zenon, <2>6, <3>3, <3>4, PinFacts DEF PinPublished, Tables
    <3>10. on.snapPin = on.pinned
      BY SMTT(30), <3>3, <3>5, <3>8, <3>9, PinFacts DEF PinPublished
    <3>11. off.snapPinBy = [s.pinnedBy EXCEPT ![p] = None]
      BY SMTT(30), <2>1, <2>6, <2>14, <3>1, <3>3, <3>4, PinFacts, OwnerAssumption
         DEF PinPublished, Tables
    <3>12. on.snapPinBy = on.pinnedBy
      BY SMTT(30), <2>1, <3>1, <3>3, <3>5, <3>8, <3>9, <3>11, PinFacts, OwnerAssumption
         DEF PinPublished
    <3>13. OwnerType(on)
      <4>1. /\ on.owner \in [Addrs -> Owner \union {None}] /\ on.gen \in [Addrs -> Nat]
            /\ on.snapOwner \in [Addrs -> [owner : Owner, gen : Nat] \union {None}]
            /\ on.seq \in Nat /\ DOMAIN on.reserved = Addrs
        BY <2>5, <2>6, <2>7, <3>8 DEF OwnerOK, OwnerType
      <4>2. /\ on.receipts \subseteq Peers \X Instances \X Addrs
            /\ DOMAIN on.committed = Addrs /\ DOMAIN on.seen = Addrs
        BY Zenon, <2>6, <2>10, <3>8
      <4>3. /\ on.pinned \in [Addrs -> Peers \union {None}]
            /\ on.pinnedBy \in [Peers -> Addrs \union {None}]
            /\ on.required \in [Peers -> Addrs \union {None}]
        BY <2>1, <3>3, <3>8, PinFacts
      <4>4. QED
        BY Zenon, <3>7, <3>10, <3>12, <4>1, <4>2, <4>3 DEF OwnerType
    <3>14. \A b \in Addrs : on.pinned[b] # None =>
                on.pinnedBy[on.pinned[b]] = b /\ Owned(on, b, on.pinned[b])
      <4>1. \A b \in Addrs : on.pinned[b] =
                  IF b = to THEN p ELSE IF b = from THEN None ELSE s.pinned[b]
        BY <3>3, <3>8, PinFacts
      <4>2. \A q \in Peers : on.pinnedBy[q] = IF q = p THEN to ELSE s.pinnedBy[q]
        BY <3>3, <3>8, PinFacts
      <4>3. Owned(on, to, p)
        BY <2>1, <2>5, <2>7, <3>8, OwnerAssumption DEF Owned
      <4>4. \A b \in Addrs \ {from, to} : on.owner[b] = s.owner[b]
        BY SMTT(30), <2>5, <3>8
      <4>5. QED
        BY <2>1, <3>1, <4>1, <4>2, <4>3, <4>4, PinFacts DEF Owned
    <3>15. \A q \in Peers : on.pinnedBy[q] # None =>
                on.pinned[on.pinnedBy[q]] = q /\ on.required[q] = on.pinnedBy[q]
      <4>1. ASSUME NEW q \in Peers, s.pinnedBy[q] # None, q # p
            PROVE  s.pinnedBy[q] \in Addrs \ {from, to}
        BY <2>14, <3>1, <4>1, PinFacts, OwnerAssumption
      <4>2. on.pinnedBy[p] = to /\ on.pinned[to] = p /\ on.required[p] = to
        BY <2>1, <3>3, <3>8, PinFacts
      <4>3. \A q \in Peers \ {p} : /\ on.pinnedBy[q] = s.pinnedBy[q]
                                   /\ on.required[q] = s.required[q]
        BY <3>3, <3>8, PinFacts
      <4>4. \A b \in Addrs \ {from, to} : on.pinned[b] = s.pinned[b]
        BY <3>3, <3>8, PinFacts
      <4>5. QED
        BY SMTT(30), <4>1, <4>2, <4>3, <4>4, PinFacts
    <3>17. \A x \in on.receipts : Owned(on, x[3], x[1])
      BY Zenon, <2>11, <3>8 DEF Owned
    <3>18. Coherent(on)
      <4>1. \A b \in Addrs : /\ on.owner[b] = None <=> on.gen[b] = 0
                             /\ on.gen[b] <= on.seq
                             /\ on.owner[b] # None => on.owner[b].kind = Verified
                             /\ \A c \in Addrs : on.gen[b] = on.gen[c] /\ on.gen[b] # 0 => b = c
        <5>1. on.owner = n.owner /\ on.gen = n.gen /\ on.seq = n.seq
          BY Zenon, <3>8
        <5>2. QED
          BY <2>12, <5>1, Zenon
      <4>2. \A b \in Addrs : on.snapOwner[b] = IF on.owner[b] = None THEN None
                                              ELSE [owner |-> on.owner[b], gen |-> on.gen[b]]
        BY Zenon, <2>16, <3>8
      <4>3. QED
        BY Zenon, <4>1, <4>2, <3>10, <3>12, <3>14, <3>15, <3>17 DEF Coherent
    <3>16. QED
      BY Zenon, <2>3, <3>6, <3>13, <3>18 DEF OwnerOK, r
  <2>15. QED
    BY Zenon, <2>8, <2>13, <2>14
<1>3. QED
  BY Zenon, <1>1, <1>2

(***************************************************************************)
(* What a reservation protects.  Whatever commands run while an address is *)
(* reserved, the reservation and the pin stay, and the owner with its      *)
(* evidence stays or is gone altogether.                                   *)
(***************************************************************************)
FencedAt(s, r, b) ==
    /\ r.reserved[b] = s.reserved[b] /\ r.pinned[b] = s.pinned[b]
    /\ \/ /\ r.owner[b] = s.owner[b] /\ r.gen[b] = s.gen[b]
          /\ r.committed[b] = s.committed[b] /\ r.seen[b] = s.seen[b]
       \/ r.owner[b] = None /\ r.committed[b] = 0 /\ r.seen[b] = 0

Fenced(s, r) == \A b \in Addrs : s.reserved[b] # "none" => FencedAt(s, r, b)

(***************************************************************************)
(* What a command does to the generations: the commit sequence grows, and  *)
(* an address either keeps its generation and gets no receipt, or has none *)
(* or a new one.                                                           *)
(***************************************************************************)
Stamped(s, r) ==
    /\ r.seq \in Nat /\ r.seq >= s.seq
    /\ \A b \in Addrs : \/ /\ r.gen[b] = s.gen[b]
                           /\ \A x \in r.receipts : x[3] = b => x \in s.receipts
                        \/ r.gen[b] = 0
                        \/ r.gen[b] \in Nat /\ r.gen[b] > s.seq

Orderly(s, r) == Fenced(s, r) /\ Stamped(s, r)

(* A command that leaves owners, evidence, pins and reservations alone.       *)
LEMMA SameOrderly ==
    ASSUME NEW s, OwnerOK(s), NEW r,
           r.owner = s.owner, r.gen = s.gen, r.seq = s.seq, r.receipts \subseteq s.receipts,
           r.committed = s.committed, r.seen = s.seen, r.reserved = s.reserved,
           r.pinned = s.pinned
    PROVE  Orderly(s, r)
<1>1. Fenced(s, r)
  BY Zenon DEF Fenced, FencedAt
<1>2. Stamped(s, r)
  BY DEF Stamped, OwnerOK, OwnerType
<1>3. QED
  BY Zenon, <1>1, <1>2 DEF Orderly

(* Retracting owners.                                                         *)
LEMMA RetractOrderly ==
    ASSUME NEW s, OwnerOK(s), NEW A \in SUBSET Addrs
    PROVE  /\ Orderly(s, Retract(s, A))
           /\ Retract(s, A).receipts = {x \in s.receipts : x[3] \notin A}
           /\ Retract(s, A).pinnedBy = s.pinnedBy
<1> DEFINE r == Retract(s, A)
<1>1. Cardinality(A) \in Nat
  BY Zenon, OwnerAssumption, FS_Subset, FS_CardinalityType
<1>2. /\ r.owner = [a \in Addrs |-> IF a \in A THEN None ELSE s.owner[a]]
      /\ r.gen = [a \in Addrs |-> IF a \in A THEN 0 ELSE s.gen[a]]
      /\ r.committed = [a \in Addrs |-> IF a \in A THEN 0 ELSE s.committed[a]]
      /\ r.seen = [a \in Addrs |-> IF a \in A THEN 0 ELSE s.seen[a]]
      /\ r.receipts = {x \in s.receipts : x[3] \notin A}
      /\ r.seq = s.seq + Cardinality(A)
      /\ r.pinned = s.pinned /\ r.pinnedBy = s.pinnedBy /\ r.reserved = s.reserved
  BY Zenon DEF OwnerOK, OwnerType, IsRecord, Retract, Tables
<1> HIDE DEF r
<1>3. Fenced(s, r)
  BY <1>2 DEF Fenced, FencedAt
<1>4. Stamped(s, r)
  BY <1>1, <1>2 DEF Stamped, OwnerOK, OwnerType
<1>5. QED
  BY Zenon, <1>2, <1>3, <1>4 DEF Orderly, r

(* Two commands in a row.                                                     *)
LEMMA OrderlyTwice ==
    ASSUME NEW s, NEW r, NEW t, OwnerOK(s), OwnerOK(r), Orderly(s, r), Orderly(r, t)
    PROVE  Orderly(s, t)
<1>1. Fenced(s, t)
  BY DEF Orderly, Fenced, FencedAt
<1>2. Stamped(s, t)
  BY DEF Orderly, Stamped, OwnerOK, OwnerType
<1>3. QED
  BY Zenon, <1>1, <1>2 DEF Orderly

(* claim_addr never touches a reserved address.                               *)
LEMMA ClaimOrderly ==
    ASSUME NEW s, OwnerOK(s), NEW a \in Addrs, NEW p \in Peers, NEW kind
    PROVE  /\ Orderly(s, Claim(s, a, p, kind))
           /\ Claim(s, a, p, kind).receipts = s.receipts
           /\ Claim(s, a, p, kind).pinnedBy = s.pinnedBy
           /\ Claim(s, a, p, kind).pinned = s.pinned
           /\ Claim(s, a, p, kind).reserved = s.reserved
<1> DEFINE r == Claim(s, a, p, kind)
<1>1. CASE ~Accepts(s, a, p, kind)
  <2>1. r = s
    BY Zenon, <1>1 DEF Claim
  <2>2. QED
    BY Zenon, <2>1, SameOrderly
<1>2. CASE Accepts(s, a, p, kind)
  <2>1. /\ \A b \in Addrs : b # a => r.owner[b] = s.owner[b]
        /\ r.gen = [s.gen EXCEPT ![a] = s.seq + 1]
        /\ r.seq = s.seq + 1
        /\ r.committed = s.committed /\ r.seen = s.seen /\ r.reserved = s.reserved
        /\ r.receipts = s.receipts /\ r.pinned = s.pinned /\ r.pinnedBy = s.pinnedBy
    BY Zenon, <1>2 DEF OwnerOK, OwnerType, IsRecord, Claim, PublishOwner, Tables
  <2>2. s.reserved[a] = "none"
    BY Zenon, <1>2 DEF Accepts, ClaimRefusedByReap
  <2> HIDE DEF r
  <2>3. Fenced(s, r)
    BY Zenon, <2>1, <2>2 DEF Fenced, FencedAt, OwnerOK, OwnerType
  <2>4. Stamped(s, r)
    BY <2>1 DEF Stamped, OwnerOK, OwnerType
  <2>5. QED
    BY Zenon, <2>1, <2>3, <2>4 DEF Orderly, r
<1>3. QED
  BY Zenon, <1>1, <1>2

(* The claim of a session adds its own receipt, under a new generation.       *)
LEMMA ClaimSessionOrderly ==
    ASSUME NEW s, OwnerOK(s), NEW a \in Addrs, NEW p \in Peers, NEW i \in Instances,
           NEW kind, NEW at
    PROVE  /\ Orderly(s, ClaimSession(s, a, p, kind, i, at))
           /\ s.receipts \subseteq ClaimSession(s, a, p, kind, i, at).receipts
           /\ Accepts(s, a, p, kind) =>
                /\ ClaimSession(s, a, p, kind, i, at).receipts
                      \subseteq s.receipts \union {<<p, i, a>>}
                /\ ClaimSession(s, a, p, kind, i, at).seq = s.seq + 1
<1> DEFINE c == Claim(s, a, p, kind)
           r == ClaimSession(s, a, p, kind, i, at)
<1>1. CASE ~Accepts(s, a, p, kind)
  <2>1. r = s
    BY Zenon, <1>1 DEF ClaimSession
  <2>2. QED
    BY Zenon, <1>1, <2>1, SameOrderly
<1>2. CASE Accepts(s, a, p, kind)
  <2>1. r = [c EXCEPT !.committed[a] = at,
                      !.receipts = IF s.pinned[a] = p THEN @ ELSE @ \union {<<p, i, a>>}]
    BY Zenon, <1>2 DEF ClaimSession
  <2>2. /\ DOMAIN c = Tables
        /\ \A b \in Addrs : b # a => c.owner[b] = s.owner[b]
        /\ c.gen = [s.gen EXCEPT ![a] = s.seq + 1]
        /\ c.seq = s.seq + 1
        /\ c.committed = s.committed /\ c.seen = s.seen /\ c.reserved = s.reserved
        /\ c.receipts = s.receipts /\ c.pinned = s.pinned
    BY Zenon, <1>2 DEF OwnerOK, OwnerType, IsRecord, Claim, PublishOwner, Tables
  <2> HIDE DEF c, r
  <2>3. /\ \A b \in Addrs : b # a => r.owner[b] = s.owner[b] /\ r.committed[b] = s.committed[b]
        /\ r.gen = [s.gen EXCEPT ![a] = s.seq + 1]
        /\ r.seq = s.seq + 1
        /\ r.seen = s.seen /\ r.reserved = s.reserved /\ r.pinned = s.pinned
        /\ r.receipts \in {s.receipts, s.receipts \union {<<p, i, a>>}}
    BY Zenon, <2>1, <2>2 DEF OwnerOK, OwnerType, Tables
  <2>4. s.reserved[a] = "none"
    BY Zenon, <1>2 DEF Accepts, ClaimRefusedByReap
  <2>5. Fenced(s, r)
    BY Zenon, <2>3, <2>4 DEF Fenced, FencedAt, OwnerOK, OwnerType
  <2>6. Stamped(s, r)
    BY <2>3 DEF Stamped, OwnerOK, OwnerType
  <2>7. QED
    BY Zenon, <2>3, <2>5, <2>6 DEF Orderly, r
<1>3. QED
  BY Zenon, <1>1, <1>2

(* release_addr takes receipts away at its own address only.                  *)
LEMMA ReleaseOrderly ==
    ASSUME NEW s, OwnerOK(s), NEW a \in Addrs, NEW p, NEW g
    PROVE  /\ Orderly(s, Release(s, a, p, g))
           /\ \A x \in s.receipts : \/ x \in Release(s, a, p, g).receipts
                                    \/ Releases(s, a, p, g) /\ x[3] = a
<1>1. CASE Releases(s, a, p, g)
  <2>1. Release(s, a, p, g) = Retract(s, {a})
    BY Zenon, <1>1 DEF Release
  <2>2. QED
    BY <1>1, <2>1, RetractOrderly, {a} \in SUBSET Addrs
<1>2. CASE ~Releases(s, a, p, g)
  <2>1. Release(s, a, p, g) = s
    BY Zenon, <1>2 DEF Release
  <2>2. QED
    BY Zenon, <2>1, SameOrderly
<1>3. QED
  BY Zenon, <1>1, <1>2

(* Dropping receipts.                                                         *)
LEMMA DropOrderly ==
    ASSUME NEW s, OwnerOK(s), NEW R \in SUBSET s.receipts
    PROVE  /\ Orderly(s, [s EXCEPT !.receipts = R])
           /\ [s EXCEPT !.receipts = R].receipts = R
           /\ [s EXCEPT !.receipts = R].pinnedBy = s.pinnedBy
<1> DEFINE r == [s EXCEPT !.receipts = R]
<1>1. /\ r.owner = s.owner /\ r.gen = s.gen /\ r.seq = s.seq /\ r.receipts = R
      /\ r.committed = s.committed /\ r.seen = s.seen /\ r.reserved = s.reserved
      /\ r.pinned = s.pinned /\ r.pinnedBy = s.pinnedBy
  BY Zenon DEF OwnerOK, OwnerType, IsRecord, Tables
<1> HIDE DEF r
<1>2. Orderly(s, r)
  BY Zenon, <1>1, SameOrderly
<1>3. QED
  BY Zenon, <1>1, <1>2 DEF r

(* release_session takes the receipts of its own instance only.               *)
LEMMA ReleaseSessionOrderly ==
    ASSUME NEW s, OwnerOK(s), NEW p, NEW i
    PROVE  /\ Orderly(s, ReleaseSession(s, p, i))
           /\ \A x \in s.receipts : x[2] # i => x \in ReleaseSession(s, p, i).receipts
<1> DEFINE R == {x \in s.receipts : ~(x[1] = p /\ x[2] = i)}
           d == [s EXCEPT !.receipts = R]
           A == SessionReleases(s, p, i)
<1>1. OwnerOK(d) /\ Orderly(s, d) /\ d.receipts = R
  BY Zenon, DropOK, DropOrderly, R \in SUBSET s.receipts
<1>2. A \in SUBSET Addrs
  BY Zenon DEF SessionReleases
<1>3. ReleaseSession(s, p, i) = Retract(d, A)
  BY Zenon DEF ReleaseSession
<1>4. \A x \in s.receipts : x[2] # i => x[3] \notin A
  <2> SUFFICES ASSUME NEW x \in s.receipts, x[2] # i, x[3] \in A PROVE FALSE
    OBVIOUS
  <2>1. x = <<x[1], x[2], x[3]>> /\ x[2] \in Instances \ {i} /\ x[3] \in Addrs
    BY DEF OwnerOK, OwnerType
  <2>2. x[1] = p
    BY Zenon DEF SessionReleases, Owned, OwnerOK, Coherent
  <2>3. <<p, x[2], x[3]>> \notin s.receipts
    BY Zenon, <2>1 DEF SessionReleases
  <2>4. QED
    BY Zenon, <2>1, <2>2, <2>3
<1> HIDE DEF d, A
<1>5. Orderly(d, Retract(d, A)) /\ Retract(d, A).receipts = {x \in d.receipts : x[3] \notin A}
  BY Zenon, <1>1, <1>2, RetractOrderly
<1>6. Orderly(s, Retract(d, A))
  BY Zenon, <1>1, <1>5, OrderlyTwice
<1>7. \A x \in s.receipts : x[2] # i => x \in Retract(d, A).receipts
  BY Zenon, <1>1, <1>4, <1>5
<1>8. QED
  BY Zenon, <1>3, <1>6, <1>7

(* The end of a reap takes receipts of the reaped address only.               *)
LEMMA ReleaseDeadPeerOrderly ==
    ASSUME NEW s, OwnerOK(s), NEW p, NEW a \in Addrs, NEW before
    PROVE  /\ Orderly(s, ReleaseDeadPeer(s, p, a, before))
           /\ \A x \in s.receipts : x[3] # a => x \in ReleaseDeadPeer(s, p, a, before).receipts
<1> DEFINE R == {x \in s.receipts : ~(x[1] = p /\ x[3] = a)}
           d == [s EXCEPT !.receipts = R]
           r == ReleaseDeadPeer(s, p, a, before)
<1>1. OwnerOK(d) /\ Orderly(s, d) /\ d.receipts = R
  BY Zenon, DropOK, DropOrderly, R \in SUBSET s.receipts
<1>2. r \in {s, d, Retract(d, {a})}
  BY Zenon DEF ReleaseDeadPeer
<1>3. Orderly(s, s)
  BY Zenon, SameOrderly
<1> HIDE DEF d, r
<1>4. /\ Orderly(d, Retract(d, {a}))
      /\ Retract(d, {a}).receipts = {x \in d.receipts : x[3] \notin {a}}
  BY Zenon, <1>1, RetractOrderly, {a} \in SUBSET Addrs
<1>5. Orderly(s, Retract(d, {a}))
  BY Zenon, <1>1, <1>4, OrderlyTwice
<1>6. Orderly(s, r)
  BY Zenon, <1>1, <1>2, <1>3, <1>5
<1>7. \A x \in s.receipts : x[3] # a => x \in r.receipts
  BY Zenon, <1>1, <1>2, <1>4
<1>8. QED
  BY Zenon, <1>6, <1>7 DEF r

(* configure_peer may lift the pin of its peer, unless that address is being  *)
(* reaped; only receipts of the lifted pin are lost.                          *)
LEMMA ConfigurePeerOrderly ==
    ASSUME NEW s, OwnerOK(s), NEW a \in Addrs, NEW p \in Peers, NEW expected
    PROVE  /\ Orderly(s, ConfigurePeer(s, a, p, expected))
           /\ \A x \in s.receipts :
                 \/ x \in ConfigurePeer(s, a, p, expected).receipts
                 \/ /\ s.pinnedBy[x[1]] = x[3]
                    /\ ConfigurePeer(s, a, p, expected).pinnedBy[x[1]] # x[3]
<1> DEFINE c == [s EXCEPT !.cfgGen[p] = ConfigureGeneration(s, a, p, expected)]
           cl == Claim(c, a, p, Verified)
           pin == InstallPin(cl, a, p)
           e == EvictedPin(c, a, p)
           R == {x \in pin.receipts : ~(x[1] = p /\ x[3] = e)}
           d == [pin EXCEPT !.receipts = R]
           A == EvictedOwned(c, a, p)
<1>1. OwnerOK(c)
  BY ZenonT(30), EvidenceOK
<1>2. /\ c.owner = s.owner /\ c.gen = s.gen /\ c.seq = s.seq /\ c.receipts = s.receipts
      /\ c.committed = s.committed /\ c.seen = s.seen /\ c.reserved = s.reserved
      /\ c.pinned = s.pinned /\ c.pinnedBy = s.pinnedBy
  BY Zenon DEF OwnerOK, OwnerType, IsRecord, Tables
<1>3. c.receipts \subseteq s.receipts
  BY Zenon, <1>2
<1>4. CASE ConfigureOutcome(s, a, p, expected) # "applied"
  <2>1. ConfigurePeer(s, a, p, expected) = c
    BY Zenon, <1>4 DEF ConfigurePeer
  <2> HIDE DEF c
  <2>2. QED
    BY Zenon, <1>2, <1>3, <2>1, SameOrderly
<1>5. CASE ConfigureOutcome(s, a, p, expected) = "applied"
  <2>1. Accepts(s, a, p, Verified) /\ ~PreviousPinReserved(s, a, p)
    BY Zenon, <1>5 DEF ConfigureOutcome
  <2>2. ConfigurePeer(s, a, p, expected) = Retract(d, A)
    BY Zenon, <1>5 DEF ConfigurePeer, Reconfigure
  <2> HIDE DEF c
  <2>3. Accepts(c, a, p, Verified)
    BY Zenon, <1>2, <2>1 DEF Accepts, ClaimRefusedByReap
  <2>4. OwnerOK(cl) /\ Owned(cl, a, p)
    BY Zenon, <1>1, <2>3, ClaimOK
  <2>5. /\ Orderly(c, cl) /\ cl.receipts = c.receipts /\ cl.pinnedBy = c.pinnedBy
        /\ cl.reserved = c.reserved
    BY <1>1, ClaimOrderly
  <2>6. EvictedPin(cl, a, p) = e
    BY Zenon, <2>5 DEF EvictedPin
  <2>7. /\ e # None => e \in Addrs /\ e # a /\ e = s.pinnedBy[p] /\ s.reserved[e] = "none"
        /\ s.reserved[a] = "none"
    BY <1>2, <2>1
       DEF EvictedPin, PreviousPinReserved, Accepts, ClaimRefusedByReap, OwnerOK, OwnerType
  <2>8. A \in SUBSET Addrs /\ \A b \in A : b = e /\ b # None /\ Owned(c, b, p)
    BY Zenon, OwnerAssumption DEF EvictedOwned
  <2> HIDE DEF cl, e
  <2>9. OwnerOK(pin) /\ PinInstalled(cl, pin, a, p)
    BY Zenon, <2>4, InstallPinOK
  <2> HIDE DEF pin, A
  <2>10. Orderly(cl, pin)
    <3>1. \A b \in Addrs : cl.reserved[b] # "none" => b \notin {a, e}
      BY Zenon, <1>2, <2>5, <2>7, OwnerAssumption
    <3>2. Fenced(cl, pin)
      BY Zenon, <2>6, <2>9, <3>1 DEF Fenced, FencedAt, PinInstalled
    <3>3. Stamped(cl, pin)
      BY <2>4, <2>9, StampFacts DEF Stamped, PinInstalled
    <3>4. QED
      BY Zenon, <3>2, <3>3 DEF Orderly
  <2>11. Orderly(s, c)
    BY Zenon, <1>2, <1>3, SameOrderly
  <2>12. Orderly(s, pin)
    BY Zenon, <1>1, <2>4, <2>5, <2>9, <2>10, <2>11, OrderlyTwice
  <2>13. OwnerOK(d) /\ Orderly(pin, d) /\ d.receipts = R /\ d.pinnedBy = pin.pinnedBy
    BY Zenon, <2>9, DropOK, DropOrderly, R \in SUBSET pin.receipts
  <2> HIDE DEF d
  <2>14. /\ Orderly(d, Retract(d, A)) /\ Retract(d, A).pinnedBy = d.pinnedBy
         /\ Retract(d, A).receipts = {x \in d.receipts : x[3] \notin A}
    BY Zenon, <2>8, <2>13, RetractOrderly
  <2>15. Orderly(s, Retract(d, A))
    BY Zenon, <2>9, <2>12, <2>13, <2>14, OrderlyTwice
  <2>16. ASSUME NEW x \in s.receipts, x \notin Retract(d, A).receipts
         PROVE  x[1] = p /\ x[3] = e /\ e # None
    <3>1. x \in pin.receipts /\ Owned(c, x[3], x[1]) /\ x[3] \in Addrs
      <4>1. x \in c.receipts
        BY Zenon, <1>2
      <4>2. x \in pin.receipts
        BY Zenon, <2>5, <2>9, <4>1 DEF PinInstalled
      <4>3. QED
        BY Zenon, <1>1, <4>1, <4>2, ReceiptFacts
    <3>2. (x[1] = p /\ x[3] = e) \/ x[3] \in A
      BY Zenon, <2>13, <2>14, <2>16, <3>1
    <3>3. QED
      BY Zenon, <2>8, <3>1, <3>2, OwnerAssumption DEF Owned
  <2>17. pin.pinnedBy[p] = a
    BY Zenon, <2>9 DEF PinInstalled
  <2>18. \A x \in s.receipts : \/ x \in Retract(d, A).receipts
                               \/ s.pinnedBy[x[1]] = x[3] /\ Retract(d, A).pinnedBy[x[1]] # x[3]
    BY Zenon, <2>7, <2>13, <2>14, <2>16, <2>17
  <2>19. QED
    BY Zenon, <2>2, <2>15, <2>18
<1>6. QED
  BY Zenon, <1>4, <1>5

(* A migration leaves reserved addresses alone and takes the receipts along.  *)
LEMMA MigrateOrderly ==
    ASSUME NEW s, OwnerOK(s), NEW from \in Addrs, NEW to \in Addrs, from # to, NEW token
    PROVE  /\ Orderly(s, Migrate(s, from, to, token))
           /\ Migrates(s, from, to, token) =>
                \A x \in s.receipts : \/ x \in Migrate(s, from, to, token).receipts
                                      \/ <<x[1], x[2], to>> \in Migrate(s, from, to, token).receipts
           /\ ~Migrates(s, from, to, token) => Migrate(s, from, to, token) = s
<1>1. CASE ~Migrates(s, from, to, token)
  <2>1. Migrate(s, from, to, token) = s
    BY Zenon, <1>1 DEF Migrate
  <2>2. QED
    BY Zenon, <1>1, <2>1, SameOrderly
<1>2. CASE Migrates(s, from, to, token)
  <2> DEFINE g == s.seq + 1
             w == [node |-> token.node,
                   kind |-> ResolvedKind(s.owner[to], token.node, s.owner[from].kind)]
             m == [s EXCEPT !.owner = [@ EXCEPT ![from] = None, ![to] = w],
                            !.gen = [@ EXCEPT ![from] = 0, ![to] = g],
                            !.seq = g,
                            !.receipts = MovedReceipts(s, from, to),
                            !.committed = Later(@, from, to), !.seen = Later(@, from, to),
                            !.snapOwner[from] = None]
             n == PublishOwner(m, to, w, g)
             r == MovePin(n, from, to)
  <2>1. Migrate(s, from, to, token) = r
    BY Zenon, <1>2 DEF Migrate
  <2>2. s.reserved[from] = "none" /\ s.reserved[to] = "none"
    BY Zenon, <1>2 DEF Migrates
  <2> HIDE DEF w
  <2>3. /\ \A b \in Addrs \ {from, to} : /\ n.owner[b] = s.owner[b]
                                         /\ n.committed[b] = s.committed[b] /\ n.seen[b] = s.seen[b]
        /\ n.gen = [b \in Addrs |-> IF b = to THEN g ELSE IF b = from THEN 0 ELSE s.gen[b]]
        /\ n.seq = g /\ n.receipts = MovedReceipts(s, from, to)
        /\ n.pinned = s.pinned /\ n.reserved = s.reserved
    BY SMTT(30) DEF PublishOwner, Later, OwnerOK, OwnerType, IsRecord, Tables
  <2>4. IsRecord(n)
    <3>1. IsRecord(m)
      BY ZenonT(60) DEF OwnerOK, OwnerType, IsRecord, Tables
    <3> HIDE DEF m
    <3>2. QED
      BY Zenon, <3>1 DEF PublishOwner, IsRecord, Tables
  <2> HIDE DEF n
  <2>5. /\ r.owner = n.owner /\ r.gen = n.gen /\ r.seq = n.seq /\ r.receipts = n.receipts
        /\ r.committed = n.committed /\ r.seen = n.seen /\ r.reserved = n.reserved
        /\ \A b \in Addrs \ {from, to} : r.pinned[b] = n.pinned[b]
    <3>1. CASE n.pinned[from] = None
      BY Zenon, <3>1 DEF MovePin
    <3>2. CASE n.pinned[from] # None
      <4> DEFINE p == n.pinned[from]
                 pins == [n EXCEPT !.pinned[from] = None, !.pinned[to] = p,
                                   !.pinnedBy[p] = to, !.required[p] = to]
                 off == WithPin(pins, from, None)
      <4>1. r = WithPin(off, to, p)
        BY Zenon, <3>2 DEF MovePin
      <4>2. IsRecord(pins)
        BY ZenonT(30), <2>4 DEF IsRecord, Tables
      <4>3. /\ \A t \in Tables \ {"pinned", "pinnedBy", "required"} : pins[t] = n[t]
            /\ \A b \in Addrs \ {from, to} : pins.pinned[b] = n.pinned[b]
        <5>1. \A t \in Tables \ {"pinned", "pinnedBy", "required"} : pins[t] = n[t]
          BY ZenonT(30), <2>4 DEF IsRecord, Tables
        <5>2. pins.pinned = [n.pinned EXCEPT ![from] = None, ![to] = p]
          BY ZenonT(30), <2>4 DEF IsRecord, Tables
        <5>3. DOMAIN n.pinned = Addrs
          BY Zenon, <2>3 DEF OwnerOK, OwnerType
        <5>4. QED
          BY <5>1, <5>2, <5>3
      <4> HIDE DEF p, pins
      <4>4. PinPublished(pins, off, from, None)
        BY Zenon, <4>2, WithPinFields
      <4> HIDE DEF off
      <4>5. IsRecord(off)
        BY Zenon, <4>4 DEF PinPublished
      <4>6. PinPublished(off, WithPin(off, to, p), to, p)
        BY Zenon, <4>5, WithPinFields
      <4>7. \A t \in Tables \ {"snapPin", "snapPinBy"} : r[t] = pins[t]
        BY Zenon, <4>1, <4>4, <4>6 DEF PinPublished
      <4>8. QED
        BY Zenon, <4>3, <4>7 DEF Tables
    <3>3. QED
      BY Zenon, <3>1, <3>2
  <2> HIDE DEF r
  <2>6. \A x \in s.receipts : /\ x \in Peers \X Instances \X Addrs
                              /\ x[3] = from => x[1] = s.owner[from].node
    BY Zenon, ReceiptFacts DEF Owned
  <2>7. \A x \in s.receipts : x \in r.receipts \/ <<x[1], x[2], to>> \in r.receipts
    BY Zenon, <2>3, <2>5, <2>6 DEF MovedReceipts
  <2>8. \A x \in r.receipts : x[3] # to => x \in s.receipts
    BY <2>3, <2>5 DEF MovedReceipts
  <2>9. Fenced(s, r)
    BY <2>2, <2>3, <2>5 DEF Fenced, FencedAt, OwnerOK, OwnerType
  <2>10. Stamped(s, r)
    BY <2>3, <2>5, <2>8, StampFacts DEF Stamped
  <2>11. QED
    BY Zenon, <1>2, <2>1, <2>7, <2>9, <2>10 DEF Orderly
<1>3. QED
  BY Zenon, <1>1, <1>2

(* An ordinary connect changes a route only.                                  *)
LEMMA RouteOrderly ==
    ASSUME NEW s, OwnerOK(s), NEW p, NEW a
    PROVE  /\ Orderly(s, SetOrdinaryConnectRoute(s, p, a))
           /\ SetOrdinaryConnectRoute(s, p, a).receipts = s.receipts
<1> DEFINE r == SetOrdinaryConnectRoute(s, p, a)
<1>1. /\ r.owner = s.owner /\ r.gen = s.gen /\ r.seq = s.seq /\ r.receipts = s.receipts
      /\ r.committed = s.committed /\ r.seen = s.seen /\ r.reserved = s.reserved
      /\ r.pinned = s.pinned
  BY Zenon DEF SetOrdinaryConnectRoute, OwnerOK, OwnerType, IsRecord, Tables
<1> HIDE DEF r
<1>2. QED
  BY Zenon, <1>1, SameOrderly DEF r

(* Evidence of life changes neither owners nor receipts, and invalidates a    *)
(* pending reservation.                                                       *)
LEMMA EvidenceFields ==
    ASSUME NEW s, OwnerOK(s), NEW a, NEW at, NEW r, r = NoteLivenessEvidence(s, a, at)
    PROVE  /\ r.owner = s.owner /\ r.gen = s.gen /\ r.seq = s.seq
           /\ r.receipts = s.receipts /\ r.committed = s.committed /\ r.pinned = s.pinned
           /\ \A b \in Addrs : b # a => r.seen[b] = s.seen[b] /\ r.reserved[b] = s.reserved[b]
           /\ a \in Addrs => r.reserved[a] = IF s.reserved[a] = "pending" THEN "invalidated"
                                             ELSE s.reserved[a]
BY Zenon DEF NoteLivenessEvidence, OwnerOK, OwnerType, IsRecord, Tables

(* Nor does a reservation.                                                    *)
LEMMA ReservationFields ==
    ASSUME NEW s, OwnerOK(s), NEW a, NEW v, NEW r, r = [s EXCEPT !.reserved[a] = v]
    PROVE  r.gen = s.gen /\ r.seq = s.seq /\ r.receipts = s.receipts
BY Zenon DEF OwnerOK, OwnerType, IsRecord, Tables
=============================================================================
