--------------------------- MODULE RegistryOwner ---------------------------
(***************************************************************************)
(* The commands of the registry owner task (src/src/registry_owner.rs):    *)
(* which peer owns which socket address, the receipts of the sessions that *)
(* back a claim, the operator's pins, the reservations of the dead-peer    *)
(* sweep, and the snapshot published to readers.  One task handles one     *)
(* command at a time, so a command is an operator from the owner's state   *)
(* to the next; what it answers is an operator on the state before.        *)
(*                                                                         *)
(* Instants are naturals and 0 is the absent instant.  A receipt is        *)
(* <<peer, instance, address>>; the generation stored with it is written   *)
(* and never read, so it is left out.                                      *)
(***************************************************************************)
EXTENDS Integers, FiniteSets

CONSTANTS Peers, Addrs, Instances, None

Provisional == "provisional"
Verified == "verified"
Owner == [node : Peers, kind : {Provisional, Verified}]

ASSUME OwnerAssumption ==
    /\ IsFiniteSet(Addrs)
    /\ None \notin Peers \union Addrs
    /\ None \notin Owner /\ None \notin [owner : Owner, gen : Nat]

OwnerInit ==
    [owner |-> [a \in Addrs |-> None],
     gen |-> [a \in Addrs |-> 0],
     committed |-> [a \in Addrs |-> 0],
     seen |-> [a \in Addrs |-> 0],
     receipts |-> {},
     pinned |-> [a \in Addrs |-> None],
     pinnedBy |-> [p \in Peers |-> None],
     reserved |-> [a \in Addrs |-> "none"],
     cfgGen |-> [p \in Peers |-> 0],
     seq |-> 0,
     required |-> [p \in Peers |-> None],
     snapOwner |-> [a \in Addrs |-> None],
     snapPin |-> [a \in Addrs |-> None],
     snapPinBy |-> [p \in Peers |-> None]]

Owned(s, a, p) == s.owner[a] # None /\ s.owner[a].node = p

(* The token readers take from the snapshot: the owner and its generation. *)
Token(s, a) ==
    IF s.snapOwner[a] = None THEN None
    ELSE [node |-> s.snapOwner[a].owner.node, gen |-> s.snapOwner[a].gen]

CurrentToken(s, a) ==
    IF s.owner[a] = None THEN None
    ELSE [node |-> s.owner[a].node, gen |-> s.gen[a]]

PinIsCurrent(s, a, p) == s.snapPin[a] = p

(***************************************************************************)
(* Arbitration of a claim against the current owner.  The address is never *)
(* a local one: callers refuse those before they ask.                      *)
(***************************************************************************)
Arbitrate(cur, p, kind) ==
    \/ cur = None /\ kind = Verified
    \/ cur # None /\ cur.node = p
    \/ cur # None /\ cur.kind = Provisional /\ kind = Verified

ResolvedKind(cur, p, kind) ==
    IF cur # None /\ cur = [node |-> p, kind |-> Verified] THEN Verified ELSE kind

ClaimRefusedByReap(s, a) == s.reserved[a] # "none"

Accepts(s, a, p, kind) ==
    ~ClaimRefusedByReap(s, a) /\ Arbitrate(s.owner[a], p, kind)

PublishOwner(s, a, owner, g) ==
    [s EXCEPT !.snapOwner[a] = [owner |-> owner, gen |-> g]]

Claim(s, a, p, kind) ==
    LET owner == [node |-> p, kind |-> ResolvedKind(s.owner[a], p, kind)]
        g == s.seq + 1
    IN  IF Accepts(s, a, p, kind)
        THEN PublishOwner([s EXCEPT !.owner[a] = owner, !.seq = g, !.gen[a] = g], a, owner, g)
        ELSE s

(* An address pinned to the claimant keeps no receipt. *)
ClaimSession(s, a, p, kind, i, at) ==
    LET c == Claim(s, a, p, kind)
    IN  IF ~Accepts(s, a, p, kind) THEN s
        ELSE [c EXCEPT !.committed[a] = at,
                       !.receipts = IF s.pinned[a] = p THEN @ ELSE @ \union {<<p, i, a>>}]

(* A slip in Retract: the receipts stay. *)
RetractKeepsReceipts(s, A) ==
    [s EXCEPT !.owner = [a \in Addrs |-> IF a \in A THEN None ELSE @[a]],
              !.gen = [a \in Addrs |-> IF a \in A THEN 0 ELSE @[a]],
              !.committed = [a \in Addrs |-> IF a \in A THEN 0 ELSE @[a]],
              !.seen = [a \in Addrs |-> IF a \in A THEN 0 ELSE @[a]],
              !.seq = @ + Cardinality(A),
              !.snapOwner = [a \in Addrs |-> IF a \in A THEN None ELSE @[a]]]

(* Retract the owners of a set of addresses, one commit each. *)
Retract(s, A) ==
    [s EXCEPT !.owner = [a \in Addrs |-> IF a \in A THEN None ELSE @[a]],
              !.gen = [a \in Addrs |-> IF a \in A THEN 0 ELSE @[a]],
              !.committed = [a \in Addrs |-> IF a \in A THEN 0 ELSE @[a]],
              !.seen = [a \in Addrs |-> IF a \in A THEN 0 ELSE @[a]],
              !.receipts = {r \in @ : r[3] \notin A},
              !.seq = @ + Cardinality(A),
              !.snapOwner = [a \in Addrs |-> IF a \in A THEN None ELSE @[a]]]

(* The commit of each retraction; the order within one command is a hash   *)
(* map's.                                                                  *)
RetractSeqs(s, A) ==
    CHOOSE f \in [A -> (s.seq + 1)..(s.seq + Cardinality(A))] :
        \A a, b \in A : f[a] = f[b] => a = b

Releases(s, a, p, g) == s.pinned[a] = None /\ Owned(s, a, p) /\ s.gen[a] = g

Release(s, a, p, g) == IF Releases(s, a, p, g) THEN Retract(s, {a}) ELSE s

(* A slip in SessionReleases: other sessions' receipts are not looked at. *)
SessionReleasesAll(s, p, i) ==
    {a \in Addrs : <<p, i, a>> \in s.receipts /\ s.pinned[a] = None /\ Owned(s, a, p)}

(* The addresses only this instance still backed. *)
SessionReleases(s, p, i) ==
    {a \in Addrs : /\ <<p, i, a>> \in s.receipts
                   /\ \A j \in Instances \ {i} : <<p, j, a>> \notin s.receipts
                   /\ s.pinned[a] = None
                   /\ Owned(s, a, p)}

ReleaseSession(s, p, i) ==
    Retract([s EXCEPT !.receipts = {r \in @ : ~(r[1] = p /\ r[2] = i)}],
            SessionReleases(s, p, i))

(***************************************************************************)
(* Evidence of life and the reservations of the sweep.                     *)
(***************************************************************************)
(* A slip in NoteLivenessEvidence: a held reservation stays valid. *)
NoteSeenOnly(s, a, at) == [s EXCEPT !.seen[a] = IF at > @ THEN at ELSE @]

NoteLivenessEvidence(s, a, at) ==
    [s EXCEPT !.seen[a] = IF at > @ THEN at ELSE @,
              !.reserved[a] = IF @ = "pending" THEN "invalidated" ELSE @]

HasNewerEvidence(s, a, before) == s.committed[a] > before \/ s.seen[a] > before

Reserves(s, a, before, token, pin, node) ==
    /\ s.committed[a] <= before
    /\ CurrentToken(s, a) = token
    /\ s.pinned[a] = pin
    /\ token # None => node = token.node
    /\ token = None /\ pin # None => node = pin
    /\ s.reserved[a] = "none"

ReserveForReap(s, a, before, token, pin, node) ==
    IF Reserves(s, a, before, token, pin, node)
    THEN [s EXCEPT !.reserved[a] = "pending"] ELSE s

(* The compare-and-swap of the sweep itself, not of the owner task. *)
TryConsume(s, a) ==
    [s EXCEPT !.reserved[a] = IF @ = "pending" THEN "committed" ELSE @]

ReleaseReservation(s, a) == [s EXCEPT !.reserved[a] = "none"]

ProvenAlive(s, a, before) ==
    s.reserved[a] # "committed" /\ HasNewerEvidence(s, a, before)

DeadReleases(s, p, a, before) ==
    ~ProvenAlive(s, a, before) /\ s.pinned[a] = None /\ Owned(s, a, p)

ReleaseDeadPeer(s, p, a, before) ==
    LET dropped == [s EXCEPT !.receipts = {r \in @ : ~(r[1] = p /\ r[3] = a)}]
    IN  CASE ProvenAlive(s, a, before) -> s
          [] DeadReleases(s, p, a, before) -> Retract(dropped, {a})
          [] OTHER -> dropped

(***************************************************************************)
(* The operator's pins.                                                    *)
(***************************************************************************)
(* RoutingSnapshot::with_pin; p = None removes the pin. *)
WithPin(s, a, p) ==
    LET prev == s.snapPin[a]
    IN  [s EXCEPT !.snapPin[a] = p,
                  !.snapPinBy = [q \in Peers |->
                      IF q = p THEN a
                      ELSE IF q = prev /\ (p # None \/ @[q] = a) THEN None ELSE @[q]]]

EvictedPin(s, a, p) == IF s.pinnedBy[p] = a THEN None ELSE s.pinnedBy[p]

InstallPin(s, a, p) ==
    LET evicted == EvictedPin(s, a, p)
        pins == [s EXCEPT
            !.pinned = [b \in Addrs |-> IF b = a THEN p
                                        ELSE IF b = evicted THEN None ELSE @[b]],
            !.pinnedBy = [q \in Peers |-> IF q = p THEN a
                                          ELSE IF q = s.pinned[a] /\ @[q] = a THEN None
                                          ELSE @[q]],
            !.required[p] = a]
        published == WithPin(pins, a, p)
    IN  IF evicted = None THEN published ELSE WithPin(published, evicted, None)

SetOrdinaryConnectRoute(s, p, a) ==
    IF s.pinnedBy[p] \in {None, a} THEN [s EXCEPT !.required[p] = a] ELSE s

(* A pin may not leave an address that a sweep is reaping. *)
PreviousPinReserved(s, a, p) ==
    s.pinnedBy[p] \notin {None, a} /\ s.reserved[s.pinnedBy[p]] # "none"

(* expected is None on a request's first call, then the generation answered. *)
ConfigureOutcome(s, a, p, expected) ==
    IF PreviousPinReserved(s, a, p) THEN "blocked"
    ELSE IF expected # None /\ expected < s.cfgGen[p] THEN "superseded"
    ELSE IF ClaimRefusedByReap(s, a) THEN "blocked"
    ELSE IF Accepts(s, a, p, Verified) THEN "applied" ELSE "rejected"

(* The peer's configuration generation after the call, which answers it. *)
ConfigureGeneration(s, a, p, expected) ==
    IF expected = None /\ ~PreviousPinReserved(s, a, p) THEN s.cfgGen[p] + 1 ELSE s.cfgGen[p]

(* The evicted address, when its owner is still the peer. *)
EvictedOwned(s, a, p) ==
    {b \in Addrs : b = EvictedPin(s, a, p) /\ Owned(s, b, p)}

Reconfigure(s, a, p) ==
    LET pin == InstallPin(Claim(s, a, p, Verified), a, p)
    IN  Retract([pin EXCEPT !.receipts =
                    {r \in @ : ~(r[1] = p /\ r[3] = EvictedPin(s, a, p))}],
                EvictedOwned(s, a, p))

ConfigurePeer(s, a, p, expected) ==
    LET counted == [s EXCEPT !.cfgGen[p] = ConfigureGeneration(s, a, p, expected)]
    IN  IF ConfigureOutcome(s, a, p, expected) = "applied"
        THEN Reconfigure(counted, a, p) ELSE counted

(***************************************************************************)
(* Moving an owner, its pin, receipts and evidence to another address.     *)
(***************************************************************************)
Migrates(s, from, to, token) ==
    /\ s.reserved[from] = "none" /\ s.reserved[to] = "none"
    /\ token # None /\ CurrentToken(s, from) = token
    /\ s.owner[to] # None => s.owner[to].node = token.node

MovedReceipts(s, from, to) ==
    {r \in s.receipts : r[3] # from}
        \union {<<r[1], r[2], to>> : r \in {q \in s.receipts :
                                                q[3] = from /\ q[1] = s.owner[from].node}}

Later(f, from, to) ==
    [f EXCEPT ![to] = IF f[from] > f[to] THEN f[from] ELSE f[to], ![from] = 0]

MovePin(s, from, to) ==
    LET p == s.pinned[from]
    IN  IF p = None THEN s
        ELSE WithPin(WithPin([s EXCEPT !.pinned[from] = None, !.pinned[to] = p,
                                       !.pinnedBy[p] = to, !.required[p] = to],
                             from, None), to, p)

Migrate(s, from, to, token) ==
    LET owner == [node |-> token.node,
                  kind |-> ResolvedKind(s.owner[to], token.node, s.owner[from].kind)]
        g == s.seq + 1
        moved == [s EXCEPT !.owner = [@ EXCEPT ![from] = None, ![to] = owner],
                           !.gen = [@ EXCEPT ![from] = 0, ![to] = g],
                           !.seq = g,
                           !.receipts = MovedReceipts(s, from, to),
                           !.committed = Later(@, from, to),
                           !.seen = Later(@, from, to),
                           !.snapOwner[from] = None]
    IN  IF Migrates(s, from, to, token)
        THEN MovePin(PublishOwner(moved, to, owner, g), from, to) ELSE s

(***************************************************************************)
(* The owner's tables agree after every command: an address has a          *)
(* generation exactly when it has an owner, and no two share one; owners   *)
(* are verified; a pin is the only one of its peer, its peer owns the      *)
(* address and dials it; a receipt is held only for the owner; and the     *)
(* published snapshot is the authoritative state.                          *)
(***************************************************************************)
Coherent(s) ==
    /\ \A a \in Addrs : /\ s.owner[a] = None <=> s.gen[a] = 0
                        /\ s.gen[a] <= s.seq
                        /\ s.owner[a] # None => s.owner[a].kind = Verified
                        /\ \A b \in Addrs : s.gen[a] = s.gen[b] /\ s.gen[a] # 0 => a = b
    /\ \A a \in Addrs : s.pinned[a] # None =>
            s.pinnedBy[s.pinned[a]] = a /\ Owned(s, a, s.pinned[a])
    /\ \A p \in Peers : s.pinnedBy[p] # None =>
            s.pinned[s.pinnedBy[p]] = p /\ s.required[p] = s.pinnedBy[p]
    /\ \A r \in s.receipts : Owned(s, r[3], r[1])
    /\ \A a \in Addrs : s.snapOwner[a] = IF s.owner[a] = None THEN None
                                         ELSE [owner |-> s.owner[a], gen |-> s.gen[a]]
    /\ s.snapPin = s.pinned /\ s.snapPinBy = s.pinnedBy
=============================================================================
