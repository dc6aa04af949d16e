------------------------------ MODULE CapVault ------------------------------
(***************************************************************************)
(* The capability vault (kernel/src/security/capability.rs, `Vault'): a    *)
(* fixed table of tokens, each delegated from another, with rights and an  *)
(* optional expiry.  Every operation runs under the VAULT lock and is one  *)
(* action; the tick counter is read several times inside `create' and      *)
(* advances between the reads.                                             *)
(*                                                                         *)
(* A token id is 256 random bits; here ids are numbers in the order they   *)
(* are issued, so that a fresh one differs from all before it.  `resource' *)
(* and the audit journal are left out, as is `count', which nothing reads. *)
(***************************************************************************)
EXTENDS Integers, FiniteSets

CONSTANTS
    MaxCapabilities, \* MAX_CAPABILITIES, slots of the vault
    Rights,          \* the right bits
    DELEGATE, REVOKE,
    Requests,        \* sets of rights the gates ask for
    Ttls,            \* lifetimes a caller may ask for
    MaxTime,         \* bound: ticks
    MaxIssued        \* bound: tokens issued

Never == -1   \* expires_at: None, and a ttl of None
Null  == 0    \* CAP_NULL
Root  == 1    \* ROOT_CAP

ASSUME SizeAssumption == MaxCapabilities \in Nat \ {0} /\ MaxTime \in Nat /\ MaxIssued \in Nat \ {0}
ASSUME RightsAssumption == {DELEGATE, REVOKE} \subseteq Rights /\ Requests \subseteq SUBSET Rights
ASSUME TtlAssumption == Ttls \subseteq Nat \cup {Never}

Slots == 0 .. MaxCapabilities - 1
Ids   == 1 .. MaxIssued

VARIABLES
    caps,      \* VAULT.caps
    used,      \* SLOT_USED
    now,       \* the tick counter
    issued,    \* ids handed out so far
    lineage,   \* history: per id, the ids it was delegated through
    dead       \* history: ids revoked or released

vars == <<caps, used, now, issued, lineage, dead>>

\* A slot of None
Empty == [id |-> Null, rights |-> {}, parent |-> Null, active |-> FALSE, expires |-> Never]

Capability == [id : Ids \cup {Null}, rights : SUBSET Rights, parent : Ids \cup {Null},
               active : BOOLEAN, expires : Nat \cup {Never}]

\* Capability::is_expired at tick t
Expired(c, t) == c.expires # Never /\ t >= c.expires

Occupied == {s \in Slots : caps[s].id # Null}

\* What `check' lets through, whatever right it asks for
Usable(s) == s \in Occupied /\ caps[s].active /\ ~Expired(caps[s], now)

TypeOK ==
    /\ caps \in [Slots -> Capability]
    /\ used \in [Slots -> SUBSET Rights]
    /\ now \in 0 .. MaxTime
    /\ issued \in Ids
    /\ lineage \in [Ids -> SUBSET Ids]
    /\ dead \subseteq Ids

\* Vault::init
Init ==
    /\ caps = [s \in Slots |->
                 IF s = 0 THEN [id |-> Root, rights |-> Rights, parent |-> Null,
                                active |-> TRUE, expires |-> Never]
                          ELSE Empty]
    /\ used = [s \in Slots |-> {}]
    /\ now = 0
    /\ issued = Root
    /\ lineage = [i \in Ids |-> {}]
    /\ dead = {}

-----------------------------------------------------------------------------
(* Issuing.                                                                *)

\* A slot whose capability is revoked or expired may be taken over, the
\* root's never.
Reusable(s, t) == caps[s].id # Root /\ (~caps[s].active \/ Expired(caps[s], t))

\* The first empty slot, else the first reusable one.  The scan starts at
\* tick t and meets slot s at tick u.
FirstFit(s, t, u) ==
    IF Occupied # Slots
      THEN s \notin Occupied /\ \A r \in 0 .. s - 1 : r \in Occupied
      ELSE Reusable(s, u) /\ \A r \in 0 .. s - 1 : ~Reusable(r, t)

\* Mutant: a delegated token may outlive its parent.
ExpiryUncapped(ttl, parentExp, t) == IF ttl = Never THEN parentExp ELSE t + ttl

\* Child expiry cannot exceed parent expiry
ExpiryOf(ttl, parentExp, t) ==
    IF ttl = Never THEN parentExp
    ELSE IF parentExp = Never \/ t + ttl < parentExp THEN t + ttl
    ELSE parentExp

\* Mutant: the counters of the slot's previous token are kept.
CreateKeepsUsage(ps, rights, ttl) ==
    /\ ps \in Occupied /\ caps[ps].active
    /\ DELEGATE \in caps[ps].rights /\ rights \subseteq caps[ps].rights
    /\ issued < MaxIssued /\ issued' = issued + 1
    /\ \E t \in now .. MaxTime : \E u \in t .. MaxTime : \E v \in u .. MaxTime, s \in Slots :
      /\ ~Expired(caps[ps], t)
      /\ FirstFit(s, t, u)
      /\ caps' = [caps EXCEPT ![s] = [id |-> issued + 1, rights |-> rights, parent |-> caps[ps].id,
                                      active |-> TRUE,
                                      expires |-> ExpiryOf(ttl, caps[ps].expires, v)]]
      /\ now' = v
      /\ lineage' = [lineage EXCEPT ![issued + 1] = lineage[caps[ps].id] \cup {caps[ps].id}]
      /\ UNCHANGED <<used, dead>>

\* Vault::create: checks the parent at tick t, finds slot s at tick u, sets
\* the expiry at tick v.
Create(ps, rights, ttl) ==
    /\ ps \in Occupied /\ caps[ps].active
    /\ DELEGATE \in caps[ps].rights /\ rights \subseteq caps[ps].rights
    /\ issued < MaxIssued /\ issued' = issued + 1
    /\ \E t \in now .. MaxTime : \E u \in t .. MaxTime : \E v \in u .. MaxTime, s \in Slots :
      /\ ~Expired(caps[ps], t)
      /\ FirstFit(s, t, u)
      /\ caps' = [caps EXCEPT ![s] = [id |-> issued + 1, rights |-> rights, parent |-> caps[ps].id,
                                      active |-> TRUE,
                                      expires |-> ExpiryOf(ttl, caps[ps].expires, v)]]
      /\ used' = [used EXCEPT ![s] = {}]
      /\ now' = v
      /\ lineage' = [lineage EXCEPT ![issued + 1] = lineage[caps[ps].id] \cup {caps[ps].id}]
      /\ UNCHANGED dead

-----------------------------------------------------------------------------
(* Revoking.                                                               *)

IdsOf(S) == {caps[s].id : s \in S}

\* The slots revoke_recursive starts from: the target's and every one that
\* is already inactive.
Seeds(target) == {s \in Occupied : caps[s].id = target \/ ~caps[s].active}

\* D holds every token delegated from a token in D.
Closed(D) == \A s \in Occupied \ D, d \in D : caps[s].parent # caps[d].id

\* revoke_recursive leaves inactive the least closed set of slots around
\* the seeds.
Revoked(target) ==
    LET seeds == Seeds(target)
        around == {D \in {seeds \cup E : E \in SUBSET (Occupied \ seeds)} : Closed(D)}
    IN  {s \in Occupied : \A D \in around : s \in D}

\* Mutant: one pass over the table.
LoopOnce(target) ==
    {s \in Occupied : s \in Seeds(target) \/ caps[s].parent \in IdsOf(Seeds(target))}

\* The loop of revoke_recursive: after n passes over the table
Loop(target) ==
    LET pass[n \in 0 .. MaxCapabilities] ==
          IF n = 0 THEN Seeds(target)
          ELSE LET revoked == pass[n - 1]
               IN  revoked \cup {s \in Occupied : caps[s].parent \in IdsOf(revoked)}
    IN  pass[MaxCapabilities]

\* Vault::revoke.  Only the revoker's rights are looked at.
Revoke(target) ==
    /\ REVOKE \in UNION {caps[rs].rights : rs \in Occupied}
    /\ LET gone == Revoked(target)
       IN  /\ caps' = [s \in Slots |->
                         IF s \in gone THEN [caps[s] EXCEPT !.active = FALSE] ELSE caps[s]]
           /\ dead' = dead \cup IdsOf(gone)
    /\ UNCHANGED <<used, now, issued, lineage>>

\* Mutant: what the token delegated stays.
ReleaseAlone(id) ==
    /\ id # Root
    /\ caps' = [s \in Slots |-> IF caps[s].id = id THEN Empty ELSE caps[s]]
    /\ dead' = dead \cup {id}
    /\ UNCHANGED <<used, now, issued, lineage>>

\* release_module_cap: the instance that holds `id' has ended
Release(id) ==
    /\ id # Root
    /\ LET gone == Revoked(id)
       IN  /\ caps' = [s \in Slots |-> IF s \in gone THEN Empty ELSE caps[s]]
           /\ dead' = dead \cup IdsOf(gone) \cup {id}
    /\ UNCHANGED <<used, now, issued, lineage>>

-----------------------------------------------------------------------------
\* Vault::check that passes
Check(s, required) ==
    /\ Usable(s) /\ required \subseteq caps[s].rights
    /\ used' = [used EXCEPT ![s] = @ \cup required]
    /\ UNCHANGED <<caps, now, issued, lineage, dead>>

Tick == now < MaxTime /\ now' = now + 1 /\ UNCHANGED <<caps, used, issued, lineage, dead>>

Next ==
    \/ \E ps \in Slots, rights \in SUBSET Rights, ttl \in Ttls : Create(ps, rights, ttl)
    \/ \E target \in 1 .. issued : Revoke(target)
    \/ \E id \in 1 .. issued : Release(id)
    \/ \E s \in Slots, required \in Requests : Check(s, required)
    \/ Tick

Spec == Init /\ [][Next]_vars

-----------------------------------------------------------------------------
(* Properties.                                                             *)

ExpiresNoLater(c, p) == p.expires = Never \/ (c.expires # Never /\ c.expires <= p.expires)

\* Whatever token `check' accepts, the token it was delegated from is still
\* in the vault and accepted too, holds DELEGATE and every right of it, and
\* expires no earlier.  Slot reuse, a parent that expires while `create'
\* runs, and revocation all keep it.
AuthorityChain ==
    \A s \in Slots : (Usable(s) /\ caps[s].parent # Null) =>
      \E p \in Slots :
        /\ caps[p].id = caps[s].parent
        /\ Usable(p)
        /\ caps[s].rights \subseteq caps[p].rights
        /\ DELEGATE \in caps[p].rights
        /\ ExpiresNoLater(caps[s], caps[p])

\* "Revoke a capability and all its children (transitive)"
\* (capability.rs:205): no token is accepted once it, or any token on the
\* way it was delegated, has been revoked or released, even when slots in
\* between were reused.
NothingUnderTheRevoked ==
    \A s \in Slots : Usable(s) => (lineage[caps[s].id] \cup {caps[s].id}) \cap dead = {}

\* usage_of never reports a right its token did not hold: the counters are
\* per slot and slots change owners.
UsedWithinHeld == \A s \in Occupied : used[s] \subseteq caps[s].rights

\* The passes of revoke_recursive reach the least closed set, from every
\* state the vault gets into and for every target.
LoopRevokesAll == \A target \in 1 .. issued : Loop(target) = Revoked(target)
=============================================================================
