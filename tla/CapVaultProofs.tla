--------------------------- MODULE CapVaultProofs ---------------------------
(***************************************************************************)
(* AuthorityChain and NothingUnderTheRevoked hold for every size of the    *)
(* vault, every set of rights and every number of tokens issued.           *)
(*                                                                         *)
(* AuthorityChain is nearly inductive: besides the types it needs only     *)
(* that the closure taken by revoke_recursive is closed, and that a token  *)
(* never expires after the one it was delegated from, which AuthorityChain *)
(* itself says of the tokens that matter.                                  *)
(***************************************************************************)
EXTENDS CapVault, WellFoundedInduction, TLAPS

Inv == TypeOK /\ AuthorityChain

-----------------------------------------------------------------------------
\* The expiry `create' computes is an expiry, and never later than the
\* parent's.
LEMMA ExpiryBound ==
    ASSUME NEW ttl \in Ttls, NEW e \in Nat \cup {Never}, NEW t \in Nat
    PROVE  /\ ExpiryOf(ttl, e, t) \in Nat \cup {Never}
           /\ e # Never => /\ ExpiryOf(ttl, e, t) # Never
                           /\ ExpiryOf(ttl, e, t) <= e
BY TtlAssumption DEF ExpiryOf, Never

\* revoke_recursive leaves no delegation of a revoked token active: the set
\* it deactivates is closed under delegation.
LEMMA RevokedClosed ==
    ASSUME NEW target
    PROVE  /\ Revoked(target) \subseteq Occupied
           /\ Closed(Revoked(target))
<1>1. Revoked(target) \subseteq Occupied
  BY Zenon DEF Revoked
<1>2. ASSUME NEW s \in Occupied \ Revoked(target),
             NEW d \in Revoked(target), caps[d].id = caps[s].parent
      PROVE  FALSE
  <2>1. PICK E \in SUBSET (Occupied \ Seeds(target)) :
          /\ Closed(Seeds(target) \cup E)
          /\ s \notin Seeds(target) \cup E
    BY <1>2, Zenon DEF Revoked
  <2>2. d \in Seeds(target) \cup E
    BY <2>1, Zenon DEF Revoked
  <2>3. QED
    BY <1>2, <2>1, <2>2, Zenon DEF Closed, IdsOf
<1>3. QED
  BY <1>1, <1>2, Zenon DEF Closed, IdsOf

-----------------------------------------------------------------------------
LEMMA InitInv == Init => Inv
<1> SUFFICES ASSUME Init PROVE Inv
  BY Zenon
<1> USE SizeAssumption, RightsAssumption DEF Init
<1>1. TypeOK
  BY DEF TypeOK, Capability, Empty, Ids, Slots, Null, Root, Never
<1>2. AuthorityChain
  BY Zenon DEF AuthorityChain, Usable, Occupied, Empty, Null, Root
<1>3. QED
  BY <1>1, <1>2, Zenon DEF Inv

\* Issuing keeps the invariant: the slot taken over never holds a token that
\* something usable was delegated from, not even the parent itself.
LEMMA CreateInv ==
    ASSUME Inv, NEW ps \in Slots, NEW rights \in SUBSET Rights, NEW ttl \in Ttls,
           Create(ps, rights, ttl)
    PROVE  Inv'
<1>1. PICK t \in now .. MaxTime : \E u \in t .. MaxTime : \E v \in u .. MaxTime, s \in Slots :
        /\ ~Expired(caps[ps], t)
        /\ FirstFit(s, t, u)
        /\ caps' = [caps EXCEPT ![s] =
                      [id |-> issued + 1, rights |-> rights, parent |-> caps[ps].id,
                       active |-> TRUE, expires |-> ExpiryOf(ttl, caps[ps].expires, v)]]
        /\ used' = [used EXCEPT ![s] = {}]
        /\ now' = v
        /\ lineage' = [lineage EXCEPT ![issued + 1] = lineage[caps[ps].id] \cup {caps[ps].id}]
        /\ UNCHANGED dead
  BY Zenon DEF Create
<1>2. PICK u \in t .. MaxTime : \E v \in u .. MaxTime, s \in Slots :
        /\ ~Expired(caps[ps], t)
        /\ FirstFit(s, t, u)
        /\ caps' = [caps EXCEPT ![s] =
                      [id |-> issued + 1, rights |-> rights, parent |-> caps[ps].id,
                       active |-> TRUE, expires |-> ExpiryOf(ttl, caps[ps].expires, v)]]
        /\ used' = [used EXCEPT ![s] = {}]
        /\ now' = v
        /\ lineage' = [lineage EXCEPT ![issued + 1] = lineage[caps[ps].id] \cup {caps[ps].id}]
        /\ UNCHANGED dead
  BY <1>1, Zenon
<1>3. PICK v \in u .. MaxTime, s \in Slots :
        /\ ~Expired(caps[ps], t)
        /\ FirstFit(s, t, u)
        /\ caps' = [caps EXCEPT ![s] =
                      [id |-> issued + 1, rights |-> rights, parent |-> caps[ps].id,
                       active |-> TRUE, expires |-> ExpiryOf(ttl, caps[ps].expires, v)]]
        /\ used' = [used EXCEPT ![s] = {}]
        /\ now' = v
        /\ lineage' = [lineage EXCEPT ![issued + 1] = lineage[caps[ps].id] \cup {caps[ps].id}]
        /\ UNCHANGED dead
  BY <1>2, Zenon
<1> DEFINE exp == ExpiryOf(ttl, caps[ps].expires, v)
           new == [id |-> issued + 1, rights |-> rights, parent |-> caps[ps].id,
                   active |-> TRUE, expires |-> exp]
<1>4. /\ ps \in Occupied /\ caps[ps].active
      /\ DELEGATE \in caps[ps].rights /\ rights \subseteq caps[ps].rights
      /\ issued < MaxIssued /\ issued' = issued + 1
  BY Zenon DEF Create
<1>5. TypeOK
  BY Zenon DEF Inv
<1>6. /\ now \in Nat /\ t \in Nat /\ u \in Nat /\ v \in Nat
      /\ now <= t /\ t <= u /\ u <= v /\ v <= MaxTime /\ now' = v
  BY <1>3, <1>5, SizeAssumption DEF TypeOK
<1>7. /\ caps[ps].expires \in Nat \cup {Never}
      /\ caps[ps].id \in Ids
  BY <1>4, <1>5, Zenon DEF TypeOK, Capability, Occupied
<1>8. /\ exp \in Nat \cup {Never}
      /\ caps[ps].expires # Never => exp # Never /\ exp <= caps[ps].expires
  BY <1>6, <1>7, ExpiryBound, Zenon
<1>9. issued + 1 \in Ids /\ issued + 1 # Null
  BY <1>4, <1>5, SizeAssumption DEF TypeOK, Ids, Null
<1> HIDE DEF exp
<1>10. new \in Capability
  BY <1>7, <1>8, <1>9, Zenon DEF Capability
<1>11. /\ caps' = [caps EXCEPT ![s] = new]
       /\ caps'[s] = new
       /\ \A r \in Slots : r # s => caps'[r] = caps[r]
  BY <1>3, <1>5, Zenon DEF TypeOK, exp
<1> HIDE DEF new
<1>12. TypeOK'
  <2>1. caps' \in [Slots -> Capability]
    BY <1>5, <1>10, <1>11, Zenon DEF TypeOK
  <2>2. used' \in [Slots -> SUBSET Rights]
    BY <1>3, <1>5, Zenon DEF TypeOK
  <2>3. now' \in 0 .. MaxTime
    BY <1>6, SizeAssumption
  <2>4. issued' \in Ids
    BY <1>4, <1>9, Zenon
  <2>5. lineage' \in [Ids -> SUBSET Ids]
    BY <1>3, <1>5, <1>7, Zenon DEF TypeOK
  <2>6. dead' \subseteq Ids
    BY <1>3, <1>5, Zenon DEF TypeOK
  <2>7. QED
    BY <2>1, <2>2, <2>3, <2>4, <2>5, <2>6, Zenon DEF TypeOK
\* A token in the slot taken over is past its use at tick u.
<1>13. ASSUME s \in Occupied, caps[s].active
       PROVE  caps[s].expires # Never /\ u >= caps[s].expires
  BY <1>3, <1>13, Zenon DEF FirstFit, Reusable, Expired
<1>14. ASSUME NEW x \in Slots, Usable(x)', caps'[x].parent # Null
       PROVE  \E p \in Slots :
                /\ caps'[p].id = caps'[x].parent
                /\ Usable(p)'
                /\ caps'[x].rights \subseteq caps'[p].rights
                /\ DELEGATE \in caps'[p].rights
                /\ ExpiresNoLater(caps'[x], caps'[p])
  <2>1. CASE x = s
    <3>1. caps'[x].expires = exp /\ caps'[x].parent = caps[ps].id /\ caps'[x].rights = rights
      BY <1>11, <2>1 DEF new
    <3>2. exp = Never \/ v < exp
      BY <1>6, <1>8, <1>14, <3>1 DEF Usable, Expired, Never
    <3>3. caps[ps].expires = Never \/ v < caps[ps].expires
      BY <1>6, <1>7, <1>8, <3>2 DEF Never
    <3>4. ps # s
      BY <1>4, <1>6, <1>7, <1>13, <3>3 DEF Never
    <3>5. caps'[ps] = caps[ps]
      BY <1>11, <3>4, Zenon
    <3>6. Usable(ps)'
      BY <1>4, <1>6, <1>7, <3>3, <3>5 DEF Usable, Occupied, Expired, Never
    <3>7. ExpiresNoLater(caps'[x], caps'[ps])
      BY <1>8, <3>1, <3>5, Zenon DEF ExpiresNoLater
    <3>8. QED
      BY <1>4, <3>1, <3>5, <3>6, <3>7, Zenon
  <2>2. CASE x # s
    <3>1. caps'[x] = caps[x]
      BY <1>11, <2>2, Zenon
    <3>2. caps[x].expires \in Nat \cup {Never}
      BY <1>5, Zenon DEF TypeOK, Capability
    <3>3. caps[x].expires = Never \/ v < caps[x].expires
      BY <1>6, <1>14, <3>1, <3>2 DEF Usable, Expired, Never
    <3>4. Usable(x)
      BY <1>6, <1>14, <3>1, <3>2, <3>3 DEF Usable, Occupied, Expired, Never
    <3>5. PICK p \in Slots :
            /\ caps[p].id = caps[x].parent
            /\ Usable(p)
            /\ caps[x].rights \subseteq caps[p].rights
            /\ DELEGATE \in caps[p].rights
            /\ ExpiresNoLater(caps[x], caps[p])
      BY <1>14, <3>1, <3>4, Zenon DEF Inv, AuthorityChain
    <3>6. caps[p].expires \in Nat \cup {Never}
      BY <1>5, Zenon DEF TypeOK, Capability
    <3>7. caps[p].expires = Never \/ v < caps[p].expires
      BY <1>6, <3>2, <3>3, <3>5, <3>6 DEF ExpiresNoLater, Never
    <3>8. p # s
      BY <1>6, <1>13, <3>5, <3>6, <3>7 DEF Usable, Never
    <3>9. caps'[p] = caps[p]
      BY <1>11, <3>8, Zenon
    <3>10. Usable(p)'
      BY <1>6, <3>5, <3>6, <3>7, <3>9 DEF Usable, Occupied, Expired, Never
    <3>11. QED
      BY <3>1, <3>5, <3>9, <3>10, Zenon
  <2>3. QED
    BY <2>1, <2>2, Zenon
<1>15. AuthorityChain'
  BY <1>14, Zenon DEF AuthorityChain, ExpiresNoLater
<1>16. QED
  BY <1>12, <1>15, Zenon DEF Inv

-----------------------------------------------------------------------------
\* A step that leaves every token outside a delegation-closed set as it is,
\* and none inside usable, keeps AuthorityChain.
LEMMA DropClosed ==
    ASSUME Inv, NEW R, R \subseteq Occupied, Closed(R), now' = now,
           \A s \in Slots : s \notin R => caps'[s] = caps[s],
           \A s \in R : ~caps'[s].active
    PROVE  AuthorityChain'
<1>1. ASSUME NEW x \in Slots, Usable(x)', caps'[x].parent # Null
      PROVE  \E p \in Slots :
               /\ caps'[p].id = caps'[x].parent
               /\ Usable(p)'
               /\ caps'[x].rights \subseteq caps'[p].rights
               /\ DELEGATE \in caps'[p].rights
               /\ ExpiresNoLater(caps'[x], caps'[p])
  <2>1. x \notin R /\ caps'[x] = caps[x]
    BY <1>1, Zenon DEF Usable
  <2>2. Usable(x)
    BY <1>1, <2>1, Zenon DEF Usable, Occupied, Expired
  <2>3. PICK p \in Slots :
          /\ caps[p].id = caps[x].parent
          /\ Usable(p)
          /\ caps[x].rights \subseteq caps[p].rights
          /\ DELEGATE \in caps[p].rights
          /\ ExpiresNoLater(caps[x], caps[p])
    BY <1>1, <2>1, <2>2, Zenon DEF Inv, AuthorityChain
  <2>4. p \notin R
    BY <2>1, <2>2, <2>3, Zenon DEF Closed, IdsOf, Usable
  <2>5. caps'[p] = caps[p]
    BY <2>4, Zenon
  <2>6. Usable(p)'
    BY <2>3, <2>5, Zenon DEF Usable, Occupied, Expired
  <2>7. QED
    BY <2>1, <2>3, <2>5, <2>6, Zenon
<1>2. QED
  BY <1>1, Zenon DEF AuthorityChain, ExpiresNoLater

LEMMA RevokeInv ==
    ASSUME Inv, NEW target \in 1 .. issued, Revoke(target)
    PROVE  Inv'
<1> DEFINE gone == Revoked(target)
<1>1. gone \subseteq Occupied /\ Closed(gone)
  BY RevokedClosed, Zenon
<1>2. /\ caps' = [s \in Slots |->
                    IF s \in gone THEN [caps[s] EXCEPT !.active = FALSE] ELSE caps[s]]
      /\ dead' = dead \cup IdsOf(gone)
      /\ UNCHANGED <<used, now, issued, lineage>>
  BY Zenon DEF Revoke
<1> HIDE DEF gone
<1>3. TypeOK
  BY Zenon DEF Inv
<1>4. \A s \in gone : s \in Slots /\ caps[s].id \in Ids
  BY <1>1, <1>3, Zenon DEF TypeOK, Capability, Occupied
<1>5. TypeOK'
  <2>1. ASSUME NEW k \in Capability
        PROVE  [k EXCEPT !.active = FALSE] \in Capability
    BY Zenon DEF Capability
  <2>2. \A s \in Slots : caps[s] \in Capability
    BY <1>3, Zenon DEF TypeOK
  <2>3. caps' \in [Slots -> Capability]
    BY <1>2, <2>1, <2>2, Zenon
  <2>4. dead' \subseteq Ids
    BY <1>2, <1>3, <1>4, Zenon DEF TypeOK, IdsOf
  <2>5. QED
    BY <1>2, <1>3, <2>3, <2>4, Zenon DEF TypeOK
<1>6. \A s \in Slots : s \notin gone => caps'[s] = caps[s]
  BY <1>2, Zenon
<1>7. \A s \in gone : ~caps'[s].active
  BY <1>2, <1>3, <1>4, Zenon DEF TypeOK, Capability
<1>8. AuthorityChain'
  BY <1>1, <1>2, <1>6, <1>7, DropClosed, Zenon
<1>9. QED
  BY <1>5, <1>8, Zenon DEF Inv

LEMMA ReleaseInv ==
    ASSUME Inv, NEW id \in 1 .. issued, Release(id)
    PROVE  Inv'
<1> DEFINE gone == Revoked(id)
<1>1. gone \subseteq Occupied /\ Closed(gone)
  BY RevokedClosed, Zenon
<1>2. /\ caps' = [s \in Slots |-> IF s \in gone THEN Empty ELSE caps[s]]
      /\ dead' = dead \cup IdsOf(gone) \cup {id}
      /\ UNCHANGED <<used, now, issued, lineage>>
  BY Zenon DEF Release
<1> HIDE DEF gone
<1>3. TypeOK
  BY Zenon DEF Inv
<1>4. /\ \A s \in gone : s \in Slots /\ caps[s].id \in Ids
      /\ id \in Ids
  BY <1>1, <1>3, SizeAssumption DEF TypeOK, Capability, Occupied, Ids
<1>5. TypeOK'
  <2>1. Empty \in Capability
    BY Zenon DEF Empty, Capability
  <2>2. caps' \in [Slots -> Capability]
    BY <1>2, <1>3, <2>1, Zenon DEF TypeOK
  <2>3. dead' \subseteq Ids
    BY <1>2, <1>3, <1>4, Zenon DEF TypeOK, IdsOf
  <2>4. QED
    BY <1>2, <1>3, <2>2, <2>3, Zenon DEF TypeOK
<1>6. \A s \in Slots : s \notin gone => caps'[s] = caps[s]
  BY <1>2, Zenon
<1>7. \A s \in gone : ~caps'[s].active
  BY <1>2, <1>4, Zenon DEF Empty
<1>8. AuthorityChain'
  BY <1>1, <1>2, <1>6, <1>7, DropClosed, Zenon
<1>9. QED
  BY <1>5, <1>8, Zenon DEF Inv

\* Time only takes authority away, and takes a delegation's no later than
\* its parent's.
LEMMA TickInv ==
    ASSUME Inv, Tick
    PROVE  Inv'
<1>1. TypeOK /\ now \in Nat /\ now' = now + 1 /\ caps' = caps
  BY SizeAssumption DEF Inv, TypeOK, Tick
<1>2. TypeOK'
  BY <1>1, SizeAssumption DEF TypeOK, Tick
<1>3. ASSUME NEW x \in Slots, Usable(x)', caps[x].parent # Null
      PROVE  \E p \in Slots :
               /\ caps[p].id = caps[x].parent
               /\ Usable(p)'
               /\ caps[x].rights \subseteq caps[p].rights
               /\ DELEGATE \in caps[p].rights
               /\ ExpiresNoLater(caps[x], caps[p])
  <2>1. \A y \in Slots : caps[y].expires \in Nat \cup {Never}
    BY <1>1, Zenon DEF TypeOK, Capability
  <2>2. caps[x].expires = Never \/ now + 1 < caps[x].expires
    BY <1>1, <1>3, <2>1 DEF Usable, Expired, Never
  <2>3. Usable(x)
    BY <1>1, <1>3, <2>1, <2>2 DEF Usable, Occupied, Expired, Never
  <2>4. PICK p \in Slots :
          /\ caps[p].id = caps[x].parent
          /\ Usable(p)
          /\ caps[x].rights \subseteq caps[p].rights
          /\ DELEGATE \in caps[p].rights
          /\ ExpiresNoLater(caps[x], caps[p])
    BY <1>3, <2>3, Zenon DEF Inv, AuthorityChain
  <2>5. caps[p].expires = Never \/ now + 1 < caps[p].expires
    BY <1>1, <2>1, <2>2, <2>4 DEF ExpiresNoLater, Never
  <2>6. Usable(p)'
    BY <1>1, <2>1, <2>4, <2>5 DEF Usable, Occupied, Expired, Never
  <2>7. QED
    BY <2>4, <2>6, Zenon
<1>4. AuthorityChain'
  BY <1>1, <1>3, Zenon DEF AuthorityChain, ExpiresNoLater
<1>5. QED
  BY <1>2, <1>4, Zenon DEF Inv

\* Steps that touch neither the tokens nor the clock.
LEMMA StutterInv ==
    ASSUME Inv, UNCHANGED <<caps, now, issued, lineage, dead>>, used' \in [Slots -> SUBSET Rights]
    PROVE  Inv'
BY Zenon DEF Inv, TypeOK, AuthorityChain, Usable, Occupied, Expired, ExpiresNoLater

LEMMA NextInv == Inv /\ [Next]_vars => Inv'
<1> SUFFICES ASSUME Inv, [Next]_vars PROVE Inv'
  BY Zenon
<1>1. ASSUME NEW ps \in Slots, NEW rights \in SUBSET Rights, NEW ttl \in Ttls,
             Create(ps, rights, ttl)
      PROVE  Inv'
  BY <1>1, CreateInv, Zenon
<1>2. ASSUME NEW target \in 1 .. issued, Revoke(target) PROVE Inv'
  BY <1>2, RevokeInv, Zenon
<1>3. ASSUME NEW id \in 1 .. issued, Release(id) PROVE Inv'
  BY <1>3, ReleaseInv, Zenon
<1>4. ASSUME NEW s \in Slots, NEW required \in Requests, Check(s, required) PROVE Inv'
  <2>1. used' \in [Slots -> SUBSET Rights]
    BY <1>4, RightsAssumption, Zenon DEF Check, Inv, TypeOK
  <2>2. QED
    BY <1>4, <2>1, StutterInv, Zenon DEF Check
<1>5. CASE Tick
  BY <1>5, TickInv, Zenon
<1>6. CASE UNCHANGED vars
  <2>1. used' \in [Slots -> SUBSET Rights]
    BY <1>6, Zenon DEF vars, Inv, TypeOK
  <2>2. QED
    BY <1>6, <2>1, StutterInv, Zenon DEF vars
<1>7. QED
  BY <1>1, <1>2, <1>3, <1>4, <1>5, <1>6, Zenon DEF Next

-----------------------------------------------------------------------------
\* Every operation of the vault keeps the shape of its table: ids, parents
\* and expiries stay in range whatever ttl a caller asks for.
THEOREM VaultTypes == Spec => []TypeOK
<1>1. Inv => TypeOK
  BY Zenon DEF Inv
<1>2. QED
  BY InitInv, NextInv, <1>1, PTL DEF Spec

\* The vault's safety: at every moment, a token that `check' accepts stands
\* on a chain of accepted tokens with no fewer rights and no earlier expiry.
THEOREM VaultSafety == Spec => []AuthorityChain
<1>1. Inv => AuthorityChain
  BY Zenon DEF Inv
<1>2. QED
  BY InitInv, NextInv, <1>1, PTL DEF Spec

-----------------------------------------------------------------------------
(* Revocation reaches everything delegated from a token.  The chain of a   *)
(* token is as long as the delegations go, so the argument is an induction *)
(* along it: ids grow with every delegation, and a set of ids has a least  *)
(* member.                                                                 *)

\* Ids are handed out in order and once; the history of a token is that of
\* the token it was delegated from, and that token.
Ordered ==
    /\ \A s \in Occupied :
         /\ caps[s].id <= issued
         /\ caps[s].parent = Null => lineage[caps[s].id] = {}
         /\ caps[s].parent # Null =>
              /\ caps[s].parent < caps[s].id
              /\ lineage[caps[s].id] = lineage[caps[s].parent] \cup {caps[s].parent}
    /\ \A s, r \in Occupied : caps[s].id = caps[r].id => s = r
    /\ dead \subseteq 1 .. issued

RevInv == Inv /\ Ordered /\ NothingUnderTheRevoked

\* Every set of numbers has a least member.
LEMMA Least ==
    ASSUME NEW T \in SUBSET Nat, T # {}
    PROVE  \E m \in T : \A k \in T : m <= k
<1> DEFINE R == {ss \in Nat \X Nat : ss[1] < ss[2]}
<1>1. IsWellFoundedOn(R, Nat)
  BY NatLessThanWellFounded, Zenon DEF OpToRel
<1> HIDE DEF R
<1>2. PICK m \in T : \A k \in T : ~(<<k, m>> \in R)
  BY <1>1, WFMin, Zenon
<1>3. \A k \in T : k < m => <<k, m>> \in R
  BY Zenon DEF R
<1>4. m \in Nat /\ \A k \in T : k \in Nat
  BY Zenon
<1>5. ASSUME NEW k \in T PROVE m <= k
  <2>1. ~(k < m)
    BY <1>2, <1>3, Zenon
  <2>2. QED
    BY <1>4, <2>1
<1>6. QED
  BY <1>5, Zenon

\* The parent of a usable token is usable, older, and one step up its chain.
LEMMA Parent ==
    ASSUME Inv, Ordered, NEW y \in Slots, Usable(y), NEW a \in lineage[caps[y].id]
    PROVE  \E p \in Slots :
             /\ Usable(p) /\ caps[p].id = caps[y].parent
             /\ caps[p].id \in Nat /\ caps[y].id \in Nat /\ caps[p].id < caps[y].id
             /\ a = caps[p].id \/ a \in lineage[caps[p].id]
<1>1. y \in Occupied
  BY Zenon DEF Usable
<1>2. caps[y].parent # Null
  BY <1>1, Zenon DEF Ordered
<1>3. PICK p \in Slots : caps[p].id = caps[y].parent /\ Usable(p)
  BY <1>2, Zenon DEF Inv, AuthorityChain
<1>4. caps[p].id \in Nat /\ caps[y].id \in Nat
  BY <1>1, <1>3, SizeAssumption DEF Inv, TypeOK, Capability, Ids, Null
<1>5. /\ caps[y].parent < caps[y].id
      /\ lineage[caps[y].id] = lineage[caps[y].parent] \cup {caps[y].parent}
  BY <1>1, <1>2, Zenon DEF Ordered
<1>6. QED
  BY <1>3, <1>4, <1>5, Zenon

\* A set of slots that is closed under delegation holds, with a token, every
\* usable token below it.
LEMMA ClosedDown ==
    ASSUME Inv, Ordered, NEW G, G \subseteq Occupied, Closed(G),
           NEW x \in Slots, Usable(x), x \notin G, NEW g \in G
    PROVE  caps[g].id \notin lineage[caps[x].id]
<1> SUFFICES ASSUME caps[g].id \in lineage[caps[x].id] PROVE FALSE
  BY Zenon
<1> DEFINE a == caps[g].id
           Below == {y \in Slots : Usable(y) /\ y \notin G /\ a \in lineage[caps[y].id]}
           T == {caps[y].id : y \in Below}
<1>1. T \in SUBSET Nat
  BY SizeAssumption DEF Inv, TypeOK, Capability, Ids, Null
<1>2. T # {}
  BY Zenon
<1>3. PICK m \in T : \A k \in T : m <= k
  BY <1>1, <1>2, Least, Zenon
<1>4. PICK y \in Below : m = caps[y].id
  BY Zenon
<1>5. PICK p \in Slots :
        /\ Usable(p) /\ caps[p].id = caps[y].parent
        /\ caps[p].id \in Nat /\ caps[y].id \in Nat /\ caps[p].id < caps[y].id
        /\ a = caps[p].id \/ a \in lineage[caps[p].id]
  BY <1>4, Parent, Zenon
<1>6. \A d \in G : caps[d].id # caps[y].parent
  BY <1>4, Zenon DEF Closed, Usable
<1>7. a # caps[p].id /\ p \notin G
  BY <1>5, <1>6, Zenon
<1>8. caps[p].id \in T
  BY <1>5, <1>7, Zenon
<1>9. QED
  BY <1>3, <1>4, <1>5, <1>8

\* The tokens a usable one was delegated through are all in the vault.
LEMMA AncestorHere ==
    ASSUME Inv, Ordered, NEW x \in Slots, Usable(x), NEW a \in lineage[caps[x].id]
    PROVE  \E p \in Slots : Usable(p) /\ caps[p].id = a
<1> SUFFICES ASSUME \A p \in Slots : ~(Usable(p) /\ caps[p].id = a) PROVE FALSE
  BY Zenon
<1> DEFINE Below == {y \in Slots : Usable(y) /\ a \in lineage[caps[y].id]}
           T == {caps[y].id : y \in Below}
<1>1. T \in SUBSET Nat
  BY SizeAssumption DEF Inv, TypeOK, Capability, Ids, Null
<1>2. T # {}
  BY Zenon
<1>3. PICK m \in T : \A k \in T : m <= k
  BY <1>1, <1>2, Least, Zenon
<1>4. PICK y \in Below : m = caps[y].id
  BY Zenon
<1>5. PICK p \in Slots :
        /\ Usable(p) /\ caps[p].id = caps[y].parent
        /\ caps[p].id \in Nat /\ caps[y].id \in Nat /\ caps[p].id < caps[y].id
        /\ a = caps[p].id \/ a \in lineage[caps[p].id]
  BY <1>4, Parent, Zenon
<1>6. caps[p].id \in T
  BY <1>5, Zenon
<1>7. QED
  BY <1>3, <1>4, <1>5, <1>6

-----------------------------------------------------------------------------
\* What is usable after a step that left its slot alone was usable before.
LEMMA UsableBefore ==
    ASSUME TypeOK, TypeOK', NEW x \in Slots, caps'[x] = caps[x], now <= now', Usable(x)'
    PROVE  Usable(x)
<1>1. now \in Nat /\ now' \in Nat /\ caps[x].expires \in Nat \cup {Never}
  BY SizeAssumption DEF TypeOK, Capability
<1>2. QED
  BY <1>1 DEF Usable, Occupied, Expired, Never

LEMMA InitRev == Init => RevInv
<1> SUFFICES ASSUME Init PROVE RevInv
  BY Zenon
<1>1. Inv
  BY InitInv, Zenon
<1>2. Ordered /\ NothingUnderTheRevoked
  BY SizeAssumption DEF Init, Ordered, NothingUnderTheRevoked, Occupied, Usable, Empty,
                        Ids, Slots, Null, Root
<1>3. QED
  BY <1>1, <1>2, Zenon DEF RevInv

\* A new token's id is greater than every other, and its chain is that of a
\* parent that is accepted.
LEMMA CreateRev ==
    ASSUME RevInv, NEW ps \in Slots, NEW rights \in SUBSET Rights, NEW ttl \in Ttls,
           Create(ps, rights, ttl)
    PROVE  RevInv'
<1>1. Inv /\ TypeOK /\ Ordered /\ NothingUnderTheRevoked
  BY Zenon DEF RevInv, Inv
<1>2. Inv' /\ TypeOK'
  BY <1>1, CreateInv, Zenon DEF Inv
<1>3. PICK s \in Slots : \E c :
        /\ caps' = [caps EXCEPT ![s] = c]
        /\ c.id = issued + 1 /\ c.parent = caps[ps].id
        /\ lineage' = [lineage EXCEPT ![issued + 1] = lineage[caps[ps].id] \cup {caps[ps].id}]
        /\ dead' = dead /\ now <= now'
        /\ Usable(ps)
  <2>1. now \in Nat /\ MaxTime \in Nat
    BY <1>1, SizeAssumption DEF TypeOK
  <2>2. PICK t \in now .. MaxTime, v \in now .. MaxTime, s \in Slots :
          /\ ~Expired(caps[ps], t)
          /\ caps' = [caps EXCEPT ![s] =
                        [id |-> issued + 1, rights |-> rights, parent |-> caps[ps].id,
                         active |-> TRUE, expires |-> ExpiryOf(ttl, caps[ps].expires, v)]]
          /\ now' = v
          /\ lineage' = [lineage EXCEPT ![issued + 1] = lineage[caps[ps].id] \cup {caps[ps].id}]
          /\ UNCHANGED dead
    <3>1. \A t \in now .. MaxTime : \A u \in t .. MaxTime : \A v \in u .. MaxTime :
            v \in now .. MaxTime
      BY <2>1
    <3>2. QED
      BY <3>1, ZenonT(40) DEF Create
  <2>3. now \in Nat /\ t \in Nat /\ v \in Nat /\ now <= t /\ now <= v
        /\ caps[ps].expires \in Nat \cup {Never}
    BY <1>1, <2>1 DEF TypeOK, Capability
  <2>4. Usable(ps)
    BY <2>2, <2>3 DEF Create, Usable, Expired, Never
  <2> DEFINE c == [id |-> issued + 1, rights |-> rights, parent |-> caps[ps].id,
                   active |-> TRUE, expires |-> ExpiryOf(ttl, caps[ps].expires, v)]
  <2>5. c.id = issued + 1 /\ c.parent = caps[ps].id
    BY Zenon
  <2>6. caps' = [caps EXCEPT ![s] = c]
    BY <2>2, ZenonT(40)
  <2> HIDE DEF c
  <2>7. QED
    BY <2>2, <2>3, <2>4, <2>5, <2>6, Zenon
<1>4. /\ issued \in Nat /\ issued + 1 \in Ids /\ issued' = issued + 1
      /\ ps \in Occupied /\ caps[ps].id \in Ids /\ caps[ps].id <= issued
      /\ caps[ps].id # Null
  BY <1>1, SizeAssumption DEF Create, TypeOK, Ids, Ordered, Occupied, Capability
<1>5. /\ caps'[s].id = issued + 1 /\ caps'[s].parent = caps[ps].id
      /\ \A r \in Slots : r # s => caps'[r] = caps[r]
  BY <1>1, <1>3, Zenon DEF TypeOK
<1>6. /\ lineage'[issued + 1] = lineage[caps[ps].id] \cup {caps[ps].id}
      /\ \A i \in Ids : i # issued + 1 => lineage'[i] = lineage[i]
  BY <1>1, <1>3, <1>4, Zenon DEF TypeOK
<1>7. \A r \in Occupied :
        /\ caps[r].id \in Ids /\ caps[r].id <= issued /\ caps[r].id # issued + 1
        /\ lineage'[caps[r].id] = lineage[caps[r].id]
  <2>1. \A r \in Occupied : caps[r].id \in Ids /\ caps[r].id <= issued
    BY <1>1, Zenon DEF TypeOK, Capability, Occupied, Ordered
  <2>2. QED
    BY <1>4, <1>6, <2>1 DEF Ids
<1>8. \A r \in Slots : r # s => (r \in Occupied' <=> r \in Occupied)
  BY <1>5, Zenon DEF Occupied
<1>9. Ordered'
  <2>1. ASSUME NEW r \in Occupied'
        PROVE  /\ caps'[r].id <= issued'
               /\ caps'[r].parent = Null => lineage'[caps'[r].id] = {}
               /\ caps'[r].parent # Null =>
                    /\ caps'[r].parent < caps'[r].id
                    /\ lineage'[caps'[r].id] = lineage'[caps'[r].parent] \cup {caps'[r].parent}
    <3>1. CASE r = s
      BY <1>4, <1>5, <1>6, <1>7, <3>1 DEF Ids
    <3>2. CASE r # s
      <4>1. r \in Occupied /\ caps'[r] = caps[r]
        BY <1>5, <1>8, <3>2, Zenon DEF Occupied
      <4>2. caps[r].id \in Ids /\ caps[r].id <= issued /\ caps[r].parent \in Ids \cup {Null}
        BY <1>1, <1>7, <4>1, Zenon DEF TypeOK, Capability, Occupied
      <4>3. caps[r].parent # Null =>
              /\ caps[r].parent < caps[r].id
              /\ lineage'[caps[r].parent] = lineage[caps[r].parent]
        BY <1>1, <1>4, <1>6, <4>1, <4>2, SizeAssumption DEF Ordered, Ids
      <4>4. QED
        BY <1>1, <1>4, <1>7, <4>1, <4>2, <4>3, SizeAssumption DEF Ordered, Ids
    <3>3. QED
      BY <3>1, <3>2, Zenon
  <2>2. ASSUME NEW r \in Occupied', NEW q \in Occupied', caps'[r].id = caps'[q].id
        PROVE  r = q
    BY <1>1, <1>5, <1>7, <1>8, <2>2 DEF Ordered, Occupied
  <2>3. dead' \subseteq 1 .. issued'
    BY <1>1, <1>3, <1>4 DEF Ordered
  <2>4. QED
    BY <2>1, <2>2, <2>3, Zenon DEF Ordered
<1>10. ASSUME NEW x \in Slots, Usable(x)'
       PROVE  (lineage'[caps'[x].id] \cup {caps'[x].id}) \cap dead' = {}
  <2>1. CASE x = s
    <3>1. (lineage[caps[ps].id] \cup {caps[ps].id}) \cap dead = {}
      BY <1>1, <1>3, Zenon DEF NothingUnderTheRevoked
    <3>2. issued + 1 \notin dead
      BY <1>1, <1>4 DEF Ordered
    <3>3. QED
      BY <1>3, <1>5, <1>6, <2>1, <3>1, <3>2
  <2>2. CASE x # s
    <3>1. Usable(x)
      BY <1>1, <1>2, <1>3, <1>5, <1>10, <2>2, UsableBefore, Zenon
    <3>2. QED
      BY <1>1, <1>3, <1>5, <1>7, <2>2, <3>1, ZenonT(40) DEF NothingUnderTheRevoked, Usable
  <2>3. QED
    BY <2>1, <2>2, Zenon
<1>11. QED
  BY <1>2, <1>9, <1>10, Zenon DEF RevInv, NothingUnderTheRevoked

\* What revoke_recursive starts from is part of what it leaves inactive.
LEMMA SeedsRevoked ==
    ASSUME NEW target
    PROVE  Seeds(target) \subseteq Revoked(target)
BY Zenon DEF Revoked, Seeds

\* A step that takes a delegation-closed set of tokens out of use, and
\* records as dead these and at most one id that no token outside the set
\* has in its chain, keeps the invariant.
LEMMA DropRev ==
    ASSUME RevInv, Inv', NEW G, G \subseteq Occupied, Closed(G), NEW D, D \subseteq 1 .. issued,
           \A s \in Slots : s \notin G => caps'[s] = caps[s],
           \A s \in G : /\ ~caps'[s].active
                        /\ s \in Occupied' => caps'[s].id = caps[s].id
                                              /\ caps'[s].parent = caps[s].parent,
           dead' = dead \cup IdsOf(G) \cup D,
           \A x \in Slots : Usable(x) /\ x \notin G =>
             (lineage[caps[x].id] \cup {caps[x].id}) \cap D = {},
           now' = now, issued' = issued, lineage' = lineage
    PROVE  RevInv'
<1>1. Inv /\ TypeOK /\ TypeOK' /\ Ordered /\ NothingUnderTheRevoked
  BY Zenon DEF RevInv, Inv
<1>2. \A s \in Occupied' :
        s \in Occupied /\ caps'[s].id = caps[s].id /\ caps'[s].parent = caps[s].parent
  BY Zenon DEF Occupied
<1>3. dead' \subseteq 1 .. issued
  <2>1. \A s \in Occupied : caps[s].id \in 1 .. issued
    BY <1>1, SizeAssumption DEF TypeOK, Capability, Ids, Occupied, Ordered
  <2>2. IdsOf(G) \subseteq 1 .. issued
    BY <2>1, Zenon DEF IdsOf
  <2>3. dead \subseteq 1 .. issued
    BY <1>1, Zenon DEF Ordered
  <2>4. QED
    BY <2>2, <2>3, Zenon
<1>4. Ordered'
  BY <1>1, <1>2, <1>3 DEF Ordered
<1>5. ASSUME NEW x \in Slots, Usable(x)'
      PROVE  (lineage'[caps'[x].id] \cup {caps'[x].id}) \cap dead' = {}
  <2>1. x \notin G /\ caps'[x] = caps[x]
    BY <1>5, Zenon DEF Usable
  <2>2. now <= now'
    BY <1>1, SizeAssumption DEF TypeOK
  <2>3. Usable(x)
    BY <1>1, <1>5, <2>1, <2>2, UsableBefore, Zenon
  <2>4. (lineage[caps[x].id] \cup {caps[x].id}) \cap dead = {}
    BY <1>1, <2>3, Zenon DEF NothingUnderTheRevoked
  <2>5. \A g \in G : caps[g].id \notin lineage[caps[x].id]
    BY <1>1, <2>1, <2>3, ClosedDown, Zenon
  <2>6. \A g \in G : caps[g].id # caps[x].id
    BY <1>1, <2>1, <2>3, Zenon DEF Ordered, Usable
  <2>7. QED
    BY <2>1, <2>3, <2>4, <2>5, <2>6 DEF IdsOf
<1>6. QED
  BY <1>4, <1>5, Zenon DEF RevInv, NothingUnderTheRevoked

LEMMA RevokeRev ==
    ASSUME RevInv, NEW target \in 1 .. issued, Revoke(target)
    PROVE  RevInv'
<1> DEFINE gone == Revoked(target)
<1>1. Inv' /\ TypeOK
  BY RevokeInv, Zenon DEF RevInv, Inv
<1>2. gone \subseteq Occupied /\ Closed(gone)
  BY RevokedClosed, Zenon
<1>3. /\ caps' = [s \in Slots |->
                    IF s \in gone THEN [caps[s] EXCEPT !.active = FALSE] ELSE caps[s]]
      /\ dead' = dead \cup IdsOf(gone)
      /\ now' = now /\ issued' = issued /\ lineage' = lineage
  BY Zenon DEF Revoke
<1> HIDE DEF gone
<1>4. \A s \in Slots : s \notin gone => caps'[s] = caps[s]
  BY <1>3, Zenon
<1>5. \A s \in gone : /\ ~caps'[s].active
                      /\ s \in Occupied' => caps'[s].id = caps[s].id
                                            /\ caps'[s].parent = caps[s].parent
  BY <1>1, <1>2, <1>3, Zenon DEF TypeOK, Capability, Occupied
<1> DEFINE none == {}
<1>6. /\ none \subseteq 1 .. issued
      /\ dead' = dead \cup IdsOf(gone) \cup none
      /\ \A x \in Slots : Usable(x) /\ x \notin gone =>
           (lineage[caps[x].id] \cup {caps[x].id}) \cap none = {}
  BY <1>3, Zenon
<1> HIDE DEF none
<1>7. QED
  BY <1>1, <1>2, <1>3, <1>4, <1>5, <1>6, DropRev, ZenonT(40)

LEMMA ReleaseRev ==
    ASSUME RevInv, NEW id \in 1 .. issued, Release(id)
    PROVE  RevInv'
<1> DEFINE gone == Revoked(id)
<1>1. Inv' /\ Inv /\ Ordered
  BY ReleaseInv, Zenon DEF RevInv
<1>2. gone \subseteq Occupied /\ Closed(gone) /\ Seeds(id) \subseteq gone
  BY RevokedClosed, SeedsRevoked, Zenon
<1>3. /\ caps' = [s \in Slots |-> IF s \in gone THEN Empty ELSE caps[s]]
      /\ dead' = dead \cup IdsOf(gone) \cup {id}
      /\ now' = now /\ issued' = issued /\ lineage' = lineage
  BY Zenon DEF Release
<1> HIDE DEF gone
<1>4. \A s \in Slots : s \notin gone => caps'[s] = caps[s]
  BY <1>3, Zenon
<1>5. \A s \in gone : /\ ~caps'[s].active
                      /\ s \in Occupied' => caps'[s].id = caps[s].id
                                            /\ caps'[s].parent = caps[s].parent
  BY <1>2, <1>3, Zenon DEF Empty, Occupied, Null
<1>6. ASSUME NEW x \in Slots, Usable(x), x \notin gone
      PROVE  (lineage[caps[x].id] \cup {caps[x].id}) \cap {id} = {}
  <2>1. \A s \in Occupied : caps[s].id = id => s \in gone
    BY <1>2, Zenon DEF Seeds
  <2>2. caps[x].id # id
    BY <1>6, <2>1, Zenon DEF Usable
  <2>3. ASSUME id \in lineage[caps[x].id] PROVE FALSE
    <3>1. PICK p \in Slots : Usable(p) /\ caps[p].id = id
      BY <1>1, <1>6, <2>3, AncestorHere, Zenon
    <3>2. p \in gone
      BY <2>1, <3>1, Zenon DEF Usable
    <3>3. QED
      BY <1>1, <1>2, <1>6, <2>3, <3>1, <3>2, ClosedDown, Zenon
  <2>4. QED
    BY <2>2, <2>3, Zenon
<1> DEFINE named == {id}
<1>7. /\ named \subseteq 1 .. issued
      /\ dead' = dead \cup IdsOf(gone) \cup named
      /\ \A x \in Slots : Usable(x) /\ x \notin gone =>
           (lineage[caps[x].id] \cup {caps[x].id}) \cap named = {}
  BY <1>3, <1>6, ZenonT(40)
<1> HIDE DEF named
<1>8. QED
  BY <1>1, <1>2, <1>3, <1>4, <1>5, <1>7, DropRev, Zenon

LEMMA NextRev == RevInv /\ [Next]_vars => RevInv'
<1> SUFFICES ASSUME RevInv, [Next]_vars PROVE RevInv'
  BY Zenon
<1>1. ASSUME NEW ps \in Slots, NEW rights \in SUBSET Rights, NEW ttl \in Ttls,
             Create(ps, rights, ttl)
      PROVE  RevInv'
  BY <1>1, CreateRev, Zenon
<1>2. ASSUME NEW target \in 1 .. issued, Revoke(target) PROVE RevInv'
  BY <1>2, RevokeRev, Zenon
<1>3. ASSUME NEW id \in 1 .. issued, Release(id) PROVE RevInv'
  BY <1>3, ReleaseRev, Zenon
<1>4. ASSUME caps' = caps, issued' = issued, lineage' = lineage, dead' = dead, now <= now', Inv'
      PROVE  RevInv'
  <2>1. Inv /\ TypeOK /\ TypeOK' /\ Ordered /\ NothingUnderTheRevoked
    BY <1>4, Zenon DEF RevInv, Inv
  <2>2. Ordered'
    BY <1>4, <2>1, Zenon DEF Ordered, Occupied
  <2>3. \A x \in Slots : Usable(x)' => Usable(x)
    BY <1>4, <2>1, UsableBefore, Zenon
  <2>4. NothingUnderTheRevoked'
    BY <1>4, <2>1, <2>3, Zenon DEF NothingUnderTheRevoked
  <2>5. QED
    BY <1>4, <2>2, <2>4, Zenon DEF RevInv
<1>5. Inv' /\ now \in Nat
  BY NextInv, SizeAssumption DEF RevInv, Inv, TypeOK
<1>6. ASSUME NEW s \in Slots, NEW required \in Requests, Check(s, required) PROVE RevInv'
  BY <1>4, <1>5, <1>6 DEF Check
<1>7. ASSUME Tick PROVE RevInv'
  BY <1>4, <1>5, <1>7 DEF Tick
<1>8. ASSUME UNCHANGED vars PROVE RevInv'
  BY <1>4, <1>5, <1>8 DEF vars
<1>9. QED
  BY <1>1, <1>2, <1>3, <1>6, <1>7, <1>8, Zenon DEF Next

\* Revocation is transitive, however long the chain of delegations and
\* however often slots were reused in between: no token that `check' accepts
\* was delegated through one that was revoked or released.
THEOREM VaultRevocation == Spec => []NothingUnderTheRevoked
<1>1. RevInv => NothingUnderTheRevoked
  BY Zenon DEF RevInv
<1>2. QED
  BY InitRev, NextRev, <1>1, PTL DEF Spec
=============================================================================
