------------------------------ MODULE Keyvault ------------------------------
(***************************************************************************)
(* The keyvault (kernel/src/security/keyvault.rs): one stored object with  *)
(* secrets in two tiers, each under a key of its own.  Every call loads    *)
(* the object, changes its copy and saves it whole; nothing is held        *)
(* between the load and the save, so the calls of several fibers overlap.  *)
(*                                                                         *)
(* A data key is a number; the key slots of a file are the numbers that    *)
(* they open to.  A load or a save may fail; a save that fails may yet be  *)
(* seen until the next start, as npkFS keeps a root whose commit failed    *)
(* (NpkRoot).  Passphrases are left out: a call that gives a wrong one     *)
(* ends at its load.                                                       *)
(***************************************************************************)
EXTENDS Naturals

CONSTANTS
    KvCallers,   \* fibers that use the vault
    Secrets,     \* names of secrets
    MaxDek,      \* bound: data keys drawn
    MaxVal       \* bound: values written

VARIABLES
    vfile,      \* the object sys/vault, as a fetch finds it
    saved,      \* it and `want` as of the last save that succeeded
    session,    \* USER_SESSION, 0 for None
    vcall,      \* per caller: its operation, where it is, its copy
    drawn,      \* data keys drawn so far
    vals,       \* values written so far
    want,       \* history: what the calls whose save took effect left
    blind       \* history: a save replaced a file that its caller had not read

kvVars == <<vfile, saved, session, vcall, drawn, vals, want, blind>>

ASSUME KvAssumption == MaxDek \in Nat /\ MaxVal \in Nat

Deks     == 0 .. MaxDek
KeySlots == {"system", "user"} \X Secrets

\* dek 0 and value 0: there is no such entry
Entry   == [dek : Deks, val : 0 .. MaxVal]
NoSecret == [dek |-> 0, val |-> 0]

File   == [here : BOOLEAN, sys : Deks, usr : Deks, entries : [KeySlots -> Entry]]
NoFile == [here |-> FALSE, sys |-> 0, usr |-> 0, entries |-> [e \in KeySlots |-> NoSecret]]

Ops    == {"init", "system_set", "system_delete", "user_set", "user_delete", "set_passphrase", "unlock_user"}
Makes  == {"init", "system_set", "set_passphrase"}
Writes == {"system_set", "user_set"}
Erases == {"system_delete", "user_delete"}
UserOp == {"user_set", "user_delete"}

\* dek: the key read from the session, or the one to put there; stale: another
\* save came after the load
KvCall == [at : {"idle", "load", "ensure", "save", "open"}, op : Ops, name : Secrets,
           val : 0 .. MaxVal, dek : Deks, copy : File, stale : BOOLEAN]

KvTypeOK ==
    /\ vfile \in File /\ saved \in [file : File, want : [KeySlots -> 0 .. MaxVal]] /\ session \in Deks /\ vcall \in [KvCallers -> KvCall]
    /\ drawn \in Deks /\ vals \in 0 .. MaxVal
    /\ want \in [KeySlots -> 0 .. MaxVal] /\ blind \in BOOLEAN
    /\ vfile.here <=> vfile.sys # 0
    /\ \A c \in KvCallers : vcall[c].at = "open" => vcall[c].dek # 0

Rest(call) == [call EXCEPT !.at = "idle", !.op = "init", !.val = 0, !.dek = 0, !.copy = NoFile, !.stale = FALSE]

KvInit ==
    /\ vfile = NoFile /\ session = 0 /\ drawn = 0 /\ vals = 0
    /\ vcall \in [KvCallers -> {[at |-> "idle", op |-> "init", name |-> n, val |-> 0, dek |-> 0,
                                 copy |-> NoFile, stale |-> FALSE] : n \in Secrets}]
    /\ want = [e \in KeySlots |-> 0] /\ blind = FALSE /\ saved = [file |-> vfile, want |-> want]

\* VaultFile::create, with a fresh key d
NewFile(d) == [here |-> TRUE, sys |-> d, usr |-> 0, entries |-> [e \in KeySlots |-> NoSecret]]

\* The slot an operation is about
SlotOf(call) == <<IF call.op \in UserOp THEN "user" ELSE "system", call.name>>

\* The first passphrase draws the key of the user tier
Draws(call, v) == call.op = "set_passphrase" /\ v.usr = 0

\* An entry goes into a copy
Put(v, slot, entry) == [v EXCEPT !.entries = [@ EXCEPT ![slot] = entry]]

\* Mutant: secrets of both tiers are sealed with the key of the system tier
ChangedOneKey(call, v, d) ==
    CASE call.op \in Writes           -> Put(v, SlotOf(call), [dek |-> v.sys, val |-> call.val])
      [] call.op \in Erases           -> Put(v, SlotOf(call), NoSecret)
      [] call.op = "set_passphrase"   -> IF Draws(call, v) THEN [v EXCEPT !.usr = d] ELSE v
      [] OTHER -> v

\* VaultFile::set, delete and set_passphrase on a copy; d is a fresh key
Changed(call, v, d) ==
    CASE call.op = "system_set"     -> Put(v, SlotOf(call), [dek |-> v.sys, val |-> call.val])
      [] call.op = "user_set"       -> Put(v, SlotOf(call), [dek |-> call.dek, val |-> call.val])
      [] call.op \in Erases         -> Put(v, SlotOf(call), NoSecret)
      [] call.op = "set_passphrase" -> IF Draws(call, v) THEN [v EXCEPT !.usr = d] ELSE v
      [] OTHER -> v

(***************************************************************************)
(* The steps of a call                                                     *)
(***************************************************************************)
\* The call starts; the user tier must be open for its entries
Begin(c, op, n) ==
    /\ vcall[c].at = "idle"
    /\ op \in UserOp => session # 0
    /\ op \in Writes => vals < MaxVal
    /\ vals' = IF op \in Writes THEN vals + 1 ELSE vals
    /\ vcall' = [vcall EXCEPT ![c] = [Rest(@) EXCEPT !.at = "load", !.op = op, !.name = n,
                                        !.val = IF op \in Writes THEN vals' ELSE 0,
                                        !.dek = IF op = "user_set" THEN session ELSE 0]]
    /\ UNCHANGED <<vfile, saved, session, drawn, want, blind>>

\* Copy v is at hand: the change is made to it, and it is to be saved
Proceed(c, v) ==
    LET call == vcall[c]
        d    == IF Draws(call, v) THEN drawn + 1 ELSE drawn
    IN  /\ d <= MaxDek /\ drawn' = d
        /\ vcall' = [vcall EXCEPT ![c] = [call EXCEPT !.at = "save", !.copy = Changed(call, v, d),
                                                      !.stale = FALSE]]

\* load, and ensure for the calls that make a vault: they make one when the
\* object cannot be read, for whatever reason.  The call ends here when there is
\* nothing to do, the passphrase is wrong, or a key slot cannot be made
Load(c, ok) ==
    LET call == vcall[c]
    IN  /\ call.at = "load"
        /\ \/ /\ ok /\ vfile.here /\ call.op \notin {"init", "unlock_user"}
              /\ Proceed(c, vfile)
           \/ /\ ok /\ vfile.here /\ call.op = "unlock_user" /\ vfile.usr # 0
              /\ vcall' = [vcall EXCEPT ![c].at = "open", ![c].dek = vfile.usr]
              /\ UNCHANGED drawn
           \/ /\ ~ok \/ ~vfile.here
              /\ call.op \in Makes /\ drawn < MaxDek
              /\ drawn' = drawn + 1
              /\ vcall' = [vcall EXCEPT ![c].at = "ensure", ![c].copy = NewFile(drawn + 1),
                                        ![c].stale = vfile.here]
           \/ /\ (ok /\ vfile.here) => call.op \notin Erases
              /\ vcall' = [vcall EXCEPT ![c] = Rest(@)]
              /\ UNCHANGED drawn
        /\ UNCHANGED <<vfile, saved, session, vals, want, blind>>

\* Mutant: the header that is stored already is kept
StoreEntries(c) ==
    /\ vfile' = [vcall[c].copy EXCEPT !.sys = IF vfile.here THEN vfile.sys ELSE @]
    /\ blind' = (blind \/ vcall[c].stale)

\* save: what the others hold is stale from now on
Store(c) ==
    /\ vfile' = vcall[c].copy
    /\ blind' = (blind \/ vcall[c].stale)

OthersStale(c, calls) ==
    [k \in KvCallers |-> IF k # c /\ calls[k].at \in {"ensure", "save"} THEN [calls[k] EXCEPT !.stale = TRUE]
                                                                     ELSE calls[k]]

\* What is wanted once the save of a call took effect; not kept track of any
\* more after a blind save
WantAfter(call) ==
    IF blind \/ call.stale THEN [e \in KeySlots |-> 0]
    ELSE IF call.at = "save" /\ call.op \in Writes \union Erases THEN [want EXCEPT ![SlotOf(call)] = call.val]
    ELSE want

\* The save of ensure, after which the call goes on with the new vault
\* unless its key slots cannot be made
EnsureSave(c, goesOn) ==
    LET call == vcall[c]
        d    == IF goesOn /\ Draws(call, call.copy) THEN drawn + 1 ELSE drawn
    IN  /\ call.at = "ensure" /\ d <= MaxDek
        /\ Store(c) /\ drawn' = d
        /\ vcall' = OthersStale(c, [vcall EXCEPT ![c] =
                IF call.op = "init" \/ ~goesOn THEN Rest(@)
                ELSE [@ EXCEPT !.at = "save", !.copy = Changed(call, call.copy, d), !.stale = FALSE]])
        /\ want' = WantAfter(call) /\ saved' = [file |-> vfile', want |-> want']
        /\ UNCHANGED <<session, vals>>

\* The save of the call itself; set_passphrase opens the tier afterwards
Save(c) ==
    LET call == vcall[c]
    IN  /\ call.at = "save"
        /\ Store(c)
        /\ vcall' = OthersStale(c, [vcall EXCEPT ![c] =
                IF call.op = "set_passphrase" THEN [Rest(@) EXCEPT !.at = "open", !.dek = call.copy.usr]
                ELSE Rest(@)])
        /\ want' = WantAfter(call) /\ saved' = [file |-> vfile', want |-> want']
        /\ UNCHANGED <<session, drawn, vals>>

\* A save that fails ends the call, whether it is seen or not (bound: one such
\* change at a time is seen)
SaveFails(c, seen) ==
    /\ vcall[c].at \in {"ensure", "save"}
    /\ seen => vfile = saved.file
    /\ LET ended == [vcall EXCEPT ![c] = Rest(@)]
       IN  IF seen THEN Store(c) /\ vcall' = OthersStale(c, ended) /\ want' = WantAfter(vcall[c])
                   ELSE vcall' = ended /\ UNCHANGED <<vfile, want, blind>>
    /\ UNCHANGED <<saved, session, drawn, vals>>

\* unlock_user and set_passphrase put the key into the session
Open(c) ==
    /\ vcall[c].at = "open"
    /\ session' = vcall[c].dek
    /\ vcall' = [vcall EXCEPT ![c] = Rest(@)]
    /\ UNCHANGED <<vfile, saved, drawn, vals, want, blind>>

LockUser ==
    /\ session # 0 /\ session' = 0
    /\ UNCHANGED <<vfile, saved, vcall, drawn, vals, want, blind>>

\* Power is lost: the session and the calls are gone, the object is the one
\* last seen, if the commit of another file took it along, or the one saved
Reboot(last) ==
    /\ session' = 0 /\ vcall' = [c \in KvCallers |-> Rest(vcall[c])]
    /\ vfile' = (IF last THEN vfile ELSE saved.file) /\ want' = (IF last THEN want ELSE saved.want)
    /\ saved' = [file |-> vfile', want |-> want']
    /\ UNCHANGED <<drawn, vals, blind>>

KvNext ==
    \/ \E c \in KvCallers : \/ \E op \in Ops, n \in Secrets : Begin(c, op, n)
                            \/ \E ok \in BOOLEAN : Load(c, ok) \/ EnsureSave(c, ok) \/ SaveFails(c, ok)
                            \/ Save(c) \/ Open(c)
    \/ \E last \in BOOLEAN : Reboot(last)
    \/ LockUser

KvSpec == KvInit /\ [][KvNext]_kvVars

(***************************************************************************)
(* Properties                                                              *)
(***************************************************************************)
\* Every system secret in a file opens with the key that the file's own slot
\* wraps (a file is saved whole, with the slot and the entries of one copy)
Coherent(v) == \A n \in Secrets : v.entries[<<"system", n>>] # NoSecret => v.entries[<<"system", n>>].dek = v.sys

\* Every system secret that is stored can be read with the device's slot of the
\* stored vault (system_get), whatever calls overlap, fail or are cut off, and
\* however often a vault is made anew
SystemReadable == Coherent(vfile)

\* As long as no save was blind, every user secret that is stored opens with
\* the key that the passphrase opens, and so does the key of the session: what
\* user_set writes in this session can be read in the next
UserReadable ==
    ~blind => /\ \A n \in Secrets : vfile.entries[<<"user", n>>] # NoSecret =>
                                        vfile.entries[<<"user", n>>].dek = vfile.usr
              /\ session # 0 => session = vfile.usr

\* As long as no save was blind, the vault holds what the calls left, one
\* after the other: all of it if the call returned true, all or nothing of a
\* call that failed or was cut off
AcknowledgedKept ==
    ~blind => \A e \in KeySlots : vfile.entries[e].val = want[e]

\* Both together: as long as no save was blind, what the calls left is stored
\* and opens with the key of the passphrase
UserSecretsKept == UserReadable /\ AcknowledgedKept

\* ensure makes a vault only where there is none: a vault that was saved keeps
\* its keys from one save to the next, so what is in it stays readable.  A save
\* that failed, and what a restart takes back of it, is not held against ensure
VaultKept == [][saved.file.here => saved'.file.here /\ saved'.file.sys = saved.file.sys]_kvVars
=============================================================================
