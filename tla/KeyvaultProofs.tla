--------------------------- MODULE KeyvaultProofs ---------------------------
(***************************************************************************)
(* Every stored system secret can be read and, as long as no save was      *)
(* blind, the vault holds what the calls left, for any number of callers,  *)
(* secrets, keys and values.  The inductive invariants say of every copy   *)
(* in the hands of a call what the properties say of the stored file.      *)
(***************************************************************************)
EXTENDS Keyvault, TLAPS

\* A vault that exists has a key, and its system secrets are under that key
Sound(v) == Coherent(v) /\ (v.here <=> v.sys # 0)

\* The same of a copy that is to be saved, and of the key that is to be opened
CallSound(call) ==
    /\ Sound(call.copy)
    /\ call.at \in {"ensure", "save"} => call.copy.here
    /\ call.at = "save" /\ call.op = "set_passphrase" => call.copy.usr # 0

CallsOK(calls) ==
    /\ calls \in [KvCallers -> KvCall]
    /\ \A k \in KvCallers : CallSound(calls[k]) /\ (calls[k].at = "open" => calls[k].dek # 0)

KvInv ==
    /\ KvTypeOK
    /\ Sound(vfile) /\ Sound(saved.file)
    /\ CallsOK(vcall)

\* The empty file, and the one that VaultFile::create makes, are sound
LEMMA NewFileSound ==
    /\ NoFile \in File /\ Sound(NoFile)
    /\ \A d \in Deks \ {0} : NewFile(d) \in File /\ Sound(NewFile(d)) /\ NewFile(d).here /\ NewFile(d).usr = 0
<1>1. 0 \in Deks /\ 0 \in 0 .. MaxVal
  BY KvAssumption DEF Deks
<1>2. NoSecret \in Entry
  BY <1>1, Zenon DEF NoSecret, Entry
<1>3. NoFile \in File
  BY <1>1, <1>2, Zenon DEF NoFile, File
<1>4. \A n \in Secrets : <<"system", n>> \in KeySlots
  BY Zenon DEF KeySlots
<1>5. Sound(NoFile)
  BY <1>4, Zenon DEF Sound, Coherent, NoFile
<1>6. ASSUME NEW d \in Deks \ {0}
      PROVE  NewFile(d) \in File /\ Sound(NewFile(d)) /\ NewFile(d).here /\ NewFile(d).usr = 0
  <2>1. NewFile(d) \in File
    BY <1>1, <1>2, Zenon DEF File, NewFile
  <2>2. Sound(NewFile(d))
    BY <1>4, Zenon DEF Sound, Coherent, NewFile
  <2> QED
    BY <2>1, <2>2, Zenon DEF NewFile
<1> QED
  BY <1>3, <1>5, <1>6, Zenon

\* An entry put into a sound file leaves it sound, if it is no system secret,
\* is empty, or is under the key of the file
LEMMA PutSound ==
    ASSUME NEW v \in File, NEW slot \in KeySlots, NEW entry \in Entry, Sound(v),
           slot[1] = "system" => entry = NoSecret \/ entry.dek = v.sys
    PROVE  /\ Put(v, slot, entry) \in File /\ Sound(Put(v, slot, entry))
           /\ Put(v, slot, entry).here = v.here
<1> DEFINE w == Put(v, slot, entry)
<1>1. w \in File /\ w.here = v.here /\ w.sys = v.sys
  BY Zenon DEF Put, File
<1>2. w.entries = [v.entries EXCEPT ![slot] = entry]
  BY Zenon DEF Put, File
<1>3. ASSUME NEW n \in Secrets, w.entries[<<"system", n>>] # NoSecret
      PROVE  w.entries[<<"system", n>>].dek = w.sys
  <2>1. <<"system", n>> \in KeySlots /\ v.entries \in [KeySlots -> Entry]
    BY Zenon DEF KeySlots, File
  <2>2. CASE slot = <<"system", n>>
    BY <1>1, <1>2, <1>3, <2>1, <2>2, Zenon
  <2>3. CASE slot # <<"system", n>>
    BY <1>1, <1>2, <1>3, <2>1, <2>3, Zenon DEF Sound, Coherent
  <2> QED
    BY <2>2, <2>3, Zenon
<1>4. Coherent(w)
  BY <1>3, Zenon DEF Coherent
<1> QED
  BY <1>1, <1>4, Zenon DEF Sound

\* A change of a sound copy (VaultFile::set, delete, set_passphrase) is sound:
\* a system secret is written under the copy's own key
LEMMA ChangedSound ==
    ASSUME NEW call \in KvCall, NEW v \in File, NEW d \in Deks, Sound(v), v.here,
           Draws(call, v) => d # 0
    PROVE  /\ Changed(call, v, d) \in File /\ Sound(Changed(call, v, d)) /\ Changed(call, v, d).here
           /\ call.op = "set_passphrase" => Changed(call, v, d).usr # 0
<1> DEFINE w == Changed(call, v, d)
<1>1. SlotOf(call) \in KeySlots
  BY Zenon DEF SlotOf, KeySlots, KvCall
<1>2. NoSecret \in Entry
  BY KvAssumption DEF NoSecret, Entry, Deks
<1>3. CASE call.op = "system_set"
  <2>1. [dek |-> v.sys, val |-> call.val] \in Entry
    BY Zenon DEF File, Entry, KvCall
  <2>2. w = Put(v, SlotOf(call), [dek |-> v.sys, val |-> call.val])
    BY <1>3, Zenon DEF Changed, Erases
  <2> QED
    BY <1>1, <1>3, <2>1, <2>2, PutSound, Zenon
<1>4. CASE call.op = "user_set"
  <2>1. [dek |-> call.dek, val |-> call.val] \in Entry
    BY Zenon DEF Entry, KvCall
  <2>2. w = Put(v, SlotOf(call), [dek |-> call.dek, val |-> call.val])
    BY <1>4, Zenon DEF Changed, Erases
  <2>3. SlotOf(call)[1] = "user"
    BY <1>4, Zenon DEF SlotOf, UserOp
  <2> QED
    BY <1>1, <1>4, <2>1, <2>2, <2>3, PutSound, Zenon
<1>5. CASE call.op \in Erases
  <2>1. w = Put(v, SlotOf(call), NoSecret)
    BY <1>5, Zenon DEF Changed, Erases
  <2> QED
    BY <1>1, <1>2, <1>5, <2>1, PutSound, ZenonT(40) DEF Erases
<1>6. CASE call.op = "set_passphrase"
  <2>1. w = IF Draws(call, v) THEN [v EXCEPT !.usr = d] ELSE v
    BY <1>6, Zenon DEF Changed, Erases
  <2>2. w \in File /\ w.here /\ w.sys = v.sys /\ w.entries = v.entries
    BY <2>1, Zenon DEF File
  <2>3. w.usr # 0
    BY <1>6, <2>1, Zenon DEF File, Draws
  <2> QED
    BY <2>2, <2>3, Zenon DEF Sound, Coherent
<1>7. CASE call.op \notin {"system_set", "user_set", "set_passphrase"} \union Erases
  BY <1>7, Zenon DEF Changed
<1> QED
  BY <1>3, <1>4, <1>5, <1>6, <1>7, Zenon

\* A call at rest is sound
LEMMA RestSound ==
    ASSUME NEW call \in KvCall
    PROVE  Rest(call) \in KvCall /\ CallSound(Rest(call)) /\ Rest(call).at = "idle"
<1>1. NoFile \in File /\ Sound(NoFile) /\ 0 \in Deks /\ 0 \in 0 .. MaxVal
  BY NewFileSound, KvAssumption DEF Deks
<1>2. Rest(call) \in KvCall
  BY <1>1, Zenon DEF Rest, KvCall, Ops
<1>3. Rest(call).at = "idle" /\ Rest(call).copy = NoFile
  BY Zenon DEF Rest, KvCall
<1> QED
  BY <1>1, <1>2, <1>3, Zenon DEF CallSound

\* One call is replaced by a sound one
LEMMA OneCallOK ==
    ASSUME NEW calls, CallsOK(calls), NEW c \in KvCallers, NEW x \in KvCall,
           CallSound(x), x.at = "open" => x.dek # 0
    PROVE  CallsOK([calls EXCEPT ![c] = x])
  BY Zenon DEF CallsOK

\* What others do to a call is to mark it stale
LEMMA OthersOK ==
    ASSUME NEW c \in KvCallers, NEW calls, CallsOK(calls)
    PROVE  CallsOK(OthersStale(c, calls))
<1>1. ASSUME NEW k \in KvCallers
      PROVE  /\ OthersStale(c, calls)[k] \in KvCall /\ CallSound(OthersStale(c, calls)[k])
             /\ OthersStale(c, calls)[k].at = "open" => OthersStale(c, calls)[k].dek # 0
  <2> DEFINE s == [calls[k] EXCEPT !.stale = TRUE]
  <2>1. calls[k] \in KvCall /\ CallSound(calls[k]) /\ (calls[k].at = "open" => calls[k].dek # 0)
    BY Zenon DEF CallsOK
  <2>2. s \in KvCall /\ s.copy = calls[k].copy /\ s.at = calls[k].at /\ s.op = calls[k].op /\ s.dek = calls[k].dek
    BY <2>1, Zenon DEF KvCall
  <2>3. OthersStale(c, calls)[k] \in {s, calls[k]}
    BY Zenon DEF OthersStale
  <2> QED
    BY <2>1, <2>2, <2>3, Zenon DEF CallSound
<1> QED
  BY <1>1, Zenon DEF OthersStale, CallsOK

\* The first state satisfies the invariant
LEMMA KvInitInv == KvInit => KvInv
<1> SUFFICES ASSUME KvInit PROVE KvInv
  BY Zenon
<1>1. NoFile \in File /\ Sound(NoFile) /\ 0 \in Deks /\ 0 \in 0 .. MaxVal
  BY NewFileSound, KvAssumption DEF Deks
<1>2. ASSUME NEW c \in KvCallers
      PROVE  vcall[c] \in KvCall /\ CallSound(vcall[c]) /\ vcall[c].at = "idle"
  <2>1. PICK n \in Secrets : vcall[c] = [at |-> "idle", op |-> "init", name |-> n, val |-> 0, dek |-> 0,
                                         copy |-> NoFile, stale |-> FALSE]
    BY Zenon DEF KvInit
  <2> QED
    BY <1>1, <2>1 DEF KvCall, Ops, CallSound
<1>3. vcall \in [KvCallers -> KvCall]
  BY <1>2, Zenon DEF KvInit
<1>4. saved \in [file : File, want : [KeySlots -> 0 .. MaxVal]] /\ saved.file = NoFile
  BY <1>1, Zenon DEF KvInit
<1>5. vfile.here <=> vfile.sys # 0
  BY Zenon DEF KvInit, NoFile
<1>6. KvTypeOK
  BY <1>1, <1>2, <1>3, <1>4, <1>5, Zenon DEF KvInit, KvTypeOK
<1> QED
  BY <1>1, <1>2, <1>3, <1>4, <1>6, Zenon DEF KvInit, KvInv, CallsOK

\* The call that starts, goes on with a copy, or stops is sound
LEMMA BeginInv ==
    ASSUME KvInv, NEW c \in KvCallers, NEW op \in Ops, NEW n \in Secrets, Begin(c, op, n)
    PROVE  KvInv'
<1> DEFINE v == IF op \in Writes THEN vals' ELSE 0
           d == IF op = "user_set" THEN session ELSE 0
           x == [Rest(vcall[c]) EXCEPT !.at = "load", !.op = op, !.name = n, !.val = v, !.dek = d]
<1>1. vcall[c] \in KvCall /\ CallsOK(vcall)
  BY Zenon DEF KvInv, CallsOK
<1>2. Rest(vcall[c]) \in KvCall /\ CallSound(Rest(vcall[c]))
  BY <1>1, RestSound, Zenon
<1>3. vals' \in 0 .. MaxVal /\ v \in 0 .. MaxVal /\ d \in Deks
  BY KvAssumption DEF KvInv, KvTypeOK, Begin, Deks
<1>4. x \in KvCall /\ x.at = "load" /\ x.copy = Rest(vcall[c]).copy
  <2> HIDE DEF v, d
  <2> QED
    BY <1>2, <1>3, Zenon DEF KvCall
<1>5. CallSound(x)
  BY <1>2, <1>4, Zenon DEF CallSound
<1>6. vcall' = [vcall EXCEPT ![c] = x]
  BY Zenon DEF Begin
<1>7. CallsOK(vcall')
  BY <1>1, <1>4, <1>5, <1>6, OneCallOK, Zenon
<1> QED
  BY <1>3, <1>7, Zenon DEF KvInv, KvTypeOK, Begin, CallsOK

\* load and ensure
LEMMA LoadInv ==
    ASSUME KvInv, NEW c \in KvCallers, NEW ok \in BOOLEAN, Load(c, ok)
    PROVE  KvInv'
<1> DEFINE call == vcall[c]
<1>1. call \in KvCall /\ CallsOK(vcall) /\ CallSound(call) /\ call.at = "load"
  BY Zenon DEF KvInv, CallsOK, Load
<1>2. drawn \in Deks /\ vfile \in File /\ Sound(vfile)
  BY Zenon DEF KvInv, KvTypeOK
<1>3. drawn' \in Deks /\ CallsOK(vcall')
  <2>1. CASE ok /\ vfile.here /\ Proceed(c, vfile)
    <3> DEFINE d == IF Draws(call, vfile) THEN drawn + 1 ELSE drawn
               x == [call EXCEPT !.at = "save", !.copy = Changed(call, vfile, d), !.stale = FALSE]
    <3>1. d \in Deks /\ (Draws(call, vfile) => d # 0) /\ drawn' = d
      BY <2>1, <1>2, KvAssumption DEF Proceed, Deks
    <3>2. /\ Changed(call, vfile, d) \in File /\ Sound(Changed(call, vfile, d)) /\ Changed(call, vfile, d).here
          /\ call.op = "set_passphrase" => Changed(call, vfile, d).usr # 0
      BY <1>1, <1>2, <2>1, <3>1, ChangedSound, Zenon
    <3>3. x \in KvCall /\ x.at = "save" /\ x.copy = Changed(call, vfile, d) /\ x.op = call.op
      BY <1>1, <3>2, Zenon DEF KvCall
    <3>4. CallSound(x)
      BY <3>2, <3>3, Zenon DEF CallSound
    <3>5. vcall' = [vcall EXCEPT ![c] = x]
      BY <2>1, Zenon DEF Proceed
    <3> QED
      BY <1>1, <3>1, <3>3, <3>4, <3>5, OneCallOK, Zenon
  <2>2. CASE vfile.usr # 0 /\ vcall' = [vcall EXCEPT ![c].at = "open", ![c].dek = vfile.usr] /\ UNCHANGED drawn
    <3> DEFINE x == [call EXCEPT !.at = "open", !.dek = vfile.usr]
    <3>1. x \in KvCall /\ x.at = "open" /\ x.dek # 0 /\ x.copy = call.copy
      BY <1>1, <1>2, <2>2, Zenon DEF KvCall, File
    <3>2. vcall' = [vcall EXCEPT ![c] = x]
      BY <1>1, <2>2, Zenon DEF CallsOK
    <3>3. CallSound(x)
      BY <1>1, <3>1, Zenon DEF CallSound
    <3>4. CallsOK([vcall EXCEPT ![c] = x])
      BY <1>1, <3>1, <3>3, OneCallOK, Zenon
    <3> QED
      BY <1>2, <2>2, <3>2, <3>4, Zenon
  <2>3. CASE /\ drawn < MaxDek /\ drawn' = drawn + 1
             /\ vcall' = [vcall EXCEPT ![c].at = "ensure", ![c].copy = NewFile(drawn + 1), ![c].stale = vfile.here]
    <3> DEFINE x == [call EXCEPT !.at = "ensure", !.copy = NewFile(drawn + 1), !.stale = vfile.here]
    <3>1. drawn + 1 \in Deks \ {0}
      BY <1>2, <2>3, KvAssumption DEF Deks
    <3>2. NewFile(drawn + 1) \in File /\ Sound(NewFile(drawn + 1)) /\ NewFile(drawn + 1).here
      BY <3>1, NewFileSound, Zenon
    <3>3. x \in KvCall /\ x.at = "ensure" /\ x.copy = NewFile(drawn + 1)
      BY <1>1, <1>2, <3>2, Zenon DEF KvCall, File
    <3>4. CallSound(x)
      BY <3>2, <3>3, Zenon DEF CallSound
    <3>5. vcall' = [vcall EXCEPT ![c] = x]
      BY <1>1, <2>3, Zenon DEF CallsOK
    <3>6. CallsOK([vcall EXCEPT ![c] = x])
      <4> HIDE DEF x
      <4> QED
        BY <1>1, <3>3, <3>4, OneCallOK, Zenon
    <3> QED
      BY <2>3, <3>1, <3>5, <3>6, Zenon
  <2>4. CASE vcall' = [vcall EXCEPT ![c] = Rest(@)] /\ UNCHANGED drawn
    BY <1>1, <1>2, <2>4, RestSound, OneCallOK, Zenon
  <2> QED
    BY <2>1, <2>2, <2>3, <2>4, Zenon DEF Load
<1> QED
  BY <1>3, Zenon DEF KvInv, KvTypeOK, Load, CallsOK

\* What is wanted keeps its type
LEMMA WantType ==
    ASSUME KvInv, NEW call \in KvCall
    PROVE  WantAfter(call) \in [KeySlots -> 0 .. MaxVal]
<1>1. want \in [KeySlots -> 0 .. MaxVal] /\ 0 \in 0 .. MaxVal
  BY KvAssumption DEF KvInv, KvTypeOK
<1>2. call.val \in 0 .. MaxVal
  BY Zenon DEF KvCall
<1> QED
  BY <1>1, <1>2, Zenon DEF WantAfter

\* The save of ensure
LEMMA EnsureSaveInv ==
    ASSUME KvInv, NEW c \in KvCallers, NEW goesOn \in BOOLEAN, EnsureSave(c, goesOn)
    PROVE  KvInv'
<1> DEFINE call == vcall[c]
           d    == IF goesOn /\ Draws(call, call.copy) THEN drawn + 1 ELSE drawn
           y    == [call EXCEPT !.at = "save", !.copy = Changed(call, call.copy, d), !.stale = FALSE]
           x    == IF call.op = "init" \/ ~goesOn THEN Rest(call) ELSE y
<1>1. call \in KvCall /\ CallsOK(vcall) /\ CallSound(call) /\ call.at = "ensure"
  BY Zenon DEF KvInv, CallsOK, EnsureSave
<1>2. call.copy \in File /\ Sound(call.copy) /\ call.copy.here
  BY <1>1, Zenon DEF KvCall, CallSound
<1>3. d \in Deks /\ (goesOn /\ Draws(call, call.copy) => d # 0) /\ drawn' = d
  BY KvAssumption DEF EnsureSave, Deks, KvInv, KvTypeOK
<1>4. x \in KvCall /\ CallSound(x) /\ x.at # "open"
  <2>1. CASE call.op = "init" \/ ~goesOn
    BY <1>1, <2>1, RestSound, Zenon
  <2>2. CASE ~(call.op = "init" \/ ~goesOn)
    <3> HIDE DEF d
    <3>1. /\ Changed(call, call.copy, d) \in File /\ Sound(Changed(call, call.copy, d))
          /\ Changed(call, call.copy, d).here
          /\ call.op = "set_passphrase" => Changed(call, call.copy, d).usr # 0
      BY <1>1, <1>2, <1>3, <2>2, ChangedSound, Zenon
    <3>2. y \in KvCall /\ y.at = "save" /\ y.op = call.op /\ y.copy = Changed(call, call.copy, d)
      BY <1>1, <3>1, Zenon DEF KvCall
    <3>3. CallSound(y)
      BY <3>1, <3>2, Zenon DEF CallSound
    <3> QED
      BY <2>2, <3>2, <3>3, Zenon
  <2> QED
    BY <2>1, <2>2, Zenon
<1>5. vcall' = OthersStale(c, [vcall EXCEPT ![c] = x])
  BY Zenon DEF EnsureSave
<1>6. CallsOK(vcall')
  <2> HIDE DEF x
  <2>1. CallsOK([vcall EXCEPT ![c] = x])
    BY <1>1, <1>4, OneCallOK, Zenon
  <2> QED
    BY <1>5, <2>1, OthersOK, Zenon
<1>7. vfile' = call.copy /\ blind' \in BOOLEAN
  BY Zenon DEF EnsureSave, Store
<1>8. want' \in [KeySlots -> 0 .. MaxVal]
  BY <1>1, WantType, Zenon DEF EnsureSave
<1>9. saved' = [file |-> vfile', want |-> want']
  BY Zenon DEF EnsureSave
<1>10. session' \in Deks /\ vals' \in 0 .. MaxVal
  BY Zenon DEF EnsureSave, KvInv, KvTypeOK
<1>11. /\ vfile' \in File /\ Sound(vfile')
       /\ saved' \in [file : File, want : [KeySlots -> 0 .. MaxVal]] /\ Sound(saved'.file)
  BY <1>2, <1>7, <1>8, <1>9, Zenon
<1> HIDE DEF d
<1> QED
  BY <1>3, <1>6, <1>7, <1>8, <1>10, <1>11, Zenon DEF KvInv, KvTypeOK, CallsOK, Sound

\* The save of a call
LEMMA SaveInv ==
    ASSUME KvInv, NEW c \in KvCallers, Save(c)
    PROVE  KvInv'
<1> DEFINE call == vcall[c]
           y    == [Rest(call) EXCEPT !.at = "open", !.dek = call.copy.usr]
           x    == IF call.op = "set_passphrase" THEN y ELSE Rest(call)
<1>1. call \in KvCall /\ CallsOK(vcall) /\ CallSound(call) /\ call.at = "save"
  BY Zenon DEF KvInv, CallsOK, Save
<1>2. call.copy \in File /\ Sound(call.copy) /\ call.copy.here /\ (call.op = "set_passphrase" => call.copy.usr # 0)
  BY <1>1, Zenon DEF KvCall, CallSound
<1>3. Rest(call) \in KvCall /\ CallSound(Rest(call)) /\ Rest(call).at = "idle"
  BY <1>1, RestSound, Zenon
<1>4. y \in KvCall /\ y.at = "open" /\ y.dek = call.copy.usr /\ y.copy = Rest(call).copy
  BY <1>2, <1>3, Zenon DEF KvCall, File
<1>5. CallSound(y)
  BY <1>3, <1>4, Zenon DEF CallSound
<1>6. x \in KvCall /\ CallSound(x) /\ (x.at = "open" => x.dek # 0)
  BY <1>2, <1>3, <1>4, <1>5, Zenon
<1>7. CallsOK(vcall')
  <2>1. vcall' = OthersStale(c, [vcall EXCEPT ![c] = x])
    BY Zenon DEF Save
  <2> HIDE DEF x
  <2>2. CallsOK([vcall EXCEPT ![c] = x])
    BY <1>1, <1>6, OneCallOK, Zenon
  <2> QED
    BY <2>1, <2>2, OthersOK, Zenon
<1>8. vfile' = call.copy /\ blind' \in BOOLEAN
  BY Zenon DEF Save, Store
<1>9. want' \in [KeySlots -> 0 .. MaxVal] /\ saved' = [file |-> vfile', want |-> want']
  BY <1>1, WantType, Zenon DEF Save
<1>10. session' \in Deks /\ vals' \in 0 .. MaxVal /\ drawn' \in Deks
  BY Zenon DEF Save, KvInv, KvTypeOK
<1>11. /\ vfile' \in File /\ Sound(vfile')
       /\ saved' \in [file : File, want : [KeySlots -> 0 .. MaxVal]] /\ Sound(saved'.file)
  BY <1>2, <1>8, <1>9, Zenon
<1> QED
  BY <1>7, <1>8, <1>9, <1>10, <1>11, Zenon DEF KvInv, KvTypeOK, CallsOK, Sound

\* A save that fails
LEMMA SaveFailsInv ==
    ASSUME KvInv, NEW c \in KvCallers, NEW seen \in BOOLEAN, SaveFails(c, seen)
    PROVE  KvInv'
<1> DEFINE call  == vcall[c]
           ended == [vcall EXCEPT ![c] = Rest(call)]
<1>1. call \in KvCall /\ CallsOK(vcall) /\ CallSound(call) /\ call.at \in {"ensure", "save"}
  BY Zenon DEF KvInv, CallsOK, SaveFails
<1>2. call.copy \in File /\ Sound(call.copy) /\ call.copy.here
  BY <1>1, Zenon DEF KvCall, CallSound
<1>3. CallsOK(ended)
  BY <1>1, RestSound, OneCallOK, Zenon
<1>4. CASE seen
  <2>1. vfile' = call.copy /\ blind' \in BOOLEAN /\ vcall' = OthersStale(c, ended)
    BY <1>4, Zenon DEF SaveFails, Store
  <2>2. want' \in [KeySlots -> 0 .. MaxVal]
    BY <1>1, <1>4, WantType, Zenon DEF SaveFails
  <2>3. CallsOK(vcall')
    BY <1>3, <2>1, OthersOK, Zenon
  <2> QED
    BY <1>2, <2>1, <2>2, <2>3, Zenon DEF KvInv, KvTypeOK, SaveFails, CallsOK, Sound
<1>5. CASE ~seen
  BY <1>3, <1>5, Zenon DEF KvInv, KvTypeOK, SaveFails, CallsOK
<1> QED
  BY <1>4, <1>5, Zenon

\* Power is lost
LEMMA RebootInv ==
    ASSUME KvInv, NEW last \in BOOLEAN, Reboot(last)
    PROVE  KvInv'
<1>1. \A c \in KvCallers : /\ Rest(vcall[c]) \in KvCall /\ CallSound(Rest(vcall[c]))
                           /\ Rest(vcall[c]).at = "idle"
  BY RestSound, Zenon DEF KvInv, CallsOK
<1>2. CallsOK(vcall')
  BY <1>1, Zenon DEF Reboot, CallsOK
<1>3. /\ vfile' \in File /\ Sound(vfile') /\ want' \in [KeySlots -> 0 .. MaxVal]
      /\ saved' = [file |-> vfile', want |-> want']
  BY Zenon DEF Reboot, KvInv, KvTypeOK
<1> QED
  BY <1>2, <1>3, KvAssumption DEF KvInv, KvTypeOK, Reboot, CallsOK, Sound, Deks

\* Every step keeps the invariant
LEMMA KvNextInv == KvInv /\ [KvNext]_kvVars => KvInv'
<1> SUFFICES ASSUME KvInv, [KvNext]_kvVars PROVE KvInv'
  BY Zenon
<1>1. ASSUME NEW c \in KvCallers, Open(c) PROVE KvInv'
  <2>1. vcall[c] \in KvCall /\ CallsOK(vcall) /\ vcall[c].dek \in Deks
    BY Zenon DEF KvInv, CallsOK, KvCall
  <2>2. CallsOK(vcall')
    BY <1>1, <2>1, RestSound, OneCallOK, Zenon DEF Open
  <2> QED
    BY <1>1, <2>1, <2>2, Zenon DEF KvInv, KvTypeOK, Open, CallsOK
<1>2. CASE LockUser
  BY <1>2, KvAssumption DEF KvInv, KvTypeOK, LockUser, CallsOK, Deks
<1>3. CASE UNCHANGED kvVars
  BY <1>3, Zenon DEF KvInv, KvTypeOK, kvVars, CallsOK
<1> QED
  BY <1>1, <1>2, <1>3, BeginInv, LoadInv, EnsureSaveInv, SaveInv, SaveFailsInv, RebootInv, Zenon DEF KvNext

-----------------------------------------------------------------------------
(* The user tier, as long as no save was blind.                            *)

\* The user secrets of v are under the key of its slot, and there is none before
\* the first passphrase
Own(v) == \A n \in Secrets : v.entries[<<"user", n>>] # NoSecret => v.usr # 0 /\ v.entries[<<"user", n>>].dek = v.usr

\* A stored vault holds what is wanted, each user secret under its key
Kept(v, w) ==
    /\ v.here \/ v = NoFile
    /\ Own(v)
    /\ \A e \in KeySlots : v.entries[e].val = w[e]

\* The entries of copy u are those of v with the change of the call
Edits(call, u, v) ==
    \A e \in KeySlots : u.entries[e].val = IF call.op \in Writes \union Erases /\ e = SlotOf(call) THEN call.val
                                           ELSE v.entries[e].val

\* What a call holds fits the stored vault v: the key it opens or writes under
\* is v's, and a copy that is not stale is v with the change of the call
Fits(call, v) ==
    /\ call.at \in {"load", "ensure", "save"} /\ call.op \notin Writes => call.val = 0
    /\ call.at = "open" \/ (call.at = "load" /\ call.op = "user_set") => call.dek # 0 /\ call.dek = v.usr
    /\ call.at = "ensure" => call.op \in Makes
    /\ call.at = "ensure" /\ ~call.stale =>
           /\ ~v.here /\ call.copy.usr = 0 /\ Own(call.copy)
           /\ \A e \in KeySlots : call.copy.entries[e].val = 0
    /\ call.at = "save" /\ ~call.stale =>
           /\ Own(call.copy) /\ v.usr \in {0, call.copy.usr}
           /\ Edits(call, call.copy, v)

UserInv ==
    ~blind => /\ Kept(vfile, want) /\ Kept(saved.file, saved.want)
              /\ session # 0 => session = vfile.usr
              /\ \A c \in KvCallers : Fits(vcall[c], vfile)

\* What an entry put into a file changes of it
LEMMA PutEdits ==
    ASSUME NEW v \in File, NEW slot \in KeySlots, NEW entry
    PROVE  /\ Put(v, slot, entry).usr = v.usr
           /\ \A e \in KeySlots : Put(v, slot, entry).entries[e] = IF e = slot THEN entry ELSE v.entries[e]
<1>1. Put(v, slot, entry).entries = [v.entries EXCEPT ![slot] = entry] /\ Put(v, slot, entry).usr = v.usr
  BY Zenon DEF Put, File
<1>2. v.entries \in [KeySlots -> Entry]
  BY Zenon DEF File
<1> QED
  BY <1>1, <1>2, Zenon

\* A change of a copy of v is v with the change of the call, its user secrets
\* under v's key, or under the first one
LEMMA ChangedFits ==
    ASSUME NEW call \in KvCall, NEW v \in File, NEW d, Own(v),
           call.op = "user_set" => call.dek # 0 /\ call.dek = v.usr,
           call.op \notin Writes => call.val = 0
    PROVE  /\ Own(Changed(call, v, d)) /\ v.usr \in {0, Changed(call, v, d).usr}
           /\ Edits(call, Changed(call, v, d), v)
<1> DEFINE w == Changed(call, v, d)
<1>1. SlotOf(call) \in KeySlots /\ \A n \in Secrets : <<"user", n>> \in KeySlots
  BY Zenon DEF SlotOf, KeySlots, KvCall
<1>2. ASSUME NEW entry, w = Put(v, SlotOf(call), entry), call.op \in Writes \union Erases, entry.val = call.val,
             SlotOf(call)[1] = "user" => entry = NoSecret \/ (entry.dek = v.usr /\ v.usr # 0)
      PROVE  Own(w) /\ v.usr \in {0, w.usr} /\ Edits(call, w, v)
  <2>1. w.usr = v.usr /\ \A e \in KeySlots : w.entries[e] = IF e = SlotOf(call) THEN entry ELSE v.entries[e]
    BY <1>1, <1>2, PutEdits
  <2> HIDE DEF w
  <2>2. ASSUME NEW n \in Secrets, w.entries[<<"user", n>>] # NoSecret
        PROVE  w.usr # 0 /\ w.entries[<<"user", n>>].dek = w.usr
    <3>1. CASE SlotOf(call) = <<"user", n>>
      <4>1. SlotOf(call)[1] = "user" /\ w.entries[<<"user", n>>] = entry
        BY <1>1, <2>1, <3>1
      <4> QED
        BY <1>2, <2>1, <2>2, <4>1, Zenon
    <3>2. CASE SlotOf(call) # <<"user", n>>
      BY <1>1, <2>1, <2>2, <3>2, Zenon DEF Own
    <3> QED
      BY <3>1, <3>2, Zenon
  <2>3. Own(w)
    BY <2>2, Zenon DEF Own
  <2>4. Edits(call, w, v)
    BY <1>2, <2>1, Zenon DEF Edits
  <2> QED
    BY <2>1, <2>3, <2>4, Zenon
<1>3. CASE call.op = "system_set"
  <2>1. w = Put(v, SlotOf(call), [dek |-> v.sys, val |-> call.val]) /\ SlotOf(call)[1] = "system"
    BY <1>3, Zenon DEF Changed, Erases, SlotOf, UserOp
  <2> QED
    BY <1>2, <1>3, <2>1 DEF Writes
<1>4. CASE call.op = "user_set"
  <2>1. w = Put(v, SlotOf(call), [dek |-> call.dek, val |-> call.val])
    BY <1>4, Zenon DEF Changed, Erases
  <2> QED
    BY <1>2, <1>4, <2>1 DEF Writes
<1>5. CASE call.op \in Erases
  <2>1. w = Put(v, SlotOf(call), NoSecret) /\ NoSecret.val = call.val
    BY <1>5, Zenon DEF Changed, Erases, Writes, NoSecret
  <2> QED
    BY <1>2, <1>5, <2>1, Zenon
<1>6. CASE call.op \notin Writes \union Erases
  <2>1. w.entries = v.entries /\ (w.usr = v.usr \/ v.usr = 0)
    BY <1>6, Zenon DEF Changed, Writes, Draws, File
  <2>2. Own(w)
    BY <2>1, Zenon DEF Own
  <2>3. Edits(call, w, v)
    BY <1>6, <2>1, Zenon DEF Edits
  <2> QED
    BY <2>1, <2>2, <2>3, Zenon
<1> QED
  BY <1>3, <1>4, <1>5, <1>6, Zenon DEF Writes

\* A call at rest fits any vault
LEMMA RestFits == ASSUME NEW call \in KvCall, NEW v PROVE Fits(Rest(call), v)
<1>1. Rest(call).at = "idle"
  BY RestSound, Zenon
<1> QED
  BY <1>1, Zenon DEF Fits

\* The save of c leaves the others with calls that fit the vault u it stored:
\* the keys they hold are still the ones of the vault, their copies are stale
LEMMA OthersFit ==
    ASSUME NEW calls \in [KvCallers -> KvCall], NEW c \in KvCallers, NEW v, NEW u, NEW k \in KvCallers,
           v.usr \in {0, u.usr}, k # c => Fits(calls[k], v), Fits(calls[c], u)
    PROVE  Fits(OthersStale(c, calls)[k], u)
<1>1. CASE k = c
  BY <1>1, Zenon DEF OthersStale
<1>2. CASE k # c /\ calls[k].at \in {"ensure", "save"}
  <2> DEFINE s == [calls[k] EXCEPT !.stale = TRUE]
  <2>1. OthersStale(c, calls)[k] = s
    BY <1>2, Zenon DEF OthersStale
  <2>2. s.stale /\ s.at = calls[k].at /\ s.op = calls[k].op /\ s.val = calls[k].val
    BY Zenon DEF KvCall
  <2> HIDE DEF s
  <2>3. Fits(calls[k], v)
    BY <1>2, Zenon
  <2> QED
    BY <1>2, <2>1, <2>2, <2>3, Zenon DEF Fits
<1>3. CASE k # c /\ calls[k].at \notin {"ensure", "save"}
  <2>1. OthersStale(c, calls)[k] = calls[k] /\ Fits(calls[k], v)
    BY <1>3, Zenon DEF OthersStale
  <2> QED
    BY <1>3, <2>1, Zenon DEF Fits
<1> QED
  BY <1>1, <1>2, <1>3, Zenon

\* A save that is not blind stores what is wanted after it
LEMMA StoreKept ==
    ASSUME KvInv, UserInv, NEW c \in KvCallers, vcall[c].at \in {"ensure", "save"}, ~blind, ~vcall[c].stale
    PROVE  Kept(vcall[c].copy, WantAfter(vcall[c])) /\ vfile.usr \in {0, vcall[c].copy.usr}
<1> DEFINE call == vcall[c]
<1>1. Kept(vfile, want) /\ Fits(call, vfile) /\ call \in KvCall /\ CallSound(call)
  BY Zenon DEF UserInv, KvInv, CallsOK
<1>2. call.copy.here /\ want \in [KeySlots -> 0 .. MaxVal] /\ SlotOf(call) \in KeySlots
  BY <1>1, Zenon DEF CallSound, KvInv, KvTypeOK, SlotOf, KeySlots, KvCall
<1> HIDE DEF call
<1>3. CASE call.at = "ensure"
  <2>1. vfile = NoFile /\ Own(call.copy) /\ \A e \in KeySlots : call.copy.entries[e].val = 0
    BY <1>1, <1>3, Zenon DEF Fits, Kept, call
  <2>2. NoFile.usr = 0 /\ \A e \in KeySlots : NoFile.entries[e].val = 0
    BY Zenon DEF NoFile, NoSecret
  <2>3. WantAfter(call) = want
    BY <1>3, Zenon DEF WantAfter, call
  <2>4. \A e \in KeySlots : want[e] = 0
    BY <1>1, <2>1, <2>2, Zenon DEF Kept
  <2> QED
    BY <1>2, <2>1, <2>2, <2>3, <2>4, Zenon DEF Kept, call
<1>4. CASE call.at = "save"
  <2>1. Own(call.copy) /\ vfile.usr \in {0, call.copy.usr} /\ Edits(call, call.copy, vfile)
    BY <1>1, <1>4, Zenon DEF Fits, call
  <2>2. ASSUME NEW e \in KeySlots PROVE call.copy.entries[e].val = WantAfter(call)[e]
    <3>1. vfile.entries[e].val = want[e]
      BY <1>1, Zenon DEF Kept
    <3>2. CASE call.op \in Writes \union Erases
      <4>1. WantAfter(call) = [want EXCEPT ![SlotOf(call)] = call.val]
        BY <1>4, <3>2, Zenon DEF WantAfter, call
      <4> QED
        BY <1>2, <2>1, <3>1, <3>2, <4>1, Zenon DEF Edits
    <3>3. CASE call.op \notin Writes \union Erases
      <4>1. WantAfter(call) = want
        BY <3>3, Zenon DEF WantAfter, call
      <4> QED
        BY <2>1, <3>1, <3>3, <4>1, Zenon DEF Edits
    <3> QED
      BY <3>2, <3>3, Zenon
  <2> QED
    BY <1>2, <2>1, <2>2, Zenon DEF Kept, call
<1> QED
  BY <1>3, <1>4, Zenon DEF call

LEMMA UserInit == KvInit => UserInv
<1> SUFFICES ASSUME KvInit PROVE UserInv
  BY Zenon
<1>1. Kept(NoFile, [e \in KeySlots |-> 0])
  <2>1. NoFile.entries = [e \in KeySlots |-> NoSecret] /\ NoSecret.val = 0
    BY Zenon DEF NoFile, NoSecret
  <2>2. \A n \in Secrets : <<"user", n>> \in KeySlots
    BY Zenon DEF KeySlots
  <2> QED
    BY <2>1, <2>2, Zenon DEF Kept, Own
<1>2. saved.file = NoFile /\ saved.want = [e \in KeySlots |-> 0] /\ session = 0
  BY Zenon DEF KvInit
<1>3. ASSUME NEW c \in KvCallers PROVE vcall[c].at = "idle"
  <2>1. PICK n \in Secrets : vcall[c] = [at |-> "idle", op |-> "init", name |-> n, val |-> 0, dek |-> 0,
                                         copy |-> NoFile, stale |-> FALSE]
    BY Zenon DEF KvInit
  <2> QED
    BY <2>1
<1>4. \A c \in KvCallers : Fits(vcall[c], vfile)
  BY <1>3, Zenon DEF Fits
<1> QED
  BY <1>1, <1>2, <1>4, Zenon DEF KvInit, UserInv

\* The calls that read the vault or end without a save: the others are as they
\* were, and the vault is
LEMMA OwnStepUser ==
    ASSUME KvInv, UserInv, NEW c \in KvCallers, NEW x, vcall' = [vcall EXCEPT ![c] = x],
           ~blind => Fits(x, vfile), UNCHANGED <<vfile, saved, want, blind>>,
           ~blind => session' \in {0, session, vfile.usr}
    PROVE  UserInv'
<1> SUFFICES ASSUME ~blind' PROVE /\ Kept(vfile, want)' /\ Kept(saved.file, saved.want)'
                                  /\ session' # 0 => session' = vfile'.usr
                                  /\ \A k \in KvCallers : Fits(vcall'[k], vfile')
  BY Zenon DEF UserInv
<1>1. ~blind /\ vcall \in [KvCallers -> KvCall]
  BY Zenon DEF KvInv, CallsOK
<1>2. Kept(vfile, want)' /\ Kept(saved.file, saved.want)'
  BY <1>1, Zenon DEF UserInv, Kept
<1>3. session' # 0 => session' = vfile'.usr
  BY <1>1, Zenon DEF UserInv
<1>4. \A k \in KvCallers : Fits(vcall'[k], vfile')
  BY <1>1, Zenon DEF UserInv
<1> QED
  BY <1>2, <1>3, <1>4, Zenon

LEMMA BeginUser ==
    ASSUME KvInv, UserInv, NEW c \in KvCallers, NEW op \in Ops, NEW n \in Secrets, Begin(c, op, n)
    PROVE  UserInv'
<1> DEFINE v == IF op \in Writes THEN vals' ELSE 0
           d == IF op = "user_set" THEN session ELSE 0
           x == [Rest(vcall[c]) EXCEPT !.at = "load", !.op = op, !.name = n, !.val = v, !.dek = d]
<1>1. Rest(vcall[c]) \in KvCall
  BY RestSound, Zenon DEF KvInv, CallsOK
<1>2. vcall' = [vcall EXCEPT ![c] = x]
  BY Zenon DEF Begin
<1>3. x.at = "load" /\ x.op = op /\ x.val = v /\ x.dek = d
  <2> HIDE DEF v, d
  <2> QED
    BY <1>1, Zenon DEF KvCall
<1>4. op = "user_set" => session # 0
  BY Zenon DEF Begin, UserOp
<1>5. ~blind => Fits(x, vfile)
  <2> HIDE DEF x
  <2> QED
    BY <1>3, <1>4, Zenon DEF Fits, UserInv
<1> HIDE DEF x
<1>6. UNCHANGED <<vfile, saved, want, blind, session>>
  BY Zenon DEF Begin
<1> QED
  BY <1>2, <1>5, <1>6, OwnStepUser, Zenon

LEMMA LoadUser ==
    ASSUME KvInv, UserInv, NEW c \in KvCallers, NEW ok \in BOOLEAN, Load(c, ok)
    PROVE  UserInv'
<1> DEFINE call == vcall[c]
<1>1. call \in KvCall /\ call.at = "load" /\ vcall \in [KvCallers -> KvCall] /\ vfile \in File /\ (~blind => Fits(call, vfile) /\ Own(vfile))
  BY Zenon DEF KvInv, KvTypeOK, CallsOK, Load, UserInv, Kept
<1>2. UNCHANGED <<vfile, saved, want, blind, session>>
  BY Zenon DEF Load
<1>3. CASE ok /\ vfile.here /\ Proceed(c, vfile)
  <2> DEFINE d == IF Draws(call, vfile) THEN drawn + 1 ELSE drawn
             w == Changed(call, vfile, d)
             x == [call EXCEPT !.at = "save", !.copy = w, !.stale = FALSE]
  <2>1. vcall' = [vcall EXCEPT ![c] = x]
    BY <1>3, Zenon DEF Proceed
  <2>2. /\ x.at = "save" /\ x.copy = w /\ x.op = call.op /\ x.val = call.val /\ x.name = call.name
    BY <1>1, Zenon DEF KvCall
  <2>3. ASSUME ~blind PROVE Own(w) /\ vfile.usr \in {0, w.usr} /\ Edits(call, w, vfile) /\ (call.op \notin Writes => call.val = 0)
    <3>1. /\ call.op = "user_set" => call.dek # 0 /\ call.dek = vfile.usr
          /\ call.op \notin Writes => call.val = 0
      BY <1>1, <2>3, Zenon DEF Fits
    <3> QED
      BY <1>1, <2>3, <3>1, ChangedFits, Zenon
  <2> HIDE DEF x, w, call
  <2>4. ~blind => Fits(x, vfile)
    <3>1. ~blind => Edits(x, w, vfile)
      BY <2>2, <2>3, Zenon DEF Edits, SlotOf
    <3> QED
      BY <2>2, <2>3, <3>1, Zenon DEF Fits
  <2> QED
    BY <1>2, <2>1, <2>4, OwnStepUser, Zenon
<1>4. CASE vfile.usr # 0 /\ vcall' = [vcall EXCEPT ![c].at = "open", ![c].dek = vfile.usr]
  <2> DEFINE x == [call EXCEPT !.at = "open", !.dek = vfile.usr]
  <2>1. vcall' = [vcall EXCEPT ![c] = x]
    BY <1>1, <1>4, Zenon
  <2>2. x.at = "open" /\ x.dek = vfile.usr
    BY <1>1, Zenon DEF KvCall
  <2> HIDE DEF x
  <2>3. Fits(x, vfile)
    BY <1>4, <2>2, Zenon DEF Fits
  <2> QED
    BY <1>2, <2>1, <2>3, OwnStepUser, Zenon
<1>5. CASE /\ call.op \in Makes
           /\ vcall' = [vcall EXCEPT ![c].at = "ensure", ![c].copy = NewFile(drawn + 1), ![c].stale = vfile.here]
  <2> DEFINE x == [call EXCEPT !.at = "ensure", !.copy = NewFile(drawn + 1), !.stale = vfile.here]
  <2>1. vcall' = [vcall EXCEPT ![c] = x]
    BY <1>1, <1>5, Zenon
  <2>2. x.at = "ensure" /\ x.op = call.op /\ x.val = call.val /\ x.copy = NewFile(drawn + 1) /\ x.stale = vfile.here
    BY <1>1, Zenon DEF KvCall
  <2>3. /\ NewFile(drawn + 1).usr = 0 /\ NewFile(drawn + 1).entries = [e \in KeySlots |-> NoSecret] /\ NoSecret.val = 0
        /\ \A n \in Secrets : <<"user", n>> \in KeySlots
    BY Zenon DEF NewFile, NoSecret, KeySlots
  <2>4. Own(NewFile(drawn + 1)) /\ \A e \in KeySlots : NewFile(drawn + 1).entries[e].val = 0
    BY <2>3, Zenon DEF Own
  <2>5. ~blind => (call.op \notin Writes => call.val = 0)
    BY <1>1, Zenon DEF Fits
  <2> HIDE DEF x, call
  <2>6. ~blind => Fits(x, vfile)
    BY <1>5, <2>2, <2>3, <2>4, <2>5, Zenon DEF Fits
  <2> QED
    BY <1>2, <2>1, <2>6, OwnStepUser, Zenon
<1>6. CASE vcall' = [vcall EXCEPT ![c] = Rest(@)]
  <2>1. Fits(Rest(call), vfile) /\ vcall' = [vcall EXCEPT ![c] = Rest(call)]
    BY <1>1, <1>6, RestFits, Zenon
  <2> QED
    BY <1>2, <2>1, OwnStepUser, Zenon
<1> QED
  BY <1>3, <1>4, <1>5, <1>6, Zenon DEF Load

\* A save, of whichever call c: if it is not blind, the vault holds what is wanted,
\* and every call fits it once the one that saved does
LEMMA StoreUser ==
    ASSUME KvInv, UserInv, NEW c \in KvCallers, vcall[c].at \in {"ensure", "save"}, Store(c), NEW x \in KvCall,
           vcall' = OthersStale(c, [vcall EXCEPT ![c] = x]), want' = WantAfter(vcall[c]), session' = session,
           ~blind' => Fits(x, vfile'),
           saved' = saved \/ saved' = [file |-> vfile', want |-> want']
    PROVE  UserInv'
<1> DEFINE call == vcall[c]
<1> SUFFICES ASSUME ~blind' PROVE /\ Kept(vfile', want') /\ Kept(saved'.file, saved'.want)
                                  /\ session' # 0 => session' = vfile'.usr
                                  /\ \A k \in KvCallers : Fits(vcall'[k], vfile')
  BY Zenon DEF UserInv
<1>1. ~blind /\ ~call.stale /\ vfile' = call.copy /\ vcall \in [KvCallers -> KvCall]
  BY Zenon DEF Store, KvInv, CallsOK
<1>2. Kept(vfile', want') /\ vfile.usr \in {0, vfile'.usr}
  BY <1>1, StoreKept, Zenon
<1>3. Kept(saved.file, saved.want) /\ (session # 0 => session = vfile.usr) /\ \A k \in KvCallers : Fits(vcall[k], vfile)
  BY <1>1, Zenon DEF UserInv
<1>4. Kept(saved'.file, saved'.want)
  <2>1. CASE saved' = saved
    BY <1>3, <2>1, Zenon
  <2>2. CASE saved' = [file |-> vfile', want |-> want']
    <3>1. saved'.file = vfile' /\ saved'.want = want'
      BY <2>2, Zenon
    <3> QED
      BY <1>2, <3>1, Zenon
  <2> QED
    BY <2>1, <2>2, Zenon
<1>5. session' # 0 => session' = vfile'.usr
  BY <1>2, <1>3, Zenon
<1>6. \A k \in KvCallers : Fits(vcall'[k], vfile')
  <2> DEFINE calls == [vcall EXCEPT ![c] = x]
  <2>1. /\ calls \in [KvCallers -> KvCall] /\ Fits(calls[c], vfile')
        /\ \A k \in KvCallers : k # c => Fits(calls[k], vfile)
    <3>1. calls \in [KvCallers -> KvCall] /\ calls[c] = x /\ \A k \in KvCallers : k # c => calls[k] = vcall[k]
      BY <1>1, Zenon
    <3> QED
      BY <1>3, <3>1, Zenon
  <2> HIDE DEF calls
  <2>2. \A k \in KvCallers : Fits(OthersStale(c, calls)[k], vfile')
    <3> SUFFICES ASSUME NEW k \in KvCallers PROVE Fits(OthersStale(c, calls)[k], vfile')
      BY Zenon
    <3>1. k # c => Fits(calls[k], vfile)
      BY <2>1, Zenon
    <3> QED
      BY <1>2, <2>1, <3>1, OthersFit, Zenon
  <2> QED
    BY <2>2, Zenon DEF calls
<1> QED
  BY <1>2, <1>4, <1>5, <1>6, Zenon

LEMMA EnsureSaveUser ==
    ASSUME KvInv, UserInv, NEW c \in KvCallers, NEW goesOn \in BOOLEAN, EnsureSave(c, goesOn)
    PROVE  UserInv'
<1> DEFINE call == vcall[c]
           d    == IF goesOn /\ Draws(call, call.copy) THEN drawn + 1 ELSE drawn
           w    == Changed(call, call.copy, d)
           y    == [call EXCEPT !.at = "save", !.copy = w, !.stale = FALSE]
           x    == IF call.op = "init" \/ ~goesOn THEN Rest(call) ELSE y
<1>1. call \in KvCall /\ CallSound(call) /\ call.at = "ensure" /\ Store(c)
  BY Zenon DEF KvInv, CallsOK, EnsureSave
<1>2. call.copy \in File /\ Sound(call.copy) /\ call.copy.here /\ vfile' = call.copy
  BY <1>1, Zenon DEF KvCall, CallSound, Store
<1>3. vcall' = OthersStale(c, [vcall EXCEPT ![c] = x])
  BY Zenon DEF EnsureSave
<1>4. want' = WantAfter(call) /\ session' = session /\ saved' = [file |-> vfile', want |-> want']
  BY Zenon DEF EnsureSave
<1>5. CASE call.op = "init" \/ ~goesOn
  <2>1. x = Rest(call) /\ x \in KvCall /\ Fits(x, vfile')
    BY <1>1, <1>5, RestSound, RestFits, Zenon
  <2> HIDE DEF x
  <2> QED
    BY <1>1, <1>3, <1>4, <2>1, StoreUser, Zenon
<1>6. CASE ~(call.op = "init" \/ ~goesOn)
  <2>1. x = y
    BY <1>6, Zenon
  <2>2. d \in Deks /\ (Draws(call, call.copy) => d # 0)
    BY <1>6, KvAssumption DEF EnsureSave, Deks, KvInv, KvTypeOK
  <2> HIDE DEF d
  <2>3. w \in File
    BY <1>1, <1>2, <2>2, ChangedSound, Zenon
  <2>4. y \in KvCall /\ y.at = "save" /\ y.op = call.op /\ y.val = call.val /\ y.name = call.name /\ y.copy = w
    <3> HIDE DEF w
    <3> QED
      BY <1>1, <2>3, Zenon DEF KvCall
  <2>5. ASSUME ~blind' PROVE Fits(y, vfile')
    <3>1. ~blind /\ ~call.stale
      BY <1>1, <2>5, Zenon DEF Store
    <3>2. Own(call.copy) /\ call.op \in Makes /\ (call.op \notin Writes => call.val = 0)
      BY <1>1, <3>1, Zenon DEF UserInv, Fits
    <3>3. Own(w) /\ call.copy.usr \in {0, w.usr} /\ Edits(call, w, call.copy)
      <4>1. call.op # "user_set"
        BY <3>2, Zenon DEF Makes
      <4> HIDE DEF call
      <4> QED
        BY <1>1, <1>2, <3>2, <4>1, ChangedFits, Zenon
    <3> HIDE DEF w, y, call
    <3>4. Edits(y, w, vfile')
      BY <1>2, <2>4, <3>3, ZenonT(40) DEF Edits, SlotOf
    <3> QED
      BY <1>2, <2>4, <3>2, <3>3, <3>4, Zenon DEF Fits
  <2> HIDE DEF x, y
  <2> QED
    BY <1>1, <1>3, <1>4, <2>1, <2>4, <2>5, StoreUser, Zenon
<1> QED
  BY <1>5, <1>6, Zenon

LEMMA SaveUser ==
    ASSUME KvInv, UserInv, NEW c \in KvCallers, Save(c)
    PROVE  UserInv'
<1> DEFINE call == vcall[c]
           y    == [Rest(call) EXCEPT !.at = "open", !.dek = call.copy.usr]
           x    == IF call.op = "set_passphrase" THEN y ELSE Rest(call)
<1>1. call \in KvCall /\ CallSound(call) /\ call.at = "save" /\ Store(c)
  BY Zenon DEF KvInv, CallsOK, Save
<1>2. call.copy \in File /\ vfile' = call.copy /\ (call.op = "set_passphrase" => call.copy.usr # 0)
  BY <1>1, Zenon DEF KvCall, CallSound, Store
<1>3. vcall' = OthersStale(c, [vcall EXCEPT ![c] = x])
  BY Zenon DEF Save
<1>4. want' = WantAfter(call) /\ session' = session /\ saved' = [file |-> vfile', want |-> want']
  BY Zenon DEF Save
<1>5. Rest(call) \in KvCall /\ Fits(Rest(call), vfile')
  BY <1>1, RestSound, RestFits, Zenon
<1>6. y \in KvCall /\ y.at = "open" /\ y.dek = call.copy.usr
  BY <1>2, <1>5, Zenon DEF KvCall, File
<1>7. x \in KvCall /\ Fits(x, vfile')
  <2>1. CASE call.op = "set_passphrase"
    <3>1. x = y
      BY <2>1, Zenon
    <3> HIDE DEF y, x
    <3>2. Fits(y, vfile')
      BY <1>2, <1>6, <2>1, Zenon DEF Fits
    <3> QED
      BY <1>6, <3>1, <3>2, Zenon
  <2>2. CASE call.op # "set_passphrase"
    BY <1>5, <2>2, Zenon
  <2> QED
    BY <2>1, <2>2, Zenon
<1> HIDE DEF x
<1> QED
  BY <1>1, <1>3, <1>4, <1>7, StoreUser, Zenon

\* Every step keeps it
LEMMA UserNext == KvInv /\ UserInv /\ [KvNext]_kvVars => UserInv'
<1> SUFFICES ASSUME KvInv, UserInv, [KvNext]_kvVars PROVE UserInv'
  BY Zenon
<1>1. ASSUME NEW c \in KvCallers, Open(c) PROVE UserInv'
  <2>1. vcall[c] \in KvCall /\ (~blind => vcall[c].dek = vfile.usr)
    BY <1>1, Zenon DEF KvInv, CallsOK, Open, UserInv, Fits
  <2>2. Fits(Rest(vcall[c]), vfile)
    BY <2>1, RestFits, Zenon
  <2>3. /\ vcall' = [vcall EXCEPT ![c] = Rest(vcall[c])] /\ UNCHANGED <<vfile, saved, want, blind>>
        /\ session' = vcall[c].dek
    BY <1>1, Zenon DEF Open
  <2> QED
    BY <2>1, <2>2, <2>3, OwnStepUser, Zenon
<1>2. ASSUME NEW c \in KvCallers, NEW seen \in BOOLEAN, SaveFails(c, seen) PROVE UserInv'
  <2>1. vcall[c] \in KvCall /\ vcall[c].at \in {"ensure", "save"}
    BY <1>2, Zenon DEF KvInv, CallsOK, SaveFails
  <2>2. Rest(vcall[c]) \in KvCall /\ Fits(Rest(vcall[c]), vfile) /\ Fits(Rest(vcall[c]), vfile')
    BY <2>1, RestSound, RestFits, Zenon
  <2>3. CASE seen
    <3>1. /\ vcall' = OthersStale(c, [vcall EXCEPT ![c] = Rest(vcall[c])]) /\ Store(c) /\ want' = WantAfter(vcall[c])
          /\ session' = session /\ saved' = saved
      BY <1>2, <2>3, Zenon DEF SaveFails
    <3> QED
      BY <2>1, <2>2, <3>1, StoreUser, Zenon
  <2>4. CASE ~seen
    <3>1. vcall' = [vcall EXCEPT ![c] = Rest(vcall[c])] /\ UNCHANGED <<vfile, saved, want, blind, session>>
      BY <1>2, <2>4, Zenon DEF SaveFails
    <3> QED
      BY <2>2, <3>1, OwnStepUser, Zenon
  <2> QED
    BY <2>3, <2>4, Zenon
<1>3. ASSUME NEW last \in BOOLEAN, Reboot(last) PROVE UserInv'
  <2> SUFFICES ASSUME ~blind' PROVE /\ Kept(vfile', want') /\ Kept(saved'.file, saved'.want)
                                    /\ session' # 0 => session' = vfile'.usr
                                    /\ \A k \in KvCallers : Fits(vcall'[k], vfile')
    BY Zenon DEF UserInv
  <2>1. ~blind /\ session' = 0 /\ saved' = [file |-> vfile', want |-> want']
    BY <1>3, Zenon DEF Reboot
  <2>2. Kept(vfile', want')
    BY <1>3, <2>1, Zenon DEF Reboot, UserInv
  <2>3. saved'.file = vfile' /\ saved'.want = want'
    BY <2>1, Zenon
  <2>4. \A k \in KvCallers : Fits(vcall'[k], vfile')
    <3>1. \A k \in KvCallers : vcall[k] \in KvCall /\ vcall'[k] = Rest(vcall[k])
      BY <1>3, Zenon DEF KvInv, CallsOK, Reboot
    <3> QED
      BY <3>1, RestFits, Zenon
  <2> QED
    BY <2>1, <2>2, <2>3, <2>4, Zenon
<1>4. ASSUME session' \in {0, session}, UNCHANGED <<vfile, saved, vcall, want, blind>> PROVE UserInv'
  BY <1>4, Zenon DEF UserInv, Kept
<1>5. LockUser \/ UNCHANGED kvVars => session' \in {0, session} /\ UNCHANGED <<vfile, saved, vcall, want, blind>>
  BY Zenon DEF LockUser, kvVars
<1> QED
  BY <1>1, <1>2, <1>3, <1>4, <1>5, BeginUser, LoadUser, EnsureSaveUser, SaveUser, Zenon DEF KvNext

\* The vault keeps its types: among them that one that exists has a key, and
\* that no call opens the user tier without one
THEOREM KeyvaultTypes == KvSpec => []KvTypeOK
<1>1. KvInv => KvTypeOK
  BY Zenon DEF KvInv
<1> QED
  BY <1>1, KvInitInv, KvNextInv, PTL DEF KvSpec

\* Every stored system secret can be read with the device's slot of the stored
\* vault, for any number of callers and secrets: calls that overlap replace the
\* file whole, so slot and entries always come from one copy
THEOREM KeyvaultSystemReadable == KvSpec => []SystemReadable
<1>1. KvInv => SystemReadable
  BY Zenon DEF KvInv, Sound, SystemReadable
<1> QED
  BY <1>1, KvInitInv, KvNextInv, PTL DEF KvSpec

\* As long as no call saved over a vault that it had not read, the vault holds
\* what the calls left, one after the other, over failed saves and power cuts,
\* and what user_set wrote opens with the key that the passphrase opens
THEOREM KeyvaultUserSecretsKept == KvSpec => []UserSecretsKept
<1>1. UserInv => UserSecretsKept
  BY Zenon DEF UserInv, Kept, Own, UserSecretsKept, UserReadable, AcknowledgedKept
<1> QED
  BY <1>1, KvInitInv, KvNextInv, UserInit, UserNext, PTL DEF KvSpec
=============================================================================
