----------------------------- MODULE ExtVolumes -----------------------------
(***************************************************************************)
(* Removable drives (kernel/src/storage/ext.rs) and the module `extfs'     *)
(* that reads them (tools/wasm/extfs).  For each drive the kernel starts a *)
(* probe instance, which reports the partitions, and for each partition a  *)
(* volume instance, which mounts it and serves file requests.  A caller    *)
(* puts its request into the queue of the volume's instance and sleeps;    *)
(* the instance takes it, works on it and answers.  A deadline, a lost     *)
(* drive, a broken answer or the end of the instance may come first.       *)
(* Ejecting closes the volumes of a drive, lets the running requests       *)
(* finish, then flushes and stops the drive.                               *)
(*                                                                         *)
(* An action is one critical section of INSTS, or one step between two.    *)
(* Instances are numbered in the order of their creation, the order of the *)
(* vector INSTS.  Paths, payloads and the calls that return without        *)
(* queueing anything are left out.  A deadline is an action that may       *)
(* happen at any moment of the wait it ends.                               *)
(***************************************************************************)
EXTENDS Naturals, Sequences, FiniteSets, SequencesExt

CONSTANTS
    Disks,       \* drives; a drive plugged in again has a new id
    Callers,     \* fibers that ask for files
    MaxParts,    \* bound: partitions on a drive
    MaxInst,     \* bound: instances started
    MaxSeq,      \* bound: requests made
    MaxWork      \* bound: volumes and open calls together, see Work

VARIABLES
    ready,    \* READY; "taking": set, but WAITING is not taken yet
    waiting,  \* WAITING
    disks,    \* the drives the transport lists
    adding,   \* per drive: where its disk_added is
    telling,  \* drives that left the list and whose disk_gone is to come
    insts,    \* INSTS, per instance number; Free when not in it
    call,     \* per caller: where its call_with is, and what it asked whom
    sig,      \* callers and instances whose SIG_EXT bit is set
    seqs,     \* NEXT_SEQ
    started,  \* instances started so far
    ej        \* where the eject is; `left' is history: the instances of the
              \* drive that were told to end before it began, in a write

extVars == <<ready, waiting, disks, adding, telling, insts, call, sig, seqs, started, ej>>

Caps == 1 .. MaxInst
Seqs == 1 .. MaxSeq

Request == [seq : Seqs, waiter : Callers]

\* A place in INSTS that is not in use
Free == [on |-> FALSE]

\* `at' is where the instance's own code is, `hand' the request it works on,
\* `parts' the partitions its report still has to start.  Label 0 is None and
\* label k the k-th form of a name.  `late' is history: the report started this
\* volume after an eject had closed the instances of the drive.
Inst == [on : {TRUE}, disk : Disks, role : {"probe", "volume"},
         at : {"start", "report", "mount", "first", "run", "next", "serve", "write"},
         hand : 0 .. MaxSeq, parts : 0 .. MaxParts, label : 0 .. MaxInst,
         gone : BOOLEAN, failed : BOOLEAN, closing : BOOLEAN, late : BOOLEAN,
         queue : Seq(Request), taken : SUBSET Request, done : SUBSET Seqs]

\* A caller that asks for nothing
Idle == [at |-> "idle", seq |-> 0, cap |-> 0]

ExtTypeOK ==
    /\ ready \in {"no", "taking", "yes"} /\ waiting \subseteq Disks
    /\ disks \subseteq Disks /\ telling \subseteq Disks
    /\ adding \in [Disks -> {"away", "check", "park", "spawn", "done"}]
    /\ insts \in [Caps -> Inst \cup {Free}]
    /\ call \in [Callers -> [at : {"idle", "check", "wait", "late"}, seq : 0 .. MaxSeq, cap : 0 .. MaxInst]]
    /\ sig \subseteq (Callers \cup Caps) /\ seqs \in 0 .. MaxSeq /\ started \in 0 .. MaxInst
    /\ ej \in [at : {"idle", "close", "drain", "tell", "flush"}, disk : Disks, drained : BOOLEAN,
              left : SUBSET Caps]

ExtInit ==
    /\ ready = "no" /\ waiting = {} /\ disks = {} /\ telling = {}
    /\ adding = [d \in Disks |-> "away"]
    /\ insts = [k \in Caps |-> Free]
    /\ call = [c \in Callers |-> Idle]
    /\ sig = {} /\ seqs = 0 /\ started = 0
    /\ ej = [at |-> "idle", disk |-> CHOOSE d \in Disks : TRUE, drained |-> FALSE, left |-> {}]

Live      == {k \in Caps : insts[k].on}
OnDisk(d) == {k \in Live : insts[k].disk = d}

\* What MaxWork bounds: a volume counts twice, a call once
Work == 2 * Cardinality({k \in Live : insts[k].role = "volume"}) + Cardinality({c \in Callers : call[c].at # "idle"})

\* Mutant of Serving: a volume that closes still takes requests
ServingClosing(k) == k \in Live /\ insts[k].label # 0 /\ ~insts[k].gone /\ ~insts[k].failed

\* What the lookups of call_with, volumes and eject accept
Serving(k) == /\ k \in Live /\ insts[k].label # 0
              /\ ~insts[k].gone /\ ~insts[k].failed /\ ~insts[k].closing

\* What blk_target and `next' let through
Healthy(k) == ~insts[k].gone /\ ~insts[k].failed

Pending(i) == ToSet(i.queue) \cup i.taken

\* The bits that signals to instances ks set: an instance that never waited
\* has no waker yet
Wakers(ks) == {k \in ks : insts[k].at \in {"run", "next", "serve", "write"}}

\* fail_all: every request of the instance gets an error for an answer ...
FailAll(i) == [i EXCEPT !.queue = <<>>, !.taken = {}, !.done = @ \cup {r.seq : r \in Pending(i)}]
\* ... and its waiter is signalled
Waiters(i) == {r.waiter : r \in Pending(i)}

\* Mutant: the instances are not woken
DiskGoneAsleep(d) ==
    /\ insts' = [k \in Caps |-> IF k \in OnDisk(d) THEN [FailAll(insts[k]) EXCEPT !.gone = TRUE]
                                                   ELSE insts[k]]
    /\ sig' = sig \cup UNION {Waiters(insts[k]) : k \in OnDisk(d)}

\* disk_gone, called with the drives that left
DiskGone(d) ==
    /\ insts' = [k \in Caps |-> IF k \in OnDisk(d) THEN [FailAll(insts[k]) EXCEPT !.gone = TRUE]
                                                   ELSE insts[k]]
    /\ sig' = sig \cup UNION {Waiters(insts[k]) : k \in OnDisk(d)} \cup Wakers(OnDisk(d))

(***************************************************************************)
(* Drives come and go                                                      *)
(***************************************************************************)
NewInst(d, role, late) == [on |-> TRUE, disk |-> d, role |-> role, at |-> "start", hand |-> 0, parts |-> 0,
                     label |-> 0, gone |-> FALSE, failed |-> FALSE, closing |-> FALSE, late |-> late,
                     queue |-> <<>>, taken |-> {}, done |-> {}]

\* spawn: the instance is in INSTS before its code runs; a spawn that fails
\* takes it out again before it did anything
Spawn(d, role, late, old) ==
    /\ started < MaxInst
    /\ started' = started + 1
    /\ insts' = [old EXCEPT ![started + 1] = NewInst(d, role, late)]

Attach(d) ==
    /\ adding[d] = "away"
    /\ disks' = disks \cup {d}
    /\ adding' = [adding EXCEPT ![d] = "check"]
    /\ UNCHANGED <<ready, waiting, telling, insts, call, sig, seqs, started, ej>>

\* disk_added: READY is read first ...
AddCheck(d) ==
    /\ adding[d] = "check"
    /\ adding' = [adding EXCEPT ![d] = IF ready = "no" THEN "park" ELSE IF d \in disks THEN "spawn" ELSE "done"]
    /\ UNCHANGED <<ready, waiting, disks, telling, insts, call, sig, seqs, started, ej>>

\* ... and WAITING is locked after it
AddPark(d) ==
    /\ adding[d] = "park"
    /\ waiting' = waiting \cup {d}
    /\ adding' = [adding EXCEPT ![d] = "done"]
    /\ UNCHANGED <<ready, disks, telling, insts, call, sig, seqs, started, ej>>

AddSpawn(d) ==
    /\ adding[d] = "spawn"
    /\ Spawn(d, "probe", FALSE, insts)
    /\ adding' = [adding EXCEPT ![d] = "done"]
    /\ UNCHANGED <<ready, waiting, disks, telling, call, sig, seqs, ej>>

\* store_ready
StoreReady ==
    /\ ready = "no"
    /\ ready' = "taking"
    /\ UNCHANGED <<waiting, disks, adding, telling, insts, call, sig, seqs, started, ej>>

StoreTake ==
    /\ ready = "taking"
    /\ ready' = "yes" /\ waiting' = {}
    /\ adding' = [d \in Disks |-> IF d \in waiting THEN "check" ELSE adding[d]]
    /\ UNCHANGED <<disks, telling, insts, call, sig, seqs, started, ej>>

\* The drive is unplugged: it leaves the list, then ext is told
Detach(d) ==
    /\ d \in disks
    /\ disks' = disks \ {d} /\ telling' = telling \cup {d}
    /\ UNCHANGED <<ready, waiting, adding, insts, call, sig, seqs, started, ej>>

DetachTell(d) ==
    /\ d \in telling
    /\ telling' = telling \ {d}
    /\ DiskGone(d)
    /\ UNCHANGED <<ready, waiting, disks, adding, call, seqs, started, ej>>

(***************************************************************************)
(* The instances: extfs and the host calls it makes.  When a call fails or *)
(* tells it to end, the module returns and instance_ended follows at once: *)
(* nothing tells a module that has not made the call yet from one that has *)
(* made it and not ended yet.                                              *)
(***************************************************************************)
Goes(k, at) == insts' = [insts EXCEPT ![k].at = at]

\* instance_ended: it leaves INSTS, and who waits for it is signalled
Ended(k) ==
    /\ insts' = [insts EXCEPT ![k] = Free]
    /\ sig' = (sig \cup Waiters(insts[k])) \ {k}

\* A trap while it works
Trap(k) ==
    /\ k \in Live /\ insts[k].at = "serve"
    /\ Ended(k)
    /\ UNCHANGED <<ready, waiting, disks, adding, telling, call, seqs, started, ej>>

\* The first reads of the drive
ReadDrive(k) ==
    /\ k \in Live /\ insts[k].at = "start"
    /\ \/ /\ Healthy(k) /\ insts[k].disk \in disks
          /\ Goes(k, IF insts[k].role = "probe" THEN "report" ELSE "mount")
          /\ UNCHANGED sig
       \/ Ended(k)
    /\ UNCHANGED <<ready, waiting, disks, adding, telling, call, seqs, started, ej>>

\* report_parts: one report per probe, then a volume instance for each
\* partition, started one after the other without the lock; none when the
\* report is refused
Report(k, n) ==
    /\ k \in Live /\ insts[k].at = "report" /\ insts[k].parts = 0
    /\ \/ insts[k].gone /\ Ended(k)
       \/ ~insts[k].gone /\ insts' = [insts EXCEPT ![k].gone = TRUE, ![k].parts = n] /\ UNCHANGED sig
    /\ UNCHANGED <<ready, waiting, disks, adding, telling, call, seqs, started, ej>>

StartVolume(k) ==
    /\ k \in Live /\ insts[k].parts > 0 /\ Work + 2 <= MaxWork
    /\ Spawn(insts[k].disk, "volume", insts[k].closing,
             [insts EXCEPT ![k] = IF @.parts = 1 THEN Free ELSE [@ EXCEPT !.parts = @ - 1]])
    /\ UNCHANGED <<ready, waiting, disks, adding, telling, call, sig, seqs, ej>>

\* The name, then name-2, name-3, ...: the first that no instance has
FreeLabel == CHOOSE l \in 1 .. MaxInst :
                /\ \A k \in Live : insts[k].label # l
                /\ \A m \in 1 .. l - 1 : \E k \in Live : insts[k].label = m

\* mount
Mount(k) ==
    /\ k \in Live /\ insts[k].at = "mount"
    /\ \/ insts[k].gone /\ Ended(k)
       \/ /\ ~insts[k].gone
          /\ insts' = [insts EXCEPT ![k].at = "first", ![k].label = FreeLabel]
          /\ UNCHANGED sig
    /\ UNCHANGED <<ready, waiting, disks, adding, telling, call, seqs, started, ej>>

\* Mutant of NextTake: the request stays in the queue
NextTakePeek(k) ==
    /\ k \in Live /\ insts[k].at \in {"first", "run"}
    /\ LET i == insts[k]
       IN  \/ ~Healthy(k) /\ Ended(k)
           \/ Healthy(k) /\ i.queue = <<>> /\ Goes(k, "next") /\ UNCHANGED sig
           \/ /\ Healthy(k) /\ i.queue # <<>>
              /\ insts' = [insts EXCEPT ![k] = [i EXCEPT !.at = "serve", !.hand = Head(i.queue).seq,
                                                        !.taken = @ \cup {Head(i.queue)}]]
              /\ UNCHANGED sig
    /\ UNCHANGED <<ready, waiting, disks, adding, telling, call, seqs, started, ej>>

\* next, the locked part
NextTake(k) ==
    /\ k \in Live /\ insts[k].at \in {"first", "run"}
    /\ LET i == insts[k]
       IN  \/ ~Healthy(k) /\ Ended(k)
           \/ Healthy(k) /\ i.queue = <<>> /\ Goes(k, "next") /\ UNCHANGED sig
           \/ /\ Healthy(k) /\ i.queue # <<>>
              /\ insts' = [insts EXCEPT ![k] = [i EXCEPT !.at = "serve", !.hand = Head(i.queue).seq,
                                                        !.queue = Tail(@), !.taken = @ \cup {Head(i.queue)}]]
              /\ UNCHANGED sig
    /\ UNCHANGED <<ready, waiting, disks, adding, telling, call, seqs, started, ej>>

\* next, the wait: it ends with a signal or with the time the module gave
NextWake(k) ==
    /\ k \in Live /\ insts[k].at = "next"
    /\ Goes(k, "run")
    /\ sig' = sig \ {k}
    /\ UNCHANGED <<ready, waiting, disks, adding, telling, call, seqs, started, ej>>

\* blk_write: the checks of blk_target under the lock, the command after it
BlkTarget(k) ==
    /\ k \in Live /\ insts[k].at = "serve" /\ Healthy(k)
    /\ Goes(k, "write")
    /\ UNCHANGED <<ready, waiting, disks, adding, telling, call, sig, seqs, started, ej>>

BlkWrite(k) ==
    /\ k \in Live /\ insts[k].at = "write"
    /\ Goes(k, "serve")
    /\ UNCHANGED <<ready, waiting, disks, adding, telling, call, sig, seqs, started, ej>>

\* reply: an answer to a request that is no longer taken is dropped; one out
\* of format fails the request and the volume
Reply(k, inFormat) ==
    /\ k \in Live /\ insts[k].at = "serve"
    /\ LET i    == [insts[k] EXCEPT !.at = "run", !.hand = 0]
           mine == {r \in i.taken : r.seq = insts[k].hand}
           answered == [i EXCEPT !.taken = @ \ mine, !.done = @ \cup {r.seq : r \in mine}]
       IN  \/ /\ mine = {} \/ inFormat
              /\ insts' = [insts EXCEPT ![k] = answered]
              /\ sig' = sig \cup {r.waiter : r \in mine}
           \/ /\ mine # {} /\ ~inFormat
              /\ insts' = [insts EXCEPT ![k] = [FailAll(answered) EXCEPT !.failed = TRUE]]
              /\ sig' = sig \cup Waiters(i) \cup {k}
    /\ UNCHANGED <<ready, waiting, disks, adding, telling, call, seqs, started, ej>>

\* reap_stuck: the instances that are too old to have no mount, which are the
\* first k of the list
Stuck(k) == {j \in Live : j <= k /\ insts[j].label = 0 /\ ~insts[j].failed}
ReapStuck(k) ==
    /\ Stuck(k) # {}
    /\ insts' = [j \in Caps |-> IF j \in Stuck(k) THEN [insts[j] EXCEPT !.failed = TRUE, !.gone = TRUE]
                                                 ELSE insts[j]]
    /\ sig' = sig \cup Wakers(Stuck(k))
    /\ UNCHANGED <<ready, waiting, disks, adding, telling, call, seqs, started, ej>>

(***************************************************************************)
(* Callers: call_with                                                      *)
(***************************************************************************)
Call(c, k) ==
    /\ call[c].at = "idle" /\ seqs < MaxSeq
    /\ Work < MaxWork
    /\ Serving(k)
    /\ seqs' = seqs + 1
    /\ insts' = [insts EXCEPT ![k].queue = Append(@, [seq |-> seqs + 1, waiter |-> c])]
    /\ call' = [call EXCEPT ![c] = [at |-> "check", seq |-> seqs + 1, cap |-> k]]
    /\ sig' = sig \cup Wakers({k})
    /\ UNCHANGED <<ready, waiting, disks, adding, telling, started, ej>>

\* One turn of the loop: the instance left INSTS, the answer is there, the
\* deadline has passed, or the caller goes on waiting
CallCheck(c) ==
    /\ call[c].at \in {"check", "late"}
    /\ LET k == call[c].cap
           i == insts[k]
           answered == i.on /\ call[c].seq \in i.done
           without(j) == [j EXCEPT !.done = @ \ {call[c].seq}]
       IN  \/ /\ ~i.on
              /\ call' = [call EXCEPT ![c] = Idle] /\ UNCHANGED <<insts, sig>>
           \/ /\ answered
              /\ insts' = [insts EXCEPT ![k] = without(i)]
              /\ call' = [call EXCEPT ![c] = Idle] /\ UNCHANGED sig
           \/ /\ i.on /\ ~answered
              /\ insts' = [insts EXCEPT ![k] = without([FailAll(i) EXCEPT !.failed = TRUE])]
              /\ sig' = sig \cup Waiters(i) \cup Wakers({k})
              /\ call' = [call EXCEPT ![c] = Idle]
           \/ /\ i.on /\ ~answered /\ call[c].at = "check"
              /\ call' = [call EXCEPT ![c].at = "wait"] /\ UNCHANGED <<insts, sig>>
    /\ UNCHANGED <<ready, waiting, disks, adding, telling, seqs, started, ej>>

\* fiber::wait ends with a signal ...
CallWake(c) ==
    /\ call[c].at = "wait" /\ c \in sig
    /\ call' = [call EXCEPT ![c].at = "check"]
    /\ sig' = sig \ {c}
    /\ UNCHANGED <<ready, waiting, disks, adding, telling, insts, seqs, started, ej>>

\* ... or with the deadline
CallLate(c) ==
    /\ call[c].at = "wait"
    /\ call' = [call EXCEPT ![c].at = "late"]
    /\ sig' = sig \ {c}
    /\ UNCHANGED <<ready, waiting, disks, adding, telling, insts, seqs, started, ej>>

(***************************************************************************)
(* eject, and the transport's eject it calls                               *)
(***************************************************************************)
Ejecting == <<ready, waiting, adding, call, seqs, started>>

EjectFind(k) ==
    /\ ej.at = "idle" /\ Serving(k)
    /\ ej' = [at |-> "close", disk |-> insts[k].disk, drained |-> FALSE,
             left |-> {j \in OnDisk(insts[k].disk) : insts[j].gone /\ insts[j].at = "write"}]
    /\ UNCHANGED <<Ejecting, insts, sig, disks, telling>>

EjectClose ==
    /\ ej.at = "close"
    /\ insts' = [k \in Caps |-> IF k \in OnDisk(ej.disk) THEN [insts[k] EXCEPT !.closing = TRUE] ELSE insts[k]]
    /\ ej' = [ej EXCEPT !.at = "drain"]
    /\ UNCHANGED <<Ejecting, sig, disks, telling>>

Busy(d) == \E k \in OnDisk(d) : Pending(insts[k]) # {}

\* The wait ends when nothing runs, or after EJECT_WAIT_MS
EjectDrain ==
    /\ ej.at = "drain"
    /\ \E drained \in {~Busy(ej.disk), FALSE} : ej' = [ej EXCEPT !.at = "tell", !.drained = drained]
    /\ UNCHANGED <<Ejecting, insts, sig, disks, telling>>

EjectTell ==
    /\ ej.at = "tell"
    /\ DiskGone(ej.disk)
    /\ ej' = [ej EXCEPT !.at = "flush"]
    /\ UNCHANGED <<Ejecting, disks, telling>>

\* The drive is flushed, stopped and dropped from the list; a command that
\* fails leaves it there
EjectStop ==
    /\ ej.at = "flush"
    /\ ej' = [ej EXCEPT !.at = "idle", !.drained = FALSE, !.left = {}]
    /\ \E ok \in BOOLEAN : disks' = IF ok THEN disks \ {ej.disk} ELSE disks
    /\ UNCHANGED <<Ejecting, insts, sig, telling>>

ExtNext ==
    \/ StoreReady \/ StoreTake
    \/ \E d \in Disks : Attach(d) \/ AddCheck(d) \/ AddPark(d) \/ AddSpawn(d) \/ Detach(d) \/ DetachTell(d)
    \/ \E k \in Caps : \/ ReadDrive(k) \/ StartVolume(k) \/ Mount(k) \/ NextTake(k) \/ NextWake(k)
                      \/ BlkTarget(k) \/ BlkWrite(k) \/ Trap(k) \/ ReapStuck(k)
                      \/ \E n \in 0 .. MaxParts : Report(k, n)
                      \/ \E f \in BOOLEAN : Reply(k, f)
    \/ \E c \in Callers : CallCheck(c) \/ CallWake(c) \/ CallLate(c) \/ \E k \in Caps : Call(c, k)
    \/ EjectClose \/ EjectDrain \/ EjectTell \/ EjectStop \/ \E k \in Caps : EjectFind(k)

ExtSpec == ExtInit /\ [][ExtNext]_extVars

(***************************************************************************)
(* Properties                                                              *)
(***************************************************************************)
\* The places of a request: queued, taken or answered, at some instance
Places(s) ==
    {<<k, "asked">> : k \in {k \in Live : \E r \in Pending(insts[k]) : r.seq = s}} \cup
    {<<k, "answered">> : k \in {k \in Live : s \in insts[k].done}}

\* A request is in one place at a time, and that place is the instance its
\* caller asks in call_with: it is queued or taken there, or answered there,
\* never both, and a caller whose instance is still in INSTS always finds it
OneAnswerOwed ==
    \A c \in Callers : call[c].at # "idle" =>
        Places(call[c].seq) \in {{<<call[c].cap, "asked">>}, {<<call[c].cap, "answered">>}}
        \/ (Places(call[c].seq) = {} /\ call[c].cap \notin Live)

\* No request and no answer stays behind in an instance after its caller has
\* returned: a caller that gives up at its deadline takes its own answer out
NothingLeftBehind ==
    \A k \in Live : /\ \A r \in Pending(insts[k]) : \E c \in Callers : call[c].at # "idle" /\ call[c].seq = r.seq
                    /\ \A d \in insts[k].done : \E c \in Callers : call[c].at # "idle" /\ call[c].seq = d

\* A caller that sleeps in fiber::wait without a signal has its request still
\* open: every way to answer it, to fail it or to end its instance signals it
NoSleepOverAnswer ==
    \A c \in Callers : (call[c].at = "wait" /\ c \notin sig) =>
        /\ call[c].cap \in Live
        /\ \E r \in Pending(insts[call[c].cap]) : r.seq = call[c].seq /\ r.waiter = c

\* An instance that sleeps in next without a signal has nothing to do and was
\* not told to end
NoSleepOverWork ==
    \A k \in Live : (insts[k].at = "next" /\ k \notin sig) =>
        insts[k].queue = <<>> /\ Healthy(k)

\* A volume that failed or whose drive is gone holds no request: nothing is
\* routed to it afterwards, so no caller waits for it in vain
StoppedIsDrained == \A k \in Live : ~Healthy(k) => Pending(insts[k]) = {}

\* Two volumes never have the same name in ext/, also while one of them is
\* gone and has not ended, and only volumes have one
LabelsUnique ==
    \A j, k \in Live : (insts[j].label # 0 /\ insts[j].label = insts[k].label) =>
        j = k /\ insts[j].role = "volume"

\* Precondition of the three properties below.  report_parts starts its volumes
\* without the lock (ext.rs:354), so one that starts after eject set `closing'
\* (ext.rs:707) takes requests, although eject's comment says that the volumes
\* of its drive take no new one (ext.rs:699): of such a volume nothing is
\* promised until another eject closes it.
Late(k) == insts[k].late /\ ~insts[k].closing

\* A volume that takes requests is on a drive the transport lists, except
\* between the drive leaving the list and disk_gone
VolumeHasDrive == \A k \in Caps : Serving(k) => insts[k].disk \in disks \cup telling \/ Late(k)

\* An eject that waited for the running requests fails none of them: from the
\* moment it found the drive idle, no request runs there
EjectDrains ==
    (ej.at = "tell" /\ ej.drained) => \A k \in OnDisk(ej.disk) : Pending(insts[k]) = {} \/ Late(k)

\* When such an eject flushes the drive, no write is on its way any more,
\* unless its instance was given up at the deadline of a request or of an
\* earlier eject
FlushAfterWrites ==
    (ej.at = "flush" /\ ej.drained /\ ej.disk \in disks) =>
        \A k \in OnDisk(ej.disk) : insts[k].at = "write" => insts[k].failed \/ k \in ej.left \/ Late(k)

\* Each request is answered or failed once, to the caller that waits for it, and
\* leaves nothing in an instance that goes on or has stopped (call_with, reply,
\* fail_all)
AnswersAccounted == OneAnswerOwed /\ NothingLeftBehind /\ StoppedIsDrained

\* Neither a caller nor an instance sleeps over what it waits for
NobodySleepsOver == NoSleepOverAnswer /\ NoSleepOverWork

\* Unplugged or ejected while requests run and partitions are mounted: a drive
\* takes its volumes along, their names are not given again before they end, an
\* eject fails no request and flushes after the last write.  Volumes that start
\* after the eject closed the others (Late) are excepted from all but the names.
DrivesLeaveSafely == VolumeHasDrive /\ LabelsUnique /\ EjectDrains /\ FlushAfterWrites
=============================================================================
