# Verification of nopeekOS

TLA+ models of the parts of nopeekOS whose correctness hangs on orders of
events a test hardly reaches: power cuts between the writes of a commit, fibers
that give up a lock around a device write, tokens that expire while they are
delegated, cores that halt while another core hands them work, segments and
fragments that come late, twice or never.  TLC checks the models on small
instances; for seven of the components TLAPS proves the central safety
properties for every instance.  Paths below are relative to `src/kernel/src/`,
or to `src/net/src/` where they start with `net:`.

## 1. The system and what of it is modelled

| Part | What is hard about it | Modules |
|---|---|---|
| npkFS object store (`storage/npkfs/storage.rs`, `journal.rs`, `bitmap.rs`, `sb_io.rs`, `cache.rs`) | unlocked device write inside put; four-phase commit over a volatile device cache; journal replay; failing commands; TRIM | `NpkStore`, its promise `AtomicStore`, `NpkStoreProofs` |
| npkFS file layer (`fs.rs`, `paths.rs`) | collection beside open streams; a drain without the mutex; failed commits | `NpkRoot`, `NpkRootProofs` |
| npkFS B-tree (`btree.rs`) | splits up to the root, emptied leaves, slots left over from earlier versions | `BTree` |
| Fibers and worker loop (`smp/fiber.rs`, `per_core.rs`, `scheduler.rs`) | lost wake-ups; fibers between two queues; stranded tasks; pins against thieves | `FiberSched`, `FiberSchedSteps`, `FiberSchedProofs` |
| Parallel jobs (`smp/par.rs`) | helpers that start late and a closure on the caller's stack | `ParJob`, its promise `ForEach`, `ParJobProofs` |
| Topics and status items (`notify.rs`, `status.rs`) | a change between a panel's look and its wait; tables kept per waker slot | `Topics`, `TopicsProofs` |
| Capability vault (`security/capability.rs`) | expiry inside create; slot reuse; transitive revocation | `CapVault`, `CapVaultProofs` |
| Keyvault (`security/keyvault.rs`) | load, change and save by several callers; loads that fail | `Keyvault`, `KeyvaultProofs` |
| External volumes (`storage/ext.rs`) | deadlines against late answers; drives that go; eject | `ExtVolumes` |
| DHCP and address conflicts (`net/dhcp.rs`, `net:dhcp.rs`, `net:acd.rs`) | timers racing late answers; decisions carried out after the lock | `AddrConfig` |
| Neighbour table (`net:neigh.rs`) | timers and limits against packets that wait | `Neigh` |
| TCP (`net:tcp.rs`, `net:tcp/`) | loss, duplication and reordering while both ends close | `Tcp` |
| IPv4 reassembly (`net:frag.rs`) | overlaps, mixed datagrams, memory accounting | `Frag` |

`MCStorage` puts store, file layer and B-tree together, `MCSmp` fibers,
parallel jobs and topics, `MCApps` the vault, the keyvault and the volumes,
`MCNet` addresses, neighbours and reassembly; `Tcp` runs alone.  Within such a
group the parts share no state, or one uses the other through what it promises:
the file layer and the store through `AtomicStore` (one put at a time, a commit
that makes everything durable, a power cut that goes back to the last commit),
the store and its index through "a map of entries", jobs and topics and the
scheduler through "a spawned task may run, a signal resumes its fiber".  So a
run explores each part alone: the variable `part` says which one moves.  Two of
the promises are themselves shown: `NpkStore` implements `AtomicStore` and
`ParJob` implements `ForEach`, checked by TLC and proved.

## 2. Modules

**`NpkStore`** has one action per step of `put_inner` between two lock
operations (`PutLookup`, `PutAlloc`, `PutWrite`, `PutInsert` and their error
exits), per phase of `commit` (`Prepare`, `Sync`, `Barrier`, `WriteSb`,
`Finish`, and `CommitFail` at each of them), for the sweep, TRIM,
`set_keyslot`, `mount`, a power cut and a failing command.  The tree is the set
of its node blocks and the blocks of each object; a copy-on-write step replaces
nodes by fresh ones; the allocator may return any free block.  Journal and
bitmap blocks have contents at four levels (cache, device, written since the
last FLUSH, stable), and a power cut picks one independently for each.  Other
blocks have only "has reached stable media".  A superblock lands whole or not
at all (FUA and checksum).  `SpecKeyslot` allows `set_keyslot` at any time;
`Spec` allows it only when no put waits for its commit (`SetKeyslotQuiet`),
because the general case is finding 1 and would hide everything else.

**`AtomicStore`** is the promise of the store.  Under the refinement mapping in
`NpkStore`, `now` is what a reader finds and `saved` what a mount would find.

**`NpkRoot`**: the mutations of `paths.rs` (lock, read root, put blob, put
tree, commit), streaming writes, `flush_pending`, `gc` (mark, second look for
streams, sweep in batches), failures and power cuts.  Directories are flattened
to one level; objects are named by their contents, as hashes do.  `files` is a
history variable: what the calls, one after the other, would leave.

**`BTree`**: insert and delete on nodes in blocks, with the stale slots beyond
`n` and the wrapping integers of the release build; an operation and the commit
that frees what it replaced are one action, since both run under the store's
lock.  `BtKeptNext` leaves out the deletes that take the last key below an
internal node, which is finding 5.

**`FiberSched`**: per core the loop of `smp_ap_entry` as a program counter, per
signaller the steps of `signal` and `spawn_inner`.  A fiber is ready, waiting
or due; one signal bit stands for all of them; a sleep is a wait nobody
signals.  The throttle of invitations is a free choice.  Left out: vCPU exits,
the core shared by background apps, the growth of the waker table, Core 0 (the
same loop without inbox and stealing).

**`ParJob`**: a step is one atomic access of `par.rs`, or the start or end of
the closure.  Helpers start at any time or never.  **`ForEach`** is what the
caller sees: indices finish one by one, and the call returns when all have.

**`Topics`**: one topic, one item per publisher, panels that look, read and
wait, and fibers that end while others take over their waker slots.  The items
the kernel computes when the list is read are left out.

**`CapVault`**: `create` reads the clock three times and the model lets it
advance in between.  `Revoked` is the least set closed under delegation; `Loop`
is the code's repeated pass, checked equal to it.  `lineage` and `dead` are
history variables.

**`Keyvault`**: load, ensure, change and save are separate steps of calls that
overlap; loads and saves may fail and the machine may restart.  A data key is a
number; passphrases and ciphers are left out.  `want` is what the calls left,
`blind` that some call saved over a vault it had not read.  Finding 4 needs
neither a restart nor a failed save: the step that breaks `VaultKept` is the save.

**`ExtVolumes`**: one action per critical section of `INSTS`; deadlines may
pass at any time; a drive may go, or be ejected, at any time, also while its
partitions are still being started.  `late` and `left` are history: instances
started for a drive that an eject was closing, and instances that an eject gave
up while they wrote.  Paths, payloads and the file systems are left out.

**`AddrConfig`**: no clock; a timer is off, due or later.  Replies are lost,
repeated or late, and what a step decided under the lock is carried out after
it, so that the acts of two fibers may overtake one another.  Left out: a
second interface, routes, DNS, MTU, back-off times; mask and router only as
"the same binding as before or not".

**`Neigh`**: ages and timers in small units, all packets of size one.  A call
ends with the table's lock; what it returns is sent after that, by `arp.rs`.

**`Tcp`**: one connection between two ends that both run this code, over a
network that loses, repeats and reorders.  When a segment is sent again is a
free choice.  Left out: simultaneous open, SYN cookies and full queues, limits
on orphans and memory, ICMP errors, closing a listener, timestamps, windows and
their probes, congestion control and SACK; sequence numbers do not wrap.  The
reassembly queue is a set of bytes: how the code orders and trims the segments in
it (`net:tcp.rs:2016-2035`, `2083-2102`) is taken as correct.

**`Frag`**: offsets in units, and a fragment knows the datagram it was cut
from, so that `DeliveredAsSent` can be stated.

## 3. Runs

| Run | Instance | Properties | Shows |
|---|---|---|---|
| `store_crash` | 5 blocks, 2 objects, one with an indirect chain, 2 concurrent puts, journal ring of 2, 1 power cut, 3 generations; index with 7 keys, 2 entries per leaf, 2 keys per node; files: a writer and a stream that does not drain, 3 generations, 1 power cut | `SelfCheckClean`, `NoLeakWhileHealthy`, `TreeSound`, `NoLostUpdate`, `ImplementsAtomicStore` | no block in use is free or owned twice, nothing leaks while healthy but what a full disk strands, the store implements `AtomicStore`; the index finds and walks what was inserted; no update of the path tree is lost |
| `storage_faults` | 1 put, an object with an indirect chain, 2 nodes per insert, 3 generations, 1 power cut, 1 failing command; files: a writer, a stream that may drain after each of 2 chunks, 2 paths, 1 blob, 2 superblock slots, 3 generations, 1 fault, 1 power cut | `StorageTypeOK`, `MediaSound`, `IntactUntilFailure`, `StreamKeepsChunks` | what is on media stays allocated and written after a failed command; gc keeps what root, slots and streams need |
| `fiber_steal` | 2 cores that both take and steal, 2 apps, 1 intent, device interrupts on one core; a job of 3 indices on 2 workers; 2 publishers, 1 panel, 2 waker slots | `SmpTypeOK`, `FibersAccounted`, `NoLostWakeup`, `NoStrandedTask`, `PinnedStays`, `ClosureSafe`, `KeepsPromise`, `PanelCurrent`, `EndsWithFiber` | safety of what runs on the cores |
| `fiber_live` | a driver core and a thief, an app and a placed fiber with deadlines; the same job | `SignalledRuns`, `AppTaken`, `ForEachReturns` | signalled fibers run, apps are taken, `for_each` returns |
| `apps` | vault: 3 slots, 4 tokens, times 0–2; keyvault: 2 callers, 1 name in 2 tiers, 2 data keys; volumes: 1 drive with 2 partitions, 2 callers | `AppsTypeOK`, `AuthorityChain`, `NothingUnderTheRevoked`, `LoopRevokesAll`, `SystemReadable`, `UserSecretsKept`, `AnswersAccounted`, `NobodySleepsOver`, `DrivesLeaveSafely` | safety of the services behind the host calls |
| `net` | 2 addresses and a static one, 2 exchanges; 2 neighbours, 3 packets; 9 fragments of 5 datagrams | `NetTypeOK`, `AddressSound`, `ClientGoesOn`, `PacketsServed`, `EntriesSound`, `DatagramsAsSent`, `FragAccounted` | addresses, neighbours and reassembly are safe |
| `tcp` | 2 bytes in all, 2 segments on the way, 1 number space of the server | `TcpTypeOK`, `StreamDelivered`, `EndsAsMeant` | a connection delivers what was sent and ends as its owners meant |
| `store_keyslot`, `root_drain_race`, `root_commit_fail`, `keyvault_read_fail`, `btree_emptied` | | one each | violations, see section 4 |

Some properties are conjunctions, each conjunct defined and explained in its
module:

- `SelfCheckClean`: `NoFreeButReferenced` and `NoDoubleAlloc`; `MediaSound`:
  `NoFreeButReferenced` and `LiveBlocksIntact`.
- `IntactUntilFailure`: until a put or commit fails, `RootIntact` and
  `SnapshotsIntact`.
- `TreeSound`: lookup finds exactly the keys held, the walk visits them in
  order, no child is a free block, and no block is lost unless an operation ran
  out of blocks or emptied the tree.
- `FibersAccounted`: `OnePlace`, `CountsResidents`, `WakerFollows`;
  `ClosureSafe`: `WorkOutlives`, `CalledOnce`; `EndsWithFiber`:
  `SubscriberLives`, `ItemsHaveFibers`.
- `UserSecretsKept`: `UserReadable`, `AcknowledgedKept`, both as long as no
  save was blind.
- `AnswersAccounted`: `OneAnswerOwed`, `NothingLeftBehind`, `StoppedIsDrained`;
  `NobodySleepsOver`: `NoSleepOverAnswer`, `NoSleepOverWork`;
  `DrivesLeaveSafely`: `VolumeHasDrive`, `LabelsUnique`, `EjectDrains`,
  `FlushAfterWrites`.
- `AddressSound`: `AppliedIsLeased`, `LeaseOfThisExchange`, `ProbedBeforeUse`,
  `StackFollows`; `ClientGoesOn`: `NeverStuck`, `AnswerHeard`.
- `PacketsServed`: `PacketsAccounted`, `LeftInOrder`, `WaitIsShort`;
  `EntriesSound`: `TimersRun`, `AskedOnlyHeard`, `ReachableIsFresh`.
- `StreamDelivered`: `StreamIntact`, `AckedIsTaken`, `EofIsComplete`;
  `EndsAsMeant`: `FinishedIsDelivered`, `ErrorHasCause`.
- `DatagramsAsSent`: `DeliveredAsSent`, `DeliveredWhole`, `GoodArrives`;
  `FragAccounted`: `MemAccounted`, `DistanceKept`.

Bounds.  One power cut suffices for the recovery properties because mount
starts again from a state of the same shape; generations exceed the journal
ring and the slots that are checked, so both wrap.  Five blocks let a commit's
frees be reused by the next put, which is what a wrong replay needs.  Seven keys
with two per node give a tree of three levels that grows and shrinks at every
level.  Two cores give every pair of signaller and sleeper, thief and victim;
they are alike, so interrupts on one of them are enough.  Three slots give a
chain of two delegations, and the fourth token goes into the slot of one that
expired or was revoked.  Two callers give every overlap of two loads and saves,
and every race of a deadline with an answer.  Two data keys allow a vault with
both tiers, or one that is made anew; histories with more keys are left to the
proof.  One blob is enough for the
chunk that a stream finds stored while a collection may take it.  The reachable
time is drawn from one value, so that the neighbour run has no redraw of it.
The fragments hold the overlaps,
duplicates and mixed identifications that `input` tells apart, and the memory
threshold lies below what all of them need.

Symmetry is declared for objects that are only compared (fibers, callers,
addresses).  The storage runs use a view: blocks are interchangeable but are
numbers, so two trees of one shape count as one state, and histories that none of
the run's properties reads are left out.

Deadlock is checked in the two fiber runs, where a job that is over is the only
legitimate end.  The others set CHECK_DEADLOCK FALSE: they stop when a bound is
reached.

Fairness (`fiber_live` only).  Weak fairness of each core's loop, a running
fiber giving its core back included: fibers are cooperative and the code relies
on it (`yield_if_contended`).  Weak fairness of a signaller's remaining steps
and of the participants of a job that have started: they run on a core and do
not stop half way.  No helper is assumed to start.  Weak fairness of the inbox
starvation time passing.  `SignalledRuns` assumes that tasks stop arriving,
because the loop serves the inbox first without a bound.  Only two fibers are
explored: whether three could be stolen back and forth for ever is open.

## 4. Findings

1. `store_keyslot`: `set_keyslot` publishes the in-memory tree without the
   bitmap that covers it (`storage.rs:304`).
2. `root_drain_race`: `flush_pending` writes back a root it read before another
   fiber's commit (`storage.rs:793`).
3. `root_commit_fail`: a root whose commit failed stays in memory, in no slot,
   and gc removes its objects (`fs.rs:429`).
4. `keyvault_read_fail`: `ensure` takes a load that failed for a missing vault
   and saves an empty one over it (`keyvault.rs:252`).
5. `btree_emptied`: `remove_from_parent` meets an internal node without keys and
   keeps a child that was freed (`btree.rs:719`).

`PROJECT.json` quotes the comments these contradict.  Elsewhere the models
contain behaviour that a comment or a reader might not expect, and the
properties are stated around it:

- An indirect chain that finds the disk full leaves the blocks of its put
  allocated (`storage.rs:977`; the comment at 958 says every error path gives
  them back), and an insert or unlink that runs out of blocks leaves the nodes it
  had copied.  `NoLeakWhileHealthy` excepts exactly these (`leaked`).
- `Neigh` ends where the table's lock does: `net/arp.rs` sends what left the table
  after it, so two cores may send in another order.  `flush` drops the packets
  that wait without counting or reporting them.
- Deleting the last key of a one-leaf tree leaves its block allocated
  (`btree.rs`, delete at depth 0).
- `status::forget` leaves the items of an ended fiber when another fiber holds
  the list (`status.rs:80`; lines 37 and 78 say they go with it).
- A module that reads the list before its first `npk_wait` subscribes may miss a
  change until the next one (`notify.rs:46`).
- Two calls of the keyvault that overlap lose one update (`keyvault.rs:332`).
- A drive that arrives while the store becomes ready may be neither parked nor
  read (`ext.rs:200-214`).  An eject does not close volumes whose instances
  `report_parts` starts after it closed the others (`ext.rs:354`): they take
  requests of a drive that is being stopped, although `ext.rs:699-701` says none
  are taken.  `DrivesLeaveSafely` excepts them (`Late`), and the write of an
  instance that an earlier eject stopped waiting for.
- The acts of two fibers may be carried out in the other order than decided, and
  a probe that ends in the tick in which another address is leased counts for
  that one (`net/dhcp.rs:191-198`).
- `PEERS_MAX` of reassembly is a soft limit: only sources that were silent for a
  while are forgotten, so the table may grow past it (`net:frag.rs:120`).

## 5. Proofs

Every theorem holds for all values of the constants that satisfy the named
assumptions of the component's module.  These only say that sizes are numbers
(positive where the code divides or wraps by them) and that sets that stand for
different things are disjoint; the bounds that make an instance small (numbers
of crashes, faults, generations, tokens, times) are arbitrary.  Each component
has an inductive invariant; one lemma per action shows that the action keeps
it, and the theorems follow from it by temporal logic.

**The object store** (`NpkStoreProofs`): `StoreTypes`, `StoreSelfCheckClean`,
`StoreMediaSound`, `StoreNoLeak` (`NoLeakWhileHealthy`), `StoreImplementsAtomic`,
all of `Spec`.

The properties speak of memory and of the superblock on media; none is
inductive, because after a power cut they rest on what bitmap and journal
blocks can hold then, and that on the order in which a commit writes them.
`StoreInv` consists of types (`MemTyped`, `DevTyped`), the state between power
cut and mount (`Asleep`) and:

| Conjunct | Says | Needed for |
|---|---|---|
| `Apart`, `Owned` | the blocks of the trees, of puts in flight and of those that wait to be freed or are journaled are disjoint where they must be, and all marked | `SelfCheckClean`; that a put gets nobody's block |
| `Tracked` | how the journal's sequence number, the superblock in memory and the one on media relate in each phase; as long as the number has not moved, the tree is still the one on media | a commit that frees nothing keeps the number, so that entries of the commit before stay valid for replay |
| `Marked` | which bitmap pages agree with the bitmap in memory, and what the barrier has made of the others | the superblock may be written |
| `Media` | every version of a bitmap page that a power cut may leave marks what the superblock on media references, and no journal entry that replay would apply frees any of it | `mount` |
| `Bytes` | no block in use is discarded, and what a commit publishes has reached stable media before the superblock | `MediaSound` |

`StoreNoLeak` needs the converse of `Owned`: `LeakInv` says that until something
fails the bitmap holds the blocks that somebody answers for (`Kept`) and those
left behind, and that the two are apart, so that no free ever takes a stranded
block; each action is shown to move blocks between the three sets
(`StaysBalanced`), with the exact effect of a copy-on-write step (`CowRefs`).

For the refinement (`AtomicStep`) every action is of one kind: `PutInsert` is
an abstract put, or a stutter when the object is already there; `Unlink` is a
removal; `WriteSb`, or a `CommitFail` whose superblock landed all the same, is
the abstract commit; a power cut is the abstract one, and its `saved` is what
the mount finds because `Bytes` makes every object that the superblock names
readable (`SavedAll`); everything else changes nothing a caller sees.

The assumptions are `BlocksAssumption` (finitely many blocks),
`PagesAssumption` (each block has a bitmap page, apart from the journal),
`SizesAssumption` (sizes are positive, there is something to store) and
`InitTreeAssumption` (the volume mkfs leaves is in order).

**The file layer** (`NpkRootProofs`): `RootTypes`, `RootCollectionSafe`
(`IntactUntilFailure`), `RootStreamsSafe` (`StreamKeepsChunks`) and, where
nothing fails and no stream is long enough to drain, `RootNoLostUpdate`; its two
hypotheses are exactly what findings 2 and 3 need to happen.  `RootInv` ties the
mutex to the places of the fibers (`Locked`), says that an open stream's chunks
are stored (`Streamed`), that until a failure the root in use is that of the
newest slot (`Newest`), that what slots and fibers hold is stored (`Stored`,
`FibersStored`), and that gc has marked all of what the slots reach (`Marked`).

**Fibers** (`FiberSchedSteps`, `FiberSchedProofs`): `SchedTypes`,
`SchedFibersAccounted`, `SchedNoLostWakeup`, `SchedNoStrandedTask`,
`SchedPinnedStays`.  `SchedInv` says where a fiber can be: the place of a core
determines its fields (`CoresInStep`), no fiber is in two places (`Once`), its
waker names the core that has it (`Homes`), and it lives as long as it is
somewhere (`Alive`).  `WakeInv` adds that for a core which has looked at its
queue every fiber that became runnable since is still being announced to it,
and `FullInv` that `FIBER_COUNT` is the length of the queue, the fiber that
runs and those a thief carries: the sum that makes the unguarded subtractions
of `finish` and `steal_for` safe.

**Parallel jobs** (`ParJobProofs`): `ParClosureSafe` and `ParKeepsPromise`, the
refinement of `ForEach`.  `ParInv` counts the helpers that `active` knows, says
that each index below the counter is finished or with exactly one participant
(`Handed`), and that a caller that has returned left the job closed with nobody
inside (`Roles`, `WorkOutlives`).

**Topics** (`TopicsProofs`): `TopicsTypes`, `TopicsPanelCurrent`,
`TopicsEndWithFiber`.  `TopInv` says that running fibers have slots of their
own, that a slot that watches belongs to a panel that runs, and that a panel
between its reading and its next look shows the list, or has its topic pending
with a signal on the way, or a change has yet to be announced (`Informed`).

**The vault** (`CapVaultProofs`): `VaultTypes`, `VaultSafety`
(`AuthorityChain`), `VaultRevocation` (`NothingUnderTheRevoked`).  `create`
overwrites only an empty, inactive or expired slot, so it takes no accepted
parent away, and the new expiry is no later than the parent's; revoke and
release remove a set closed under delegation; a tick ends a parent no earlier
than its children.  For `VaultRevocation`, `Ordered` says that a parent's id is
smaller than its child's and that lineage follows the parents; a token that
violated the property would have a least violating ancestor, whose parent is
accepted by `AuthorityChain` and smaller.

**The keyvault** (`KeyvaultProofs`): `KeyvaultTypes`, `KeyvaultSystemReadable`,
`KeyvaultUserSecretsKept`.  `KvInv` says of each copy in the hands of a call
what the property says of the file: the copies replace the file whole.
`UserInv` adds, as long as no save was blind, how such a copy differs from the
file: in the one entry or key slot its call is about to change.

Only model-checked:

- `SignalledRuns`, `AppTaken`, `ForEachReturns`: liveness under fairness is out
  of the prover's reach.
- `LoopRevokesAll` and `TreeSound`: recursive functions over data; what they
  compute for every input would need induction with an operator as parameter.
- The properties of `ExtVolumes`, `AddrConfig`, `Neigh`, `Tcp` and `Frag`.
- The composite type invariants `StorageTypeOK`, `SmpTypeOK`, `AppsTypeOK` and
  `NetTypeOK`; of the first three, the types of `NpkStore`, `NpkRoot`,
  `FiberSched`, `Topics`, `CapVault` and `Keyvault` are proved one by one.

## 6. Not modelled

`PROJECT.json` lists every part with its reason.  In short:

- computation: ciphers, TLS, hashing, the WebAssembly compiler, drawing and
  layout, parsers of disk formats and partition tables, mkfs;
- register-level code: drivers, GPU, microVM, page tables, interrupt vectors,
  boot and core bring-up;
- state behind one lock with no step of another actor in between: the audit
  journal, the process table, the frame bitmap, audio and camera buffers,
  settings, the tables of IP, DNS, UDP, ICMP and NTP;
- quantitative behaviour: the packet scheduler, frequency and power;
- straight-line sequences over modelled parts: intents, updates, install;
- path grants and pick sessions, whose tokens are in `CapVault`, and the cache
  of decrypted trees, on which nothing relies.

Most of the source tree's lines are of these kinds (device register tables,
fonts, bundled applications and tools), so the models stand for a small part of
the lines and for most of the concurrent and persistent state.
