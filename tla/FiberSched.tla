----------------------------- MODULE FiberSched -----------------------------
(***************************************************************************)
(* The fiber scheduler (kernel/src/smp/fiber.rs), the task inbox           *)
(* (scheduler.rs) and the worker loop that ties them together              *)
(* (smp_ap_entry and the wake-ups of per_core.rs): cores that run, park,   *)
(* steal and halt while other cores and interrupts signal their fibers.    *)
(*                                                                         *)
(* A step is one lock section or one access to a shared atomic (a queue's  *)
(* counter moves with the queue), so signals, steals and the way into the  *)
(* halt interleave as they do on the machine.  A fiber stands for its      *)
(* waker slot too: when it ends it may be spawned again in the same slot.  *)
(* All signals are one bit, and every wait waits for it (a sleep is a wait *)
(* nobody signals).  A deadline passes at any time.  Which cores take      *)
(* inbox work, take over fibers or hold a driver is fixed; the core shared *)
(* by background apps and the exit of a vCPU from its guest are left out.  *)
(***************************************************************************)
EXTENDS Integers, Sequences, FiniteSets, Functions

CONSTANTS
    NumCores,     \* worker_count
    Takers,       \* cores for which takes_work holds
    Stealers,     \* cores for which may_steal holds
    DriverCores,  \* DRIVER_CORES
    Intents,      \* run-to-completion tasks
    Fibers,
    Placed,       \* fibers put on a core directly
    Timed,        \* fibers whose waits have a deadline
    Devices,      \* cores that take device interrupts
    Signallers,   \* fibers of other cores, Core 0, interrupt handlers: whoever signals and spawns
    None

Cores == 1 .. NumCores

ASSUME CoresAssumption == NumCores \in Nat \ {0}
ASSUME SetsAssumption ==
    /\ Takers \cup Stealers \cup DriverCores \cup Devices \subseteq Cores
    /\ Placed \cup Timed \subseteq Fibers
    /\ None \notin Fibers /\ Intents \cap Fibers = {}

VARIABLES
    inbox, starved, \* INBOX; its head has waited for INBOX_STARVE_MS
    live,           \* fibers that hold a waker slot (used)
    state,          \* Fiber.state
    bits,           \* slot.signals
    home,           \* slot.core
    movable,        \* Fiber.movable and slot.movable
    queue,          \* FIBER_QUEUES
    count,          \* FIBER_COUNT
    current,        \* CURRENT_FIBER
    moving,         \* the fiber a thief has taken out of a queue
    active,         \* CORE_ACTIVE
    native,         \* NATIVE_BUSY
    idle,           \* IDLE
    irq,            \* an interrupt is pending at the core
    pc, scan,       \* per core: its place, and the victim steal_for looks at
    sig             \* per signaller: its place, fiber and core

fiberVars == <<live, state, bits, home, movable>>
coreVars  == <<queue, count, current, moving, active, native>>
vars == <<inbox, starved, fiberVars, coreVars, idle, irq, pc, scan, sig>>

At(c, l)   == pc[c] = l
Goto(c, l) == pc' = [pc EXCEPT ![c] = l]

\* FiberState; "due" is a wait whose deadline has passed
States == {"ready", "waiting", "due"}

Runnable(f) == state[f] \in {"ready", "due"} \/ (state[f] = "waiting" /\ bits[f])

-----------------------------------------------------------------------------
(* The inbox.                                                              *)

Load(c) == count[c] + (IF native[c] THEN 1 ELSE 0)

LeastLoaded(c) == \A d \in Takers \ {c} : native[d] \/ Load(d) >= Load(c)

\* Mutant: placement is strict, however long the task has waited.
AcceptsStrict(c, task) ==
    LET driverCore == c \in DriverCores /\ Takers \ (DriverCores \cup {c}) # {}
    IN  ~driverCore /\ LeastLoaded(c)

Accepts(c, task) ==
    LET driverCore == c \in DriverCores /\ Takers \ (DriverCores \cup {c}) # {}
    IN  /\ ~(driverCore /\ task \in Intents)
        /\ starved \/ (~driverCore /\ LeastLoaded(c))

TakesHead(c) == c \in Takers /\ inbox # <<>> /\ Accepts(c, Head(inbox))

TakeHead == inbox' = Tail(inbox) /\ starved' = FALSE

Starve == inbox # <<>> /\ ~starved /\ starved' = TRUE
          /\ UNCHANGED <<inbox, fiberVars, coreVars, idle, irq, pc, scan, sig>>

\* alloc_waker and the rest of admit_inner, for core c
Admit(c, f, mv) ==
    /\ live' = live \cup {f}
    /\ state' = [state EXCEPT ![f] = "ready"]
    /\ bits' = [bits EXCEPT ![f] = FALSE]
    /\ home' = [home EXCEPT ![f] = c]
    /\ movable' = [movable EXCEPT ![f] = mv]
    /\ count' = [count EXCEPT ![c] = @ + 1]
    /\ queue' = [queue EXCEPT ![c] = Append(@, f)]

\* admit_fiber_task: without a stack or a waker the task is dropped.
AdmitHead(c) ==
    /\ TakeHead
    /\ \/ Admit(c, Head(inbox), TRUE)
       \/ UNCHANGED <<fiberVars, count, queue>>
    /\ UNCHANGED <<current, moving, active, native, idle, irq, scan, sig>>

-----------------------------------------------------------------------------
(* The worker loop.                                                        *)

TopFiber(c) ==
    /\ At(c, "top") /\ TakesHead(c) /\ Head(inbox) \in Fibers
    /\ AdmitHead(c)
    /\ UNCHANGED pc

TopNative(c) ==
    /\ At(c, "top") /\ TakesHead(c) /\ Head(inbox) \in Intents
    /\ TakeHead
    /\ active' = [active EXCEPT ![c] = TRUE]
    /\ native' = [native EXCEPT ![c] = TRUE]
    /\ Goto(c, "native")
    /\ UNCHANGED <<fiberVars, queue, count, current, moving, idle, irq, scan, sig>>

TopNothing(c) ==
    /\ At(c, "top") /\ ~TakesHead(c)
    /\ active' = [active EXCEPT ![c] = TRUE]
    /\ Goto(c, "run")
    /\ UNCHANGED <<inbox, starved, fiberVars, queue, count, current, moving, native, idle, irq, scan, sig>>

NativeEnd(c) ==
    /\ At(c, "native")
    /\ active' = [active EXCEPT ![c] = FALSE]
    /\ native' = [native EXCEPT ![c] = FALSE]
    /\ Goto(c, "top")
    /\ UNCHANGED <<inbox, starved, fiberVars, queue, count, current, moving, idle, irq, scan, sig>>

\* pump_peers
Pump(c) ==
    /\ At(c, "native")
    /\ Goto(c, "run")
    /\ UNCHANGED <<inbox, starved, fiberVars, coreVars, idle, irq, scan, sig>>

\* invite_stealer: at most one idle core is woken; the throttle may leave it at none.
Invitable(victim) == {k \in Stealers \ {victim} : idle[k]}

Invite(victim) ==
    UNCHANGED irq \/ \E k \in Invitable(victim) : irq' = [irq EXCEPT ![k] = TRUE]

-----------------------------------------------------------------------------
(* run_core_fibers.                                                        *)

Without(q, i) == [j \in 1 .. Len(q) - 1 |-> IF j < i THEN q[j] ELSE q[j + 1]]

FirstIn(q, i, S) == i \in DOMAIN q /\ q[i] \in S /\ \A j \in 1 .. i - 1 : q[j] \notin S

\* Mutant: pinned fibers are taken too.
StealableAny(f) == Runnable(f)

Stealable(f) == movable[f] /\ Runnable(f)

\* Check out the first runnable fiber, ask for help with the others, switch;
\* a wait that ends takes the bits.
Pick(c) ==
    /\ At(c, "run")
    /\ \E i \in DOMAIN queue[c] :
         LET f == queue[c][i]
         IN  /\ FirstIn(queue[c], i, {g \in Fibers : Runnable(g)})
             /\ current' = [current EXCEPT ![c] = f]
             /\ queue' = [queue EXCEPT ![c] = Without(@, i)]
             /\ bits' = [bits EXCEPT ![f] = @ /\ state[f] = "ready"]
             /\ state' = [state EXCEPT ![f] = "ready"]
    /\ IF \E g \in Range(queue'[c]) : Stealable(g) THEN Invite(c) ELSE UNCHANGED irq
    /\ Goto(c, "fiber")
    /\ UNCHANGED <<inbox, starved, live, home, movable, count, moving, active, native, idle, scan, sig>>

\* wait, with bits already set
WaitReturns(c) ==
    /\ At(c, "fiber") /\ bits[current[c]]
    /\ bits' = [bits EXCEPT ![current[c]] = FALSE]
    /\ UNCHANGED <<inbox, starved, live, state, home, movable, coreVars, idle, irq, pc, scan, sig>>

\* wait, yield_sleep
Park(c) ==
    /\ At(c, "fiber") /\ ~bits[current[c]]
    /\ state' = [state EXCEPT ![current[c]] = "waiting"]
    /\ Goto(c, "requeue")
    /\ UNCHANGED <<inbox, starved, live, bits, home, movable, coreVars, idle, irq, scan, sig>>

\* yield_ready, yield_if_contended
Yield(c) ==
    /\ At(c, "fiber")
    /\ Invite(c)
    /\ Goto(c, "requeue")
    /\ UNCHANGED <<inbox, starved, fiberVars, coreVars, idle, scan, sig>>

\* Mutant: the counter is taken down at the exit and again by the loop.
FinishTwice(c) ==
    /\ At(c, "fiber")
    /\ live' = live \ {current[c]}
    /\ bits' = [bits EXCEPT ![current[c]] = FALSE]
    /\ movable' = [movable EXCEPT ![current[c]] = FALSE]
    /\ home' = [home EXCEPT ![current[c]] = 1]
    /\ current' = [current EXCEPT ![c] = None]
    /\ count' = [count EXCEPT ![c] = @ - 2]
    /\ Goto(c, "between")
    /\ UNCHANGED <<inbox, starved, state, queue, moving, active, native, idle, irq, scan, sig>>

\* fiber_on_exit, free_waker.  What else is in a free slot is forgotten:
\* alloc_waker writes it anew.
Finish(c) ==
    /\ At(c, "fiber")
    /\ live' = live \ {current[c]}
    /\ bits' = [bits EXCEPT ![current[c]] = FALSE]
    /\ movable' = [movable EXCEPT ![current[c]] = FALSE]
    /\ home' = [home EXCEPT ![current[c]] = 1]
    /\ current' = [current EXCEPT ![c] = None]
    /\ count' = [count EXCEPT ![c] = @ - 1]
    /\ Goto(c, "between")
    /\ UNCHANGED <<inbox, starved, state, queue, moving, active, native, idle, irq, scan, sig>>

\* pin_current
Pin(c) ==
    /\ At(c, "fiber") /\ movable[current[c]]
    /\ movable' = [movable EXCEPT ![current[c]] = FALSE]
    /\ UNCHANGED <<inbox, starved, live, state, bits, home, coreVars, idle, irq, pc, scan, sig>>

Requeue(c) ==
    /\ At(c, "requeue")
    /\ queue' = [queue EXCEPT ![c] = Append(@, current[c])]
    /\ current' = [current EXCEPT ![c] = None]
    /\ Goto(c, "between")
    /\ UNCHANGED <<inbox, starved, fiberVars, count, moving, active, native, idle, irq, scan, sig>>

\* admit_between_fibers
Between(c) ==
    /\ At(c, "between")
    /\ IF TakesHead(c) /\ Head(inbox) \in Fibers
         THEN AdmitHead(c)
         ELSE UNCHANGED <<inbox, starved, fiberVars, coreVars, idle, irq, scan, sig>>
    /\ Goto(c, "run")

\* Nothing is runnable: back to the intent, or on to stealing
RunNothing(c) ==
    /\ At(c, "run") /\ \A f \in Range(queue[c]) : ~Runnable(f)
    /\ IF native[c]
         THEN Goto(c, "native") /\ UNCHANGED active
         ELSE Goto(c, "steal") /\ active' = [active EXCEPT ![c] = FALSE]
    /\ UNCHANGED <<inbox, starved, fiberVars, queue, count, current, moving, native, idle, irq, scan, sig>>

-----------------------------------------------------------------------------
(* steal_for.                                                              *)

\* A core busy with another fiber, by the counters
Victim(c, v) == v \in Cores \ {c} /\ count[v] >= 2 /\ active[v]

\* steal_for looks for a victim from scan[c] on; without one the core idles.
Scan(c) ==
    /\ At(c, "steal")
    /\ LET from == {v \in scan[c] .. NumCores : c \in Stealers /\ Victim(c, v)}
       IN  \/ /\ from = {}
              /\ scan' = [scan EXCEPT ![c] = 1]
              /\ Goto(c, "idle")
           \/ \E v \in from : /\ \A w \in from : v <= w
                              /\ scan' = [scan EXCEPT ![c] = v]
                              /\ Goto(c, "lock")
    /\ UNCHANGED <<inbox, starved, fiberVars, coreVars, idle, irq, sig>>

StealTake(c) ==
    /\ At(c, "lock")
    /\ LET v == scan[c]
       IN  \/ /\ \E i \in DOMAIN queue[v] :
                   /\ FirstIn(queue[v], i, {g \in Fibers : Stealable(g)})
                   /\ moving' = [moving EXCEPT ![c] = queue[v][i]]
                   /\ queue' = [queue EXCEPT ![v] = Without(@, i)]
              /\ Goto(c, "move")
              /\ UNCHANGED scan
           \/ /\ \A f \in Range(queue[v]) : ~Stealable(f)
              /\ scan' = [scan EXCEPT ![c] = @ + 1]
              /\ Goto(c, "steal")
              /\ UNCHANGED <<moving, queue>>
    /\ UNCHANGED <<inbox, starved, fiberVars, count, current, active, native, idle, irq, sig>>

\* Mutant: the waker stays behind.
StealMoveNoWaker(c) ==
    /\ At(c, "move")
    /\ count' = [count EXCEPT ![scan[c]] = @ - 1, ![c] = @ + 1]
    /\ Goto(c, "push")
    /\ UNCHANGED <<inbox, starved, fiberVars, queue, current, moving, active,
                   native, idle, irq, scan, sig>>

StealMove(c) ==
    /\ At(c, "move")
    /\ count' = [count EXCEPT ![scan[c]] = @ - 1, ![c] = @ + 1]
    /\ home' = [home EXCEPT ![moving[c]] = c]
    /\ Goto(c, "push")
    /\ UNCHANGED <<inbox, starved, live, state, bits, movable, queue, current, moving, active,
                   native, idle, irq, scan, sig>>

StealPush(c) ==
    /\ At(c, "push")
    /\ queue' = [queue EXCEPT ![c] = Append(@, moving[c])]
    /\ moving' = [moving EXCEPT ![c] = None]
    /\ scan' = [scan EXCEPT ![c] = 1]
    /\ Goto(c, "top")
    /\ UNCHANGED <<inbox, starved, fiberVars, count, current, active, native, idle, irq, sig>>

-----------------------------------------------------------------------------
(* Into the halt and out of it.                                            *)

\* IDLE is published before the last look.
GoIdle(c) ==
    /\ At(c, "idle")
    /\ idle' = [idle EXCEPT ![c] = TRUE]
    /\ Goto(c, "look")
    /\ UNCHANGED <<inbox, starved, fiberVars, coreVars, irq, scan, sig>>

\* Leave the idle path: interrupts are on again, a pending one is taken.
Leave(c) ==
    /\ idle' = [idle EXCEPT ![c] = FALSE]
    /\ irq' = [irq EXCEPT ![c] = FALSE]
    /\ Goto(c, "top")

\* earliest_deadline
Look(c) ==
    /\ At(c, "look")
    /\ IF \E f \in Range(queue[c]) : Runnable(f)
         THEN Leave(c)
         ELSE Goto(c, "inbox") /\ UNCHANGED <<idle, irq>>
    /\ UNCHANGED <<inbox, starved, fiberVars, coreVars, scan, sig>>

\* Mutant: a core that declines the head of the inbox halts without a timer.
LookInboxOnce(c) ==
    /\ At(c, "inbox")
    /\ IF TakesHead(c) THEN Leave(c)
                       ELSE Goto(c, "halt") /\ UNCHANGED <<idle, irq>>
    /\ UNCHANGED <<inbox, starved, fiberVars, coreVars, scan, sig>>

\* head_acceptable; work for another core is looked at again after 10 ms ("nap")
LookInbox(c) ==
    /\ At(c, "inbox")
    /\ IF TakesHead(c)
         THEN Leave(c)
         ELSE Goto(c, IF inbox = <<>> THEN "halt" ELSE "nap") /\ UNCHANGED <<idle, irq>>
    /\ UNCHANGED <<inbox, starved, fiberVars, coreVars, scan, sig>>

\* Mutant: a pending interrupt is taken between sti and hlt, and the core halts.
WakeByTimer(c) ==
    /\ \/ At(c, "nap")
       \/ At(c, "halt") /\ \E f \in Range(queue[c]) : state[f] = "due"
    /\ Leave(c)
    /\ UNCHANGED <<inbox, starved, fiberVars, coreVars, scan, sig>>

\* halt_until ends: an interrupt is pending, a fiber's deadline or the 10 ms passed
Wake(c) ==
    /\ \/ At(c, "nap")
       \/ At(c, "halt") /\ (irq[c] \/ \E f \in Range(queue[c]) : state[f] = "due")
    /\ Leave(c)
    /\ UNCHANGED <<inbox, starved, fiberVars, coreVars, scan, sig>>

\* A deadline passes.
Expire(f) ==
    /\ f \in Timed /\ state[f] = "waiting"
    /\ state' = [state EXCEPT ![f] = "due"]
    /\ UNCHANGED <<inbox, starved, live, bits, home, movable, coreVars, idle, irq, pc, scan, sig>>

\* fiber::signal from an interrupt handler on core c: no IPI to its own core
HandlerSignals(c, f) ==
    /\ f \in live
    /\ bits' = [bits EXCEPT ![f] = TRUE]
    /\ LET ended == {k \in {c} : pc[k] \in {"halt", "nap"}}
           told  == {k \in {home[f]} \ {c} : idle[k]}
       IN  irq' = [k \in Cores |-> irq[k] \/ k \in ended \cup told]
    /\ UNCHANGED <<inbox, starved, live, state, home, movable, coreVars, idle, pc, scan, sig>>

\* Mutant: interrupts stay on between the last look and the halt.
DeviceIrqAnywhere(c, f) == HandlerSignals(c, f)

\* A device interrupt is taken; it ends a halt.  On the way into the halt
\* interrupts are off, so it stays pending until the core halts or turns back.
DeviceIrq(c, f) == pc[c] \notin {"look", "inbox"} /\ HandlerSignals(c, f)

-----------------------------------------------------------------------------
(* Signals, spawns and direct placement from elsewhere.                    *)

Rest == [at |-> "rest", fiber |-> None, core |-> 1]

Step(s, l, f, c) == sig' = [sig EXCEPT ![s] = [at |-> l, fiber |-> f, core |-> c]]

\* signal: the slot is in use, its bits are set,
Signal(s) ==
    /\ sig[s].at = "rest"
    /\ \E f \in live : bits' = [bits EXCEPT ![f] = TRUE] /\ Step(s, "core", f, 1)
    /\ UNCHANGED <<inbox, starved, live, state, home, movable, coreVars, idle, irq, pc, scan>>

\* its core is read,
ReadCore(s) ==
    /\ sig[s].at = "core"
    /\ Step(s, "wake", sig[s].fiber, home[sig[s].fiber])
    /\ UNCHANGED <<inbox, starved, fiberVars, coreVars, idle, irq, pc, scan>>

\* wake_fiber_core, and a thief is invited if the fiber's core is busy.
WakeFiberCore(s) ==
    LET c == sig[s].core
        woken == [irq EXCEPT ![c] = @ \/ idle[c]]
    IN  /\ sig[s].at = "wake"
        /\ \/ irq' = woken
           \/ /\ movable[sig[s].fiber] /\ active[c]
              /\ \E k \in Invitable(c) : irq' = [woken EXCEPT ![k] = TRUE]
        /\ sig' = [sig EXCEPT ![s] = Rest]
        /\ UNCHANGED <<inbox, starved, fiberVars, coreVars, idle, pc, scan>>

\* admit of a fiber placed directly; the wake follows
Place(s) ==
    /\ sig[s].at = "rest"
    /\ \E f \in Placed \ live, c \in Cores : Admit(c, f, FALSE) /\ Step(s, "wake", f, c)
    /\ UNCHANGED <<inbox, starved, current, moving, active, native, idle, irq, pc, scan>>

\* spawn, spawn_fiber: push, then
Spawn(s) ==
    /\ sig[s].at = "rest"
    /\ \E t \in ((Fibers \ Placed) \ live) \cup Intents :
         t \notin Range(inbox) /\ inbox' = Append(inbox, t)
    /\ Step(s, "wakeAll", None, 1)
    /\ UNCHANGED <<starved, fiberVars, coreVars, idle, irq, pc, scan>>

\* wake_idle_workers, core by core.
WakeIdle(s) ==
    LET c == sig[s].core
    IN  /\ sig[s].at = "wakeAll"
        /\ irq' = [irq EXCEPT ![c] = @ \/ idle[c]]
        /\ IF c < NumCores THEN Step(s, "wakeAll", None, c + 1)
                           ELSE sig' = [sig EXCEPT ![s] = Rest]
        /\ UNCHANGED <<inbox, starved, fiberVars, coreVars, idle, pc, scan>>

-----------------------------------------------------------------------------
Init ==
    /\ inbox = <<>> /\ starved = FALSE
    /\ live = {}
    /\ state = [f \in Fibers |-> "ready"]
    /\ bits = [f \in Fibers |-> FALSE]
    /\ home = [f \in Fibers |-> 1]
    /\ movable = [f \in Fibers |-> FALSE]
    /\ queue = [c \in Cores |-> <<>>]
    /\ count = [c \in Cores |-> 0]
    /\ current = [c \in Cores |-> None]
    /\ moving = [c \in Cores |-> None]
    /\ active = [c \in Cores |-> FALSE]
    /\ native = [c \in Cores |-> FALSE]
    /\ idle = [c \in Cores |-> FALSE]
    /\ irq = [c \in Cores |-> FALSE]
    /\ pc = [c \in Cores |-> "top"]
    /\ scan = [c \in Cores |-> 1]
    /\ sig = [s \in Signallers |-> Rest]

\* The running fiber gives its core back.
GiveBack(c) == Park(c) \/ Yield(c) \/ Finish(c)

Loop(c) ==
    \/ TopFiber(c) \/ TopNative(c) \/ TopNothing(c) \/ NativeEnd(c)
    \/ Pick(c) \/ Requeue(c) \/ Between(c) \/ RunNothing(c)
    \/ Scan(c) \/ StealTake(c) \/ StealMove(c) \/ StealPush(c)
    \/ GoIdle(c) \/ Look(c) \/ LookInbox(c) \/ Wake(c)

Finishing(s) ==
    ReadCore(s) \/ WakeFiberCore(s) \/ WakeIdle(s)

Next ==
    \/ \E c \in Cores : Loop(c) \/ GiveBack(c) \/ WaitReturns(c) \/ Pin(c) \/ Pump(c)
    \/ \E c \in Devices, f \in Fibers : DeviceIrq(c, f)
    \/ \E f \in Fibers : Expire(f)
    \/ \E s \in Signallers : Finishing(s) \/ Signal(s) \/ Place(s) \/ Spawn(s)
    \/ Starve

Spec == Init /\ [][Next]_vars
-----------------------------------------------------------------------------
(* Properties.                                                             *)

\* The variables have their types.
TypeOK ==
    /\ inbox \in Seq(Fibers \cup Intents) /\ starved \in BOOLEAN
    /\ live \subseteq Fibers
    /\ state \in [Fibers -> States]
    /\ bits \in [Fibers -> BOOLEAN] /\ movable \in [Fibers -> BOOLEAN]
    /\ home \in [Fibers -> Cores]
    /\ queue \in [Cores -> Seq(Fibers)]
    /\ count \in [Cores -> Nat]
    /\ current \in [Cores -> Fibers \cup {None}] /\ moving \in [Cores -> Fibers \cup {None}]
    /\ active \in [Cores -> BOOLEAN] /\ native \in [Cores -> BOOLEAN]
    /\ idle \in [Cores -> BOOLEAN] /\ irq \in [Cores -> BOOLEAN]
    /\ scan \in [Cores -> 1 .. NumCores + 1]
    /\ \A s \in Signallers : sig[s].fiber \in Fibers \cup {None} /\ sig[s].core \in Cores

\* The queue of one core, the fiber it runs and the fiber a thief carries away
\* never hold the same fiber twice, and no live fiber is in none of them:
\* Requeue, steal_for and admit_inner hand each fiber on exactly once.
OnePlace ==
    /\ \A c \in Cores : IsInjective(queue[c])
    /\ \A f \in Fibers :
         LET at == {<<"queue", c>> : c \in {d \in Cores : f \in Range(queue[d])}}
                   \cup {<<"current", c>> : c \in {d \in Cores : current[d] = f}}
                   \cup {<<"moving", c>> : c \in {d \in Cores : moving[d] = f}}
         IN  IF f \in live THEN \E p \in at : at = {p} ELSE at = {}

\* FIBER_COUNT, by which placement and stealing go, is the number of fibers a
\* core holds, the one a thief still has to account for included.
CountsResidents ==
    \A c \in Cores :
      count[c] = Len(queue[c])
                 + Cardinality({c} \cap {d \in Cores : current[d] # None})
                 + Cardinality({k \in Cores : \/ pc[k] = "move" /\ scan[k] = c
                                              \/ pc[k] = "push" /\ k = c})

\* A signal reaches the core that can run the fiber: the waker names the core
\* whose queue holds it, also while fibers are taken over (steal_for).
WakerFollows ==
    \A f \in live, c \in Cores : (f \in Range(queue[c]) \/ current[c] = f) => home[f] = c

\* Queues, counters and wakers tell the same of every fiber, also in the middle
\* of a steal (steal_for moves the fiber, its counter and its waker in three
\* steps under two locks).
FibersAccounted == OnePlace /\ CountsResidents /\ WakerFollows

\* A core halted without a timer has nothing to run, unless an interrupt is
\* pending there or the one who made the fiber runnable has yet to look at
\* IDLE (wake_core: "either it sees the work or we see IDLE").
NoLostWakeup ==
    \A c \in Cores, f \in Fibers :
      (/\ At(c, "halt") /\ ~irq[c]
       /\ f \in Range(queue[c]) /\ Runnable(f) /\ state[f] # "due") =>
        \E s \in Signallers : /\ sig[s].fiber = f
                              /\ sig[s].at = "core" \/ (sig[s].at = "wake" /\ sig[s].core = c)

\* The same for the inbox: no core halts without a timer on a task, unless the
\* spawner has yet to come by (spawn_inner, wake_idle_workers).
NoStrandedTask ==
    \A c \in Cores :
      (At(c, "halt") /\ ~irq[c] /\ inbox # <<>>) =>
        \E s \in Signallers : sig[s].at = "wakeAll" /\ sig[s].core <= c

\* A fiber that tied itself to its core (pin_current) or was placed there is
\* never moved.
PinnedStays ==
    [][\A f \in live \cap live' : ~movable[f] => home'[f] = home[f] /\ ~movable'[f]]_vars

\* A fiber that waits and is signalled is resumed, on whichever core, however
\* signals, steals, yields and halts interleave, once no new tasks arrive (a
\* core admits apps and runs intents ahead of its fibers).
SignalledRuns ==
    <>[](inbox = <<>>) =>
      \A f \in Fibers :
        (f \in live /\ state[f] = "waiting" /\ bits[f]) ~> (\E c \in Cores : current[c] = f)

\* An app at the head of the inbox is taken, whatever the cores do meanwhile:
\* a core that never runs out of fibers looks between two of them
\* (admit_between_fibers), the others look again every 10 ms.
AppTaken ==
    \A f \in Fibers \ Placed : (inbox # <<>> /\ Head(inbox) = f) ~> (f \notin Range(inbox))
=============================================================================
