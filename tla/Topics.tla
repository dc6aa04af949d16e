------------------------------- MODULE Topics -------------------------------
(***************************************************************************)
(* Topics that modules watch (kernel/src/notify.rs), the status items that *)
(* modules publish (status.rs), and the fibers that do it: a publisher     *)
(* sets its item and notifies; a panel reads the list and then waits in    *)
(* npk_wait (wasm/host_core.rs) for the topic to change.                   *)
(*                                                                         *)
(* A step is one lock section of SUBS, one access to a waker's signals, or *)
(* the taking or the giving back of the ITEMS lock, which forget only      *)
(* tries.  One topic and one item per publisher; the kernel's own items,   *)
(* which are computed when the list is read, are left out.  A waker slot   *)
(* is free for another fiber once its fiber has ended.                     *)
(***************************************************************************)
EXTENDS Integers, FiniteSets

CONSTANTS
    Publishers, Panels, \* fibers by what they do
    NumSlots,           \* waker slots
    Values,             \* what an item shows
    MAX_ITEMS,
    Nobody

Tasks == Publishers \union Panels
Slots == 1 .. NumSlots

ASSUME TopicsAssumption ==
    Publishers \intersect Panels = {} /\ Nobody \notin Tasks \union Slots /\ NumSlots \in Nat

VARIABLES
    subs, pend,     \* SUBS: watching slots, and those with a topic pending
    items,          \* ITEMS: per owner [val, waker] or NoItem
    lock,           \* holder of the ITEMS lock
    waker,          \* per fiber its slot, or Nobody
    raised,         \* slots with SIG_STATE set
    place,          \* per fiber where it is
    woken,          \* per fiber the slots its notify has yet to signal
    shown,          \* per panel what it read last
    fresh,          \* history: panels that have read since they subscribed
    kept            \* history: owners whose forget found the lock taken

topVars == <<subs, pend, items, lock, waker, raised, place, woken, shown, fresh, kept>>

NoItem == [val |-> Nobody, waker |-> Nobody]

Shows == [o \in Publishers |-> items[o].val]

TopInit ==
    /\ subs = {} /\ pend = {} /\ items = [o \in Publishers |-> NoItem] /\ lock = Nobody
    /\ waker = [f \in Tasks |-> Nobody] /\ raised = {} /\ place = [f \in Tasks |-> "off"]
    /\ woken = [f \in Tasks |-> {}] /\ shown = [p \in Panels |-> Shows] /\ fresh = {} /\ kept = {}

Is(f, l)  == place[f] = l
To(f, l)  == place' = [place EXCEPT ![f] = l]
Used      == {waker[f] : f \in Tasks} \ {Nobody}

Ending(f) == place[f] \in {"end", "forget", "lastMark", "lastTell", "free"}

\* alloc_waker: the first slot that is not used, its signals cleared
Start(f) ==
    /\ Is(f, "off")
    /\ \E s \in Slots \ Used :
         /\ \A t \in Slots \ Used : s <= t
         /\ waker' = [waker EXCEPT ![f] = s] /\ raised' = raised \ {s}
    /\ To(f, "run") /\ fresh' = fresh \ {f}
    /\ UNCHANGED <<subs, pend, items, lock, woken, shown, kept>>

\* The ITEMS lock, for what the fiber is about to do under it
TakeLock(f, l) ==
    /\ Is(f, "run") /\ lock = Nobody /\ lock' = f /\ To(f, l)
    /\ UNCHANGED <<subs, pend, items, waker, raised, woken, shown, fresh, kept>>

\* status::set, up to the release of the lock
SetItem(o, v) ==
    LET full == items[o] = NoItem /\ Cardinality({q \in Publishers : items[q] # NoItem}) >= MAX_ITEMS
    IN  /\ Is(o, "set") /\ lock' = Nobody
        /\ \/ full /\ To(o, "run") /\ UNCHANGED <<items, kept>>
           \/ /\ ~full /\ items' = [items EXCEPT ![o] = [val |-> v, waker |-> waker[o]]]
              /\ kept' = kept \ {o} /\ To(o, "mark")
        /\ UNCHANGED <<subs, pend, waker, raised, woken, shown, fresh>>

\* status::clear
ClearItem(o) ==
    /\ Is(o, "clear") /\ lock' = Nobody
    /\ items' = [items EXCEPT ![o] = NoItem] /\ kept' = kept \ {o}
    /\ To(o, IF items[o] = NoItem THEN "run" ELSE "mark")
    /\ UNCHANGED <<subs, pend, waker, raised, woken, shown, fresh>>

\* Where the fiber goes on after notify: an ending one has lost its slot's
\* subscription and items, and frees the slot
After(f) == IF Is(f, "mark") \/ Is(f, "tell") THEN "run" ELSE "free"

\* notify, under the SUBS lock: every watcher has the topic pending
Mark(f) ==
    /\ place[f] \in {"mark", "lastMark"}
    /\ pend' = subs /\ woken' = [woken EXCEPT ![f] = subs]
    /\ To(f, IF Is(f, "mark") THEN "tell" ELSE "lastTell")
    /\ UNCHANGED <<subs, items, lock, waker, raised, shown, fresh, kept>>

\* notify, after it: fiber::signal to one watcher after the other, which may
\* have ended by then and its slot be free or another fiber's
Tell(f) ==
    /\ place[f] \in {"tell", "lastTell"}
    /\ \/ woken[f] = {} /\ To(f, After(f)) /\ UNCHANGED <<woken, raised>>
       \/ \E s \in woken[f] : /\ woken' = [woken EXCEPT ![f] = @ \ {s}]
                              /\ raised' = raised \union ({s} \intersect Used)
                              /\ UNCHANGED place
    /\ UNCHANGED <<subs, pend, items, lock, waker, shown, fresh, kept>>

\* status::serialize for a panel, which draws what it read
ReadItems(p) ==
    /\ Is(p, "read") /\ lock' = Nobody
    /\ shown' = [shown EXCEPT ![p] = Shows]
    /\ fresh' = IF waker[p] \in subs THEN fresh \union {p} ELSE fresh
    /\ To(p, "wait")
    /\ UNCHANGED <<subs, pend, items, waker, raised, woken, kept>>

\* Mutant: a subscription that is there is made anew
SubscribeAnew(p) ==
    /\ Is(p, "wait") /\ subs' = subs \union {waker[p]} /\ pend' = pend \ {waker[p]} /\ To(p, "take")
    /\ UNCHANGED <<items, lock, waker, raised, woken, shown, fresh, kept>>

\* npk_wait: notify::subscribe; a new subscription has nothing pending
Subscribe(p) ==
    /\ Is(p, "wait") /\ subs' = subs \union {waker[p]} /\ To(p, "take")
    /\ UNCHANGED <<pend, items, lock, waker, raised, woken, shown, fresh, kept>>

\* wait_ready with notify::take; "late" is the look after the deadline
Take(p) ==
    /\ place[p] \in {"take", "late"}
    /\ pend' = pend \ {waker[p]}
    /\ To(p, IF waker[p] \in pend \/ Is(p, "late") THEN "run" ELSE "park")
    /\ UNCHANGED <<subs, items, lock, waker, raised, woken, shown, fresh, kept>>

\* fiber::wait returns: the signal is there and taken, or time is up
Resume(p) ==
    /\ Is(p, "park")
    /\ \/ waker[p] \in raised /\ raised' = raised \ {waker[p]} /\ To(p, "take")
       \/ raised' = raised \ {waker[p]} /\ To(p, "late")
    /\ UNCHANGED <<subs, pend, items, lock, waker, woken, shown, fresh, kept>>

\* free_waker, from run_core_fibers: notify::forget
End(f) ==
    /\ Is(f, "run") /\ To(f, "end")
    /\ subs' = subs \ {waker[f]} /\ pend' = pend \ {waker[f]}
    /\ UNCHANGED <<items, lock, waker, raised, woken, shown, fresh, kept>>

\* status::forget tries the lock, and gives up when it is taken
TryLock(f) ==
    /\ Is(f, "end")
    /\ \/ lock = Nobody /\ lock' = f /\ To(f, "forget") /\ UNCHANGED kept
       \/ lock # Nobody /\ UNCHANGED lock /\ To(f, "free")
          /\ kept' = kept \union {o \in Publishers : items[o].waker = waker[f]}
    /\ UNCHANGED <<subs, pend, items, waker, raised, woken, shown, fresh>>

\* Mutant: forget removes nothing
ForgetNone(f) ==
    /\ Is(f, "forget") /\ lock' = Nobody /\ To(f, "free")
    /\ UNCHANGED <<subs, pend, items, waker, raised, woken, shown, fresh, kept>>

\* status::forget with the lock: the items of this slot go
Forget(f) ==
    LET gone == {o \in Publishers : items[o].waker = waker[f]}
    IN  /\ Is(f, "forget") /\ lock' = Nobody
        /\ items' = [o \in Publishers |-> IF o \in gone THEN NoItem ELSE items[o]]
        /\ kept' = kept \ gone
        /\ To(f, IF gone = {} THEN "free" ELSE "lastMark")
        /\ UNCHANGED <<subs, pend, waker, raised, woken, shown, fresh>>

\* free_waker: the slot
Free(f) ==
    /\ Is(f, "free") /\ To(f, "off")
    /\ raised' = raised \ {waker[f]} /\ waker' = [waker EXCEPT ![f] = Nobody]
    /\ UNCHANGED <<subs, pend, items, lock, woken, shown, fresh, kept>>

TopNext ==
    \/ \E f \in Tasks : Start(f) \/ Mark(f) \/ Tell(f) \/ End(f) \/ TryLock(f) \/ Forget(f) \/ Free(f)
    \/ \E o \in Publishers : \/ TakeLock(o, "set") \/ TakeLock(o, "clear") \/ ClearItem(o)
                             \/ \E v \in Values : SetItem(o, v)
    \/ \E p \in Panels : TakeLock(p, "read") \/ ReadItems(p) \/ Subscribe(p) \/ Take(p) \/ Resume(p)

TopSpec == TopInit /\ [][TopNext]_topVars

-----------------------------------------------------------------------------
(* Properties.                                                             *)

\* Types; a live fiber has a slot of its own
TopTypeOK ==
    /\ pend \subseteq subs /\ subs \subseteq Slots /\ raised \subseteq Slots
    /\ lock \in Tasks \union {Nobody}
    /\ \A o \in Publishers : items[o] = NoItem \/ items[o] \in [val : Values, waker : Slots]
    /\ \A f, g \in Tasks : f # g /\ waker[f] # Nobody /\ ~Ending(f) /\ ~Ending(g) => waker[f] # waker[g]
    /\ \A f \in Tasks : woken[f] \subseteq Slots

\* A panel that waits shows what the list holds, or is signalled, or a notify
\* that has still to reach it is under way, once it has read the list after it
\* subscribed: no change falls between its look and its wait (npk_wait:
\* subscribe, take, wait; notify: mark, then signal)
PanelCurrent ==
    \A p \in Panels : Is(p, "park") /\ p \in fresh /\ waker[p] \notin raised =>
        \/ shown[p] = Shows
        \/ \E f \in Tasks : \/ place[f] \in {"mark", "lastMark"}
                            \/ waker[p] \in woken[f]

\* An item belongs to a fiber that lives and set it; the exception is the item
\* of a fiber whose end found the list locked ("its items go when it ends",
\* status.rs:37)
ItemsHaveFibers ==
    \A o \in Publishers : items[o] # NoItem /\ o \notin kept => items[o].waker = waker[o]

\* A subscription ends with its fiber: the next fiber in the slot starts with
\* no topics of its predecessor's
SubscriberLives == \A s \in subs : \E p \in Panels : waker[p] = s /\ ~Ending(p)

\* Nothing of a fiber outlives it in the tables that are kept per waker slot,
\* although slots are used again: neither its topics nor its items
EndsWithFiber == SubscriberLives /\ ItemsHaveFibers
=============================================================================
