---------------------------- MODULE TopicsProofs ----------------------------
(***************************************************************************)
(* Topics and status items for every number of fibers, waker slots and     *)
(* values: a panel that waits shows the list or is about to be woken, and  *)
(* nothing of a fiber stays in the tables kept per waker slot.             *)
(***************************************************************************)
EXTENDS Topics, TLAPS

Places == {"off", "run", "set", "clear", "mark", "tell", "read", "wait", "take", "park", "late",
           "end", "forget", "lastMark", "lastTell", "free"}

\* The types in full
Typed ==
    /\ subs \subseteq Slots /\ pend \subseteq subs /\ raised \subseteq Slots
    /\ items \in [Publishers -> [val : Values, waker : Slots] \union {NoItem}]
    /\ lock \in Tasks \union {Nobody}
    /\ waker \in [Tasks -> Slots \union {Nobody}]
    /\ place \in [Tasks -> Places]
    /\ woken \in [Tasks -> SUBSET Slots]
    /\ shown \in [Panels -> [Publishers -> Values \union {Nobody}]]
    /\ fresh \subseteq Panels /\ kept \subseteq Publishers

\* A fiber that is not off has a slot, which is its own
OwnSlots ==
    /\ \A f \in Tasks : waker[f] = Nobody <=> Is(f, "off")
    /\ \A f, g \in Tasks : f # g /\ waker[f] # Nobody => waker[f] # waker[g]

Runs(f) == ~Ending(f) /\ ~Is(f, "off")

\* A slot that watches is the slot of a panel that runs, and a panel that has
\* read since it subscribed watches until it ends
Watchers ==
    /\ \A s \in subs : \E p \in Panels : waker[p] = s /\ Runs(p)
    /\ \A p \in Panels : p \in fresh /\ Runs(p) => waker[p] \in subs

\* Behind the point where a fiber's end looked for its items it has none left,
\* but those that it found locked
Cleared ==
    \A o \in Publishers : place[o] \in {"lastMark", "lastTell", "free", "off"} => items[o] = NoItem \/ o \in kept

\* A change has been made and not yet been announced
Marking == \E f \in Tasks : place[f] \in {"mark", "lastMark"}

\* The signal of a change is on its way to the fiber in slot s, or there
Signalled(s) == s \in raised \/ \E f \in Tasks : s \in woken[f]

\* A panel between its reading and its next look
Waiting(p) == p \in fresh /\ place[p] \in {"wait", "take", "park"}

\* has the list as it is, or a change is still to be announced, or the topic
\* is pending, and if it has looked already it will be woken
Told(p) ==
    \/ shown[p] = Shows
    \/ Marking
    \/ waker[p] \in pend /\ (Is(p, "park") => Signalled(waker[p]))

Informed == \A p \in Panels : Waiting(p) => Told(p)

TopInv == Typed /\ OwnSlots /\ Watchers /\ Cleared /\ ItemsHaveFibers /\ Informed

-----------------------------------------------------------------------------
LEMMA TopInitInv == TopInit => TopInv
<1> SUFFICES ASSUME TopInit PROVE TopInv
  BY Zenon
<1>1. Typed
  <2>1. shown \in [Panels -> [Publishers -> Values \union {Nobody}]]
    BY Zenon DEF TopInit, NoItem, Shows
  <2>2. items \in [Publishers -> [val : Values, waker : Slots] \union {NoItem}]
    BY Zenon DEF TopInit
  <2> QED BY <2>1, <2>2, Zenon DEF TopInit, Typed, Places
<1>2. OwnSlots /\ Watchers /\ Cleared /\ ItemsHaveFibers /\ Informed
  BY Zenon DEF TopInit, OwnSlots, Watchers, Cleared, ItemsHaveFibers, Informed, Waiting, Is
<1> QED BY <1>1, <1>2, Zenon DEF TopInv

-----------------------------------------------------------------------------
LEMMA StartInv == ASSUME TopInv, NEW f \in Tasks, Start(f) PROVE TopInv'
<1> USE DEF TopInv, Is
<1>1. PICK s \in Slots \ Used : waker' = [waker EXCEPT ![f] = s] /\ raised' = raised \ {s}
  BY Zenon DEF Start
<1>2. place'[f] = "run" /\ (\A g \in Tasks : g # f => place'[g] = place[g]) /\ place' \in [Tasks -> Places]
  BY Zenon DEF Start, Typed, To, Places
<1>3. waker'[f] = s /\ (\A g \in Tasks : g # f => waker'[g] = waker[g]) /\ s # Nobody /\ waker[f] = Nobody
  BY <1>1, TopicsAssumption, Zenon DEF Start, Typed, OwnSlots
<1>4. \A g \in Tasks : waker[g] # s
  BY <1>1, <1>3, Zenon DEF Used
<1>5. Typed'
  BY <1>1, <1>2, <1>3, Zenon DEF Start, Typed
<1>6. OwnSlots'
  BY <1>2, <1>3, <1>4 DEF OwnSlots
<1>7. Watchers'
  BY <1>2, <1>3 DEF Start, Watchers, Runs, Ending, Tasks, OwnSlots
<1>8. Cleared'
  BY <1>2, Zenon DEF Start, Cleared, Tasks
<1>9. ItemsHaveFibers'
  BY <1>2, <1>3, Zenon DEF Start, Cleared, ItemsHaveFibers, Tasks
<1>10. Informed'
  <2> SUFFICES ASSUME NEW p \in Panels, Waiting(p)' PROVE Told(p)'
    BY Zenon DEF Informed
  <2>1. p # f /\ p \in Tasks
    BY <1>2, Zenon DEF Tasks, Waiting
  <2>2. waker'[p] = waker[p] /\ place'[p] = place[p] /\ Waiting(p)
    BY <2>1, <1>2, <1>3, Zenon DEF Start, Waiting
  <2>3. Marking => Marking'
    BY <1>2, Zenon DEF Marking, Start
  <2>4. Signalled(waker[p]) => Signalled(waker[p])'
    BY <2>1, <2>2, <1>1, <1>4, Zenon DEF Signalled, Start
  <2> QED BY <2>2, <2>3, <2>4, Zenon DEF Informed, Told, Start, Shows
<1> QED BY <1>5, <1>6, <1>7, <1>8, <1>9, <1>10, Zenon

\* TakeLock, status::set, clear and notify::subscribe leave slots and signals
LEMMA TakeLockInv ==
    ASSUME TopInv, NEW f \in Tasks, NEW l \in {"set", "clear", "read"}, TakeLock(f, l)
    PROVE  TopInv'
<1> USE DEF TopInv, Is
<1>1. place'[f] = l /\ (\A g \in Tasks : g # f => place'[g] = place[g]) /\ place' \in [Tasks -> Places]
  BY Zenon DEF TakeLock, Typed, To, Places
<1>2. Typed' /\ OwnSlots'
  BY <1>1, Zenon DEF TakeLock, Typed, OwnSlots
<1>3. Watchers' /\ Cleared' /\ ItemsHaveFibers'
  BY <1>1 DEF TakeLock, Watchers, Runs, Ending, Tasks, Cleared, ItemsHaveFibers
<1>4. Informed'
  BY <1>1, Zenon DEF TakeLock, Tasks, Informed, Waiting, Told, Marking, Signalled, Shows
<1> QED BY <1>2, <1>3, <1>4, Zenon

LEMMA SetItemInv ==
    ASSUME TopInv, NEW o \in Publishers, NEW v \in Values, SetItem(o, v)
    PROVE  TopInv'
<1> USE DEF TopInv, Is
<1>1. CASE UNCHANGED <<items, kept>> /\ To(o, "run")
  <2>1. place'[o] = "run" /\ (\A g \in Tasks : g # o => place'[g] = place[g]) /\ place' \in [Tasks -> Places]
    BY <1>1, Zenon DEF Typed, To, Places, Tasks
  <2>2. Typed' /\ OwnSlots'
    BY <1>1, <2>1, Zenon DEF SetItem, Typed, OwnSlots
  <2>3. Watchers' /\ Cleared' /\ ItemsHaveFibers'
    BY <1>1, <2>1 DEF SetItem, Watchers, Runs, Ending, Tasks, Cleared, ItemsHaveFibers
  <2>4. Informed'
    BY <1>1, <2>1, ZenonT(40) DEF SetItem, Tasks, Informed, Waiting, Told, Marking, Signalled, Shows
  <2> QED BY <2>2, <2>3, <2>4, Zenon
<1>2. CASE /\ items' = [items EXCEPT ![o] = [val |-> v, waker |-> waker[o]]]
           /\ kept' = kept \ {o} /\ To(o, "mark")
  <2>1. place'[o] = "mark" /\ (\A g \in Tasks : g # o => place'[g] = place[g]) /\ place' \in [Tasks -> Places]
    BY <1>2, Zenon DEF Typed, To, Places, Tasks
  <2>2. o \in Tasks /\ waker[o] \in Slots
    BY Zenon DEF SetItem, Typed, OwnSlots, Tasks
  <2>3. Typed' /\ OwnSlots'
    BY <1>2, <2>1, <2>2, Zenon DEF SetItem, Typed, OwnSlots
  <2>4. Watchers'
    BY <1>2, <2>1, <2>2 DEF SetItem, Watchers, Runs, Ending, Tasks
  <2>6. Cleared' /\ ItemsHaveFibers'
    <3>1. items'[o].waker = waker[o] /\ \A q \in Publishers : q # o => items'[q] = items[q]
      BY <1>2, Zenon DEF Typed
    <3> QED BY <1>2, <2>1, <3>1, Zenon DEF SetItem, Tasks, Cleared, ItemsHaveFibers
  <2>5. Informed'
    BY <2>1, <2>2, TopicsAssumption, Zenon DEF SetItem, Tasks, Informed, Waiting, Told, Marking
  <2> QED BY <2>3, <2>4, <2>5, <2>6, Zenon
<1> QED BY <1>1, <1>2, Zenon DEF SetItem

LEMMA ClearItemInv == ASSUME TopInv, NEW o \in Publishers, ClearItem(o) PROVE TopInv'
<1> USE DEF TopInv, Is
<1>1. /\ place'[o] \in {"run", "mark"} /\ (items[o] # NoItem => place'[o] = "mark")
      /\ (\A g \in Tasks : g # o => place'[g] = place[g]) /\ place' \in [Tasks -> Places]
  BY Zenon DEF ClearItem, Typed, To, Places, Tasks
<1>2. Typed' /\ OwnSlots'
  BY <1>1, Zenon DEF ClearItem, Typed, OwnSlots, Tasks
<1>6. items'[o] = NoItem /\ \A q \in Publishers : q # o => items'[q] = items[q]
  BY Zenon DEF ClearItem, Typed
<1>3. Watchers' /\ Cleared' /\ ItemsHaveFibers'
  <2>1. Watchers'
    BY <1>1 DEF ClearItem, Watchers, Runs, Ending, Tasks
  <2>2. Cleared' /\ ItemsHaveFibers'
    BY <1>1, <1>6, Zenon DEF ClearItem, Tasks, Cleared, ItemsHaveFibers
  <2> QED BY <2>1, <2>2, Zenon
<1>4. CASE items[o] # NoItem
  <2>1. Informed'
    BY <1>1, <1>4, TopicsAssumption, Zenon DEF ClearItem, Tasks, Informed, Waiting, Told, Marking
  <2> QED BY <1>2, <1>3, <2>1, Zenon
<1>5. CASE items[o] = NoItem
  <2>1. items' = items
    BY <1>5, Zenon DEF ClearItem, Typed
  <2>2. Informed'
    BY <1>1, <2>1, TopicsAssumption, ZenonT(40) DEF ClearItem, Tasks, Informed, Waiting, Told, Marking, Signalled, Shows
  <2> QED BY <1>2, <1>3, <2>2, Zenon
<1> QED BY <1>4, <1>5, Zenon

\* notify marks every watcher before it signals
LEMMA MarkInv == ASSUME TopInv, NEW f \in Tasks, Mark(f) PROVE TopInv'
<1> USE DEF TopInv, Is
<1>1. /\ place'[f] = (IF place[f] = "mark" THEN "tell" ELSE "lastTell")
      /\ (\A g \in Tasks : g # f => place'[g] = place[g]) /\ place' \in [Tasks -> Places]
  BY Zenon DEF Mark, Typed, To, Places
<1>2. Typed' /\ OwnSlots'
  BY <1>1, Zenon DEF Mark, Typed, OwnSlots
<1>3. Watchers' /\ Cleared' /\ ItemsHaveFibers'
  BY <1>1 DEF Mark, Watchers, Runs, Ending, Tasks, Cleared, ItemsHaveFibers
<1>4. Informed'
  BY <1>1, Zenon DEF Mark, Typed, Tasks, Informed, Waiting, Told, Signalled, Watchers, Runs, Ending
<1> QED BY <1>2, <1>3, <1>4, Zenon

LEMMA TellInv == ASSUME TopInv, NEW f \in Tasks, Tell(f) PROVE TopInv'
<1> USE DEF TopInv, Is
<1>1. CASE woken[f] = {} /\ To(f, After(f)) /\ UNCHANGED <<woken, raised>>
  <2>1. /\ place[f] \in {"tell", "lastTell"} /\ place'[f] = (IF place[f] = "tell" THEN "run" ELSE "free")
        /\ (\A g \in Tasks : g # f => place'[g] = place[g]) /\ place' \in [Tasks -> Places]
    BY <1>1, Zenon DEF Tell, Typed, To, After, Places
  <2>2. Typed' /\ OwnSlots'
    BY <1>1, <2>1, Zenon DEF Tell, Typed, OwnSlots
  <2>3. Watchers' /\ Cleared' /\ ItemsHaveFibers'
    BY <1>1, <2>1 DEF Tell, Watchers, Runs, Ending, Tasks, Cleared, ItemsHaveFibers
  <2>4. Informed'
    BY <1>1, <2>1, ZenonT(40) DEF Tell, Tasks, Informed, Waiting, Told, Marking, Signalled, Shows
  <2> QED BY <2>2, <2>3, <2>4, Zenon
<1>2. ASSUME NEW s \in woken[f], woken' = [woken EXCEPT ![f] = @ \ {s}],
             raised' = raised \union ({s} \intersect Used), UNCHANGED place
      PROVE  TopInv'
  <2>1. /\ woken'[f] = woken[f] \ {s} /\ (\A g \in Tasks : g # f => woken'[g] = woken[g])
        /\ woken' \in [Tasks -> SUBSET Slots] /\ raised' \subseteq Slots
    BY <1>2, Zenon DEF Typed, Used
  <2>2. Typed' /\ OwnSlots'
    BY <1>2, <2>1, Zenon DEF Tell, Typed, OwnSlots
  <2>3. Watchers' /\ Cleared' /\ ItemsHaveFibers'
    BY <1>2 DEF Tell, Watchers, Runs, Ending, Cleared, ItemsHaveFibers
  <2>4. Informed'
    <3> SUFFICES ASSUME NEW p \in Panels, Waiting(p)' PROVE Told(p)'
      BY Zenon DEF Informed
    <3>1. Waiting(p) /\ Told(p) /\ p \in Tasks
      BY <1>2, Zenon DEF Tell, Waiting, Informed, Tasks
    <3>2. waker[p] \in Used
      BY <3>1, Zenon DEF Waiting, OwnSlots, Used
    <3>3. Signalled(waker[p]) => Signalled(waker[p])'
      BY <1>2, <2>1, <3>2, Zenon DEF Signalled, Tell
    <3> QED BY <1>2, <3>1, <3>3, Zenon DEF Tell, Told, Marking, Shows
  <2> QED BY <2>2, <2>3, <2>4, Zenon
<1> QED BY <1>1, <1>2, Zenon DEF Tell

LEMMA ReadItemsInv == ASSUME TopInv, NEW p \in Panels, ReadItems(p) PROVE TopInv'
<1> USE DEF TopInv, Is
<1>1. /\ place[p] = "read" /\ place'[p] = "wait" /\ (\A g \in Tasks : g # p => place'[g] = place[g])
      /\ place' \in [Tasks -> Places]
  BY Zenon DEF ReadItems, Typed, To, Tasks, Places
<1>2. Shows \in [Publishers -> Values \union {Nobody}]
  BY DEF Typed, Shows, NoItem
<1>3. Typed' /\ OwnSlots'
  BY <1>1, <1>2, Zenon DEF ReadItems, Typed, OwnSlots, Tasks
<1>4. Watchers' /\ Cleared' /\ ItemsHaveFibers'
  BY <1>1, TopicsAssumption DEF ReadItems, Watchers, Runs, Ending, Tasks, Cleared, ItemsHaveFibers
<1>5. Informed'
  BY <1>1, ZenonT(40) DEF ReadItems, Typed, Tasks, Informed, Waiting, Told, Marking, Signalled, Shows
<1> QED BY <1>3, <1>4, <1>5, Zenon

LEMMA SubscribeInv == ASSUME TopInv, NEW p \in Panels, Subscribe(p) PROVE TopInv'
<1> USE DEF TopInv, Is
<1>1. /\ place[p] = "wait" /\ place'[p] = "take" /\ (\A g \in Tasks : g # p => place'[g] = place[g])
      /\ place' \in [Tasks -> Places] /\ p \in Tasks /\ waker[p] \in Slots
  BY Zenon DEF Subscribe, Typed, To, Tasks, Places, OwnSlots
<1>2. Typed' /\ OwnSlots'
  BY <1>1, Zenon DEF Subscribe, Typed, OwnSlots
<1>3. Watchers' /\ Cleared' /\ ItemsHaveFibers'
  BY <1>1 DEF Subscribe, Watchers, Runs, Ending, Tasks, Cleared, ItemsHaveFibers
<1>4. Informed'
  BY <1>1, Zenon DEF Subscribe, Tasks, Informed, Waiting, Told, Marking, Signalled, Shows
<1> QED BY <1>2, <1>3, <1>4, Zenon

\* take: a panel that goes to its wait has nothing pending
LEMMA TakeInv == ASSUME TopInv, NEW p \in Panels, Take(p) PROVE TopInv'
<1> USE DEF TopInv, Is
<1>1. /\ place[p] \in {"take", "late"} /\ place'[p] \in {"run", "park"} /\ p \in Tasks
      /\ (place'[p] = "park" => place[p] = "take" /\ waker[p] \notin pend)
      /\ (\A g \in Tasks : g # p => place'[g] = place[g]) /\ place' \in [Tasks -> Places]
  BY Zenon DEF Take, Typed, To, Tasks, Places
<1>2. Typed' /\ OwnSlots'
  BY <1>1, Zenon DEF Take, Typed, OwnSlots
<1>3. Watchers' /\ Cleared' /\ ItemsHaveFibers'
  BY <1>1 DEF Take, Watchers, Runs, Ending, Tasks, Cleared, ItemsHaveFibers
<1>4. Informed'
  <2> SUFFICES ASSUME NEW q \in Panels, Waiting(q)' PROVE Told(q)'
    BY Zenon DEF Informed
  <2>1. Told(q) /\ q \in Tasks
    BY <1>1, Zenon DEF Take, Waiting, Informed, Tasks
  <2>2. Marking => Marking'
    BY <1>1, Zenon DEF Marking
  <2>3. CASE q = p
    BY <1>1, <2>1, <2>2, <2>3, Zenon DEF Take, Told, Waiting, Shows
  <2>4. CASE q # p
    <3>1. waker[q] # waker[p] /\ place'[q] = place[q]
      BY <1>1, <2>1, <2>4, Zenon DEF OwnSlots
    <3> QED BY <2>1, <2>2, <3>1, Zenon DEF Take, Told, Signalled, Shows
  <2> QED BY <2>3, <2>4, Zenon
<1> QED BY <1>2, <1>3, <1>4, Zenon

LEMMA ResumeInv == ASSUME TopInv, NEW p \in Panels, Resume(p) PROVE TopInv'
<1> USE DEF TopInv, Is
<1>1. /\ place[p] = "park" /\ place'[p] \in {"take", "late"} /\ p \in Tasks /\ raised' = raised \ {waker[p]}
      /\ (\A g \in Tasks : g # p => place'[g] = place[g]) /\ place' \in [Tasks -> Places]
  BY Zenon DEF Resume, Typed, To, Tasks, Places
<1>2. Typed' /\ OwnSlots'
  BY <1>1, Zenon DEF Resume, Typed, OwnSlots
<1>3. Watchers' /\ Cleared' /\ ItemsHaveFibers'
  BY <1>1 DEF Resume, Watchers, Runs, Ending, Tasks, Cleared, ItemsHaveFibers
<1>4. Informed'
  <2> SUFFICES ASSUME NEW q \in Panels, Waiting(q)' PROVE Told(q)'
    BY Zenon DEF Informed
  <2>1. Told(q) /\ q \in Tasks
    BY <1>1, Zenon DEF Resume, Waiting, Informed, Tasks
  <2>2. Marking => Marking'
    BY <1>1, Zenon DEF Marking
  <2>3. CASE q = p
    BY <1>1, <2>1, <2>2, <2>3, Zenon DEF Resume, Told, Waiting, Shows
  <2>4. CASE q # p
    <3>1. waker[q] # waker[p] /\ place'[q] = place[q]
      BY <1>1, <2>1, <2>4, Zenon DEF OwnSlots
    <3> QED BY <1>1, <2>1, <2>2, <3>1, Zenon DEF Resume, Told, Signalled, Shows
  <2> QED BY <2>3, <2>4, Zenon
<1> QED BY <1>2, <1>3, <1>4, Zenon

\* notify::forget: only the subscription of the fiber that ends goes
LEMMA EndInv == ASSUME TopInv, NEW f \in Tasks, End(f) PROVE TopInv'
<1> USE DEF TopInv, Is
<1>1. /\ place[f] = "run" /\ place'[f] = "end" /\ (\A g \in Tasks : g # f => place'[g] = place[g])
      /\ place' \in [Tasks -> Places]
  BY Zenon DEF End, Typed, To, Places
<1>2. Typed' /\ OwnSlots'
  BY <1>1, Zenon DEF End, Typed, OwnSlots
<1>3. \A p \in Panels : p # f /\ ~Is(p, "off") => waker[p] # waker[f]
  BY <1>1, Zenon DEF OwnSlots, Tasks
<1>4. Watchers'
  BY <1>1, <1>3 DEF End, Watchers, Runs, Ending, Tasks
<1>5. Cleared' /\ ItemsHaveFibers'
  BY <1>1, Zenon DEF End, Tasks, Cleared, ItemsHaveFibers
<1>6. Informed'
  <2> SUFFICES ASSUME NEW p \in Panels, Waiting(p)' PROVE Told(p)'
    BY Zenon DEF Informed
  <2>1. p # f /\ Waiting(p) /\ Told(p) /\ place'[p] = place[p]
    BY <1>1, Zenon DEF End, Waiting, Informed, Tasks
  <2>2. waker[p] # waker[f]
    BY <2>1, <1>3, Zenon DEF Waiting
  <2>3. Marking => Marking'
    BY <1>1, Zenon DEF Marking
  <2> QED BY <2>1, <2>2, <2>3, Zenon DEF End, Told, Signalled, Shows
<1> QED BY <1>2, <1>4, <1>5, <1>6, Zenon

\* status::forget, whether it gets the lock or not
LEMMA TryLockInv == ASSUME TopInv, NEW f \in Tasks, TryLock(f) PROVE TopInv'
<1> USE DEF TopInv, Is
<1>1. /\ place[f] = "end" /\ place'[f] \in {"forget", "free"} /\ (\A g \in Tasks : g # f => place'[g] = place[g])
      /\ place' \in [Tasks -> Places]
  BY Zenon DEF TryLock, Typed, To, Places
<1>2. Typed' /\ OwnSlots'
  BY <1>1, Zenon DEF TryLock, Typed, OwnSlots
<1>3. Watchers'
  BY <1>1 DEF TryLock, Watchers, Runs, Ending, Tasks
<1>4. ItemsHaveFibers' /\ Cleared'
  <2>1. kept \subseteq kept'
    BY Zenon DEF TryLock
  <2>2. f \in Publishers /\ place'[f] = "free" => items[f] = NoItem \/ f \in kept'
    BY <1>1, Zenon DEF TryLock, Typed, To, ItemsHaveFibers
  <2> QED BY <1>1, <2>1, <2>2, Zenon DEF TryLock, Cleared, ItemsHaveFibers, Tasks
<1>5. Informed'
  BY <1>1, Zenon DEF TryLock, Tasks, Informed, Waiting, Told, Marking, Signalled, Shows
<1> QED BY <1>2, <1>3, <1>4, <1>5, Zenon

LEMMA ForgetInv == ASSUME TopInv, NEW f \in Tasks, Forget(f) PROVE TopInv'
<1> USE DEF TopInv, Is
<1> DEFINE gone == {o \in Publishers : items[o].waker = waker[f]}
<1>1. /\ place[f] = "forget" /\ place'[f] = (IF gone = {} THEN "free" ELSE "lastMark")
      /\ (\A g \in Tasks : g # f => place'[g] = place[g]) /\ place' \in [Tasks -> Places]
  BY Zenon DEF Forget, Typed, To, Places
<1>2. /\ \A o \in gone : items'[o] = NoItem
      /\ \A o \in Publishers \ gone : items'[o] = items[o]
      /\ items' \in [Publishers -> [val : Values, waker : Slots] \union {NoItem}]
      /\ kept' = kept \ gone
  BY Zenon DEF Forget, Typed
<1> HIDE DEF gone
<1>3. Typed' /\ OwnSlots'
  BY <1>1, <1>2, ZenonT(40) DEF Forget, Typed, OwnSlots
<1>4. Watchers'
  BY <1>1 DEF Forget, Watchers, Runs, Ending, Tasks
<1>5. ItemsHaveFibers' /\ Cleared'
  <2>1. ItemsHaveFibers'
    BY <1>2, Zenon DEF Forget, ItemsHaveFibers, gone
  <2>2. f \in Publishers => items'[f] = NoItem \/ f \in kept'
    BY <1>2, Zenon DEF ItemsHaveFibers, gone
  <2>3. \A o \in Publishers : items[o] = NoItem \/ o \in kept => items'[o] = NoItem \/ o \in kept'
    BY <1>2, Zenon
  <2> QED BY <1>1, <2>1, <2>2, <2>3, Zenon DEF Cleared, Tasks
<1>6. CASE gone = {}
  <2>1. items' = items
    BY <1>2, <1>6 DEF Typed
  <2>2. Informed'
    BY <1>1, <1>6, <2>1, ZenonT(40) DEF Forget, Tasks, Informed, Waiting, Told, Marking, Signalled, Shows
  <2> QED BY <1>3, <1>4, <1>5, <2>2, Zenon
<1>7. CASE gone # {}
  <2>1. Informed'
    BY <1>1, <1>7, Zenon DEF Informed, Told, Marking
  <2> QED BY <1>3, <1>4, <1>5, <2>1, Zenon
<1> QED BY <1>6, <1>7, Zenon

LEMMA FreeInv == ASSUME TopInv, NEW f \in Tasks, Free(f) PROVE TopInv'
<1> USE DEF TopInv, Is
<1>1. /\ place[f] = "free" /\ place'[f] = "off" /\ (\A g \in Tasks : g # f => place'[g] = place[g])
      /\ place' \in [Tasks -> Places]
  BY Zenon DEF Free, Typed, To, Places
<1>2. /\ waker'[f] = Nobody /\ (\A g \in Tasks : g # f => waker'[g] = waker[g] /\ waker[g] # waker[f])
      /\ waker' \in [Tasks -> Slots \union {Nobody}]
  BY <1>1, Zenon DEF Free, Typed, OwnSlots
<1>3. Typed' /\ OwnSlots'
  BY <1>1, <1>2, ZenonT(40) DEF Free, Typed, OwnSlots
<1>4. Watchers'
  BY <1>1, <1>2 DEF Free, Watchers, Runs, Ending, Tasks
<1>5. ItemsHaveFibers' /\ Cleared'
  BY <1>1, <1>2, Zenon DEF Free, ItemsHaveFibers, Cleared, Tasks
<1>6. Informed'
  <2> SUFFICES ASSUME NEW p \in Panels, Waiting(p)' PROVE Told(p)'
    BY Zenon DEF Informed
  <2>1. p # f /\ Told(p) /\ place'[p] = place[p] /\ waker'[p] = waker[p] /\ waker[p] # waker[f]
    BY <1>1, <1>2, Zenon DEF Free, Waiting, Informed, Tasks
  <2>2. Marking => Marking'
    BY <1>1, Zenon DEF Marking
  <2> QED BY <2>1, <2>2 DEF Free, Told, Signalled, Shows
<1> QED BY <1>3, <1>4, <1>5, <1>6, Zenon

-----------------------------------------------------------------------------
LEMMA TopStep == TopInv /\ [TopNext]_topVars => TopInv'
<1> SUFFICES ASSUME TopInv, [TopNext]_topVars PROVE TopInv'
  BY Zenon
<1>1. CASE UNCHANGED topVars
  BY <1>1 DEF topVars, TopInv, Typed, OwnSlots, Watchers, Runs, Ending, Is, Cleared, ItemsHaveFibers,
              Informed, Waiting, Told, Marking, Signalled, Shows
<1>2. ASSUME NEW f \in Tasks, Start(f) \/ Mark(f) \/ Tell(f) \/ End(f) \/ TryLock(f) \/ Forget(f) \/ Free(f)
      PROVE  TopInv'
  BY <1>2, StartInv, MarkInv, TellInv, EndInv, TryLockInv, ForgetInv, FreeInv, Zenon
<1>3. ASSUME NEW o \in Publishers, TakeLock(o, "set") \/ TakeLock(o, "clear") PROVE TopInv'
  BY <1>3, TakeLockInv, Zenon DEF Tasks
<1>4. ASSUME NEW o \in Publishers, ClearItem(o) \/ \E v \in Values : SetItem(o, v) PROVE TopInv'
  BY <1>4, ClearItemInv, SetItemInv, Zenon
<1>5. ASSUME NEW p \in Panels, TakeLock(p, "read") PROVE TopInv'
  BY <1>5, TakeLockInv, Zenon DEF Tasks
<1>6. ASSUME NEW p \in Panels, ReadItems(p) \/ Subscribe(p) \/ Take(p) \/ Resume(p) PROVE TopInv'
  BY <1>6, ReadItemsInv, SubscribeInv, TakeInv, ResumeInv, Zenon
<1> QED BY <1>1, <1>2, <1>3, <1>4, <1>5, <1>6, Zenon DEF TopNext

LEMMA TopInvariant == TopSpec => []TopInv
  BY TopInitInv, TopStep, PTL DEF TopSpec

\* Types of the topic and item tables, and that no two fibers that run share a
\* waker slot (alloc_waker, free_waker), for every number of slots and fibers
THEOREM TopicsTypes == TopSpec => []TopTypeOK
<1>1. TopInv => TopTypeOK
  BY Zenon DEF TopInv, Typed, OwnSlots, TopTypeOK
<1> QED BY <1>1, TopInvariant, PTL

\* No change of the list is lost between a panel's look and its wait (npk_wait
\* against notify), however many publishers and panels there are
THEOREM TopicsPanelCurrent == TopSpec => []PanelCurrent
<1>1. TopInv => PanelCurrent
  BY Zenon DEF TopInv, Informed, Waiting, Told, Marking, Signalled, PanelCurrent, Is
<1> QED BY <1>1, TopInvariant, PTL

\* Neither a subscription nor an item (but one whose fiber found the list
\* locked when it ended) outlives its fiber into the next use of
\* the waker slot (free_waker: notify::forget and status::forget)
THEOREM TopicsEndWithFiber == TopSpec => []EndsWithFiber
<1>1. TopInv => EndsWithFiber
  BY Zenon DEF TopInv, Watchers, Runs, EndsWithFiber, SubscriberLives
<1> QED BY <1>1, TopInvariant, PTL
=============================================================================
