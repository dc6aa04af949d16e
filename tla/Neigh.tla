------------------------------- MODULE Neigh -------------------------------
(***************************************************************************)
(* The table of neighbours (net/neigh.rs): the link-layer addresses of     *)
(* IPv4 next hops, and the packets that wait for them.  One action per     *)
(* entry point: output, resolve, arp_input, tick, flush.                   *)
(*                                                                         *)
(* Times are kept as ages and timers as the time that is left, in units of *)
(* small constants in place of the code's; the tick comes once in every    *)
(* unit, and the caller chooses when the periodic collection is due.  A    *)
(* packet has size one.  An ARP packet is what arp_input tells apart in    *)
(* one that is well formed.                                                *)
(*                                                                         *)
(* A call changes the table under its lock and hands the caller the        *)
(* packets to send (struct Out).  The caller (kernel/src/net/arp.rs) sends *)
(* them after it let the lock go, and that is outside this module: what is *)
(* said of the order of packets is said of how they leave the table, and   *)
(* two cores that each hold packets handed to them may send them in any    *)
(* order.                                                                  *)
(***************************************************************************)
EXTENDS Integers, Sequences, FiniteSets, SequencesExt, TLC

CONSTANTS
    Ips, Has, NoHa,      \* next hops, link-layer addresses
    MCAST_PROBES, UCAST_PROBES, RETRANS_TIME, DELAY_PROBE_TIME, GC_STALETIME, LOCKTIME,
    ReachTimes,          \* what rand_reach_time may draw
    FORCED_AGE,          \* 5 s in forced_gc
    QUEUE_LEN, GC_THRESH1, GC_THRESH2, GC_THRESH3,
    MaxPacket            \* bound: packets given to output

VARIABLES
    neighs,      \* the table: a function from a set of next hops
    reachTime,   \* reachable_time
    ticked,      \* tick has run in this unit of time
    packets,     \* packets given to output so far
    settled,     \* how often each of them was handed out, reported or dropped
    flushed,     \* history: the packets that flush threw away
    lastOut,     \* history: the packet last handed out for each next hop
    inOrder,     \* history: whether packets were handed out in order so far
    unicast,     \* history: addresses the last step sent a request to
    waited       \* history: the time since each packet was given to output

ngVars == <<neighs, reachTime, ticked, packets, settled, flushed, lastOut, inOrder, unicast, waited>>

Nud     == {"None", "Incomplete", "Reachable", "Stale", "Delay", "Probe", "Failed"}
Valid   == {"Reachable", "Stale", "Delay", "Probe"}
InTimer == {"Incomplete", "Reachable", "Delay", "Probe"}

\* Beyond this age nothing is told apart
Old     == 2 + Max(ReachTimes \union {DELAY_PROBE_TIME, GC_STALETIME, LOCKTIME, FORCED_AGE})
NoTimer == -1

\* confirmed, updated, used: ages; timer: the time left
Neighbour == [state : Nud, ha : Has \union {NoHa}, confirmed : 0 .. Old, updated : 0 .. Old, used : 0 .. Old,
              probes : 0 .. UCAST_PROBES + MCAST_PROBES, timer : NoTimer .. Old, queue : Seq(1 .. MaxPacket)]

\* What a call works on: the entry n, and what it leaves to do (struct Out)
Out(n) == [n |-> n, send |-> <<>>, errors |-> <<>>, drops |-> <<>>, ask |-> {}]

NewNeigh == [state |-> "None", ha |-> NoHa, confirmed |-> 0, updated |-> 0, used |-> 0,
             probes |-> 0, timer |-> NoTimer, queue |-> <<>>]

NgInit ==
    /\ neighs = <<>> /\ reachTime \in ReachTimes /\ ticked = TRUE
    /\ packets = 0 /\ settled = <<>> /\ flushed = {} /\ lastOut = [ip \in Ips |-> 0] /\ inOrder = TRUE
    /\ unicast = {} /\ waited = <<>>

Excess(n, limit) == IF n > limit THEN n - limit ELSE 0

(***************************************************************************)
(* The table                                                               *)
(***************************************************************************)
Without(hops) == [ip \in DOMAIN neighs \ hops |-> neighs[ip]]

\* Mutant: an entry that is being resolved is collected too
VictimsWaiting ==
    {ip \in DOMAIN neighs : /\ neighs[ip].state = "Failed" \/ neighs[ip].updated > FORCED_AGE
                            /\ TRUE}

\* forced_gc: any of the victims when there are more than it has to remove (the
\* code takes them in the order of their addresses)
Victims ==
    {ip \in DOMAIN neighs : /\ neighs[ip].state = "Failed" \/ neighs[ip].updated > FORCED_AGE
                            /\ neighs[ip].timer = NoTimer /\ neighs[ip].queue = <<>>}

Collected(gone) ==
    /\ gone \subseteq Victims
    /\ Cardinality(gone) = Min({Cardinality(Victims), Excess(Cardinality(DOMAIN neighs), GC_THRESH2)})

\* Mutant: there is always room
CreateAlways(ip, gone) ==
    LET entries == Cardinality(DOMAIN neighs)
    IN  \/ gone = {}
        \/ ip \notin DOMAIN neighs /\ entries >= GC_THRESH2 /\ Collected(gone)
           /\ (gone # {} \/ entries < GC_THRESH3)

\* create: a new entry makes a full table collect, a crowded one if the last
\* collection is 5 s past (left open); there may be no room even so
Create(ip, gone) ==
    LET entries == Cardinality(DOMAIN neighs)
    IN  \/ gone = {} /\ (ip \in DOMAIN neighs \/ entries < GC_THRESH3)
        \/ ip \notin DOMAIN neighs /\ entries >= GC_THRESH2 /\ Collected(gone)
           /\ (gone # {} \/ entries < GC_THRESH3)

Full(ip) == ip \notin DOMAIN neighs /\ Cardinality(DOMAIN neighs) >= GC_THRESH3 /\ Collected({})

\* The entry after create
Entered(ip) == IF ip \in DOMAIN neighs THEN neighs[ip] ELSE NewNeigh

(***************************************************************************)
(* The state machine of an entry                                           *)
(***************************************************************************)
\* probe: a revalidation asks the address it has, first
Solicit(o) ==
    [o EXCEPT !.n.probes = @ + 1, !.ask = IF o.n.probes < UCAST_PROBES THEN {o.n.ha} ELSE {}]

\* The queue with p at its end, and what had to go from its front
Enqueue(o, p) ==
    LET all  == Append(o.n.queue, p)
        over == Excess(Len(all), QUEUE_LEN)
    IN  [o EXCEPT !.n.queue = SubSeq(all, over + 1, Len(all)), !.drops = SubSeq(all, 1, over)]

\* event_send with the packets ps (one or none): what may go out goes to send
EventSend(o, ps) ==
    LET starts == o.n.state \in {"None", "Failed"}
        moved  == CASE starts -> [o EXCEPT !.n.probes = UCAST_PROBES, !.n.state = "Incomplete",
                                           !.n.updated = 0, !.n.timer = RETRANS_TIME]
                    [] o.n.state = "Stale" -> [o EXCEPT !.n.state = "Delay", !.n.updated = 0,
                                                        !.n.timer = DELAY_PROBE_TIME]
                    [] OTHER -> o
        kept   == IF moved.n.state # "Incomplete" THEN [moved EXCEPT !.send = ps]
                  ELSE IF ps = <<>> THEN moved ELSE Enqueue(moved, ps[1])
    IN  IF starts THEN Solicit(kept) ELSE kept

\* invalidate, once the state is Failed
Invalidate(o) == [o EXCEPT !.n.updated = 0, !.errors = o.n.queue, !.n.queue = <<>>]

\* update with an address and the state "Reachable" or "Stale"
Update(o, ha, claim, overr) ==
    LET n     == o.n
        same  == n.state \in Valid /\ n.ha = ha
        new   == IF same /\ claim = "Stale" THEN n.state ELSE claim
        seen  == IF claim = "Reachable" THEN [n EXCEPT !.confirmed = 0] ELSE n
        state == IF new = n.state THEN seen
                 ELSE [seen EXCEPT !.state = new,
                                   !.timer = IF new = "Reachable" THEN reachTime ELSE NoTimer]
        addr  == IF same THEN state
                 ELSE [state EXCEPT !.ha = ha, !.confirmed = IF new = "Reachable" THEN @ ELSE Old]
        all   == [addr EXCEPT !.updated = IF new # n.state \/ ~same THEN 0 ELSE @]
    IN  IF n.state \in Valid /\ ~same /\ ~overr THEN [o EXCEPT !.n = seen]
        ELSE IF new # n.state /\ n.state \notin Valid
             THEN [o EXCEPT !.n = [all EXCEPT !.queue = <<>>], !.send = n.queue]
        ELSE [o EXCEPT !.n = all]

\* Mutant: an entry in use counts as confirmed
ExpiredKept(n) ==
    CASE n.state = "Reachable" /\ n.confirmed <= reachTime -> [n EXCEPT !.timer = reachTime - n.confirmed]
      [] n.state = "Reachable" /\ n.confirmed > reachTime ->
             IF n.used <= DELAY_PROBE_TIME
             THEN [n EXCEPT !.state = "Delay", !.updated = 0, !.timer = DELAY_PROBE_TIME]
             ELSE [n EXCEPT !.state = "Stale", !.updated = 0, !.timer = NoTimer]
      [] n.state = "Delay" ->
             IF n.used <= DELAY_PROBE_TIME
             THEN [n EXCEPT !.state = "Reachable", !.updated = 0, !.timer = reachTime - n.confirmed]
             ELSE [n EXCEPT !.state = "Probe", !.updated = 0, !.probes = 0, !.timer = RETRANS_TIME]
      [] OTHER -> [n EXCEPT !.timer = RETRANS_TIME]

\* Where a due timer takes the entry, and when it fires next
Expired(n) ==
    CASE n.state = "Reachable" /\ n.confirmed <= reachTime -> [n EXCEPT !.timer = reachTime - n.confirmed]
      [] n.state = "Reachable" /\ n.confirmed > reachTime ->
             IF n.used <= DELAY_PROBE_TIME
             THEN [n EXCEPT !.state = "Delay", !.updated = 0, !.timer = DELAY_PROBE_TIME]
             ELSE [n EXCEPT !.state = "Stale", !.updated = 0, !.timer = NoTimer]
      [] n.state = "Delay" ->
             IF n.confirmed <= DELAY_PROBE_TIME
             THEN [n EXCEPT !.state = "Reachable", !.updated = 0, !.timer = reachTime - n.confirmed]
             ELSE [n EXCEPT !.state = "Probe", !.updated = 0, !.probes = 0, !.timer = RETRANS_TIME]
      [] OTHER -> [n EXCEPT !.timer = RETRANS_TIME]

MaxProbes(state) == UCAST_PROBES + IF state = "Probe" THEN 0 ELSE MCAST_PROBES

\* timer, for an entry whose timer is due
TimerOf(n) ==
    LET step == Expired(n)
        asks == step.state \in {"Incomplete", "Probe"}
        o    == Out([step EXCEPT !.timer = IF step.state \in InTimer THEN Max({@, 1}) ELSE @])
    IN  IF asks /\ step.probes >= MaxProbes(step.state)
        THEN Invalidate([o EXCEPT !.n.state = "Failed", !.n.timer = NoTimer])
        ELSE IF asks THEN Solicit(o) ELSE o

(***************************************************************************)
(* The entry points                                                        *)
(***************************************************************************)
Waiting == UNION {ToSet(neighs[ip].queue) : ip \in DOMAIN neighs}

\* The packets of each o in outs, however they left, once more than before
SettledBy(outs, n) ==
    [p \in 1 .. n |-> (IF p \in DOMAIN settled THEN settled[p] ELSE 0)
                      + Cardinality(UNION {{ip} \X {k \in DOMAIN outs[ip] : outs[ip][k] = p} : ip \in DOMAIN outs})]

\* The call is over: the caller has what it handed out, to send without the lock
Done(table, outs) ==
    LET gone == [ip \in DOMAIN outs |-> outs[ip].send \o outs[ip].errors \o outs[ip].drops]
        line == [ip \in DOMAIN outs |-> <<lastOut[ip]>> \o outs[ip].send]
    IN  /\ neighs' = table
        /\ settled' = SettledBy(gone, packets')
        /\ lastOut' = [ip \in Ips |-> IF ip \in DOMAIN outs THEN Last(line[ip]) ELSE lastOut[ip]]
        /\ inOrder' = (inOrder /\ \A ip \in DOMAIN outs : \A k \in 2 .. Len(line[ip]) : line[ip][k - 1] < line[ip][k])
        /\ unicast' = UNION {outs[ip].ask : ip \in DOMAIN outs}

\* An entry point that may make the entry of ip, and turns it into o
With(ip, o, gone) == Create(ip, gone) /\ Done((ip :> o.n) @@ Without(gone), ip :> o)

\* There is no room for it: the entry point gives up
Refused(ip) == Full(ip) /\ unicast' = {} /\ UNCHANGED <<neighs, lastOut, inOrder>>

\* output: with the address confirmed the packet goes at once
Output(ip, gone) ==
    /\ packets < MaxPacket /\ packets' = packets + 1 /\ waited' = Append(waited, 0)
    /\ LET o == Out(Entered(ip))
       IN  \/ With(ip, IF o.n.state = "Reachable" THEN [o EXCEPT !.send = <<packets'>>]
                       ELSE EventSend([o EXCEPT !.n.used = 0], <<packets'>>), gone)
           \/ Refused(ip) /\ gone = {} /\ settled' = Append(settled, 1)
    /\ UNCHANGED <<reachTime, ticked, flushed>>

\* resolve: the same without a packet
Resolve(ip, gone) ==
    /\ UNCHANGED <<reachTime, ticked, flushed, packets, waited>>
    /\ \/ With(ip, EventSend(Out(Entered(ip)), <<>>), gone)
       \/ Refused(ip) /\ UNCHANGED settled

\* arp_input, a request for our address: whoever asks gets an entry
ArpRequest(ip, ha, gone) ==
    /\ UNCHANGED <<reachTime, ticked, flushed, packets, waited>>
    /\ \/ With(ip, Update(Out(Entered(ip)), ha, "Stale", TRUE), gone)
       \/ Refused(ip) /\ UNCHANGED settled

\* arp_input, any other packet: only an entry that there is learns from it
ArpOther(ip, ha, toUs, garp) ==
    /\ UNCHANGED <<reachTime, ticked, flushed, packets, waited>>
    /\ ip \in DOMAIN neighs
    /\ LET o == Update(Out(neighs[ip]), ha, IF toUs THEN "Reachable" ELSE "Stale",
                       neighs[ip].updated > LOCKTIME \/ garp)
       IN  Done([neighs EXCEPT ![ip] = o.n], ip :> o)

\* periodic: the entries outside a timer that failed or were long not used go
Periodic(table) ==
    LET noted == [ip \in DOMAIN table |->
                    IF table[ip].state \notin InTimer THEN [table[ip] EXCEPT !.used = Min({@, table[ip].confirmed})]
                    ELSE table[ip]]
        kept  == {ip \in DOMAIN table : \/ table[ip].state \in InTimer
                                        \/ table[ip].state # "Failed" /\ noted[ip].used < GC_STALETIME}
    IN  IF Cardinality(DOMAIN table) < GC_THRESH1 THEN table ELSE [ip \in kept |-> noted[ip]]

\* tick: the timers that are due, then the collection if its time has come,
\* which may draw another reachable time
NgTick(collect, r) ==
    LET due   == {ip \in DOMAIN neighs : neighs[ip].timer = 0}
        out   == [ip \in due |-> TimerOf(neighs[ip])]
        table == [ip \in DOMAIN neighs |-> IF ip \in due THEN out[ip].n ELSE neighs[ip]]
    IN  /\ ~ticked /\ ticked' = TRUE /\ UNCHANGED <<packets, flushed, waited>>
        /\ Done(IF collect THEN Periodic(table) ELSE table, out)
        /\ collect \/ r = reachTime
        /\ reachTime' = r

\* flush: the address or the carrier went; what waited goes with it, reported
\* to nobody and not counted
Flush ==
    /\ neighs' = <<>> /\ unicast' = {} /\ flushed' = flushed \union Waiting
    /\ UNCHANGED <<reachTime, ticked, packets, settled, lastOut, inOrder, waited>>

\* A unit of time passes
Pass ==
    LET Age(t) == Min({t + 1, Old})
    IN  /\ ticked /\ ticked' = FALSE
        /\ neighs' = [ip \in DOMAIN neighs |->
                        [neighs[ip] EXCEPT !.confirmed = Age(@), !.updated = Age(@), !.used = Age(@),
                                           !.timer = IF @ > 0 THEN @ - 1 ELSE @]]
        /\ waited' = [p \in DOMAIN waited |-> IF p \in Waiting THEN waited[p] + 1 ELSE 0]
        /\ unicast' = {}
        /\ UNCHANGED <<reachTime, packets, settled, flushed, lastOut, inOrder>>

NgNext ==
    \/ \E ip \in Ips, gone \in SUBSET DOMAIN neighs :
          Output(ip, gone) \/ Resolve(ip, gone) \/ \E ha \in Has : ArpRequest(ip, ha, gone)
    \/ \E ip \in Ips, ha \in Has, toUs, garp \in BOOLEAN : ArpOther(ip, ha, toUs, garp)
    \/ \E collect \in BOOLEAN, r \in ReachTimes : NgTick(collect, r)
    \/ Flush \/ Pass

NgSpec == NgInit /\ [][NgNext]_ngVars

(***************************************************************************)
(* Properties                                                              *)
(***************************************************************************)
\* Types, and the limits of the table and of a queue (GC_THRESH3,
\* QUEUE_LEN_BYTES) and of the probes of an entry
NgTypeOK ==
    /\ DOMAIN neighs \subseteq Ips /\ Cardinality(DOMAIN neighs) <= GC_THRESH3
    /\ \A ip \in DOMAIN neighs : neighs[ip] \in Neighbour /\ Len(neighs[ip].queue) <= QUEUE_LEN
    /\ packets \in 0 .. MaxPacket /\ reachTime \in ReachTimes

\* Every packet given to output is in one place: it waits, it was handed out to
\* be sent, reported (errors) or dropped and counted (drops), once, or flush
\* threw it away, which counts it nowhere; none is lost when an entry is
\* collected, fails or learns its address
PacketsAccounted ==
    \A p \in 1 .. packets : settled[p] = IF p \in Waiting \union flushed THEN 0 ELSE 1

\* Packets to one next hop leave the table in the order they were given to
\* output: none that waits is overtaken by one that finds the address known
LeftInOrder == inOrder

\* A packet waits no longer than the requests of one resolution take: whatever
\* else is output, resolved or heard meanwhile, it is handed out or reported by then
WaitIsShort ==
    \A p \in Waiting : waited[p] <= MCAST_PROBES * RETRANS_TIME

\* A timer runs for exactly the entries whose state needs one: no entry is left
\* in INCOMPLETE, DELAY or PROBE for ever, and none that may be collected is
\* due to change
TimersRun ==
    \A ip \in DOMAIN neighs : neighs[ip].timer # NoTimer <=> neighs[ip].state \in InTimer

\* A request goes to a single address only if an ARP packet gave it, never to the empty address of an entry that is
\* still being resolved
AskedOnlyHeard == unicast \subseteq Has

\* An entry is REACHABLE no longer than the reachable time after an answer
\* confirmed it, to the tick
ReachableIsFresh ==
    \A ip \in DOMAIN neighs : neighs[ip].state = "Reachable" =>
        \E r \in ReachTimes : neighs[ip].confirmed <= r + 1

\* Each packet given to output leaves the table once, to be sent, reported or
\* dropped and counted, in order and in time, whatever happens to its entry
\* short of a flush
PacketsServed == PacketsAccounted /\ LeftInOrder /\ WaitIsShort

\* An entry says what was heard: it is REACHABLE only while fresh, asks only the
\* address it was given and has a timer exactly when its state needs one
EntriesSound == TimersRun /\ AskedOnlyHeard /\ ReachableIsFresh
=============================================================================
