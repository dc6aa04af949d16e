----------------------------- MODULE AddrConfig -----------------------------
(***************************************************************************)
(* The address of the active interface (kernel/src/net/dhcp.rs): the DHCP  *)
(* client (net/src/dhcp.rs) or a static setting gives an address, address  *)
(* conflict detection (net/src/acd.rs) probes it before it is used and     *)
(* defends it afterwards.  Client, probe and what is in use are changed    *)
(* under one lock; what a step leaves to do to the rest of the stack (its  *)
(* `acts') is done after the lock is let go, so the acts of two fibers may *)
(* overtake each other.                                                    *)
(*                                                                         *)
(* There is no clock.  A timer is off, due now or due later, and one that  *)
(* is due later may fire at any step, in the order the code's times allow. *)
(* Replies of servers are lost, repeated and late: any reply to a message  *)
(* that was sent may arrive at any time, or never.  A lease is its address *)
(* and the exchange (xid) of the message that granted it; whether its mask *)
(* and routers are those of the lease before it is left open.  Left out:   *)
(* the second interface, counters that only log, the values of mask,       *)
(* routes, DNS and MTU, which travel with the address.                     *)
(***************************************************************************)
EXTENDS Naturals, Sequences, SequencesExt

CONSTANTS
    Addrs,       \* addresses that servers grant
    StaticAddr,  \* the address of the static setting
    None,        \* no address, no configuration
    MAX_REQUEST_ATTEMPTS,
    MAX_REQUEST_ATTEMPTS_ON_REBOOTING,
    INBOX_MAX,
    MaxXid       \* bound: exchanges started

VARIABLES
    client,    \* the Client
    acd,       \* the Acd, NoAcd for None
    probing,   \* INNER.probing
    applied,   \* INNER.applied
    inbox,     \* INBOX
    rxPub,     \* RX
    asked,     \* what was sent to the servers: <<kind, xid>>
    acts,      \* per fiber: what it still has to do to the stack
    ourIp,     \* OUR_IP, and what is set with it
    met        \* history: two fibers had acts left at the same time ("acts"),
               \* or a probe ended in the tick that took another lease ("probe")

addrVars == <<client, acd, probing, applied, inbox, rxPub, asked, acts, ourIp, met>>

Xids   == 0 .. MaxXid
Fibers == {"core0", "other"}

Config == [kind : {"dhcp", "static"}, addr : Addrs \cup {StaticAddr}]

\* A timer: not set, due at once, due at some later time
Timer == {"off", "now", "later"}

\* How the times of a lease lie: T1 and T2 apart, on the same time, or no end
Times == {"apart", "tie", "endless"}

\* `resend', t1, t2 and exp are the timeouts; `ev' and `out' collect the events and the messages of one step
Client == [state : {"stopped", "init", "selecting", "init-reboot", "rebooting", "requesting",
                    "bound", "renewing", "rebinding"},
           lease : Addrs \cup {None}, grant : Xids, last : Addrs \cup {None}, xid : Xids,
           rx : {"none", "raw", "udp"}, tries : 0 .. MAX_REQUEST_ATTEMPTS + 1,
           resend : Timer, t1 : BOOLEAN, t2 : BOOLEAN, exp : BOOLEAN, times : Times,
           ev : Seq(STRING), out : SUBSET ({"discover", "request"} \X Xids)]

\* probes counts what was sent since the start of the probe
Acd == [state : {"none", "waiting-probe", "probing", "waiting-announce", "announcing", "running"},
        n : 0 .. 2, addr : Addrs \cup {StaticAddr, None}, timer : BOOLEAN,
        defended : BOOLEAN, probes : 0 .. 3]
NoAcd == [state |-> "none", n |-> 0, addr |-> None, timer |-> FALSE, defended |-> FALSE, probes |-> 0]

Message == [kind : {"offer", "ack", "rapid", "nak"}, xid : Xids, addr : Addrs]

\* What a step leaves to do: set an address, or None to drop it
Act == Addrs \cup {StaticAddr, None}

AddrTypeOK ==
    /\ client \in Client /\ client.ev = <<>> /\ client.out = {} /\ client.resend # "now"
    /\ acd \in Acd
    /\ probing \in Config \cup {None} /\ applied \in Config \cup {None}
    /\ inbox \in Seq(Message \X BOOLEAN) /\ Len(inbox) <= INBOX_MAX
    /\ rxPub \in {"none", "raw", "udp"}
    /\ asked \subseteq ({"discover", "request"} \X Xids)
    /\ acts \in [Fibers -> Seq(Act)] /\ ourIp \in Act /\ met \subseteq {"acts", "probe"}

AddrInit ==
    /\ client = [state |-> "stopped", lease |-> None, grant |-> 0, last |-> None, xid |-> 0,
                 rx |-> "none", tries |-> 0, resend |-> "off", t1 |-> FALSE, t2 |-> FALSE,
                 exp |-> FALSE, times |-> "apart", ev |-> <<>>, out |-> {}]
    /\ acd = NoAcd /\ probing = None /\ applied = None
    /\ inbox = <<>> /\ rxPub = "none"
    /\ asked = {} /\ acts = [f \in Fibers |-> <<>>] /\ ourIp = None /\ met = {}

(***************************************************************************)
(* The client: functions from one client record to the next                *)
(***************************************************************************)
IsRunning(c) == c.state # "stopped"

Raise(c, e) == [c EXCEPT !.ev = Append(@, e)]

\* set_state: the next REQUEST is the first of the new state
SetState(c, s) ==
    [c EXCEPT !.state = s,
              !.tries = IF s # c.state /\ s \in {"rebooting", "requesting", "renewing", "rebinding"}
                        THEN 0 ELSE @]

DisableEventSources(c) ==
    [c EXCEPT !.rx = "none", !.resend = "off", !.t1 = FALSE, !.t2 = FALSE, !.exp = FALSE]

\* client_stop
StopWith(c) ==
    [DisableEventSources(IF IsRunning(c) THEN Raise(c, "stop") ELSE c)
        EXCEPT !.state = "stopped", !.lease = None, !.grant = 0, !.times = "apart"]

\* start_delayed with the first message due `when'; xid is a fresh number
StartDelayed(c, when) ==
    [DisableEventSources(c)
        EXCEPT !.lease = None, !.grant = 0, !.times = "apart", !.xid = @ + 1,
               !.state = IF c.state = "init-reboot" THEN @ ELSE "init", !.resend = when]

\* restart: after a NAK, a declined address or a REQUEST nobody answered
Restart(c) ==
    LET told == IF c.state \in {"bound", "renewing", "rebinding"} THEN Raise(c, "expired") ELSE c
    IN  StartDelayed(told, IF c.state = "rebooting" THEN "now" ELSE "later")

\* Mutant of Ask: a message that goes out is not repeated
AskOnce(c) ==
    [c EXCEPT !.rx = IF c.state = "renewing" THEN "udp" ELSE "raw",
              !.out = @ \cup {<<IF c.state = "selecting" THEN "discover" ELSE "request", c.xid>>}]

\* A DISCOVER or a REQUEST goes out (send_message), replies are listened for
\* and the next attempt is due later
Ask(c) ==
    [c EXCEPT !.rx = IF c.state = "renewing" THEN "udp" ELSE "raw", !.resend = "later",
              !.out = @ \cup {<<IF c.state = "selecting" THEN "discover" ELSE "request", c.xid>>}]

\* timeout_resend_fired
ResendFired(c0) ==
    LET c == [c0 EXCEPT !.resend = "off"]
        s == SetState(c, CASE c.state = "init" -> "selecting"
                           [] c.state = "init-reboot" -> "rebooting"
                           [] OTHER -> c.state)
        limit == IF s.state = "rebooting" THEN MAX_REQUEST_ATTEMPTS_ON_REBOOTING ELSE MAX_REQUEST_ATTEMPTS
    IN  CASE s.state \in {"stopped", "bound"} -> c
          [] s.state \in {"rebooting", "requesting"} /\ s.tries >= limit -> Restart(s)
          [] s.state \in {"rebooting", "requesting"} /\ s.tries < limit -> Ask([s EXCEPT !.tries = @ + 1])
          [] OTHER -> Ask(s)

\* Timers that are due at once fire in the same call
Settle(c) ==
    LET once == IF c.resend = "now" THEN ResendFired(c) ELSE c
    IN  IF once.resend = "now" THEN ResendFired(once) ELSE once

\* tick: timer k fires; when T1 and T2 fall on the same time, T2 fires first
Fired(c, k) ==
    LET t1(d) == ResendFired(SetState([d EXCEPT !.t1 = FALSE], "renewing"))
        t2(d) == ResendFired(SetState([d EXCEPT !.t2 = FALSE, !.rx = "none"], "rebinding"))
    IN  CASE k = "exp"    -> Settle(StartDelayed(Raise(c, "expired"), "now"))
          [] k = "t2"     -> IF c.t1 THEN t1(t2(c)) ELSE t2(c)
          [] k = "t1"     -> t1(c)
          [] k = "resend" -> Settle(ResendFired(c))
          [] OTHER        -> c

\* The timers one of which may be the next to fire: T1, T2 and the end of the
\* lease in this order, T2 and the end perhaps on the same time
NextTimers(c) ==
    {k \in {"exp", "t2", "t1", "resend"} :
        CASE k = "resend" -> c.resend # "off"
          [] k = "t1"  -> c.t1 /\ c.times = "apart"
          [] k = "t2"  -> c.t2 /\ (c.t1 => c.times = "tie")
          [] k = "exp" -> c.exp /\ (c.t1 => c.times = "tie")}

\* enter_bound and set_lease_timeouts, with the lease of an ACK; `same' says
\* whether its mask and routers are those of the lease held (same_binding).  No
\* timeout is due at once: from_message makes T1 and T2 a second at least, the
\* lease thirty, and the fuzz is less than a second
EnterBound(c, m, times, same) ==
    LET event == IF c.state \in {"renewing", "rebinding"}
                 THEN (IF c.lease = m.addr /\ same THEN "renew" ELSE "change")
                 ELSE "acquire"
        ends  == times # "endless"
    IN  Raise([SetState(DisableEventSources(c), "bound")
                  EXCEPT !.lease = m.addr, !.grant = m.xid, !.last = m.addr,
                         !.t1 = ends, !.t2 = ends, !.exp = ends, !.times = times], event)

\* parse_message: what is taken in which state
Takes(c, m) ==
    /\ m.xid = c.xid
    /\ CASE m.kind = "offer" -> c.state = "selecting"
         [] m.kind = "rapid" -> c.state \in {"selecting", "rebooting", "requesting", "renewing", "rebinding"}
         [] m.kind = "ack"   -> c.state \in {"rebooting", "requesting", "renewing", "rebinding"}
         [] m.kind = "nak"   -> c.state \in {"rebooting", "requesting", "renewing", "rebinding"}

\* receive: a reply, and whether it was sent to the leased address
Receive(c, m, toUs, times, same) ==
    IF c.rx = "none" \/ (c.rx = "udp" /\ ~toUs) \/ ~Takes(c, m) THEN c
    ELSE Settle(CASE m.kind = "offer" ->
                        [SetState(DisableEventSources(Raise(c, "selecting")), "requesting")
                            EXCEPT !.lease = m.addr, !.grant = m.xid, !.resend = "now"]
                  [] m.kind = "nak" -> Restart(c)
                  [] OTHER -> EnterBound(c, m, times, same))

\* send_decline
SendDecline(c) == IF IsRunning(c) /\ c.lease # None THEN Settle(Restart(c)) ELSE c

(***************************************************************************)
(* Inner: functions on the record of what the lock guards, g               *)
(***************************************************************************)
Inner == [c |-> client, acd |-> acd, probing |-> probing, applied |-> applied, acts |-> <<>>,
          met |-> {}]

\* Mutant of Lose: the rest of the stack is not told
LoseSilent(g) == [g EXCEPT !.acd = NoAcd, !.probing = None, !.applied = None]

Lose(g) == [g EXCEPT !.acd = NoAcd, !.probing = None, !.applied = None,
                     !.acts = IF g.applied # None THEN Append(@, None) ELSE @]

\* probe: Acd::start fires the timer of `started' in the same call
Probe(g, cfg) ==
    [g EXCEPT !.acd = [NoAcd EXCEPT !.state = "waiting-probe", !.addr = cfg.addr, !.timer = TRUE],
              !.probing = cfg]

Apply(g, cfg) == [g EXCEPT !.applied = cfg, !.acts = Append(@, cfg.addr)]

\* drain, one event of the client
ClientEvent(g, e) ==
    LET lease == [kind |-> "dhcp", addr |-> g.c.lease]
        has   == IsRunning(g.c) /\ g.c.lease # None
    IN  CASE e = "acquire" -> IF has THEN Probe(g, lease) ELSE g
          [] e = "change"  -> IF has THEN Probe(Lose(g), lease) ELSE Lose(g)
          [] e = "renew"   -> IF has /\ g.applied # None /\ g.applied.kind = "dhcp" THEN Apply(g, lease) ELSE g
          [] e \in {"expired", "stop"} -> Lose(g)
          [] OTHER -> g

ClientEvents(g) == FoldLeft(ClientEvent, [g EXCEPT !.c.ev = <<>>], g.c.ev)

\* drain, the event of the probe: the address is ours, or it is in use; the
\* decline gives the client events of its own
Bind(g) == IF g.probing = None THEN g ELSE [Apply(g, g.probing) EXCEPT !.probing = None]
Conflict(g) ==
    LET dynamic == \/ g.probing # None /\ g.probing.kind = "dhcp"
                   \/ g.probing = None /\ g.applied # None /\ g.applied.kind = "dhcp"
        l == Lose(g)
    IN  IF dynamic THEN ClientEvents([l EXCEPT !.c = SendDecline(@)]) ELSE l

\* on_timeout of the probe: three probes, a wait, two announcements
AcdTimeout(a) ==
    CASE a.state \in {"waiting-probe", "probing"} ->
            [a EXCEPT !.probes = @ + 1,
                      !.state = IF a.n < 1 THEN "probing" ELSE "waiting-announce",
                      !.n = IF a.n < 1 /\ a.state = "probing" THEN 1 ELSE 0]
      [] a.state = "waiting-announce" -> [a EXCEPT !.state = "announcing", !.n = 0]
      [] a.state = "announcing" /\ a.n = 0 -> [a EXCEPT !.n = 1]
      [] a.state = "announcing" /\ a.n = 1 -> [a EXCEPT !.state = "running", !.n = 0, !.timer = FALSE]

\* What the lock guards becomes g, RX is published, and fiber f has g.acts left
Leave(f, g) ==
    /\ g.c.xid <= MaxXid
    /\ client' = [g.c EXCEPT !.out = {}]
    /\ acd' = g.acd /\ probing' = g.probing /\ applied' = g.applied
    /\ rxPub' = IF IsRunning(g.c) THEN g.c.rx ELSE "none"
    /\ asked' = asked \cup g.c.out
    /\ acts' = [acts EXCEPT ![f] = g.acts]
    /\ met' = met \cup g.met \cup (IF g.acts # <<>> /\ \E h \in Fibers \ {f} : acts[h] # <<>> THEN {"acts"} ELSE {})

StopClient(g) ==
    Lose(ClientEvents([g EXCEPT !.c = IF IsRunning(@) THEN StopWith(@) ELSE @]))

StartClient(c) ==
    Settle(StartDelayed(IF c.last # None THEN SetState(c, "init-reboot") ELSE c, "now"))

(***************************************************************************)
(* Actions.  A fiber is done with the acts of one step before its next.    *)
(***************************************************************************)
Ready(f) == acts[f] = <<>>

\* The client after the replies in the inbox
TakeReplies(times, same) ==
    LET got(c, q) == Receive(c, q[1], q[2], times, same)
    IN  IF IsRunning(client) THEN FoldLeft(got, client, inbox) ELSE client

\* tick on Core 0: the replies, at most one timer of the client, the timer of
\* the probe, and then what they said: the client's events before the probe's.
\* Timers that are due together are ticks with nothing between them; one that a
\* reply has just set is not due yet.
Tick(k, fire, times, same) ==
    LET c1 == TakeReplies(times, same)
        a1 == IF fire THEN AcdTimeout(acd) ELSE acd
        binds == fire /\ acd.state = "waiting-announce"
        g  == ClientEvents([Inner EXCEPT !.c = Fired(c1, k), !.acd = a1,
                                         !.met = IF binds /\ Contains(c1.ev, "change") THEN {"probe"} ELSE {}])
    IN  /\ Ready("core0")
        /\ fire => acd.timer
        /\ k # "none" => k \in NextTimers(client) /\ c1 = client
        /\ inbox # <<>> \/ k # "none" \/ fire
        /\ Leave("core0", IF binds THEN Bind(g) ELSE g)
        /\ inbox' = <<>> /\ UNCHANGED ourIp

\* tick while another fiber holds the lock
TickBusy ==
    /\ Ready("core0") /\ inbox # <<>>
    /\ inbox' = <<>>
    /\ UNCHANGED <<client, acd, probing, applied, rxPub, asked, acts, ourIp, met>>

\* arp_input: another host uses the address.  Once it is announced it is
\* defended, but only once per window
ArpIn(inWindow) ==
    LET bound == acd.state \in {"announcing", "running"}
    IN  /\ Ready("other") /\ acd.state # "none"
        /\ inWindow => acd.defended
        /\ IF bound /\ ~inWindow
           THEN Leave("other", [Inner EXCEPT !.acd.defended = TRUE])
           ELSE Leave("other", Conflict(Inner))
        /\ UNCHANGED <<inbox, ourIp>>

\* deliver: a reply to something that was asked
Deliver(m, toUs) ==
    /\ Ready("other") /\ (toUs => ourIp # None)
    /\ <<IF m.kind \in {"offer", "rapid"} THEN "discover" ELSE "request", m.xid>> \in asked
    /\ rxPub = "raw" \/ (rxPub = "udp" /\ toUs)
    /\ Len(inbox) < INBOX_MAX /\ inbox' = Append(inbox, <<m, toUs>>)
    /\ UNCHANGED <<client, acd, probing, applied, rxPub, asked, acts, ourIp, met>>

\* configure with a static address set (isSet), or without
Configure(f, isSet) ==
    LET cfg == [kind |-> "static", addr |-> StaticAddr]
        is(x) == x # None /\ x.kind = "static"
        g == IF is(applied) \/ is(probing) THEN Lose(Inner) ELSE Inner
    IN  /\ Ready(f)
        /\ isSet => ~is(applied) /\ ~is(probing)
        /\ Leave(f, CASE isSet -> Probe(StopClient(Inner), cfg)
                      [] ~isSet /\ IsRunning(client) -> g
                      [] ~isSet /\ ~IsRunning(client) -> ClientEvents([g EXCEPT !.c = StartClient(@)]))
        /\ UNCHANGED <<inbox, ourIp>>

\* link_lost, and forget: the last address belongs to the old network too
LinkLost(f) == Ready(f) /\ Leave(f, StopClient(Inner)) /\ UNCHANGED <<inbox, ourIp>>
Forget(f) ==
    /\ Ready(f) /\ Leave(f, [StopClient(Inner) EXCEPT !.c.last = None])
    /\ UNCHANGED <<inbox, ourIp>>

\* run: the next act of fiber f, apply or lost
RunAct(f) ==
    /\ acts[f] # <<>>
    /\ ourIp' = Head(acts[f]) /\ acts' = [acts EXCEPT ![f] = Tail(@)]
    /\ UNCHANGED <<client, acd, probing, applied, inbox, rxPub, asked, met>>

-----------------------------------------------------------------------------
Replies == {m \in Message : m.kind = "nak" => m.addr = CHOOSE a \in Addrs : TRUE}

AddrNext ==
    \/ \E times \in (IF inbox = <<>> THEN {"apart"} ELSE Times), same \in {TRUE, inbox = <<>>},
          fire \in BOOLEAN, k \in NextTimers(client) \cup {"none"} : Tick(k, fire, times, same)
    \/ TickBusy
    \/ \E w \in BOOLEAN : ArpIn(w)
    \/ \E m \in Replies, toUs \in BOOLEAN : Deliver(m, toUs)
    \/ \E f \in Fibers, isSet \in BOOLEAN : Configure(f, isSet)
    \/ \E f \in Fibers : LinkLost(f) \/ Forget(f)
    \/ \E f \in Fibers : RunAct(f)

AddrSpec == AddrInit /\ [][AddrNext]_addrVars

(***************************************************************************)
(* Properties                                                              *)
(***************************************************************************)
Leased == {"bound", "renewing", "rebinding"}

\* An address is used, or probed, only while the DHCP client holds a lease of
\* it or while it is the static one and no client runs: expiry, NAK, decline,
\* a changed lease, a lost link and a new setting all end it.
AppliedIsLeased ==
    \A cfg \in {probing, applied} \ {None} :
        IF cfg.kind = "dhcp"
        THEN client.state \in Leased /\ client.lease = cfg.addr
        ELSE ~IsRunning(client)

\* The address in use is the one that was probed (three probes) and is now
\* defended; the address on probation is the one the probe looks at, and there
\* is a probe only for one of the two (probe, lose and drain).  Not so after a
\* tick in which the probe of one address ends and the lease of another comes:
\* drain hands the end of the first probe to the second address.
ProbedBeforeUse ==
    "probe" \notin met =>
    /\ applied # None => acd.state \in {"announcing", "running"} /\ acd.addr = applied.addr /\ acd.probes = 3
    /\ probing # None => acd.state \in {"waiting-probe", "probing", "waiting-announce"} /\ acd.addr = probing.addr
    /\ acd.state # "none" => (applied # None) # (probing # None)

\* Once the acts are done the stack has the address that is in use and no
\* other (run, apply, lost), unless the acts of two fibers met: an Apply may
\* then run after the Lost that came later.
StackFollows ==
    "acts" \notin met /\ (\A f \in Fibers : Ready(f)) => ourIp = IF applied = None THEN None ELSE applied.addr

\* A lease, offered or granted, comes from the exchange that runs: a reply to an
\* exchange that ended is never taken (the xid check of parse_message), also
\* when it waited in the inbox meanwhile.
LeaseOfThisExchange == client.lease # None => client.grant = client.xid

\* While a request is out the receive path lets its answer through, in the way
\* the state expects it, and none otherwise (send_message, publish_rx).
AnswerHeard ==
    rxPub = CASE client.state \in {"selecting", "rebooting", "requesting", "rebinding"} -> "raw"
              [] client.state = "renewing" -> "udp"
              [] OTHER -> "none"

\* A running client always has a timer that will move it, unless it holds a
\* lease without an end, and a probe always has one; T2 takes a lease that was
\* not renewed into REBINDING when it comes after T1.
NeverStuck ==
    /\ IsRunning(client) => client.resend = "later" \/ client.exp
                            \/ (client.state = "bound" /\ client.times = "endless")
    /\ client.state \in Leased /\ client.exp /\ ~client.t2 /\ client.times = "apart" => client.state = "rebinding"
    /\ probing # None => acd.timer

\* The address that the stack uses was leased in the exchange that runs, was
\* probed, and leaves the stack when it is lost
AddressSound == AppliedIsLeased /\ LeaseOfThisExchange /\ ProbedBeforeUse /\ StackFollows

\* The client goes on: it has a timer, and the answer it waits for gets through
ClientGoesOn == NeverStuck /\ AnswerHeard
=============================================================================
