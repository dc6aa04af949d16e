-------------------------------- MODULE Frag --------------------------------
(***************************************************************************)
(* IPv4 reassembly (net/src/frag.rs).  Fragments arrive in any order, more *)
(* than once or never; a queue per key collects those of a datagram until  *)
(* it is whole, is dropped or is too old.                                  *)
(*                                                                         *)
(* A fragment names the datagram it was cut from, which the code does not  *)
(* see: two datagrams may share a key when their sender comes around with  *)
(* its identification.  Offsets are bytes in units of UNIT; headers and    *)
(* counters are left out.  Time is what a queue has left and how long ago  *)
(* a source was heard.                                                     *)
(***************************************************************************)
EXTENDS Integers, FiniteSetsExt

CONSTANTS
    Frags,          \* fragments: [src, id, off, size, mf, ecn, of]
    UNIT, HIGH_THRESH, FRAG_OVERHEAD, MAX_DIST, FRAG_TIME, PEERS_MAX, MAX_LEN,
    MaxRid          \* bound: fragments counted per source

ASSUME FragAssumption ==
    /\ \A f \in Frags : f.off % UNIT = 0 /\ f.size \in Nat /\ f.mf \in BOOLEAN
    /\ {UNIT, HIGH_THRESH, FRAG_OVERHEAD, MAX_DIST, FRAG_TIME, PEERS_MAX, MAX_LEN, MaxRid} \subseteq Nat

VARIABLES
    queues,     \* per key its queue or NoQueue
    fmem,       \* Defrag::mem
    peers,      \* per source [rid, age] or NoPeer
    got,        \* what the last step delivered: its key and queue, or NoGot
    since,      \* history: per key in time, fragments of its source since its last one
    killed      \* history: keys of datagrams dropped for what they held

fragVars == <<queues, fmem, peers, got, since, killed>>

KeyOf(f) == <<f.src, f.id>>
FragKeys == {KeyOf(f) : f \in Frags}
Sources  == {f.src : f \in Frags}

NoQueue == [here |-> FALSE]
NoPeer  == [here |-> FALSE]
NoGot   == [here |-> FALSE]

\* A Queue; `head' says whether fragment 0 came
FreshQueue(rid) ==
    [here |-> TRUE, frags |-> {}, len |-> 0, meat |-> 0, last |-> FALSE, head |-> FALSE,
     ecn |-> {}, rid |-> rid, left |-> FRAG_TIME, mem |-> 0]

FragInit ==
    /\ queues = [k \in FragKeys |-> NoQueue] /\ fmem = 0
    /\ peers = [s \in Sources |-> NoPeer] /\ got = NoGot
    /\ since = [k \in FragKeys |-> 0] /\ killed = {}

\* The queue of k is there and not overdue
Lives(k) == queues[k].here /\ queues[k].left > 0

\* What a fragment costs
CostOf(n) == n + FRAG_OVERHEAD

\* Above the threshold no fragment is taken
AboveThresh == fmem > HIGH_THRESH

\* A fragment from s: its count goes up; a new source makes a full table
\* forget the sources not heard of for long
Heard(s) ==
    LET known == {p \in Sources : peers[p].here}
    IN  [p \in Sources |->
            IF p = s THEN [here |-> TRUE, rid |-> (IF s \in known THEN peers[s].rid ELSE 0) + 1, age |-> 0]
            ELSE IF s \notin known /\ Cardinality(known) >= PEERS_MAX /\ p \in known /\ peers[p].age >= FRAG_TIME
            THEN NoPeer ELSE peers[p]]

\* ip_frag_too_far: the difference of two counters, which wraps below zero
TooFar(q, rid) == q.frags # {} /\ (rid - q.rid > MAX_DIST \/ rid < q.rid)

\* Where a fragment ends; more fragments follow only at whole units
EndOf(f) ==
    LET end == f.off + f.size
    IN  IF f.mf THEN end - (end % UNIT) ELSE end

\* The fragment contradicts what is known of the length, or is empty
Misfits(q, f) ==
    \/ ~f.mf /\ (EndOf(f) < q.len \/ (q.last /\ EndOf(f) # q.len))
    \/ f.mf /\ EndOf(f) > q.len /\ q.last
    \/ EndOf(f) = f.off

\* What the fragment tells of the length
Told(q, f) ==
    [q EXCEPT !.last = @ \/ ~f.mf, !.len = IF f.mf /\ EndOf(f) <= @ THEN @ ELSE EndOf(f)]

\* Mutant: only the fragment before is looked at
OverlapsLeft(q, f) == {g \in q.frags : g.off <= f.off /\ g.end > f.off}

Overlaps(q, f) == {g \in q.frags : g.off < EndOf(f) /\ g.end > f.off}

\* The bytes of f that are there already
Covered(q, f) ==
    LET common(g) == Min({g.end, EndOf(f)}) - Max({g.off, f.off})
    IN  MapThenSumSet(common, Overlaps(q, f))

\* The fragment goes into the queue
Insert(q, f) ==
    LET n == EndOf(f) - f.off
    IN  [q EXCEPT !.frags = @ \union {[off |-> f.off, end |-> EndOf(f), of |-> f.of, mf |-> f.mf]},
                  !.meat = @ + n, !.mem = @ + CostOf(n), !.ecn = @ \union {f.ecn},
                  !.head = @ \/ f.off = 0]

Whole(q) == q.head /\ q.last /\ q.meat = q.len

\* ecn_of and the limit on the length: the whole datagram can be
CanBe(q) == ~("not" \in q.ecn /\ q.ecn # {"not"}) /\ q.len <= MAX_LEN

\* Mutant: the memory of a queue that starts over is not given back
GivenBackNever(q, rid) == 0

\* The memory of a queue that starts over
GivenBack(q, rid) == IF TooFar(q, rid) THEN q.mem ELSE 0

\* Defrag::input.  r is the queue as the fragment finds it, t with what it
\* tells of the length, u with the fragment in it
FragInput(f) ==
    LET k    == KeyOf(f)
        rid  == Heard(f.src)[f.src].rid
        q    == IF queues[k].here THEN queues[k] ELSE FreshQueue(0)
        r    == IF TooFar(q, rid) THEN FreshQueue(rid) ELSE [q EXCEPT !.rid = rid]
        mem  == fmem - GivenBack(q, rid)
        t    == Told(r, f)
        u    == Insert(t, f)
        drop == Misfits(r, f) \/ (Overlaps(t, f) # {} /\ Covered(t, f) # EndOf(f) - f.off)
        Becomes(nq, m) == queues' = [queues EXCEPT ![k] = nq] /\ fmem' = m
    IN  \/ AboveThresh /\ got' = NoGot /\ UNCHANGED <<queues, fmem, peers, since, killed>>
        \/ /\ ~AboveThresh /\ rid <= MaxRid
           /\ peers' = Heard(f.src)
           /\ since' = [h \in FragKeys |-> IF h = k \/ ~Lives(h) THEN 0
                                           ELSE since[h] + (IF h[1] = f.src THEN 1 ELSE 0)]
           /\ killed' = IF drop THEN killed \union {k} ELSE killed
           /\ \/ drop /\ Becomes(NoQueue, mem - r.mem) /\ got' = NoGot
              \/ ~drop /\ Overlaps(t, f) # {} /\ Becomes(t, mem) /\ got' = NoGot
              \/ ~drop /\ Overlaps(t, f) = {} /\ ~Whole(u) /\ Becomes(u, mem + u.mem - t.mem) /\ got' = NoGot
              \/ /\ ~drop /\ Overlaps(t, f) = {} /\ Whole(u) /\ Becomes(NoQueue, mem - t.mem)
                 /\ got' = IF CanBe(u) THEN [here |-> TRUE, key |-> k, queue |-> u] ELSE NoGot

\* Defrag::expire, from the network's tick
Expire ==
    LET due == {k \in FragKeys : queues[k].here /\ queues[k].left = 0}
        memOf(k) == queues[k].mem
    IN  /\ due # {}
        /\ queues' = [k \in FragKeys |-> IF k \in due THEN NoQueue ELSE queues[k]]
        /\ fmem' = fmem - MapThenSumSet(memOf, due)
        /\ got' = NoGot /\ UNCHANGED <<peers, since, killed>>

FragTick ==
    /\ queues' = [k \in FragKeys |-> IF queues[k].here /\ queues[k].left > 0
                                     THEN [queues[k] EXCEPT !.left = @ - 1] ELSE queues[k]]
    /\ peers' = [s \in Sources |-> IF peers[s].here /\ peers[s].age < FRAG_TIME
                                   THEN [peers[s] EXCEPT !.age = @ + 1] ELSE peers[s]]
    /\ got' = NoGot /\ UNCHANGED <<fmem, since, killed>>

FragNext == (\E f \in Frags : FragInput(f)) \/ Expire \/ FragTick

FragSpec == FragInit /\ [][FragNext]_fragVars

(***************************************************************************)
(* Properties                                                              *)
(***************************************************************************)
\* A key of one datagram, of which all fragments travel
Single(k) ==
    LET of == {f \in Frags : KeyOf(f) = k}
    IN  (\E f \in of : ~f.mf) /\ \A f, g \in of : f.of = g.of

\* Types; memory stays within the threshold and one fragment, and no queue is
\* kept that holds nothing
FragTypeOK ==
    /\ \A k \in FragKeys : queues[k].here => queues[k].left \in 0 .. FRAG_TIME /\ queues[k].frags # {}
    /\ fmem >= 0 /\ (fmem > HIGH_THRESH => \E f \in Frags : fmem <= HIGH_THRESH + CostOf(EndOf(f) - f.off))
    /\ \A s \in Sources : peers[s].here => peers[s].rid \in 1 .. MaxRid
    /\ killed \subseteq FragKeys

\* The memory that is counted is that of the fragments in the queues, after
\* any sequence of duplicates, overlaps, restarts and timeouts: otherwise the
\* threshold closes reassembly for good (input, kill, expire)
MemAccounted ==
    LET cost(g) == CostOf(g.end - g.off)
        memOf(k) == MapThenSumSet(cost, queues[k].frags)
    IN  fmem = MapThenSumSet(memOf, {k \in FragKeys : queues[k].here})

\* A datagram is delivered as it was sent, from all its fragments and once
\* each, in whatever order and how often they came, if its key was its own
DeliveredAsSent ==
    got.here /\ Single(got.key) =>
        {<<g.off, g.end>> : g \in got.queue.frags} =
            {<<f.off, EndOf(f)>> : f \in {h \in Frags : KeyOf(h) = got.key}}

\* Whatever shares a key: each byte of what is delivered comes from one
\* fragment, and the length is what a last fragment said (the sum of the
\* lengths stands for having them all)
DeliveredWhole ==
    got.here => /\ \A b \in 0 .. got.queue.len - 1 :
                      Cardinality({g \in got.queue.frags : g.off <= b /\ b < g.end}) = 1
                /\ \A g \in got.queue.frags : g.end <= got.queue.len

\* Fragments of one datagram never drop it, and while it waits one of them is
\* still to come: once all are there it has been delivered
GoodArrives ==
    \A k \in FragKeys : (k \in killed \/ queues[k].here) /\ Single(k) =>
        /\ k \notin killed
        /\ \E f \in Frags : KeyOf(f) = k /\ \A g \in queues[k].frags : g.off # f.off

\* A queue starts over only because of MAX_DIST fragments of its source: the
\* table of sources forgets none that has a queue which is not overdue
DistanceKept ==
    \A k \in FragKeys : Lives(k) =>
        peers[k[1]].here /\ peers[k[1]].rid - queues[k].rid = since[k]

\* What was sent as one datagram arrives as that datagram, and what is put
\* together has each of its bytes once
DatagramsAsSent == DeliveredAsSent /\ DeliveredWhole /\ GoodArrives

\* The counts that close reassembly or start a queue over are those of what is
\* in the queues and what came from the source
FragAccounted == MemAccounted /\ DistanceKept
=============================================================================
