-------------------------------- MODULE Tcp --------------------------------
(***************************************************************************)
(* One TCP connection between two hosts that both run net/tcp.rs: the      *)
(* client opens it, the server listens.  The network loses, duplicates and *)
(* reorders segments.  One action per entry point (connect_start, accept,  *)
(* send, recv, close), per timer of tick, and for input, which takes a     *)
(* segment through the checks of the code in their order.                  *)
(*                                                                         *)
(* Abstracted: a byte is its position in the stream; the congestion and    *)
(* receive windows, pacing and the device decide how many waiting bytes go *)
(* out at a time, which is left open, and so is which of the segments in   *)
(* flight is sent again and when (recovery.rs), and whether an ACK goes at *)
(* once or later (ack.rs).  Timestamps are left out: what PAWS drops is a  *)
(* segment the network may as well lose.  Sequence numbers do not wrap.    *)
(* The reassembly queue is the set of the bytes in it: how the code sorts  *)
(* and trims the segments of the queue is taken as correct.                *)
(***************************************************************************)
EXTENDS Naturals, Sequences, FiniteSets, SequencesExt

CONSTANTS
    MaxBytes,   \* bound: bytes that the two ends send together
    Mss,        \* bytes that fit a segment
    NetCap,     \* bound: different segments in the network
    MaxIsn      \* bound: sequence number spaces the server draws

VARIABLES
    conn,       \* the connection of each end (struct TcpConn)
    tw,         \* its entry in the TIME-WAIT table
    req,        \* the server's request sock
    net,
    isns,       \* number spaces drawn by the server
    queued,     \* history: bytes each end gave to send
    shut,       \* history: ends that closed gracefully
    taken,      \* history: the most bytes each end took in order
    eof,        \* history: ends that took the peer's FIN
    cause       \* history: something happened that may end the connection early

tcpVars == <<conn, tw, req, net, isns, queued, shut, taken, eof, cause>>

Ends    == {"client", "server"}
Peer(s) == IF s = "client" THEN "server" ELSE "client"

Synchronized == {"SynReceived", "Established", "FinWait1", "FinWait2", "CloseWait", "Closing", "LastAck", "TimeWait"}
SendStates   == {"Established", "CloseWait", "FinWait1", "Closing", "LastAck"}

\* The ISN of the client is 0, the server draws 10, 20, ...
Isn(k) == 10 * k

\* stream: what came in order so far; ooo: positions and bytes ahead of a gap;
\* unread: bytes the owner has not read; buf: bytes from una on
Conn == [state : {"SynSent"} \union Synchronized \union {"Closed"}, una : Nat, nxt : Nat, rcvNxt : Nat,
         stream : Seq(Nat), unread : BOOLEAN, ooo : SUBSET (Nat \X Nat), buf : Seq(Nat),
         finQueued : BOOLEAN, finSent : BOOLEAN, closed : BOOLEAN, error : BOOLEAN, released : BOOLEAN, accepted : BOOLEAN]
NoConn == [state |-> "none"]

Tw   == [sub : {"FinWait2", "TimeWait"}, rcvNxt : Nat, sndNxt : Nat]
NoTw == [sub |-> "none"]

Req   == [here : BOOLEAN, isn : Nat, rcvNxt : Nat]
NoReq == [here |-> FALSE, isn |-> 0, rcvNxt |-> 0]

Seg(s, flags, seq, ack, data) == [to |-> Peer(s), flags |-> flags, seq |-> seq, ack |-> ack, data |-> data]

EndSeq(g) == g.seq + Len(g.data) + (IF "SYN" \in g.flags THEN 1 ELSE 0) + (IF "FIN" \in g.flags THEN 1 ELSE 0)

Blank(state, una, nxt, rcvNxt) ==
    [state |-> state, una |-> una, nxt |-> nxt, rcvNxt |-> rcvNxt, stream |-> <<>>, unread |-> FALSE, ooo |-> {},
     buf |-> <<>>, finQueued |-> FALSE, finSent |-> FALSE, closed |-> FALSE, error |-> FALSE, released |-> FALSE,
     accepted |-> state = "SynSent"]

TcpInit ==
    /\ conn = [s \in Ends |-> NoConn] /\ tw = [s \in Ends |-> NoTw] /\ req = NoReq
    /\ net = {} /\ isns = 0
    /\ queued = [s \in Ends |-> 0] /\ shut = {} /\ taken = [s \in Ends |-> 0] /\ eof = {} /\ cause = FALSE

(***************************************************************************)
(* Sending                                                                 *)
(***************************************************************************)
\* An ACK with the state of the connection, a reset that answers a segment
AckOf(s, c) == Seg(s, {"ACK"}, c.nxt, c.rcvNxt, <<>>)
Reset(s, g) == IF "ACK" \in g.flags THEN Seg(s, {"RST"}, g.ack, 0, <<>>) ELSE Seg(s, {"RST", "ACK"}, 0, EndSeq(g), <<>>)

\* The network takes any of the segments out: the others are lost
Transmit(old, out) ==
    \E k \in SUBSET out : Cardinality(old \union k) <= NetCap /\ net' = old \union k

\* What write_xmit may send now: n bytes, and whether the FIN goes with the
\* last one.  The windows, pacing and the device end the loop anywhere.
Unsent(c) == Len(c.buf) - (c.nxt - c.una)
MayXmit(c) ==
    IF c.state \notin SendStates \/ c.finSent THEN {[n |-> 0, fin |-> FALSE]}
    ELSE {x \in [n : 0..Unsent(c), fin : BOOLEAN] :
             /\ x.n % Mss = 0 \/ x.n = Unsent(c)
             /\ x.fin => c.finQueued /\ x.n = Unsent(c)
             /\ c.finQueued /\ x.n = Unsent(c) /\ x.n > 0 => x.fin}

\* A segment with n bytes of the send buffer from seq on
Piece(s, c, seq, n, fin) ==
    Seg(s, IF fin THEN {"ACK", "FIN"} ELSE {"ACK"}, seq, c.rcvNxt, SubSeq(c.buf, seq - c.una + 1, seq - c.una + n))

\* The segments that write_xmit cuts, the FIN on the last byte or alone
Pieces(s, c, x) ==
    IF x.n = 0 THEN IF x.fin THEN {Piece(s, c, c.nxt, 0, TRUE)} ELSE {}
    ELSE {LET from == i * Mss
              n    == IF x.n - from < Mss THEN x.n - from ELSE Mss
          IN  Piece(s, c, c.nxt + from, n, x.fin /\ from + n = x.n) : i \in 0..((x.n - 1) \div Mss)}
Xmitted(c, x) == [c EXCEPT !.nxt = @ + x.n + (IF x.fin THEN 1 ELSE 0), !.finSent = @ \/ x.fin]

\* A Closed connection its owner let go of is gone (tcp_done)
Keep(s, c) == conn' = [conn EXCEPT ![s] = IF c.state = "Closed" /\ c.released THEN NoConn ELSE c]

(***************************************************************************)
(* The owner's calls                                                       *)
(***************************************************************************)
Held(s)  == conn[s] # NoConn /\ conn[s].accepted /\ ~conn[s].released
Early(b) == cause' = (cause \/ b)

\* connect_start; the model opens one connection
Connect ==
    /\ conn["client"] = NoConn /\ tw["client"] = NoTw /\ ~cause /\ queued["client"] = 0 /\ shut = {} /\ net = {}
    /\ conn' = [conn EXCEPT !["client"] = Blank("SynSent", 0, 1, 0)]
    /\ Transmit(net, {Seg("client", {"SYN"}, 0, 0, <<>>)})
    /\ UNCHANGED <<tw, req, isns, queued, shut, taken, eof, cause>>

\* accept hands the connection to its owner
AcceptConn ==
    /\ conn["server"] # NoConn /\ ~conn["server"].accepted
    /\ conn' = [conn EXCEPT !["server"].accepted = TRUE]
    /\ UNCHANGED <<tw, req, net, isns, queued, shut, taken, eof, cause>>

\* send: one more byte, then write_xmit
Send(s) ==
    /\ Held(s) /\ conn[s].state \in {"Established", "CloseWait"} /\ ~conn[s].finQueued
    /\ queued["client"] + queued["server"] < MaxBytes
    /\ LET c == [conn[s] EXCEPT !.buf = Append(@, queued[s] + 1)]
       IN  \E x \in MayXmit(c) : Keep(s, Xmitted(c, x)) /\ Transmit(net, Pieces(s, c, x))
    /\ queued' = [queued EXCEPT ![s] = @ + 1]
    /\ UNCHANGED <<tw, req, isns, shut, taken, eof, cause>>

\* recv: the owner takes what is there; a window update is an AckLater
Recv(s) ==
    /\ Held(s) /\ conn[s].unread
    /\ conn' = [conn EXCEPT ![s].unread = FALSE]
    /\ UNCHANGED <<tw, req, net, isns, queued, shut, taken, eof, cause>>

\* close: the state the FIN leads to
CloseState(c) == IF c.state = "Established" THEN "FinWait1" ELSE "LastAck"

\* close: a reset if bytes were left unread, else the FIN after all that is
\* queued; a connection never established or over is dropped
CloseConn(s) ==
    /\ Held(s)
    /\ LET c == conn[s]
           f == [c EXCEPT !.state = CloseState(c), !.finQueued = TRUE, !.released = TRUE]
       IN  \/ /\ c.state \notin {"Established", "CloseWait"}
              /\ conn' = [conn EXCEPT ![s] = NoConn] /\ net' = net
              /\ Early(c.state = "SynSent") /\ shut' = shut
           \/ /\ c.state \in {"Established", "CloseWait"} /\ (c.unread \/ c.ooo # {})
              /\ conn' = [conn EXCEPT ![s] = NoConn]
              /\ Transmit(net, {Seg(s, {"RST", "ACK"}, c.nxt, c.rcvNxt, <<>>)})
              /\ Early(TRUE) /\ shut' = shut
           \/ /\ c.state \in {"Established", "CloseWait"} /\ ~c.unread /\ c.ooo = {}
              /\ \E x \in MayXmit(f) : Keep(s, Xmitted(f, x)) /\ Transmit(net, Pieces(s, f, x))
              /\ shut' = shut \union {s} /\ Early(FALSE)
    /\ UNCHANGED <<tw, req, isns, queued, taken, eof>>

(***************************************************************************)
(* The timers of tick                                                      *)
(***************************************************************************)
\* The SYN again, or the connection fails
SynTimer ==
    /\ conn["client"] # NoConn /\ conn["client"].state = "SynSent"
    /\ \/ Transmit(net, {Seg("client", {"SYN"}, 0, 0, <<>>)}) /\ UNCHANGED <<conn, cause>>
       \/ Keep("client", [conn["client"] EXCEPT !.state = "Closed", !.error = TRUE]) /\ Early(TRUE) /\ net' = net
    /\ UNCHANGED <<tw, req, isns, queued, shut, taken, eof>>

\* What the driver refused earlier, or a window held back
XmitLater(s) ==
    /\ conn[s] # NoConn /\ conn[s].state \in SendStates
    /\ \E x \in MayXmit(conn[s]) :
          (x.n > 0 \/ x.fin) /\ Keep(s, Xmitted(conn[s], x)) /\ Transmit(net, Pieces(s, conn[s], x))
    /\ UNCHANGED <<tw, req, isns, queued, shut, taken, eof, cause>>

\* The delayed ACK, the window update of recv
AckLater(s) ==
    /\ conn[s] # NoConn /\ conn[s].state \in Synchronized
    /\ Transmit(net, {AckOf(s, conn[s])})
    /\ UNCHANGED <<conn, tw, req, isns, queued, shut, taken, eof, cause>>

\* Bytes in flight go again, from any place of the retransmit queue and cut
\* or joined to any length (retransmit_skb), the FIN included
Retransmit(s) ==
    /\ conn[s] # NoConn /\ conn[s].state \in SendStates
    /\ LET c    == conn[s]
           last == c.nxt - (IF c.finSent THEN 1 ELSE 0)
       IN  \E seq \in c.una..(c.nxt - 1), n \in 0..Mss :
              /\ seq + n <= last /\ (n > 0 \/ seq = last)
              /\ Transmit(net, {Piece(s, c, seq, n, c.finSent /\ seq + n = last)})
    /\ UNCHANGED <<conn, tw, req, isns, queued, shut, taken, eof, cause>>

\* No answer for too long: the retransmit or probe timer gives up, with an
\* error, or a closed connection is left alone (FIN_TIMEOUT_TICKS), without one
GiveUp(s) ==
    /\ conn[s] # NoConn /\ conn[s].state \in SendStates
    /\ \/ /\ conn[s].nxt # conn[s].una \/ Unsent(conn[s]) > 0
          /\ Keep(s, [conn[s] EXCEPT !.state = "Closed", !.error = TRUE])
       \/ /\ conn[s].state \in {"FinWait1", "Closing", "LastAck"}
          /\ Keep(s, [conn[s] EXCEPT !.state = "Closed"])
    /\ Early(TRUE)
    /\ UNCHANGED <<tw, req, net, isns, queued, shut, taken, eof>>

\* The TIME-WAIT timer
TwTimer(s) ==
    /\ tw[s] # NoTw
    /\ tw' = [tw EXCEPT ![s] = NoTw] /\ Early(TRUE)
    /\ UNCHANGED <<conn, req, net, isns, queued, shut, taken, eof>>

\* listen::timers: the SYN-ACK again, or the request is dropped
SynAck(r) == Seg("server", {"SYN", "ACK"}, r.isn, r.rcvNxt, <<>>)
ReqTimer ==
    /\ req.here
    /\ \/ Transmit(net, {SynAck(req)}) /\ UNCHANGED <<req, cause>>
       \/ req' = NoReq /\ Early(TRUE) /\ net' = net
    /\ UNCHANGED <<conn, tw, isns, queued, shut, taken, eof>>

(***************************************************************************)
(* input: a segment for a connection                                       *)
(***************************************************************************)
\* recovery::ack: what the peer acknowledged leaves the send buffer; its FIN
\* is not in it
Acked(c, g) ==
    IF g.ack <= c.una THEN c
    ELSE LET n == g.ack - c.una
         IN  [c EXCEPT !.una = g.ack, !.buf = SubSeq(@, (IF n < Len(@) THEN n ELSE Len(@)) + 1, Len(@))]

\* Mutant: any ACK after our FIN counts as one of it
FinAckedEarly(c) ==
    IF ~c.finSent THEN c
    ELSE [c EXCEPT !.state = CASE @ = "FinWait1" -> "FinWait2" [] @ = "Closing" -> "TimeWait"
                               [] @ = "LastAck" -> "Closed" [] OTHER -> @]

\* Our FIN acknowledged
FinAcked(c) ==
    IF ~c.finSent \/ c.una # c.nxt THEN c
    ELSE [c EXCEPT !.state = CASE @ = "FinWait1" -> "FinWait2" [] @ = "Closing" -> "TimeWait"
                               [] @ = "LastAck" -> "Closed" [] OTHER -> @]

\* Data, with a byte that is new, for a side that closed its direction
NewData(c, g) == g.data # <<>> /\ g.seq + Len(g.data) > c.rcvNxt
AbortOnData(c, g) ==
    /\ c.released \/ c.state \in {"CloseWait", "Closing", "LastAck", "TimeWait"}
    /\ NewData(c, g)

\* Mutant: the segment moves up but keeps its old bytes
NewTailWhole(c, g) ==
    IF g.data # <<>> /\ g.seq < c.rcvNxt /\ g.seq + Len(g.data) > c.rcvNxt THEN [g EXCEPT !.seq = c.rcvNxt] ELSE g

\* "partial packet": the new tail of a segment that starts in what we have
NewTail(c, g) ==
    IF g.data # <<>> /\ g.seq < c.rcvNxt /\ g.seq + Len(g.data) > c.rcvNxt
    THEN [g EXCEPT !.seq = c.rcvNxt, !.data = SubSeq(@, c.rcvNxt - g.seq + 1, Len(@))]
    ELSE g

\* The bytes of the reassembly queue that continue at seq without a gap
Run(c, seq) ==
    LET at == {p[1] : p \in c.ooo}
        n  == CHOOSE k \in 0..Cardinality(at) : (\A i \in 0..(k - 1) : seq + i \in at) /\ seq + k \notin at
    IN  [i \in 1..n |-> (CHOOSE p \in c.ooo : p[1] = seq + i - 1)[2]]

\* Data: in order it joins the stream, all of it or, without room, nothing (a
\* part of it is what a shorter segment does), and takes along what waited
\* behind it; ahead of a gap it waits; behind, it is known
TakeData(c, g, room) ==
    IF g.data = <<>> \/ c.state \notin {"Established", "FinWait1", "FinWait2"} \/ g.seq < c.rcvNxt \/ ~room THEN c
    ELSE IF g.seq = c.rcvNxt
    THEN LET more == Run(c, c.rcvNxt + Len(g.data))
             nxt  == c.rcvNxt + Len(g.data) + Len(more)
         IN  [c EXCEPT !.stream = @ \o g.data \o more, !.rcvNxt = nxt, !.unread = TRUE,
                       !.ooo = {p \in @ : p[1] >= nxt}]
    ELSE [c EXCEPT !.ooo = @ \union {<<g.seq + i - 1, g.data[i]>> : i \in 1..Len(g.data)}]

\* tcp_fin: the peer's FIN counts right after the data of its segment
FinHere(c, g) == "FIN" \in g.flags /\ g.seq + Len(g.data) = c.rcvNxt /\ c.state \in {"Established", "FinWait1", "FinWait2"}
TakeFin(c, g) ==
    IF ~FinHere(c, g) THEN c
    ELSE [c EXCEPT !.rcvNxt = @ + 1, !.closed = TRUE,
                   !.state = CASE @ = "Established" -> "CloseWait" [] @ = "FinWait1" -> "Closing"
                               [] OTHER -> "TimeWait"]

\* Mutant: whatever its owner released moves to the table
MoveToTwAlways(s, c) ==
    IF c.state = "TimeWait" \/ c.released
    THEN /\ tw' = [tw EXCEPT ![s] = [sub |-> c.state, rcvNxt |-> c.rcvNxt, sndNxt |-> c.nxt]]
         /\ Keep(s, [c EXCEPT !.state = "Closed"])
    ELSE tw' = tw /\ Keep(s, c)

\* tcp_time_wait: the entry that takes the place of the connection
MoveToTw(s, c) ==
    IF c.state = "TimeWait" \/ (c.state = "FinWait2" /\ c.released)
    THEN /\ tw' = [tw EXCEPT ![s] = [sub |-> c.state, rcvNxt |-> c.rcvNxt, sndNxt |-> c.nxt]]
         /\ Keep(s, [c EXCEPT !.state = "Closed"])
    ELSE tw' = tw /\ Keep(s, c)

Witness(s, c) ==
    /\ taken' = [taken EXCEPT ![s] = IF Len(c.stream) > @ THEN Len(c.stream) ELSE @]
    /\ eof' = IF c.closed THEN eof \union {s} ELSE eof

\* The segment has passed the checks: ACK, data, FIN, then what may go out.  A
\* FIN after our own close is answered at once; other ACKs may come later
\* (AckLater), but from a connection that closes here only now.
Process(s, c, g, old) ==
    LET c1    == FinAcked(Acked(c, g))
        abort == AbortOnData(c1, g)
        c2    == IF abort THEN [c1 EXCEPT !.state = "Closed", !.error = TRUE] ELSE c1
        h     == NewTail(c2, g)
    IN  \E room \in {TRUE, g.data = <<>>} :
           LET c3  == TakeData(c2, h, room)
               c4  == TakeFin(c3, h)
               now == FinHere(c3, h) /\ c3.state # "Established"
           IN  \E x \in MayXmit(c4), ack \in {now, now \/ c4.state = "Closed"} :
                  /\ MoveToTw(s, Xmitted(c4, x))
                  /\ Transmit(old, Pieces(s, c4, x) \union (IF abort THEN {Reset(s, g)} ELSE {})
                                   \union (IF ack THEN {AckOf(s, Xmitted(c4, x))} ELSE {}))
                  /\ Witness(s, c4) /\ Early(abort /\ NewData(c1, g))

\* A segment for a synchronized connection.  The second alternative is a
\* segment that ends before what was last advertised, which the model lets be
\* any place up to rcvNxt.
Synced(s, c, g, old) ==
    LET ack == {AckOf(s, c)}
        drop(out) == Keep(s, c) /\ tw' = tw /\ Transmit(old, out) /\ Witness(s, c) /\ Early(FALSE)
    IN  \/ "SYN" \in g.flags /\ drop(ack)
        \/ "SYN" \notin g.flags /\ "ACK" \notin g.flags /\ drop({})
        \/ "SYN" \notin g.flags /\ "ACK" \in g.flags /\ EndSeq(g) < c.rcvNxt /\ drop(ack)
        \/ "SYN" \notin g.flags /\ "ACK" \in g.flags /\ g.ack > c.nxt /\ drop(ack)
        \/ "SYN" \notin g.flags /\ "ACK" \in g.flags /\ g.ack <= c.nxt /\ Process(s, c, g, old)

\* A reset counts at exactly rcvNxt, in SYN-SENT if it acknowledges the SYN
Resets(c, g) == IF c.state = "SynSent" THEN "ACK" \in g.flags /\ g.ack = c.nxt ELSE g.seq = c.rcvNxt

InputRst(s, c, g, old) ==
    /\ IF Resets(c, g)
       THEN Keep(s, [c EXCEPT !.state = "Closed", !.error = TRUE]) /\ Transmit(old, {})
       ELSE /\ Keep(s, c)
            /\ Transmit(old, IF c.state # "SynSent" /\ g.seq > c.rcvNxt THEN {AckOf(s, c)} ELSE {})
    /\ UNCHANGED <<tw, taken, eof, cause>>

\* SYN-SENT: only the SYN-ACK of our SYN opens the connection
InputSynSent(s, c, g, old) ==
    /\ IF "ACK" \in g.flags /\ g.ack # c.nxt
       THEN Keep(s, c) /\ Transmit(old, {Reset(s, g)})
       ELSE IF {"SYN", "ACK"} \subseteq g.flags
       THEN LET e == [c EXCEPT !.state = "Established", !.una = g.ack, !.rcvNxt = g.seq + 1]
            IN  Keep(s, e) /\ Transmit(old, {AckOf(s, e)})
       ELSE Keep(s, c) /\ Transmit(old, {})
    /\ UNCHANGED <<tw, taken, eof, cause>>

(***************************************************************************)
(* input: a segment for a request, a TIME-WAIT entry or the listener       *)
(***************************************************************************)
\* Nothing but the network, the request and the entry change
Answer(out, old) == Transmit(old, out) /\ UNCHANGED <<conn, taken, eof>>

\* The listener takes a SYN (conn_request; the bound is a full backlog) and
\* resets an ACK; without one every segment but a reset is reset
InputListen(s, g, old) ==
    IF s = "server" /\ "ACK" \notin g.flags /\ "RST" \notin g.flags /\ "SYN" \in g.flags
    THEN IF isns < MaxIsn
         THEN LET r == [here |-> TRUE, isn |-> Isn(isns + 1), rcvNxt |-> g.seq + 1]
              IN  req' = r /\ isns' = isns + 1 /\ Answer({SynAck(r)}, old)
         ELSE UNCHANGED <<req, isns>> /\ Answer({}, old)
    ELSE /\ UNCHANGED <<req, isns>>
         /\ Answer(IF "RST" \in g.flags \/ (s = "server" /\ "ACK" \notin g.flags) THEN {} ELSE {Reset(s, g)}, old)

\* tcp_in_window, the window being wide
InWindow(g, rcvNxt) == g.seq = rcvNxt \/ EndSeq(g) > rcvNxt

\* timewait::state_process: what the segment leads to
Verdict(t, g) ==
    IF t.sub = "FinWait2"
    THEN CASE ~InWindow(g, t.rcvNxt) -> "Ack"
           [] "RST" \in g.flags -> "Kill"
           [] "SYN" \in g.flags /\ g.seq >= t.rcvNxt -> "Rst"
           [] "ACK" \notin g.flags \/ EndSeq(g) <= t.rcvNxt \/ EndSeq(g) = g.seq -> "Success"
           [] "FIN" \notin g.flags \/ EndSeq(g) # t.rcvNxt + 1 -> "Rst"
           [] OTHER -> "Fin"
    ELSE CASE g.seq = t.rcvNxt /\ "RST" \in g.flags -> "Kill"
           [] g.seq = t.rcvNxt /\ EndSeq(g) = g.seq -> "Success"
           [] g.flags = {"SYN"} /\ g.seq > t.rcvNxt -> "Syn"
           [] "RST" \notin g.flags -> "Ack"
           [] OTHER -> "Success"

\* A 4-tuple in TIME-WAIT answers for itself
InputTw(s, g, old) ==
    LET t     == tw[s]
        v     == Verdict(t, g)
        after == IF v = "Fin" THEN [t EXCEPT !.sub = "TimeWait", !.rcvNxt = EndSeq(g)] ELSE t
    IN  /\ Early(v = "Rst")
        /\ CASE v = "Success" -> UNCHANGED <<tw, req, isns>> /\ Answer({}, old)
             [] v = "Kill" -> tw' = [tw EXCEPT ![s] = NoTw] /\ UNCHANGED <<req, isns>> /\ Answer({}, old)
             [] v = "Rst" \/ (v = "Syn" /\ s = "server") -> tw' = [tw EXCEPT ![s] = NoTw] /\ InputListen(s, g, old)
             [] OTHER -> /\ tw' = [tw EXCEPT ![s] = after] /\ UNCHANGED <<req, isns>>
                         /\ Transmit(old, {Seg(s, {"ACK"}, after.sndNxt, after.rcvNxt, <<>>)})
                         /\ eof' = (IF v = "Fin" THEN eof \union {s} ELSE eof)
                         /\ UNCHANGED <<conn, taken>>

\* check_req: the ACK of the SYN-ACK makes the connection, which then takes
\* the segment (syn_recv_sock; the accept queue has room)
InputReq(g, old) ==
    LET ack    == {Seg("server", {"ACK"}, req.isn + 1, req.rcvNxt, <<>>)}
        synGot == g.flags = {"SYN"} /\ g.seq + 1 = req.rcvNxt
        other  == "ACK" \in g.flags /\ "RST" \notin g.flags /\ g.ack # req.isn + 1
        past   == ~synGot /\ ~other
        in     == past /\ InWindow(g, req.rcvNxt)
    IN  \/ synGot /\ UNCHANGED <<tw, req, isns, cause>> /\ Answer({SynAck(req)}, old)
        \/ other /\ tw["server"] # NoTw /\ InputTw("server", g, old)
        \/ other /\ tw["server"] = NoTw /\ UNCHANGED <<tw, cause>> /\ InputListen("server", g, old)
        \/ /\ past /\ ~in
           /\ UNCHANGED <<tw, req, isns, cause>> /\ Answer(IF "RST" \in g.flags THEN {} ELSE ack, old)
        \/ /\ in /\ "RST" \in g.flags /\ UNCHANGED <<tw, isns, cause>>
           /\ IF g.seq # req.rcvNxt THEN req' = req /\ Answer(ack, old) ELSE req' = NoReq /\ Answer({}, old)
        \/ /\ in /\ "RST" \notin g.flags /\ "ACK" \in g.flags
           /\ req' = NoReq /\ isns' = isns
           /\ Synced("server", Blank("Established", req.isn + 1, req.isn + 1, req.rcvNxt), g, old)

\* input
TcpInput(g, keep) ==
    LET s    == g.to
        c    == conn[s]
        old  == IF keep THEN net ELSE net \ {g}
        live == c # NoConn /\ c.state # "Closed"
    IN  /\ \/ live /\ "RST" \in g.flags /\ InputRst(s, c, g, old) /\ UNCHANGED <<req, isns>>
           \/ live /\ "RST" \notin g.flags /\ c.state = "SynSent" /\ InputSynSent(s, c, g, old) /\ UNCHANGED <<req, isns>>
           \/ live /\ "RST" \notin g.flags /\ c.state # "SynSent" /\ Synced(s, c, g, old) /\ UNCHANGED <<req, isns>>
           \/ ~live /\ s = "server" /\ req.here /\ InputReq(g, old)
           \/ ~live /\ ~(s = "server" /\ req.here) /\ tw[s] # NoTw /\ InputTw(s, g, old)
           \/ ~live /\ ~(s = "server" /\ req.here) /\ tw[s] = NoTw /\ UNCHANGED <<tw, cause>> /\ InputListen(s, g, old)
        /\ UNCHANGED <<queued, shut>>

TcpNext ==
    \/ Connect \/ AcceptConn \/ SynTimer \/ ReqTimer
    \/ \E s \in Ends : Send(s) \/ Recv(s) \/ CloseConn(s) \/ XmitLater(s) \/ AckLater(s) \/ Retransmit(s)
                          \/ GiveUp(s) \/ TwTimer(s)
    \/ \E g \in net : TcpInput(g, FALSE) \/ TcpInput(g, TRUE)

TcpSpec == TcpInit /\ [][TcpNext]_tcpVars

(***************************************************************************)
(* What the connection promises                                            *)
(***************************************************************************)
TcpTypeOK ==
    /\ conn \in [Ends -> Conn \union {NoConn}]
    /\ tw \in [Ends -> Tw \union {NoTw}]
    /\ req \in Req
    /\ Cardinality(net) <= NetCap /\ isns \in 0..MaxIsn
    /\ queued \in [Ends -> Nat] /\ taken \in [Ends -> Nat]
    /\ shut \subseteq Ends /\ eof \subseteq Ends /\ cause \in BOOLEAN

\* What an end received is, at any time, a beginning of what the peer's owner
\* gave to send: no byte is missing, doubled or out of place, whatever the
\* network did and however retransmissions were cut (input, "tcp_data_queue").
StreamIntact ==
    \A s \in Ends : conn[s] # NoConn =>
        /\ Len(conn[s].stream) <= queued[Peer(s)]
        /\ \A i \in 1..Len(conn[s].stream) : conn[s].stream[i] = i

\* Bytes leave the send buffer only once the peer has them in order: what is
\* neither there nor taken could never be sent again (recovery::ack).
AckedIsTaken ==
    \A s \in Ends : conn[s] # NoConn => queued[s] - Len(conn[s].buf) <= taken[Peer(s)]

\* The end of the stream is told only when the whole stream is in and the
\* peer's owner closed it (tcp_fin): a FIN ahead of a gap does not count.
EofIsComplete ==
    \A s \in eof : Peer(s) \in shut /\ taken[s] = queued[Peer(s)]

\* A connection goes to TIME-WAIT, its FIN acknowledged, only when the peer has
\* everything and knows it is the end.  (The end that closes second leaves no
\* entry: what it sent is AckedIsTaken's.)
FinishedIsDelivered ==
    \A s \in Ends : tw[s] # NoTw => taken[Peer(s)] = queued[s] /\ Peer(s) \in eof

\* Lost, repeated or late segments alone never fail a connection: an error
\* needs an owner that dropped it or closed against data, or a timer that ran
\* out (the checks of resets and of old segments in input).
ErrorHasCause ==
    \A s \in Ends : conn[s] # NoConn /\ conn[s].error => cause

\* The stream arrives: in order and whole, with its end told at its end, and
\* nothing is given up before the peer has it
StreamDelivered == StreamIntact /\ AckedIsTaken /\ EofIsComplete

\* A connection ends as its owners meant it: finished means delivered, and what
\* the network does to segments is no error
EndsAsMeant == FinishedIsDelivered /\ ErrorHasCause
=============================================================================
