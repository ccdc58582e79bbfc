----------------------------- MODULE Connection ----------------------------
(***************************************************************************)
(* One TCP connection of lwIP and the host at its other end, for the two   *)
(* servers of lwip/httpd.c.  A chunk is the data of a segment, in one     *)
(* pbuf: what is sent, lost and acknowledged as a whole; a FIN counts as    *)
(* one.  The stream in either direction is numbered 1, 2, ...               *)
(*                                                                         *)
(* conn is the pcb with the server's own state in conn.app; httpd_init_addr *)
(* listens on two ports, one for each server.  A segment is handled in the  *)
(* ENET interrupt, callbacks included, and nothing of lwIP interrupts it:   *)
(* one step.  The timers are called from the main loop and lock nothing     *)
(* (SYS_LIGHTWEIGHT_PROT is 0).  In the firmware as it is built they never  *)
(* expire - ClockRuns is FALSE - and all of lwIP is in the interrupt.  With *)
(* ClockRuns they expire as well, each in one step: that adds behaviours to *)
(* those of the firmware, but not all that a repaired clock would bring.    *)
(* Callbacks are operators from conn to conn, passed to Arrive and SlowTimer*)
(*                                                                         *)
(* What the host has sent may arrive at any time, any number of times, in  *)
(* any order, with any acknowledgement the host can have given: segments    *)
(* towards the device are never used up.  Segments from the device are in   *)
(* `down` until they arrive or are lost.  The windows of the host and of    *)
(* congestion control have room for all that may be outstanding.            *)
(***************************************************************************)
EXTENDS Integers, Sequences

CONSTANTS
    Wnd,        \* TCP_WND: chunks the device takes unprocessed
    SndBuf,     \* TCP_SND_BUF: chunks it holds until they are acknowledged
    ClockRuns,  \* sys_now() advances, so that the timers expire: not as built
    Chunks,     \* bound of the model: chunks the host sends
    MaxLost,    \* bound of the model: segments of the device that are lost
    MaxFail     \* bound of the model: steps in which an allocation fails

ASSUME ConnectionAssumption ==
    /\ Wnd \in Nat \ {0} /\ SndBuf \in Nat \ {0} /\ ClockRuns \in BOOLEAN
    /\ Chunks \in Nat /\ MaxLost \in Nat /\ MaxFail \in Nat

VARIABLES
    conn,   \* port, state, rnxt (received up to), rwnd; written (tcp_write), una
            \* (acknowledged up to), out (sent up to), fin (FIN queued),
            \* rxclosed; room, failed; dangling; app
    psent,  \* chunks the host has sent
    pfin,   \* it has closed its side
    pgot,   \* how much of the device's stream it has
    down,   \* what is on its way to the host
    eager,  \* commands it sent before it had an answer to all the earlier ones
    nlost, nfail,
    reset   \* not in the code: the connection was lost

netvars == <<psent, pfin, pgot, down, eager, nlost, nfail, reset>>
connvars == <<conn, netvars>>

Least(a, b) == IF a < b THEN a ELSE b
Most(a, b) == IF a > b THEN a ELSE b
Bit(b) == IF b THEN 1 ELSE 0

\* conn.room is how many chunks the handler at work still gets memory for;
\* Enough is never used up: a full send buffer and a FIN.
Enough == SndBuf + 2

HttpPort == 80
EchoPort == 10887

ConnInit(port, app) ==
    /\ conn = [port |-> port, state |-> "SYN_RCVD", rnxt |-> 0, rwnd |-> Wnd, written |-> <<>>,
               una |-> 0, out |-> 0, fin |-> FALSE, rxclosed |-> FALSE,
               room |-> Enough, failed |-> FALSE, dangling |-> FALSE, app |-> app]
    /\ psent = 0 /\ pfin = FALSE /\ pgot = 0 /\ down = {} /\ eager = {}
    /\ nlost = 0 /\ nfail = 0 /\ reset = FALSE

-----------------------------------------------------------------------------
(* What a server calls.                                                     *)

\* The end of the device's stream, its FIN included.
Total(c) == Len(c.written) + Bit(c.fin)

tcp_sndbuf(c) == SndBuf - (Len(c.written) - c.una)

\* A successful tcp_write of the chunks s.
tcp_write(c, s) == [c EXCEPT !.written = @ \o s, !.room = @ - Len(s)]

tcp_recved(c, n) == [c EXCEPT !.rwnd = Least(@ + n, Wnd)]

\* The FIN goes into the last segment that is not sent yet; without one it
\* needs a segment of its own.
tcp_send_fin(c, next) ==
    IF c.out < Len(c.written) THEN [c EXCEPT !.fin = TRUE, !.state = next]
    ELSE IF c.room > 0 THEN [c EXCEPT !.fin = TRUE, !.state = next, !.room = @ - 1]
    ELSE [c EXCEPT !.failed = TRUE]

\* With data the server has not taken, RST instead of FIN: in CLOSE_WAIT the
\* pcb is freed although the caller of the callback still uses it.
tcp_close(pcb) ==
    LET c == [pcb EXCEPT !.rxclosed = TRUE]
    IN  CASE c.state = "ESTABLISHED" /\ c.rwnd # Wnd -> [c EXCEPT !.state = "TIME_WAIT"]
          [] c.state = "CLOSE_WAIT" /\ c.rwnd # Wnd ->
               [c EXCEPT !.state = "gone", !.dangling = TRUE]
          [] c.state = "ESTABLISHED" /\ c.rwnd = Wnd -> tcp_send_fin(c, "FIN_WAIT_1")
          [] c.state = "CLOSE_WAIT" /\ c.rwnd = Wnd  -> tcp_send_fin(c, "LAST_ACK")
          [] OTHER -> c

\* How far tcp_output may send: all there is, or less while something is
\* unacknowledged, unless a FIN is queued or an allocation failed (Nagle).
Outs(c) ==
    IF c.state \in {"TIME_WAIT", "gone"} THEN {c.out}
    ELSE {Total(c)} \cup
         {m \in c.out..Total(c) : m > c.una /\ ~c.fin /\ ~c.failed}

-----------------------------------------------------------------------------
(* tcp_input for a segment [seq, len, fin, ack] of this connection.         *)

\* Data and FIN are taken in sequence, within the window and before a FIN.
\* A FIN that does not fit is cut off.
InSequence(c, s) ==
    /\ s.len + Bit(s.fin) > 0
    /\ c.state \in {"ESTABLISHED", "FIN_WAIT_1", "FIN_WAIT_2"}
    /\ s.seq = c.rnxt + 1 /\ c.rwnd > 0
GotFin(c, s) == InSequence(c, s) /\ s.fin /\ s.len + 1 =< c.rwnd
GotData(c, s) == InSequence(c, s) /\ s.len > 0

\* In the states after our FIN all of the stream has been sent.
NewState(c, gotfin, all) ==
    CASE c.state = "ESTABLISHED" /\ gotfin         -> "CLOSE_WAIT"
      [] c.state = "FIN_WAIT_1" /\ gotfin /\ all   -> "TIME_WAIT"
      [] c.state = "FIN_WAIT_1" /\ gotfin /\ ~all  -> "CLOSING"
      [] c.state = "FIN_WAIT_1" /\ ~gotfin /\ all  -> "FIN_WAIT_2"
      [] c.state = "FIN_WAIT_2" /\ gotfin          -> "TIME_WAIT"
      [] c.state = "CLOSING" /\ all                -> "TIME_WAIT"
      [] c.state = "LAST_ACK" /\ all               -> "gone"
      [] OTHER                                     -> c.state

tcp_process(c, s) ==
    LET n == Bit(GotData(c, s)) + Bit(GotFin(c, s))
    IN  [c EXCEPT !.una = s.ack, !.out = Most(@, s.ack),
                  !.rnxt = @ + n, !.rwnd = @ - n,
                  !.state = NewState(c, GotFin(c, s), c.fin /\ s.ack = Total(c))]

\* The place of the FIN in the window, for which no server calls tcp_recved.
MutFinTaken(c) == c                \* mutant: it is not given back
FinTaken(c) == IF c.rwnd # Wnd THEN [c EXCEPT !.rwnd = @ + 1] ELSE c

\* The pcb after tcp_process and the callbacks in their order - sent,
\* received, closed - as a set of one.  Data after tcp_close aborts the
\* connection.
tcp_input(c, s, Sent(_), Recv(_, _), Closed(_)) ==
    LET sent(p) == IF Least(s.ack, Len(c.written)) > c.una /\ p.state # "gone"
                     THEN Sent(p) ELSE p
        recv(p) == IF ~GotData(c, s) THEN p
                   ELSE IF p.rxclosed THEN [p EXCEPT !.state = "gone"]
                   ELSE Recv(p, s.seq)
        closed(p) == IF GotFin(c, s) /\ p.state # "gone" THEN Closed(FinTaken(p)) ELSE p
    IN  {closed(r) : r \in {recv(q) : q \in {sent(p) : p \in {tcp_process(c, s)}}}}

-----------------------------------------------------------------------------
(* Steps of the device.                                                     *)

\* The allocations a handler gets.
Rooms == IF nfail < MaxFail THEN 0..Enough ELSE {Enough}

\* The end of a handler that had `room` allocations and leaves the pcb in C:
\* tcp_output.
Settle(C, room) ==
    \E c \in C : \E o \in Outs(c) :
        /\ room # Enough => c.failed
        /\ nfail' = nfail + Bit(c.failed)
        /\ conn' = [c EXCEPT !.out = o, !.room = Enough, !.failed = FALSE]
        /\ down' = down \cup ((c.out + 1)..o)

\* A new connection: the server's accept callback finds memory for its state
\* or not, then the connection is aborted.
Accept(app) ==
    /\ conn.state = "SYN_RCVD"
    /\ \/ conn' = [conn EXCEPT !.state = "ESTABLISHED", !.app = app] /\ UNCHANGED nfail
       \/ nfail < MaxFail /\ nfail' = nfail + 1 /\ conn' = [conn EXCEPT !.state = "gone"]
    /\ UNCHANGED <<psent, pfin, pgot, down, eager, nlost, reset>>

Open == conn.state \notin {"SYN_RCVD", "TIME_WAIT", "gone"}

\* What the host can have sent: a chunk, the last one also with the FIN, the
\* FIN alone, an acknowledgement alone.  A repeated chunk with a FIN that is
\* new is cut down to the FIN alone.
Segments ==
    LET seg(k, n, f) == {[seq |-> k, len |-> n, fin |-> f, ack |-> a] : a \in conn.una..pgot}
    IN  UNION ({seg(k, 1, FALSE) : k \in 1..psent} \cup {seg(0, 0, FALSE)}
               \cup (IF pfin THEN {seg(psent + 1, 0, TRUE)} ELSE {})
               \cup (IF pfin /\ psent > 0 THEN {seg(psent, 1, TRUE)} ELSE {}))

Arrive(s, room, Sent(_), Recv(_, _), Closed(_)) ==
    /\ Open
    /\ UNCHANGED <<psent, pfin, pgot, eager, nlost, reset>>
    /\ Settle(tcp_input([conn EXCEPT !.room = room], s, Sent, Recv, Closed), room)

\* tcp_slowtmr, called from the main loop by sys_check_timeouts and here not
\* interrupted: with `late` the retransmission timer has expired and all that
\* is unacknowledged is sent again; with `due` the server is polled.
SlowTimer(late, due, room, Poll(_)) ==
    /\ ClockRuns /\ Open
    /\ UNCHANGED <<psent, pfin, pgot, eager, nlost, reset>>
    /\ LET pcb == {[conn EXCEPT !.room = room, !.out = IF late THEN conn.una ELSE @]}
       IN  Settle({IF due THEN Poll(c) ELSE c : c \in pcb}, room)

\* A pcb that waits for nothing but time is removed.
Expire ==
    /\ ClockRuns /\ conn.state \in {"FIN_WAIT_2", "TIME_WAIT"}
    /\ conn' = [conn EXCEPT !.state = "gone"]
    /\ UNCHANGED netvars

\* Fast retransmission: duplicate acknowledgements tell of segments that
\* overtook the first unacknowledged one.
FastRexmit ==
    /\ Open /\ conn.out > pgot + 1
    /\ down' = down \cup {conn.una + 1}
    /\ UNCHANGED <<conn, psent, pfin, pgot, eager, nlost, nfail, reset>>

\* The pcb is freed with all its segments.
tcp_pcb_remove(c) ==
    [c EXCEPT !.state = "gone", !.written = <<>>, !.una = 0, !.out = 0, !.fin = FALSE, !.rwnd = Wnd]

\* RST from the host, no answer to any retransmission, or a pcb of higher
\* priority needs the room.  The host takes nothing of the connection any more.
ConnectionLost(Err(_)) ==
    /\ Open
    /\ conn' = Err(tcp_pcb_remove(conn)) /\ reset' = TRUE
    /\ down' = {}
    /\ UNCHANGED <<psent, pfin, pgot, eager, nlost, nfail>>

-----------------------------------------------------------------------------
(* The host and the wire.                                                   *)

HostSends ==
    /\ conn.state \notin {"SYN_RCVD", "gone"} /\ ~pfin
    /\ psent < Chunks /\ psent < conn.rnxt + conn.rwnd
    /\ psent' = psent + 1
    /\ eager' = IF conn.port = EchoPort /\ pgot < psent THEN eager \cup {psent + 1} ELSE eager
    /\ UNCHANGED <<conn, pfin, pgot, down, nlost, nfail, reset>>

HostCloses ==
    /\ conn.state \notin {"SYN_RCVD", "gone"} /\ ~pfin /\ pfin' = TRUE
    /\ UNCHANGED <<conn, psent, pgot, down, eager, nlost, nfail, reset>>

HostGets(k) ==
    /\ k \in down /\ down' = down \ {k}
    /\ pgot' = IF k = pgot + 1 THEN k ELSE pgot
    /\ UNCHANGED <<conn, psent, pfin, eager, nlost, nfail, reset>>

Lose(k) ==
    /\ k \in down /\ nlost < MaxLost
    /\ down' = down \ {k} /\ nlost' = nlost + 1
    /\ UNCHANGED <<conn, psent, pfin, pgot, eager, nfail, reset>>

Wire == HostSends \/ HostCloses \/ \E k \in down : HostGets(k) \/ Lose(k)

\* What happens whichever server the connection belongs to.
Common == Expire \/ FastRexmit \/ Wire
=============================================================================
