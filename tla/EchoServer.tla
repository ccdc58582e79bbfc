----------------------------- MODULE EchoServer ----------------------------
(***************************************************************************)
(* The command server of lwip/httpd.c, port 10887: what the host sends is  *)
(* handed to the kernel (ethergate) and sent back.  conn.app holds the     *)
(* struct echo_state: es its state ("none" when there is none), chain the  *)
(* pbufs from es->p on, ref the reference counts of all pbufs (0: in the   *)
(* pool); executed the commands handed over, leaked the pbufs nobody       *)
(* refers to.  Chunk k is in pbuf k.                                        *)
(***************************************************************************)
EXTENDS Connection

NoEcho == [es |-> "none", chain |-> <<>>, ref |-> [k \in 1..Chunks |-> 0],
           executed |-> <<>>, leaked |-> {}]

EchoInit == ConnInit(EchoPort, NoEcho)
Echo == conn.port = EchoPort

echo_accept == Echo /\ Accept([NoEcho EXCEPT !.es = "ACCEPTED"])

-----------------------------------------------------------------------------
(* echo_send, echo_close.                                                   *)

\* The first pbuf of the chain is chopped off: pbuf_ref of the next one, then
\* pbuf_free until the first is free.  The ones behind it lose the reference
\* the one before them held, as long as that frees them.
MutChop(ref, chain) ==             \* mutant: one attempt to free it
    [ref EXCEPT ![chain[1]] = @ - 1]
Chop(ref, chain) ==
    LET held == IF Len(chain) > 1 THEN [ref EXCEPT ![chain[2]] = @ + 1] ELSE ref
        free == {i \in DOMAIN chain : \A j \in 2..i : held[chain[j]] = 1}
    IN  [k \in DOMAIN ref |->
           CASE \E i \in free : chain[i] = k -> 0
             [] \E i \in DOMAIN chain \ free : chain[i] = k /\ i - 1 \in free -> held[k] - 1
             [] OTHER -> held[k]]

\* The first n pbufs, one after the other.
ChopFirst(ref, chain, n) ==
    LET r[i \in 0..n] == IF i = 0 THEN ref ELSE Chop(r[i - 1], SubSeq(chain, i, Len(chain)))
    IN  r[n]

\* tcp_write pbuf by pbuf, as long as the send buffer takes them and there is
\* memory; what is written is chopped off and its window given back.
echo_send(c) ==
    LET chain == c.app.chain
        wanted == Least(Len(chain), tcp_sndbuf(c))
        n == Least(wanted, c.room)
    IN  [tcp_recved(tcp_write(c, SubSeq(chain, 1, n)), n)
           EXCEPT !.app.chain = SubSeq(chain, n + 1, Len(chain)),
                  !.app.ref = ChopFirst(@, chain, n), !.failed = @ \/ n < wanted]

echo_close(c) == tcp_close([c EXCEPT !.app.es = "none"])

-----------------------------------------------------------------------------
(* The callbacks.  After echo_close none is registered.                     *)

echo_sent(c) ==
    CASE c.app.chain # <<>>     -> echo_send(c)
      [] c.app.es = "CLOSING" /\ c.app.chain = <<>> -> echo_close(c)
      [] OTHER                  -> c

\* Data.  The first chunk is only sent back; a chunk that finds others
\* waiting is put behind them with a second reference, and not executed.
\* Data never comes in ES_CLOSING: the pcb takes none in CLOSE_WAIT.
MutRecv(c, k) ==                   \* mutant: a chunk replaces what waits
    LET one == [c EXCEPT !.app.chain = <<k>>, !.app.ref[k] = 1]
    IN  IF c.app.es = "ACCEPTED" THEN echo_send([one EXCEPT !.app.es = "RECEIVED"])
        ELSE echo_send([one EXCEPT !.app.executed = Append(@, k)])
MutRecvState(c, k) ==              \* mutant: the state is not advanced
    LET one == [c EXCEPT !.app.chain = <<k>>, !.app.ref[k] = 1]
    IN  CASE c.app.es = "ACCEPTED"  -> echo_send(one)
          [] c.app.es # "ACCEPTED" /\ c.app.chain = <<>> ->
               echo_send([one EXCEPT !.app.executed = Append(@, k)])
          [] OTHER -> [c EXCEPT !.app.chain = Append(@, k), !.app.ref[k] = 2]
echo_recv(c, k) ==
    LET one == [c EXCEPT !.app.chain = <<k>>, !.app.ref[k] = 1]
    IN  CASE c.app.es = "ACCEPTED"  -> echo_send([one EXCEPT !.app.es = "RECEIVED"])
          [] c.app.es = "RECEIVED" /\ c.app.chain = <<>> ->
               echo_send([one EXCEPT !.app.executed = Append(@, k)])
          [] OTHER -> [c EXCEPT !.app.chain = Append(@, k), !.app.ref[k] = 2]

\* No data: the host has closed.
echo_closed(c) ==
    LET e == [c EXCEPT !.app.es = "CLOSING"]
    IN  IF c.app.es = "none" THEN c
        ELSE IF c.app.chain = <<>> THEN echo_close(e) ELSE echo_send(e)

echo_poll(c) == echo_sent(c)

\* echo_error frees es and not what hangs on it.
echo_error(c) ==
    [c EXCEPT !.app.es = "none", !.app.chain = <<>>,
              !.app.leaked = {c.app.chain[i] : i \in DOMAIN c.app.chain}]

-----------------------------------------------------------------------------
EchoInput(s, room) == Echo /\ Arrive(s, room, echo_sent, echo_recv, echo_closed)
\* echo_poll is registered with interval 0: every tick polls.
EchoTick(late, room) == Echo /\ SlowTimer(late, TRUE, room, echo_poll)
EchoLost == Echo /\ ConnectionLost(echo_error)

EchoSteps ==
    \/ echo_accept
    \/ \E s \in Segments, room \in Rooms : EchoInput(s, room)
    \/ \E late \in BOOLEAN, room \in Rooms : EchoTick(late, room)
    \/ EchoLost

EchoNext == EchoSteps \/ Common

\* The host repeats what is not acknowledged and acknowledges what it gets,
\* and the wire delivers; the timer ticks if the clock runs.
NextSegment == \E s \in Segments : s.seq = conn.rnxt + 1 /\ EchoInput(s, Enough)
NewestAck == \E s \in Segments : s.ack > conn.una /\ s.ack = pgot /\ EchoInput(s, Enough)
EchoFairness ==
    /\ WF_connvars(echo_accept)
    /\ WF_connvars(NextSegment) /\ WF_connvars(NewestAck)
    /\ WF_connvars(HostGets(pgot + 1))
    /\ WF_connvars(EchoTick(TRUE, Enough))

EchoSpec == EchoInit /\ [][EchoNext]_connvars /\ EchoFairness

-----------------------------------------------------------------------------
(* Properties.                                                              *)

Received == 1..Least(conn.rnxt, psent)

\* What has been sent back and what still waits are together what was
\* received, in order: no chunk is lost, repeated or overtaken while memory
\* fails and chunks pile up.
EchoInOrder ==
    Echo /\ conn.app.es # "none" =>
        conn.written \o conn.app.chain = [i \in Received |-> i]

\* A receive buffer is held exactly while it waits in the chain: none is
\* freed early and none is kept, except the chain that echo_error leaves
\* behind when the connection is lost.
BuffersHeld ==
  Echo =>
    /\ {k \in 1..Chunks : conn.app.ref[k] > 0} =
         {conn.app.chain[i] : i \in DOMAIN conn.app.chain} \cup conn.app.leaked
    /\ conn.app.leaked # {} => reset

\* A host that waits for each answer before it sends the next command has
\* every command but the first executed, once and in order - whatever
\* arrives twice, late or not at all.
CommandsExecuted ==
  Echo =>
    /\ \A i \in 1..(Len(conn.app.executed) - 1) :
         conn.app.executed[i] < conn.app.executed[i + 1]
    /\ \A k \in Received \ ({1} \cup eager) :
         \E i \in DOMAIN conn.app.executed : conn.app.executed[i] = k

\* The window is what the chain leaves of it, so the connection is closed
\* with a FIN and the pcb is still there when tcp_input goes on with it.
OrderlyClose ==
  Echo =>
    /\ ~conn.dangling
    /\ conn.app.es # "none" => conn.rwnd + Len(conn.app.chain) = Wnd

\* What the comments of echo_recv and of tcp_slowtmr promise: what was received
\* comes back, although segments are lost and memory fails.  It needs the timers.
Owed == \E k \in Received : k > pgot
EchoReturns == (Echo /\ Owed) ~> (~Owed \/ reset)
=============================================================================
