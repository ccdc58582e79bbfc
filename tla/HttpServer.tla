----------------------------- MODULE HttpServer ----------------------------
(***************************************************************************)
(* The page server of lwip/httpd.c, port 80.  The host's request takes     *)
(* `need` chunks; then it names a file, or none can be found, or it is bad.*)
(* conn.app holds the struct http_state: hs whether there is one, handle    *)
(* whether a file was opened, file its next chunk and left how many are     *)
(* to be written; req the pbufs of an unfinished request, retries; polled   *)
(* whether http_poll is registered.  Not in the code: leaked counts pbufs   *)
(* nobody refers to, gaveup that the server closed before the end.          *)
(***************************************************************************)
EXTENDS Connection

CONSTANTS
    Requests,           \* requests of the host: [need, kind]
    FileLen,            \* chunks of a file
    HTTPD_MAX_RETRIES,  \* polls without progress before it closes: 4
    REQ_QUEUELEN        \* LWIP_HTTPD_REQ_QUEUELEN, pbufs of a request: 5

ASSUME HttpAssumption ==
    /\ Requests \subseteq [need : Nat, kind : {"file", "none", "bad"}]
    /\ FileLen \in Nat \ {0} /\ HTTPD_MAX_RETRIES \in Nat \ {0} /\ REQ_QUEUELEN \in Nat \ {0}

NoHttp(r) ==
    [hs |-> FALSE, handle |-> FALSE, file |-> 1, left |-> 0, req |-> 0, retries |-> 0,
     polled |-> FALSE, leaked |-> 0, gaveup |-> FALSE, need |-> r.need, kind |-> r.kind]

HttpInit == \E r \in Requests : ConnInit(HttpPort, NoHttp(r))
Http == conn.port = HttpPort

http_accept == Http /\ Accept([conn.app EXCEPT !.hs = TRUE, !.polled = TRUE])

-----------------------------------------------------------------------------
(* http_close_conn: the callbacks are taken away, hs is freed (its request  *)
(* is not).  When tcp_close has no memory, the poll callback stays.         *)

http_close_conn(c) ==
    LET d == tcp_close([c EXCEPT !.app.hs = FALSE, !.app.leaked = @ + c.app.req,
                                 !.app.req = 0, !.app.polled = FALSE])
    IN  [d EXCEPT !.app.polled = (d.state = c.state)]

\* The same before the end of the file, or without one.
GiveUp(c) == http_close_conn([c EXCEPT !.app.gaveup = TRUE])

-----------------------------------------------------------------------------
(* http_send: as much of the file as there is room for, at most 2 * mss;    *)
(* with the last byte written the connection is closed.                     *)

TwoSegments == 2

\* http_write tries half as much while tcp_write has no memory: of two
\* segments, one.
http_write(c, n) == Least(n, c.room)

MutSendData(c) ==                  \* mutant: the file moves on by what was asked for
    LET n == Least(TwoSegments, Least(tcp_sndbuf(c), c.app.left))
        m == http_write(c, n)
        d == tcp_write(c, [i \in 1..m |-> c.app.file + i - 1])
    IN  [d EXCEPT !.app.file = @ + n, !.app.left = @ - n, !.failed = @ \/ m < n]
http_send_data_nonssi(c) ==
    LET n == Least(TwoSegments, Least(tcp_sndbuf(c), c.app.left))
        m == http_write(c, n)
        d == tcp_write(c, [i \in 1..m |-> c.app.file + i - 1])
    IN  [d EXCEPT !.app.file = @ + m, !.app.left = @ - m, !.failed = @ \/ m < n]

http_send(c) ==
    LET d == http_send_data_nonssi(c)
    IN  CASE c.app.left = 0 -> http_close_conn(c)
          [] c.app.left > 0 /\ d.app.left = 0 -> http_close_conn(d)
          [] OTHER -> d

-----------------------------------------------------------------------------
(* The callbacks.                                                           *)

http_sent(c) == IF c.app.hs THEN http_send([c EXCEPT !.app.retries = 0]) ELSE c

\* With chunk k the request is complete, or there is room for more of it.
http_parse_request(c, k) ==
    CASE k >= c.app.need /\ c.app.kind # "bad"         -> "ERR_OK"
      [] k < c.app.need /\ c.app.req < REQ_QUEUELEN -> "ERR_INPROGRESS"
      [] OTHER                                      -> "ERR_ARG"

http_init_file(c) ==
    LET d == [c EXCEPT !.app.retries = 0]
    IN  IF c.app.kind = "file"
          THEN [d EXCEPT !.app.handle = TRUE, !.app.file = 1, !.app.left = FileLen] ELSE d

\* Data that comes while a file is being sent is neither kept nor freed.
http_recv(pcb, k) ==
    LET c == tcp_recved(pcb, 1)
        freed == [c EXCEPT !.app.req = 0]
        parsed == IF c.app.handle THEN "ERR_ABRT" ELSE http_parse_request(c, k)
    IN  CASE parsed = "ERR_ABRT"       -> [freed EXCEPT !.app.leaked = @ + 1]
          [] parsed = "ERR_OK"         -> http_send(http_init_file(freed))
          [] parsed = "ERR_INPROGRESS" -> [c EXCEPT !.app.req = @ + 1]
          [] parsed = "ERR_ARG"        -> GiveUp(freed)

http_closed(c) == IF c.app.hs THEN GiveUp(c) ELSE c

http_poll(c) ==
    LET d == [c EXCEPT !.app.retries = @ + 1]
    IN  CASE ~c.app.polled -> c
          [] c.app.polled /\ ~c.app.hs -> http_close_conn(c)
          [] c.app.polled /\ c.app.hs /\ d.app.retries = HTTPD_MAX_RETRIES -> GiveUp(d)
          [] c.app.polled /\ c.app.hs /\ c.app.handle
             /\ d.app.retries # HTTPD_MAX_RETRIES -> http_send(d)
          [] OTHER -> d

http_err(c) ==
    [c EXCEPT !.app.hs = FALSE, !.app.leaked = @ + c.app.req, !.app.req = 0]

-----------------------------------------------------------------------------
HttpInput(s, room) == Http /\ Arrive(s, room, http_sent, http_recv, http_closed)
\* http_poll is registered with HTTPD_POLL_INTERVAL: not every tick polls.
HttpTick(late, due, room) == Http /\ SlowTimer(late, due, room, http_poll)
HttpLost == Http /\ ConnectionLost(http_err)

HttpSteps ==
    \/ http_accept
    \/ \E s \in Segments, room \in Rooms : HttpInput(s, room)
    \/ \E late, due \in BOOLEAN, room \in Rooms : HttpTick(late, due, room)
    \/ HttpLost

HttpNext == HttpSteps \/ Common

\* As for the command server; but the host need not send a whole request.
HttpNewestAck == \E s \in Segments : s.ack > conn.una /\ s.ack = pgot /\ HttpInput(s, Enough)
HttpFairness ==
    /\ WF_connvars(http_accept) /\ WF_connvars(HttpNewestAck)
    /\ WF_connvars(HostGets(pgot + 1))
    /\ WF_connvars(HttpTick(TRUE, TRUE, Enough)) /\ WF_connvars(Expire)

HttpSpec == HttpInit /\ [][HttpNext]_connvars /\ HttpFairness

-----------------------------------------------------------------------------
(* Properties.                                                              *)

\* The host gets the chunks of the file in their order, none twice and none
\* left out although tcp_write takes less than it was asked to; and the
\* server closes after the last one unless it gave up.
HttpWhole ==
  Http =>
    /\ conn.written = [i \in DOMAIN conn.written |-> i]
    /\ conn.fin /\ conn.app.handle /\ ~conn.app.gaveup => Len(conn.written) = FileLen

\* What tcp.c says of tcp_close: it does not deallocate the pcb of which its
\* caller, and the caller's caller tcp_input, still make use.
PcbStays == ~conn.dangling
=============================================================================
