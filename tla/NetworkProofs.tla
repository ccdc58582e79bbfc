--------------------------- MODULE NetworkProofs ---------------------------
(***************************************************************************)
(* The two servers on a connection, for every size of the window, of the   *)
(* send buffer and of the file, any number of chunks, losses and failing   *)
(* allocations.  A callback is an operator on pcbs: each has a lemma that  *)
(* says what it keeps, and the steps of the connection are put together    *)
(* from them.                                                              *)
(***************************************************************************)
EXTENDS EchoServer, HttpServer, CommonProofs

TcpState == {"SYN_RCVD", "ESTABLISHED", "FIN_WAIT_1", "FIN_WAIT_2", "CLOSING",
             "CLOSE_WAIT", "LAST_ACK", "TIME_WAIT", "gone"}

\* The pcbs of a server whose state is in App.
Pcb(App) ==
    [port : Int, state : TcpState, rnxt : Nat, rwnd : Int, written : Seq(Nat), una : Nat,
     out : Int, fin : BOOLEAN, rxclosed : BOOLEAN, room : Nat, failed : BOOLEAN,
     dangling : BOOLEAN, app : App]

-----------------------------------------------------------------------------
(* What the functions of lwIP leave alone.                                  *)

\* tcp_close takes no data any more and may queue a FIN; it keeps what was
\* written and the server's state.
ClosedFrom(c, d) ==
    /\ d.port = c.port /\ d.written = c.written /\ d.una = c.una /\ d.app = c.app
    /\ d.rnxt = c.rnxt /\ d.rwnd = c.rwnd /\ d.out = c.out
    /\ d.rxclosed
    /\ c.fin => d.fin
    /\ d.state = "gone" => c.state = "gone" \/ (c.state = "CLOSE_WAIT" /\ c.rwnd # Wnd)
    /\ d.dangling => c.dangling \/ (c.state = "CLOSE_WAIT" /\ c.rwnd # Wnd)
    /\ c.state = "CLOSE_WAIT" /\ c.rwnd = Wnd => d.state \in {"CLOSE_WAIT", "LAST_ACK"}

LEMMA CloseShape ==
    ASSUME NEW App, NEW c \in Pcb(App)
    PROVE  tcp_close(c) \in Pcb(App) /\ ClosedFrom(c, tcp_close(c))
<1>. DEFINE r == [c EXCEPT !.rxclosed = TRUE]
            d == tcp_close(c)
<1>0. r \in Pcb(App)
  BY DEF Pcb
<1>1. /\ r.rxclosed /\ r.state = c.state /\ r.rwnd = c.rwnd /\ r.port = c.port
      /\ r.written = c.written /\ r.una = c.una /\ r.app = c.app /\ r.rnxt = c.rnxt
      /\ r.out = c.out /\ r.fin = c.fin /\ r.dangling = c.dangling
  BY DEF Pcb
<1>3. \/ d = [r EXCEPT !.state = "TIME_WAIT"] /\ c.state = "ESTABLISHED"
      \/ /\ d = [r EXCEPT !.state = "gone", !.dangling = TRUE]
         /\ c.state = "CLOSE_WAIT" /\ c.rwnd # Wnd
      \/ d = tcp_send_fin(r, "FIN_WAIT_1") /\ c.state = "ESTABLISHED"
      \/ d = tcp_send_fin(r, "LAST_ACK")
      \/ d = r
  BY <1>1 DEF tcp_close
<1>. HIDE DEF r, d
<1>2. ASSUME NEW next \in {"FIN_WAIT_1", "LAST_ACK"}, NEW e, e = tcp_send_fin(r, next),
             next = "FIN_WAIT_1" => c.state = "ESTABLISHED"
      PROVE  e \in Pcb(App) /\ ClosedFrom(c, e)
  <2>1. \/ e = [r EXCEPT !.fin = TRUE, !.state = next]
        \/ r.room > 0 /\ e = [r EXCEPT !.fin = TRUE, !.state = next, !.room = @ - 1]
        \/ e = [r EXCEPT !.failed = TRUE]
    BY <1>2 DEF tcp_send_fin
  <2>2. CASE e = [r EXCEPT !.fin = TRUE, !.state = next]
    <3>1. e \in Pcb(App)
      BY <1>0, <2>2 DEF Pcb, TcpState
    <3>2. e.state = next /\ e.fin /\ next # "gone" /\ (next = "LAST_ACK" \/ next = "FIN_WAIT_1")
      BY <1>0, <2>2 DEF Pcb
    <3>. QED  BY <1>0, <1>1, <1>2, <2>2, <3>1, <3>2 DEF Pcb, ClosedFrom
  <2>3. CASE r.room > 0 /\ e = [r EXCEPT !.fin = TRUE, !.state = next, !.room = @ - 1]
    <3>0. r.room \in Nat
      BY <1>0 DEF Pcb
    <3>1. r.room - 1 \in Nat
      BY <2>3, <3>0
    <3>2. e \in Pcb(App)
      BY <3>1, <1>0, <2>3 DEF Pcb, TcpState
    <3>3. e.state = next /\ e.fin /\ next # "gone" /\ (next = "LAST_ACK" \/ next = "FIN_WAIT_1")
      BY <1>0, <2>3 DEF Pcb
    <3>. QED  BY <1>0, <1>1, <1>2, <2>3, <3>2, <3>3 DEF Pcb, ClosedFrom
  <2>4. CASE e = [r EXCEPT !.failed = TRUE]
    BY <1>0, <1>1, <1>2, <2>4, ZenonT(60) DEF Pcb, TcpState, ClosedFrom
  <2>. QED  BY <2>1, <2>2, <2>3, <2>4
<1>4. d \in Pcb(App) /\ ClosedFrom(c, d)
  <2>1. CASE d = [r EXCEPT !.state = "TIME_WAIT"] /\ c.state = "ESTABLISHED"
    BY <1>0, <1>1, <2>1 DEF Pcb, TcpState, ClosedFrom
  <2>2. CASE /\ d = [r EXCEPT !.state = "gone", !.dangling = TRUE]
             /\ c.state = "CLOSE_WAIT" /\ c.rwnd # Wnd
    BY <1>0, <1>1, <2>2 DEF Pcb, TcpState, ClosedFrom
  <2>3. CASE d = r
    BY <1>0, <1>1, <2>3 DEF ClosedFrom
  <2>. QED  BY <1>2, <1>3, <2>1, <2>2, <2>3
<1>. QED  BY <1>4 DEF d

\* What tcp_process takes from a segment: the acknowledgement never goes back.
Segment(c) == [seq : Nat, len : {0, 1}, fin : BOOLEAN, ack : {a \in Nat : c.una <= a}]

ProcessedFrom(c, s, d) ==
    /\ d.port = c.port /\ d.written = c.written /\ d.app = c.app /\ d.fin = c.fin
    /\ d.rxclosed = c.rxclosed /\ d.room = c.room /\ d.failed = c.failed
    /\ d.dangling = c.dangling /\ d.una = s.ack
    /\ d.rnxt = c.rnxt + Bit(GotData(c, s)) + Bit(GotFin(c, s))
    /\ d.rwnd = c.rwnd - Bit(GotData(c, s)) - Bit(GotFin(c, s))
    /\ d.out = Most(c.out, s.ack)
    /\ d.state = NewState(c, GotFin(c, s), c.fin /\ s.ack = Total(c))
    /\ d.state # "SYN_RCVD" \/ c.state = "SYN_RCVD"

LEMMA ProcessShape ==
    ASSUME NEW App, NEW c \in Pcb(App), NEW s \in Segment(c)
    PROVE  /\ tcp_process(c, s) \in Pcb(App)
           /\ ProcessedFrom(c, s, tcp_process(c, s))
<1>. DEFINE d == tcp_process(c, s)
            n == Bit(GotData(c, s)) + Bit(GotFin(c, s))
            st == NewState(c, GotFin(c, s), c.fin /\ s.ack = Total(c))
            m == Most(c.out, s.ack)
<1>1. /\ n \in Nat /\ m \in Int /\ s.ack \in Nat
      /\ n = Bit(GotData(c, s)) + Bit(GotFin(c, s))
      /\ Bit(GotData(c, s)) \in Nat /\ Bit(GotFin(c, s)) \in Nat
  BY DEF Bit, Most, Segment, Pcb
<1>2. st \in TcpState /\ (st = "SYN_RCVD" => c.state = "SYN_RCVD")
  <2>1. c.state \in TcpState
    BY DEF Pcb
  <2>. QED  BY <2>1 DEF NewState, TcpState
<1>3. d = [c EXCEPT !.una = s.ack, !.out = m, !.rnxt = @ + n, !.rwnd = @ - n, !.state = st]
  BY DEF tcp_process
<1>. HIDE DEF d, n
<1>7. st = NewState(c, GotFin(c, s), c.fin /\ s.ack = Total(c)) /\ m = Most(c.out, s.ack)
  OBVIOUS
<1>. HIDE DEF st, m
<1>4. d \in Pcb(App)
  <2>1. c.rnxt + n \in Nat /\ c.rwnd - n \in Int
    BY <1>1, SMTT(30) DEF Pcb
  <2>. QED  BY <1>1, <1>2, <1>3, <2>1 DEF Pcb
<1>5. ProcessedFrom(c, s, d)
  BY <1>1, <1>2, <1>3, <1>7 DEF Pcb, ProcessedFrom
<1>. QED  BY <1>4, <1>5 DEF d

\* The segments the host can have sent.
LEMMA SegmentShape ==
    ASSUME NEW s \in Segments, conn.una \in Nat, pgot \in Int, psent \in Nat
    PROVE  /\ s \in [seq : Nat, len : {0, 1}, fin : BOOLEAN, ack : conn.una..pgot]
           /\ s.len = 1 => s.seq \in 1..psent
           /\ s.fin => pfin /\ s.seq + s.len = psent + 1
<1>1. \/ \E k \in 1..psent : \E a \in conn.una..pgot :
           s = [seq |-> k, len |-> 1, fin |-> FALSE, ack |-> a]
      \/ \E a \in conn.una..pgot : s = [seq |-> 0, len |-> 0, fin |-> FALSE, ack |-> a]
      \/ pfin /\ \E a \in conn.una..pgot :
                    s = [seq |-> psent + 1, len |-> 0, fin |-> TRUE, ack |-> a]
      \/ pfin /\ psent > 0 /\ \E a \in conn.una..pgot :
                                 s = [seq |-> psent, len |-> 1, fin |-> TRUE, ack |-> a]
  BY DEF Segments
<1>2. CASE \E k \in 1..psent : \E a \in conn.una..pgot :
             s = [seq |-> k, len |-> 1, fin |-> FALSE, ack |-> a]
  BY <1>2
<1>3. CASE \E a \in conn.una..pgot : s = [seq |-> 0, len |-> 0, fin |-> FALSE, ack |-> a]
  BY <1>3
<1>4. CASE pfin /\ \E a \in conn.una..pgot :
                     s = [seq |-> psent + 1, len |-> 0, fin |-> TRUE, ack |-> a]
  BY <1>4
<1>5. CASE pfin /\ psent > 0 /\ \E a \in conn.una..pgot :
                                  s = [seq |-> psent, len |-> 1, fin |-> TRUE, ack |-> a]
  BY <1>5
<1>. QED  BY <1>1, <1>2, <1>3, <1>4, <1>5

-----------------------------------------------------------------------------
(* The page server.                                                         *)

HttpApp ==
    [hs : BOOLEAN, handle : BOOLEAN, file : Int, left : Int, req : Int, retries : Int,
     polled : BOOLEAN, leaked : Int, gaveup : BOOLEAN, need : Nat,
     kind : {"file", "none", "bad"}]
HttpPcb == Pcb(HttpApp)

\* What is written is the file up to here; the FIN is behind its last chunk.
FileSoFar(c) ==
    /\ \A i \in 1..Len(c.written) : c.written[i] = i
    /\ c.fin /\ c.app.handle /\ ~c.app.gaveup => Len(c.written) = FileLen

\* While there is a pcb: the send buffer is not overrun, http_state says where
\* the file is to be continued, and a server that has freed its state takes no
\* data any more and had written the whole file unless it gave up.
HttpAlive(c) ==
    /\ Len(c.written) - c.una <= SndBuf
    /\ IF c.app.handle
         THEN /\ c.app.file = Len(c.written) + 1
              /\ c.app.left = FileLen - Len(c.written) /\ c.app.left >= 0
         ELSE c.written = <<>> /\ c.app.left = 0
    /\ ~c.app.hs /\ c.state # "SYN_RCVD" => c.rxclosed
    /\ c.fin => c.rxclosed
    /\ c.app.handle /\ ~c.app.hs /\ ~c.app.gaveup => c.app.left = 0

HttpGood(c) == c \in HttpPcb /\ FileSoFar(c) /\ (c.state # "gone" => HttpAlive(c))

\* http_close_conn after the last chunk, or after giving up.
LEMMA HttpCloses ==
    ASSUME NEW c, HttpGood(c), c.state # "gone",
           c.app.handle /\ ~c.app.gaveup => c.app.left = 0
    PROVE  HttpGood(http_close_conn(c)) /\ http_close_conn(c).rxclosed
<1>. DEFINE b == [c EXCEPT !.app.hs = FALSE, !.app.leaked = @ + c.app.req,
                           !.app.req = 0, !.app.polled = FALSE]
            d == tcp_close(b)
            e == [d EXCEPT !.app.polled = (d.state = c.state)]
<1>0. c \in HttpPcb /\ c.app \in HttpApp
  BY DEF HttpGood, HttpPcb, Pcb
<1>1. b \in HttpPcb
  <2>. DEFINE n == c.app.leaked + c.app.req
              a == [c.app EXCEPT !.hs = FALSE, !.leaked = n, !.req = 0, !.polled = FALSE]
  <2>0. n \in Int
    BY <1>0 DEF HttpApp
  <2>2. b = [c EXCEPT !.app = a]
    BY <1>0 DEF HttpPcb, Pcb, HttpApp
  <2>. HIDE DEF n
  <2>1. a \in HttpApp
    <3>. DEFINE g == [c.app EXCEPT !.hs = FALSE, !.leaked = n]
                h == [g EXCEPT !.req = 0]
    <3>1. g \in HttpApp /\ a = [h EXCEPT !.polled = FALSE]
      BY <1>0, <2>0 DEF HttpApp
    <3>. HIDE DEF g
    <3>2. h \in HttpApp
      BY <3>1 DEF HttpApp
    <3>. HIDE DEF h, a
    <3>. QED  BY <3>1, <3>2 DEF HttpApp
  <2>. HIDE DEF a
  <2>. QED  BY <1>0, <2>1, <2>2 DEF HttpPcb, Pcb
<1>2. /\ b.written = c.written /\ b.una = c.una /\ b.app.handle = c.app.handle
      /\ b.app.file = c.app.file /\ b.app.left = c.app.left
      /\ b.app.gaveup = c.app.gaveup /\ b.app.hs = FALSE
  BY <1>0 DEF HttpPcb, Pcb, HttpApp
<1>. HIDE DEF b
<1>3. d \in HttpPcb /\ ClosedFrom(b, d)
  BY <1>1, CloseShape DEF HttpPcb
<1>4. /\ d.written = c.written /\ d.una = c.una /\ d.app = b.app /\ d.rxclosed
      /\ d.app \in HttpApp
  BY <1>2, <1>3 DEF ClosedFrom, HttpPcb, Pcb
<1>. HIDE DEF d
<1>5. e \in HttpPcb
  BY <1>3, <1>4 DEF HttpPcb, Pcb, HttpApp
<1>6. /\ e.written = c.written /\ e.una = c.una /\ e.rxclosed
      /\ e.app.handle = c.app.handle /\ e.app.file = c.app.file
      /\ e.app.left = c.app.left /\ e.app.gaveup = c.app.gaveup /\ e.app.hs = FALSE
  BY <1>2, <1>3, <1>4 DEF HttpPcb, Pcb, HttpApp
<1>7. http_close_conn(c) = e
  BY DEF http_close_conn, e, d, b
<1>. HIDE DEF e
<1>8. FileSoFar(e)
  <2>1. c.app.handle /\ ~c.app.gaveup => Len(c.written) = FileLen
    BY <1>0, HttpAssumption DEF HttpGood, HttpAlive, HttpPcb, Pcb
  <2>. QED  BY <1>6, <2>1 DEF FileSoFar, HttpGood
<1>9. HttpAlive(e)
  BY <1>6 DEF HttpAlive, HttpGood
<1>. QED  BY <1>5, <1>6, <1>7, <1>8, <1>9 DEF HttpGood

LEMMA HttpGivesUp ==
    ASSUME NEW c, HttpGood(c), c.state # "gone"
    PROVE  HttpGood(GiveUp(c))
<1>. DEFINE g == [c EXCEPT !.app.gaveup = TRUE]
<1>0. c \in HttpPcb /\ c.app \in HttpApp
  BY DEF HttpGood, HttpPcb, Pcb
<1>1. g \in HttpPcb
  BY <1>0 DEF HttpPcb, Pcb, HttpApp
<1>2. /\ g.written = c.written /\ g.una = c.una /\ g.rxclosed = c.rxclosed /\ g.fin = c.fin
      /\ g.state = c.state /\ g.app.handle = c.app.handle /\ g.app.file = c.app.file
      /\ g.app.left = c.app.left /\ g.app.gaveup = TRUE /\ g.app.hs = c.app.hs
  BY <1>0 DEF HttpPcb, Pcb, HttpApp
<1>3. GiveUp(c) = http_close_conn(g)
  BY DEF GiveUp
<1>. HIDE DEF g
<1>4. HttpGood(g)
  BY <1>1, <1>2 DEF HttpGood, FileSoFar, HttpAlive
<1>. QED  BY <1>2, <1>3, <1>4, HttpCloses

LEMMA Joined ==
    ASSUME NEW S, NEW u \in Seq(S), NEW v \in Seq(S)
    PROVE  /\ u \o v \in Seq(S) /\ Len(u \o v) = Len(u) + Len(v)
           /\ \A i \in 1..Len(u) : (u \o v)[i] = u[i]
           /\ \A i \in (Len(u) + 1)..Len(u \o v) : (u \o v)[i] = v[i - Len(u)]
OBVIOUS

\* The pcbs c and d do not differ in what the page depends on.
SamePage(c, d) ==
    /\ d.written = c.written /\ d.una = c.una /\ d.rxclosed = c.rxclosed /\ d.fin = c.fin
    /\ d.state = c.state /\ d.room = c.room /\ d.app.kind = c.app.kind
    /\ d.app.handle = c.app.handle /\ d.app.file = c.app.file /\ d.app.left = c.app.left
    /\ d.app.gaveup = c.app.gaveup /\ d.app.hs = c.app.hs

LEMMA PageKept ==
    ASSUME NEW c, HttpGood(c), NEW d \in HttpPcb, SamePage(c, d)
    PROVE  HttpGood(d)
BY DEF HttpGood, FileSoFar, HttpAlive, SamePage

\* The assignments of the callbacks that the page does not depend on.
LEMMA Bookkeeping ==
    ASSUME NEW c \in HttpPcb, NEW n \in Int
    PROVE  /\ LET d == [c EXCEPT !.app.retries = n] IN d \in HttpPcb /\ SamePage(c, d)
           /\ LET d == [c EXCEPT !.app.req = n] IN d \in HttpPcb /\ SamePage(c, d)
           /\ LET d == [c EXCEPT !.app.leaked = n] IN d \in HttpPcb /\ SamePage(c, d)
           /\ LET d == [c EXCEPT !.rwnd = n] IN d \in HttpPcb /\ SamePage(c, d)
<1>0. c.app \in HttpApp
  BY DEF HttpPcb, Pcb
<1>1. ASSUME NEW d, d = [c EXCEPT !.app.retries = n]
      PROVE  d \in HttpPcb /\ SamePage(c, d)
  BY <1>0, <1>1 DEF HttpPcb, Pcb, HttpApp, SamePage
<1>2. ASSUME NEW d, d = [c EXCEPT !.app.req = n]
      PROVE  d \in HttpPcb /\ SamePage(c, d)
  BY <1>0, <1>2 DEF HttpPcb, Pcb, HttpApp, SamePage
<1>3. ASSUME NEW d, d = [c EXCEPT !.app.leaked = n]
      PROVE  d \in HttpPcb /\ SamePage(c, d)
  BY <1>0, <1>3 DEF HttpPcb, Pcb, HttpApp, SamePage
<1>4. ASSUME NEW d, d = [c EXCEPT !.rwnd = n]
      PROVE  d \in HttpPcb /\ SamePage(c, d)
  BY <1>4 DEF HttpPcb, Pcb, SamePage
<1>. QED  BY <1>1, <1>2, <1>3, <1>4

LEMMA Cleared ==
    ASSUME NEW c \in HttpPcb
    PROVE  /\ LET d == [c EXCEPT !.app.retries = 0] IN d \in HttpPcb /\ SamePage(c, d)
           /\ LET d == [c EXCEPT !.app.req = 0] IN d \in HttpPcb /\ SamePage(c, d)
<1>1. 0 \in Int
  OBVIOUS
<1>. QED  BY <1>1, Bookkeeping, Zenon

\* http_send_data_nonssi: what it writes continues the file, and http_state
\* moves on by just as much.
LEMMA SendsData ==
    ASSUME NEW c, HttpGood(c), c.state # "gone", c.app.left > 0
    PROVE  LET d == http_send_data_nonssi(c)
           IN  /\ HttpGood(d) /\ d.state = c.state /\ d.app.hs = c.app.hs
               /\ d.app.handle
<1>. DEFINE n == Least(TwoSegments, Least(tcp_sndbuf(c), c.app.left))
            m == http_write(c, n)
            s == [i \in 1..m |-> c.app.file + i - 1]
            w == c.written \o s
            f == c.app.file + m
            l == c.app.left - m
            rm == c.room - m
            d == http_send_data_nonssi(c)
<1>0. /\ c \in HttpPcb /\ c.app \in HttpApp /\ c.written \in Seq(Nat) /\ c.room \in Nat
      /\ c.una \in Nat /\ c.app.left \in Int /\ c.app.file \in Int
      /\ FileLen \in Nat /\ SndBuf \in Nat
  BY HttpAssumption, ConnectionAssumption DEF HttpGood, HttpPcb, Pcb, HttpApp
<1>1. /\ c.app.handle /\ c.app.file = Len(c.written) + 1
      /\ c.app.left = FileLen - Len(c.written) /\ Len(c.written) \in Nat
  BY <1>0 DEF HttpGood, HttpAlive
<1>2. tcp_sndbuf(c) \in Nat /\ tcp_sndbuf(c) = SndBuf - (Len(c.written) - c.una)
  BY <1>0, <1>1 DEF HttpGood, HttpAlive, tcp_sndbuf
<1>3. n \in Nat /\ n <= tcp_sndbuf(c) /\ n <= c.app.left
  BY <1>0, <1>2 DEF Least, TwoSegments
<1>4. m \in Nat /\ m <= n /\ m <= c.room
  BY <1>0, <1>3 DEF Least, http_write
<1>5. d = [c EXCEPT !.written = w, !.room = rm, !.app.file = f, !.app.left = l,
                    !.failed = c.failed \/ m < n]
  <2>1. Len(s) = m
    BY <1>4
  <2>. QED  BY <1>0, <2>1 DEF http_send_data_nonssi, tcp_write, HttpPcb, Pcb, HttpApp
<1>6. /\ s \in Seq(Nat) /\ Len(s) = m
      /\ \A i \in 1..m : s[i] = Len(c.written) + i
  BY <1>1, <1>4
<1>. HIDE DEF d, s, n, m
<1>7. /\ w \in Seq(Nat) /\ Len(w) = Len(c.written) + m
      /\ \A i \in 1..Len(c.written) : w[i] = c.written[i]
      /\ \A i \in (Len(c.written) + 1)..Len(w) : w[i] = s[i - Len(c.written)]
  BY <1>0, <1>6, Joined, ZenonT(60)
<1>. HIDE DEF w
<1>8. /\ f \in Int /\ l \in Int /\ rm \in Nat /\ f = Len(w) + 1
      /\ l = FileLen - Len(w) /\ l >= 0 /\ Len(w) - c.una <= SndBuf
  <2>. DEFINE k == Len(c.written)
  <2>1. k \in Nat /\ Len(w) = k + m /\ c.app.file = k + 1 /\ c.app.left = FileLen - k
    BY <1>1, <1>7
  <2>2. tcp_sndbuf(c) = SndBuf - (k - c.una)
    BY <1>2
  <2>. HIDE DEF k
  <2>3. f \in Int /\ l \in Int /\ f = Len(w) + 1 /\ l = FileLen - Len(w)
    BY <1>0, <1>4, <2>1
  <2>4. l >= 0
    BY <1>0, <1>3, <1>4
  <2>5. rm \in Nat
    BY <1>0, <1>4
  <2>6. Len(w) - c.una <= SndBuf
    BY <1>0, <1>2, <1>3, <1>4, <2>1, <2>2
  <2>. QED  BY <2>3, <2>4, <2>5, <2>6
<1>9. \A i \in 1..Len(w) : w[i] = i
  <2>1. \A i \in 1..Len(c.written) : c.written[i] = i
    BY DEF HttpGood, FileSoFar
  <2>2. ASSUME NEW i \in (Len(c.written) + 1)..Len(w)  PROVE w[i] = i
    <3>. DEFINE j == i - Len(c.written)
    <3>1. j \in 1..m /\ Len(c.written) + j = i
      BY <1>1, <1>4, <1>7
    <3>2. w[i] = s[j]
      BY <1>7
    <3>. HIDE DEF j
    <3>3. s[j] = Len(c.written) + j
      BY <1>6, <3>1
    <3>. QED  BY <3>1, <3>2, <3>3
  <2>3. ASSUME NEW i \in 1..Len(c.written)  PROVE w[i] = i
    BY <1>7, <2>1
  <2>4. \A i \in 1..Len(w) : i \in 1..Len(c.written) \/ i \in (Len(c.written) + 1)..Len(w)
    BY <1>1, <1>4, <1>7
  <2>. QED  BY <2>2, <2>3, <2>4
<1>. HIDE DEF f, l, rm
<1>10. d \in HttpPcb
  <2>. DEFINE a == [c.app EXCEPT !.file = f, !.left = l]
              b == c.failed \/ m < n
  <2>1. a \in HttpApp /\ b \in BOOLEAN
    BY <1>0, <1>8 DEF HttpApp
  <2>2. d = [c EXCEPT !.written = w, !.room = rm, !.app = a, !.failed = b]
    BY <1>0, <1>5 DEF HttpPcb, Pcb, HttpApp
  <2>. DEFINE g == [c EXCEPT !.written = w, !.room = rm]
  <2>3. g \in HttpPcb /\ d = [g EXCEPT !.app = a, !.failed = b]
    BY <1>0, <1>7, <1>8, <2>2 DEF HttpPcb, Pcb
  <2>. HIDE DEF a, b, g
  <2>. QED  BY <2>1, <2>3 DEF HttpPcb, Pcb
<1>11. /\ d.written = w /\ d.una = c.una /\ d.rxclosed = c.rxclosed /\ d.fin = c.fin
       /\ d.state = c.state /\ d.app.handle = c.app.handle /\ d.app.file = f
       /\ d.app.left = l /\ d.app.gaveup = c.app.gaveup /\ d.app.hs = c.app.hs
  BY <1>0, <1>5 DEF HttpPcb, Pcb, HttpApp
<1>12. c.fin => c.app.gaveup
  BY <1>0, <1>1 DEF HttpGood, FileSoFar
<1>13. FileSoFar(d)
  BY <1>9, <1>11, <1>12 DEF FileSoFar
<1>14. HttpAlive(d)
  <2>1. c.app.handle /\ ~c.app.hs => c.app.gaveup
    BY <1>0 DEF HttpGood, HttpAlive
  <2>. QED  BY <1>1, <1>8, <1>11, <2>1 DEF HttpGood, HttpAlive
<1>15. HttpGood(d) /\ d.state = c.state /\ d.app.hs = c.app.hs /\ d.app.handle
  BY <1>1, <1>10, <1>11, <1>13, <1>14 DEF HttpGood
<1>. QED  BY <1>15 DEF d

LEMMA HttpSends ==
    ASSUME NEW c, HttpGood(c), c.state # "gone"
    PROVE  HttpGood(http_send(c)) /\ (http_send(c).rxclosed \/ http_send(c).state = c.state)
<1>. DEFINE d == http_send_data_nonssi(c)
<1>0. c.app.left \in Int /\ c.app.left >= 0
  BY DEF HttpGood, HttpAlive, HttpPcb, Pcb, HttpApp
<1>1. CASE c.app.left = 0
  <2>1. http_send(c) = http_close_conn(c)
    BY <1>1 DEF http_send
  <2>. QED  BY <1>1, <2>1, HttpCloses
<1>2. CASE c.app.left > 0
  <2>1. HttpGood(d) /\ d.state # "gone" /\ d.state = c.state
    BY <1>2, SendsData
  <2>2. CASE d.app.left = 0
    <3>1. http_send(c) = http_close_conn(d)
      BY <1>0, <1>2, <2>2 DEF http_send
    <3>. HIDE DEF d
    <3>. QED  BY <2>1, <2>2, <3>1, HttpCloses
  <2>3. CASE d.app.left # 0
    <3>1. http_send(c) = d
      BY <1>0, <1>2, <2>3 DEF http_send
    <3>. QED  BY <2>1, <3>1
  <2>. QED  BY <2>2, <2>3
<1>. QED  BY <1>0, <1>1, <1>2

LEMMA HttpSent ==
    ASSUME NEW c, HttpGood(c), c.state # "gone"
    PROVE  HttpGood(http_sent(c)) /\ (http_sent(c).rxclosed \/ http_sent(c).state = c.state)
<1>1. CASE c.app.hs
  <2>. DEFINE d == [c EXCEPT !.app.retries = 0]
  <2>1. d \in HttpPcb /\ SamePage(c, d)
    BY Cleared DEF HttpGood
  <2>2. http_sent(c) = http_send(d)
    BY <1>1 DEF http_sent
  <2>. HIDE DEF d
  <2>3. HttpGood(d) /\ d.state # "gone" /\ d.state = c.state
    BY <2>1, PageKept DEF SamePage
  <2>. QED  BY <2>2, <2>3, HttpSends
<1>2. CASE ~c.app.hs
  BY <1>2 DEF http_sent
<1>. QED  BY <1>1, <1>2

\* http_init_file: a file is opened once, before anything has been written.
LEMMA HttpOpens ==
    ASSUME NEW c, HttpGood(c), c.state # "gone", c.app.hs, ~c.fin, ~c.app.handle
    PROVE  HttpGood(http_init_file(c)) /\ http_init_file(c).state # "gone"
<1>. DEFINE d == [c EXCEPT !.app.retries = 0]
            e == [d EXCEPT !.app.handle = TRUE, !.app.file = 1, !.app.left = FileLen]
<1>1. d \in HttpPcb /\ SamePage(c, d)
  BY Cleared DEF HttpGood
<1>2. http_init_file(c) = IF c.app.kind = "file" THEN e ELSE d
  BY DEF http_init_file
<1>. HIDE DEF d
<1>3. HttpGood(d) /\ d.state # "gone"
  BY <1>1, PageKept DEF SamePage
<1>4. FileLen \in Nat /\ d.app \in HttpApp
  BY <1>1, HttpAssumption DEF HttpPcb, Pcb
<1>5. e \in HttpPcb
  <2>. DEFINE g == [d.app EXCEPT !.file = 1]
              a == [g EXCEPT !.left = FileLen]
              b == [a EXCEPT !.handle = TRUE]
  <2>0. g \in HttpApp
    BY <1>4 DEF HttpApp
  <2>2. e = [d EXCEPT !.app = b]
    BY <1>1, <1>4 DEF HttpPcb, Pcb, HttpApp
  <2>. HIDE DEF g
  <2>1. a \in HttpApp
    BY <1>4, <2>0 DEF HttpApp
  <2>. HIDE DEF a
  <2>3. b \in HttpApp
    BY <2>1 DEF HttpApp
  <2>. HIDE DEF b, e
  <2>. QED  BY <1>1, <2>2, <2>3 DEF HttpPcb, Pcb
<1>6. /\ e.written = d.written /\ e.una = d.una /\ e.rxclosed = d.rxclosed /\ e.fin = d.fin
      /\ e.state = d.state /\ e.app.handle = TRUE /\ e.app.file = 1
      /\ e.app.left = FileLen /\ e.app.hs = d.app.hs
  BY <1>1, <1>4 DEF HttpPcb, Pcb, HttpApp
<1>. HIDE DEF e
<1>7. /\ ~d.fin /\ d.app.hs /\ d.written = <<>> /\ d.una \in Nat /\ SndBuf \in Nat
      /\ Len(d.written) = 0
  <2>1. c.written = <<>> /\ c.una \in Nat
    BY DEF HttpGood, HttpAlive, HttpPcb, Pcb
  <2>. QED  BY <1>1, <2>1, ConnectionAssumption DEF SamePage
<1>8. HttpGood(e)
  BY <1>4, <1>5, <1>6, <1>7 DEF HttpGood, FileSoFar, HttpAlive
<1>. QED  BY <1>2, <1>3, <1>6, <1>8

LEMMA HttpRecv ==
    ASSUME NEW c, HttpGood(c), c.state \notin {"gone", "SYN_RCVD"}, ~c.rxclosed, NEW k \in Nat
    PROVE  HttpGood(http_recv(c, k))
<1>. DEFINE t == tcp_recved(c, 1)
            f == [t EXCEPT !.app.req = 0]
<1>0. c \in HttpPcb /\ c.app.hs /\ ~c.fin /\ c.rwnd \in Int
  BY DEF HttpGood, HttpAlive, HttpPcb, Pcb
<1>1. t \in HttpPcb /\ SamePage(c, t)
  <2>. DEFINE n == Least(c.rwnd + 1, Wnd)
  <2>1. n \in Int
    BY <1>0, ConnectionAssumption DEF Least
  <2>2. t = [c EXCEPT !.rwnd = n]
    BY <1>0 DEF tcp_recved, HttpPcb, Pcb
  <2>. HIDE DEF n, t
  <2>. QED  BY <1>0, <2>1, <2>2, Bookkeeping
<1>2. http_recv(c, k) \in
        {[f EXCEPT !.app.leaked = f.app.leaked + 1], [t EXCEPT !.app.req = t.app.req + 1],
         GiveUp(f)}
      \/ (~t.app.handle /\ http_recv(c, k) = http_send(http_init_file(f)))
  BY DEF http_recv, http_parse_request
<1>. HIDE DEF t
<1>3. f \in HttpPcb /\ SamePage(t, f)
  BY <1>1, Cleared
<1>. HIDE DEF f
<1>4. HttpGood(t) /\ HttpGood(f) /\ f.state # "gone" /\ f.app.handle = t.app.handle
      /\ f.app.hs /\ ~f.fin
  BY <1>0, <1>1, <1>3, PageKept DEF SamePage
<1>5. HttpGood([f EXCEPT !.app.leaked = f.app.leaked + 1])
  <2>1. f.app.leaked + 1 \in Int
    BY <1>3 DEF HttpPcb, Pcb, HttpApp
  <2>. QED  BY <1>3, <1>4, <2>1, Bookkeeping, PageKept
<1>6. HttpGood([t EXCEPT !.app.req = t.app.req + 1])
  <2>1. t.app.req + 1 \in Int
    BY <1>1 DEF HttpPcb, Pcb, HttpApp
  <2>. QED  BY <1>1, <1>4, <2>1, Bookkeeping, PageKept
<1>7. HttpGood(GiveUp(f))
  BY <1>4, HttpGivesUp
<1>8. ~t.app.handle => HttpGood(http_send(http_init_file(f)))
  BY <1>4, HttpOpens, HttpSends
<1>. QED  BY <1>2, <1>5, <1>6, <1>7, <1>8

LEMMA HttpClosed ==
    ASSUME NEW c, HttpGood(c), c.state # "gone"
    PROVE  HttpGood(http_closed(FinTaken(c)))
<1>1. FinTaken(c) \in HttpPcb /\ SamePage(c, FinTaken(c))
  <2>1. c \in HttpPcb /\ c.rwnd + 1 \in Int
    BY DEF HttpGood, HttpPcb, Pcb
  <2>2. FinTaken(c) = c \/ FinTaken(c) = [c EXCEPT !.rwnd = c.rwnd + 1]
    BY <2>1 DEF FinTaken, HttpPcb, Pcb
  <2>3. SamePage(c, c)
    BY DEF SamePage
  <2>. QED  BY <2>1, <2>2, <2>3, Bookkeeping
<1>2. HttpGood(FinTaken(c)) /\ FinTaken(c).state # "gone"
  BY <1>1, PageKept DEF SamePage
<1>. QED  BY <1>2, HttpGivesUp DEF http_closed

LEMMA HttpPolls ==
    ASSUME NEW c, HttpGood(c), c.state \notin {"gone", "SYN_RCVD"}
    PROVE  HttpGood(http_poll(c))
<1>. DEFINE d == [c EXCEPT !.app.retries = c.app.retries + 1]
<1>0. c \in HttpPcb /\ c.app \in HttpApp /\ c.app.retries + 1 \in Int
  BY DEF HttpGood, HttpPcb, Pcb, HttpApp
<1>1. d \in HttpPcb /\ SamePage(c, d)
  BY <1>0, Bookkeeping
<1>2. \/ http_poll(c) \in {c, GiveUp(d), http_send(d), d}
      \/ ~c.app.hs /\ http_poll(c) = http_close_conn(c)
  BY <1>0 DEF http_poll
<1>. HIDE DEF d
<1>3. HttpGood(d) /\ d.state # "gone"
  BY <1>1, PageKept DEF SamePage
<1>4. ~c.app.hs => HttpGood(http_close_conn(c))
  BY HttpCloses DEF HttpGood, HttpAlive
<1>. QED  BY <1>2, <1>3, <1>4, HttpGivesUp, HttpSends

\* A segment with the callbacks it leads to.
LEMMA HttpTakes ==
    ASSUME NEW c, HttpGood(c), c.state \notin {"gone", "SYN_RCVD"}, NEW s \in Segment(c),
           NEW e \in tcp_input(c, s, http_sent, http_recv, http_closed)
    PROVE  HttpGood(e)
<1>. DEFINE p == tcp_process(c, s)
            q == IF Least(s.ack, Len(c.written)) > c.una /\ p.state # "gone"
                   THEN http_sent(p) ELSE p
            r == IF ~GotData(c, s) THEN q
                 ELSE IF q.rxclosed THEN [q EXCEPT !.state = "gone"]
                 ELSE http_recv(q, s.seq)
<1>1. e = IF GotFin(c, s) /\ r.state # "gone" THEN http_closed(FinTaken(r)) ELSE r
  <2>. DEFINE sent(z) == IF Least(s.ack, Len(c.written)) > c.una /\ z.state # "gone"
                           THEN http_sent(z) ELSE z
              recv(y) == IF ~GotData(c, s) THEN y
                         ELSE IF y.rxclosed THEN [y EXCEPT !.state = "gone"]
                         ELSE http_recv(y, s.seq)
              closed(x) == IF GotFin(c, s) /\ x.state # "gone"
                             THEN http_closed(FinTaken(x)) ELSE x
  <2>1. e \in {closed(x) : x \in {recv(y) : y \in {sent(z) : z \in {p}}}}
    BY DEF tcp_input
  <2>2. q = sent(p) /\ r = recv(q)
    OBVIOUS
  <2>. HIDE DEF sent, recv, closed, q, r, p
  <2>3. e = closed(r)
    BY <2>1, <2>2
  <2>. QED  BY <2>3 DEF closed
<1>2. c \in HttpPcb
  BY DEF HttpGood
<1>3. p \in HttpPcb /\ ProcessedFrom(c, s, p)
  BY <1>2, ProcessShape DEF HttpPcb
<1>. HIDE DEF p
<1>4. HttpGood(p)
  <2>1. s.ack \in Nat /\ s.ack >= c.una /\ Len(c.written) \in Nat /\ c.una \in Nat
        /\ SndBuf \in Nat
    BY <1>2, ConnectionAssumption DEF Segment, HttpPcb, Pcb
  <2>2. /\ p.written = c.written /\ p.app = c.app /\ p.fin = c.fin
        /\ p.rxclosed = c.rxclosed /\ p.una = s.ack
    BY <1>3 DEF ProcessedFrom
  <2>3. FileSoFar(p)
    BY <2>2 DEF HttpGood, FileSoFar
  <2>4. HttpAlive(p)
    <3>1. HttpAlive(c)
      BY DEF HttpGood
    <3>2. Len(c.written) - s.ack <= SndBuf
      BY <2>1, <3>1 DEF HttpAlive
    <3>. QED  BY <2>2, <3>1, <3>2 DEF HttpAlive
  <2>. QED  BY <1>3, <2>3, <2>4 DEF HttpGood
<1>5. p.state # "SYN_RCVD" /\ (GotData(c, s) => p.state # "gone")
  <2>1. GotData(c, s) => p.state # "gone"
    <3>1. p.state = NewState(c, GotFin(c, s), c.fin /\ s.ack = Total(c))
      BY <1>2 DEF p, tcp_process, HttpPcb, Pcb
    <3>. QED  BY <3>1 DEF NewState, GotData, InSequence
  <2>. QED  BY <1>3, <2>1 DEF ProcessedFrom
<1>6. HttpGood(q) /\ (q.rxclosed \/ q.state = p.state)
  BY <1>4, HttpSent
<1>. HIDE DEF q
<1>7. HttpGood(r)
  <2>1. CASE ~GotData(c, s)
    BY <1>6, <2>1
  <2>2. CASE GotData(c, s) /\ q.rxclosed
    <3>1. r = [q EXCEPT !.state = "gone"]
      BY <2>2
    <3>2. q \in HttpPcb
      BY <1>6 DEF HttpGood
    <3>3. /\ r \in HttpPcb /\ r.state = "gone" /\ r.written = q.written
          /\ r.app = q.app /\ r.fin = q.fin
      BY <3>1, <3>2 DEF HttpPcb, Pcb, TcpState
    <3>. QED  BY <1>6, <3>3 DEF HttpGood, FileSoFar
  <2>3. CASE GotData(c, s) /\ ~q.rxclosed
    <3>1. r = http_recv(q, s.seq) /\ s.seq \in Nat
      BY <2>3 DEF Segment
    <3>. QED  BY <1>5, <1>6, <2>3, <3>1, HttpRecv
  <2>. QED  BY <2>1, <2>2, <2>3
<1>. HIDE DEF r
<1>. QED  BY <1>1, <1>7, HttpClosed

\* tcp_output and the end of a handler.
LEMMA OutputShape ==
    ASSUME NEW App, NEW c \in Pcb(App), NEW o \in Outs(c)
    PROVE  o \in Int
<1>1. c.out \in Int /\ c.una \in Nat /\ c.fin \in BOOLEAN /\ Len(c.written) \in Nat
  BY DEF Pcb
<1>2. Total(c) \in Nat
  <2>1. Bit(c.fin) \in Nat
    BY DEF Bit
  <2>. QED  BY <1>1, <2>1 DEF Total
<1>. QED  BY <1>1, <1>2 DEF Outs

Settled(c, o) == [c EXCEPT !.out = o, !.room = Enough, !.failed = FALSE]

\* The pcbs c and d differ in nothing but how much was sent and what memory
\* there is.
SameButOutput(c, d) ==
    /\ d.port = c.port /\ d.state = c.state /\ d.rnxt = c.rnxt /\ d.rwnd = c.rwnd
    /\ d.written = c.written /\ d.una = c.una /\ d.fin = c.fin /\ d.rxclosed = c.rxclosed
    /\ d.dangling = c.dangling /\ d.app = c.app

LEMMA SettledPcb ==
    ASSUME NEW App, NEW c \in Pcb(App), NEW o \in Int
    PROVE  Settled(c, o) \in Pcb(App) /\ SameButOutput(c, Settled(c, o))
<1>1. Enough \in Nat
  BY ConnectionAssumption DEF Enough
<1>. DEFINE a == [c EXCEPT !.out = o]
            b == [a EXCEPT !.room = Enough]
            d == [b EXCEPT !.failed = FALSE]
<1>2. a \in Pcb(App) /\ d = Settled(c, o)
  BY DEF Pcb, Settled
<1>3. SameButOutput(c, d)
  BY DEF Pcb, SameButOutput
<1>. HIDE DEF a
<1>4. b \in Pcb(App)
  BY <1>1, <1>2 DEF Pcb
<1>. HIDE DEF b
<1>5. d \in Pcb(App)
  BY <1>4 DEF Pcb
<1>. HIDE DEF d
<1>. QED  BY <1>2, <1>3, <1>5

\* The room a handler gets.
Started(c, room, o) == [c EXCEPT !.room = room, !.out = o]

LEMMA StartedPcb ==
    ASSUME NEW App, NEW c \in Pcb(App), NEW room \in Rooms, NEW o \in Int
    PROVE  Started(c, room, o) \in Pcb(App) /\ SameButOutput(c, Started(c, room, o))
<1>1. room \in Nat
  BY ConnectionAssumption DEF Rooms, Enough
<1>. QED  BY <1>1 DEF Pcb, Started, SameButOutput

\* The server's pcb and what the host can know of it.
Numbers == psent \in Nat /\ pgot \in Int /\ down \subseteq Int
HttpInv == HttpGood(conn) /\ Numbers

LEMMA HttpOutput ==
    ASSUME NEW c, HttpGood(c), NEW d \in HttpPcb, SameButOutput(c, d)
    PROVE  HttpGood(d)
BY DEF HttpGood, FileSoFar, HttpAlive, SameButOutput

LEMMA HttpEndsHandler ==
    ASSUME HttpInv, UNCHANGED <<psent, pgot>>, NEW C, NEW room,
           \A c \in C : HttpGood(c), Settle(C, room)
    PROVE  HttpInv'
<1>1. PICK c \in C : \E o \in Outs(c) :
        conn' = Settled(c, o) /\ down' = down \cup ((c.out + 1)..o)
  BY DEF Settle, Settled
<1>2. PICK o \in Outs(c) :
        conn' = Settled(c, o) /\ down' = down \cup ((c.out + 1)..o)
  BY <1>1
<1>3. HttpGood(c) /\ c \in HttpPcb /\ c.out \in Int
  BY DEF HttpGood, HttpPcb, Pcb
<1>4. o \in Int
  BY <1>3, OutputShape DEF HttpPcb
<1>5. HttpGood(conn')
  BY <1>2, <1>3, <1>4, SettledPcb, HttpOutput DEF HttpPcb
<1>6. Numbers'
  <2>1. (c.out + 1)..o \subseteq Int
    BY <1>3, <1>4
  <2>2. down' \subseteq Int
    BY <1>2, <2>1 DEF HttpInv, Numbers
  <2>. QED  BY <2>2 DEF HttpInv, Numbers
<1>7. HttpGood(conn)'
  BY <1>5 DEF HttpGood, HttpPcb, Pcb, HttpApp, FileSoFar, HttpAlive
<1>. QED  BY <1>6, <1>7 DEF HttpInv

\* Steps of the host, of the wire and of the timers.
LEMMA CommonNumbers ==
    ASSUME Numbers, conn.una \in Nat, Common
    PROVE  Numbers'
<1>1. CASE Expire
  BY <1>1 DEF Expire, netvars, Numbers
<1>2. CASE FastRexmit
  <2>1. conn.una + 1 \in Int /\ down' = down \cup {conn.una + 1}
    BY <1>2 DEF FastRexmit
  <2>2. down' \subseteq Int
    BY <2>1 DEF Numbers
  <2>. QED  BY <1>2, <2>2 DEF FastRexmit, Numbers
<1>3. CASE HostSends
  BY <1>3 DEF HostSends, Numbers
<1>4. CASE HostCloses
  BY <1>4 DEF HostCloses, Numbers
<1>5. ASSUME NEW k \in down, HostGets(k)
      PROVE  Numbers'
  BY <1>5 DEF HostGets, Numbers
<1>6. ASSUME NEW k \in down, Lose(k)
      PROVE  Numbers'
  BY <1>6 DEF Lose, Numbers
<1>. QED  BY <1>1, <1>2, <1>3, <1>4, <1>5, <1>6 DEF Common, Wire

LEMMA RemovedPcb ==
    ASSUME NEW App, NEW c \in Pcb(App)
    PROVE  LET d == tcp_pcb_remove(c)
           IN  /\ d \in Pcb(App) /\ d.state = "gone" /\ d.written = <<>> /\ ~d.fin
               /\ d.app = c.app /\ d.port = c.port /\ d.rnxt = c.rnxt /\ d.rwnd = Wnd
               /\ d.dangling = c.dangling
<1>. DEFINE a == [c EXCEPT !.state = "gone", !.written = <<>>]
            b == [a EXCEPT !.una = 0]
            f == [b EXCEPT !.out = 0]
            g == [f EXCEPT !.fin = FALSE]
            d == [g EXCEPT !.rwnd = Wnd]
<1>0. a \in Pcb(App)
  <2>1. <<>> \in Seq(Nat)
    OBVIOUS
  <2>. QED  BY <2>1 DEF Pcb, TcpState
<1>1. d = tcp_pcb_remove(c)
  BY DEF tcp_pcb_remove, Pcb
<1>2. /\ d.state = "gone" /\ d.written = <<>> /\ ~d.fin /\ d.app = c.app
      /\ d.port = c.port /\ d.rnxt = c.rnxt /\ d.rwnd = Wnd /\ d.dangling = c.dangling
  BY DEF Pcb
<1>. HIDE DEF a
<1>3. b \in Pcb(App)
  BY <1>0 DEF Pcb
<1>. HIDE DEF b
<1>4. f \in Pcb(App)
  <2>1. PICK z \in Int : z = 0
    OBVIOUS
  <2>2. [b EXCEPT !.out = z] \in Pcb(App)
    BY <1>3, <2>1 DEF Pcb
  <2>. QED  BY <2>1, <2>2, Zenon
<1>. HIDE DEF f
<1>5. g \in Pcb(App)
  BY <1>4 DEF Pcb
<1>. HIDE DEF g
<1>6. d \in Pcb(App)
  <2>1. Wnd \in Int
    BY ConnectionAssumption
  <2>. QED  BY <1>5, <2>1 DEF Pcb
<1>. HIDE DEF d
<1>. QED  BY <1>1, <1>2, <1>6

\* Of a connection the page server never began, or has lost, nothing counts.
LEMMA HttpGone ==
    ASSUME NEW c, HttpGood(c), NEW d \in HttpPcb, d.state = "gone",
           d.written = c.written, d.fin = c.fin, d.app = c.app
    PROVE  HttpGood(d)
BY DEF HttpGood, FileSoFar

LEMMA HttpStep ==
    ASSUME HttpInv, [HttpNext]_connvars
    PROVE  HttpInv'
<1>0. /\ HttpGood(conn) /\ conn \in HttpPcb /\ conn.una \in Nat /\ conn.out \in Int
      /\ Numbers /\ conn.app \in HttpApp
  BY DEF HttpInv, HttpGood, HttpPcb, Pcb
<1>1. CASE http_accept
  <2>. DEFINE a == [conn.app EXCEPT !.hs = TRUE, !.polled = TRUE]
  <2>1. a \in HttpApp /\ a.handle = conn.app.handle /\ a.file = conn.app.file
        /\ a.left = conn.app.left /\ a.gaveup = conn.app.gaveup /\ a.hs
    BY <1>0 DEF HttpApp
  <2>2. \/ conn' = [conn EXCEPT !.state = "ESTABLISHED", !.app = a]
        \/ conn' = [conn EXCEPT !.state = "gone"]
    BY <1>1 DEF http_accept, Accept
  <2>3. Numbers' /\ conn.state = "SYN_RCVD"
    BY <1>0, <1>1 DEF http_accept, Accept, Numbers
  <2>. HIDE DEF a
  <2>4. CASE conn' = [conn EXCEPT !.state = "ESTABLISHED", !.app = a]
    <3>1. /\ conn' \in HttpPcb /\ conn'.app = a /\ conn'.state = "ESTABLISHED"
          /\ conn'.written = conn.written /\ conn'.fin = conn.fin /\ conn'.una = conn.una
          /\ conn'.rxclosed = conn.rxclosed
      BY <1>0, <2>1, <2>4 DEF HttpPcb, Pcb, TcpState
    <3>2. HttpGood(conn')
      BY <1>0, <2>1, <2>3, <3>1 DEF HttpGood, FileSoFar, HttpAlive
    <3>. QED  BY <2>3, <3>2 DEF HttpInv, HttpGood, HttpPcb, Pcb, HttpApp, FileSoFar, HttpAlive
  <2>5. CASE conn' = [conn EXCEPT !.state = "gone"]
    <3>1. /\ conn' \in HttpPcb /\ conn'.state = "gone" /\ conn'.app = conn.app
          /\ conn'.written = conn.written /\ conn'.fin = conn.fin
      BY <1>0, <2>5 DEF HttpPcb, Pcb, TcpState
    <3>2. HttpGood(conn')
      BY <1>0, <3>1, HttpGone
    <3>. QED  BY <2>3, <3>2 DEF HttpInv, HttpGood, HttpPcb, Pcb, HttpApp, FileSoFar, HttpAlive
  <2>. QED  BY <2>2, <2>4, <2>5
<1>2. ASSUME NEW s \in Segments, NEW room \in Rooms, HttpInput(s, room)
      PROVE  HttpInv'
  <2>. DEFINE c == [conn EXCEPT !.room = room]
  <2>1. c = Started(conn, room, conn.out)
    BY <1>0 DEF Started, HttpPcb, Pcb
  <2>2. /\ conn.state \notin {"SYN_RCVD", "gone"} /\ UNCHANGED <<psent, pgot>>
        /\ Settle(tcp_input(c, s, http_sent, http_recv, http_closed), room)
    BY <1>2 DEF HttpInput, Arrive, Open
  <2>. HIDE DEF c
  <2>3. c \in HttpPcb /\ SameButOutput(conn, c)
    BY <1>0, <2>1, StartedPcb DEF HttpPcb
  <2>4. HttpGood(c) /\ c.state \notin {"gone", "SYN_RCVD"}
    BY <1>0, <2>2, <2>3, HttpOutput DEF SameButOutput
  <2>5. s \in Segment(c)
    <3>1. s \in [seq : Nat, len : {0, 1}, fin : BOOLEAN, ack : conn.una..pgot]
      BY <1>0, SegmentShape DEF Numbers
    <3>2. c.una = conn.una /\ pgot \in Int
      BY <1>0, <2>3 DEF SameButOutput, Numbers
    <3>. QED  BY <1>0, <3>1, <3>2 DEF Segment
  <2>6. \A e \in tcp_input(c, s, http_sent, http_recv, http_closed) : HttpGood(e)
    BY <2>4, <2>5, HttpTakes
  <2>. QED  BY <2>2, <2>6, HttpEndsHandler
<1>3. ASSUME NEW late \in BOOLEAN, NEW due \in BOOLEAN, NEW room \in Rooms,
             HttpTick(late, due, room)
      PROVE  HttpInv'
  <2>. DEFINE o == IF late THEN conn.una ELSE conn.out
              c == Started(conn, room, o)
              C == {IF due THEN http_poll(b) ELSE b : b \in {c}}
  <2>1. o \in Int
    BY <1>0
  <2>2. /\ conn.state \notin {"SYN_RCVD", "gone"} /\ UNCHANGED <<psent, pgot>>
        /\ Settle(C, room)
    BY <1>0, <1>3 DEF HttpTick, SlowTimer, Open, Started, HttpPcb, Pcb
  <2>. HIDE DEF o
  <2>3. c \in HttpPcb /\ SameButOutput(conn, c)
    BY <1>0, <2>1, StartedPcb DEF HttpPcb
  <2>. HIDE DEF c
  <2>4. HttpGood(c) /\ c.state \notin {"gone", "SYN_RCVD"}
    BY <1>0, <2>2, <2>3, HttpOutput DEF SameButOutput
  <2>5. \A e \in C : HttpGood(e)
    BY <2>4, HttpPolls
  <2>. HIDE DEF C
  <2>. QED  BY <2>2, <2>5, HttpEndsHandler
<1>4. CASE HttpLost
  <2>. DEFINE b == tcp_pcb_remove(conn)
              d == http_err(b)
              n == b.app.leaked + b.app.req
              f == [b.app EXCEPT !.hs = FALSE]
              g == [f EXCEPT !.leaked = n]
              h == [g EXCEPT !.req = 0]
  <2>1. b \in HttpPcb /\ b.state = "gone" /\ b.written = <<>> /\ ~b.fin
    BY <1>0, RemovedPcb DEF HttpPcb
  <2>2. /\ conn' = d /\ Numbers'
    BY <1>0, <1>4 DEF HttpLost, ConnectionLost, Numbers
  <2>. HIDE DEF b
  <2>3. b.app \in HttpApp
    BY <2>1 DEF HttpPcb, Pcb
  <2>4. n \in Int
    BY <2>3 DEF HttpApp
  <2>10. d = [b EXCEPT !.app = h]
    BY <2>1, <2>3 DEF http_err, HttpPcb, Pcb, HttpApp
  <2>. HIDE DEF n, d
  <2>5. f \in HttpApp
    BY <2>3 DEF HttpApp
  <2>. HIDE DEF f
  <2>6. g \in HttpApp
    BY <2>4, <2>5 DEF HttpApp
  <2>. HIDE DEF g
  <2>7. h \in HttpApp
    BY <2>6 DEF HttpApp
  <2>. HIDE DEF h
  <2>8. d \in HttpPcb /\ d.state = "gone" /\ d.written = <<>> /\ ~d.fin
    BY <2>1, <2>7, <2>10 DEF HttpPcb, Pcb
  <2>9. HttpGood(conn')
    BY <2>2, <2>8 DEF HttpGood, FileSoFar
  <2>. QED  BY <2>2, <2>9 DEF HttpInv, HttpGood, HttpPcb, Pcb, HttpApp, FileSoFar, HttpAlive
<1>5. CASE Common
  <2>1. Numbers'
    BY <1>0, <1>5, CommonNumbers
  <2>2. CASE Expire
    <3>1. /\ conn' \in HttpPcb /\ conn'.state = "gone" /\ conn'.app = conn.app
          /\ conn'.written = conn.written /\ conn'.fin = conn.fin
      BY <1>0, <2>2 DEF Expire, HttpPcb, Pcb, TcpState
    <3>2. HttpGood(conn')
      BY <1>0, <3>1, HttpGone
    <3>. QED  BY <2>1, <3>2 DEF HttpInv, HttpGood, HttpPcb, Pcb, HttpApp, FileSoFar, HttpAlive
  <2>3. CASE UNCHANGED conn
    BY <1>0, <2>1, <2>3 DEF HttpInv, HttpGood, HttpPcb, Pcb, HttpApp, FileSoFar, HttpAlive
  <2>. QED  BY <1>5, <2>2, <2>3
         DEF Common, FastRexmit, Wire, HostSends, HostCloses, HostGets, Lose
<1>6. CASE UNCHANGED connvars
  <2>1. UNCHANGED <<conn, psent, pgot, down>>
    BY <1>6 DEF connvars, netvars
  <2>. QED  BY <2>1 DEF HttpInv, Numbers, HttpGood, HttpPcb, Pcb, HttpApp, FileSoFar, HttpAlive
<1>. QED  BY <1>1, <1>2, <1>3, <1>4, <1>5, <1>6 DEF HttpNext, HttpSteps

LEMMA HttpStarts == HttpInit => HttpInv
<1>. SUFFICES ASSUME NEW r \in Requests, ConnInit(HttpPort, NoHttp(r))
              PROVE  HttpInv
  BY DEF HttpInit
<1>1. r.need \in Nat /\ r.kind \in {"file", "none", "bad"}
  BY HttpAssumption
<1>. DEFINE a == NoHttp(r)
<1>2. /\ a \in HttpApp /\ ~a.hs /\ ~a.handle /\ a.left = 0
  BY <1>1 DEF NoHttp, HttpApp
<1>3. Enough \in Nat /\ Wnd \in Nat /\ SndBuf \in Nat
  BY ConnectionAssumption DEF Enough
<1>4. conn = [port |-> HttpPort, state |-> "SYN_RCVD", rnxt |-> 0, rwnd |-> Wnd,
              written |-> <<>>, una |-> 0, out |-> 0, fin |-> FALSE, rxclosed |-> FALSE,
              room |-> Enough, failed |-> FALSE, dangling |-> FALSE, app |-> a]
  BY DEF ConnInit
<1>5. Numbers
  BY DEF ConnInit, Numbers
<1>. HIDE DEF a
<1>6. conn \in HttpPcb
  BY <1>2, <1>3, <1>4 DEF HttpPcb, Pcb, TcpState, HttpPort
<1>7. /\ conn.written = <<>> /\ ~conn.fin /\ conn.una = 0 /\ conn.state = "SYN_RCVD"
      /\ conn.app = a /\ Len(conn.written) = 0
  BY <1>4
<1>8. HttpGood(conn)
  BY <1>2, <1>3, <1>6, <1>7 DEF HttpGood, FileSoFar, HttpAlive
<1>. QED  BY <1>5, <1>8 DEF HttpInv

\* The page server is never out of step with its file: http_state and the send
\* buffer agree while there is a pcb.
THEOREM HttpInvariant == HttpSpec => []HttpInv
BY HttpStarts, HttpStep, PTL DEF HttpSpec

\* The host gets the chunks of the file in their order, none twice and none
\* left out although tcp_write takes less than it was asked to, and the server
\* closes after the last one unless it gave up: for every file, window and
\* send buffer, whatever is lost, repeated or has no memory.
THEOREM PagesAreWhole == HttpSpec => []HttpWhole
<1>1. HttpInv => HttpWhole
  <2>. SUFFICES ASSUME HttpInv PROVE HttpWhole
    OBVIOUS
  <2>1. conn.written \in Seq(Nat) /\ FileSoFar(conn)
    BY DEF HttpInv, HttpGood, HttpPcb, Pcb
  <2>2. conn.written = [i \in DOMAIN conn.written |-> i]
    BY <2>1 DEF FileSoFar
  <2>. QED  BY <2>1, <2>2 DEF FileSoFar, HttpWhole
<1>. QED  BY <1>1, HttpInvariant, PTL

-----------------------------------------------------------------------------
(* The command server.                                                      *)

EchoApp ==
    [es : {"none", "ACCEPTED", "RECEIVED", "CLOSING"}, chain : Seq(Nat),
     ref : [1..Chunks -> Nat], executed : Seq(Nat), leaked : SUBSET (1..Chunks)]
EchoPcb == Pcb(EchoApp)

\* Of the n chunks received, the first ones are written, the others wait.
InLine(c, n) ==
    /\ Len(c.written) + Len(c.app.chain) = n
    /\ \A i \in 1..Len(c.written) : c.written[i] = i
    /\ \A i \in 1..Len(c.app.chain) : c.app.chain[i] = Len(c.written) + i

Buffered(c, n) == \A k \in 1..Chunks : c.app.ref[k] > 0 <=> k \in (Len(c.written) + 1)..n

\* Executed is what came when nothing waited.
Executed(ex, n) ==
    /\ \A i \in 1..Len(ex) : ex[i] \in 1..n
    /\ \A i \in 1..(Len(ex) - 1) : ex[i] < ex[i + 1]
    /\ \A k \in 2..n : k \in eager \/ \E i \in 1..Len(ex) : ex[i] = k

\* The host has nothing that was not written.
Behind(c) ==
    /\ c.una <= pgot /\ pgot <= Len(c.written) /\ c.out <= Len(c.written)
    /\ \A k \in down : k <= Len(c.written)

\* While the server has its state.  Of the window, w places belong to what the
\* server is yet to be told of.
EchoLive(c, n, w) ==
    /\ InLine(c, n) /\ Buffered(c, n) /\ Behind(c) /\ n <= Chunks
    /\ c.app.leaked = {} /\ ~c.fin /\ ~c.rxclosed
    /\ c.rwnd + Len(c.app.chain) + w = Wnd
    /\ Len(c.written) - c.una <= SndBuf
    /\ c.app.es = "ACCEPTED" => n = 0

EchoDead(c) ==
    /\ c.app.chain = <<>>
    /\ \A k \in 1..Chunks : c.app.ref[k] > 0 <=> k \in c.app.leaked
    /\ c.app.leaked # {} => reset

EchoGood(c, n, w) ==
    /\ c \in EchoPcb /\ c.port = EchoPort /\ ~c.dangling /\ Executed(c.app.executed, n)
    /\ IF c.app.es = "none" THEN EchoDead(c) ELSE EchoLive(c, n, w)

\* The server's state goes with that of the pcb.
Placed(c) ==
    /\ c.app.es \in {"ACCEPTED", "RECEIVED"} => c.state = "ESTABLISHED"
    /\ c.app.es = "CLOSING" => c.state = "CLOSE_WAIT"
    /\ c.app.es = "none" => c.state \in {"SYN_RCVD", "CLOSE_WAIT", "LAST_ACK", "gone"}
    /\ c.state = "SYN_RCVD" => c.written = <<>> /\ c.una = 0 /\ c.out = 0 /\ ~c.fin
                               /\ ~c.rxclosed /\ c.rwnd = Wnd /\ c.rnxt = 0
                               /\ pgot = 0 /\ down = {}
    /\ reset => c.state = "gone"

\* A command that is not eager was sent with all earlier answers at hand.
Patient == \A k \in 1..psent : k \in eager \/ k - 1 <= pgot

\* Nothing is received that was not sent.
EchoWell(c) ==
    /\ c.rnxt <= psent \/ (c.rnxt = psent + 1 /\ pfin)
    /\ EchoGood(c, Least(c.rnxt, psent), 0) /\ Placed(c)

EchoInv == Numbers /\ psent <= Chunks /\ Patient /\ EchoWell(conn)

-----------------------------------------------------------------------------
(* pbuf_free: what chopping off the front of the chain does.                *)

\* The pbufs of a chain that starts at es->p: each is in it once, and in use.
Chain(ref, chain) ==
    /\ ref \in [1..Chunks -> Nat] /\ chain \in Seq(1..Chunks)
    /\ \A i, j \in 1..Len(chain) : chain[i] = chain[j] => i = j
    /\ \A i \in 1..Len(chain) : ref[chain[i]] > 0

\* The elements of a sequence, and what is left of it from a place on.
LEMMA ElementIn ==
    ASSUME NEW T, NEW s \in Seq(T), NEW i \in 1..Len(s)
    PROVE  s[i] \in T
OBVIOUS

LEMMA Rest ==
    ASSUME NEW T, NEW s \in Seq(T), NEW i \in 1..(Len(s) + 1)
    PROVE  LET r == SubSeq(s, i, Len(s))
           IN  /\ r \in Seq(T) /\ Len(r) = Len(s) - i + 1
               /\ \A j \in 1..Len(r) : r[j] = s[i + j - 1] /\ i + j - 1 \in 1..Len(s)
OBVIOUS

\* However many references the first pbuf has, it goes back to the pool, and
\* none of the others does.
LEMMA ChopFreesOne ==
    ASSUME NEW ref, NEW chain, Chain(ref, chain), Len(chain) > 0
    PROVE  Chop(ref, chain) = [k \in 1..Chunks |-> IF k = chain[1] THEN 0 ELSE ref[k]]
<1>. DEFINE held == IF Len(chain) > 1 THEN [ref EXCEPT ![chain[2]] = @ + 1] ELSE ref
            free == {i \in DOMAIN chain : \A j \in 2..i : held[chain[j]] = 1}
<1>0. /\ ref \in [1..Chunks -> Nat] /\ chain \in Seq(1..Chunks) /\ Len(chain) \in Nat
      /\ DOMAIN chain = 1..Len(chain) /\ DOMAIN ref = 1..Chunks
  BY DEF Chain
<1>1. Len(chain) > 1 => /\ chain[2] \in 1..Chunks /\ chain[2] # chain[1]
                        /\ ref[chain[2]] \in Nat /\ ref[chain[2]] > 0
  <2>. SUFFICES ASSUME Len(chain) > 1
                PROVE  /\ chain[2] \in 1..Chunks /\ chain[2] # chain[1]
                       /\ ref[chain[2]] \in Nat /\ ref[chain[2]] > 0
    OBVIOUS
  <2>1. 1 \in 1..Len(chain) /\ 2 \in 1..Len(chain)
    BY <1>0
  <2>2. chain[2] \in 1..Chunks
    BY <1>0, <2>1, ElementIn
  <2>3. chain[2] # chain[1] /\ ref[chain[2]] > 0
    BY <2>1 DEF Chain
  <2>. QED  BY <1>0, <2>2, <2>3
<1>2. /\ held \in [1..Chunks -> Nat]
      /\ Len(chain) > 1 => held[chain[2]] = ref[chain[2]] + 1
      /\ \A k \in 1..Chunks : (Len(chain) > 1 /\ k = chain[2]) \/ held[k] = ref[k]
  BY <1>0, <1>1
<1>3. Chop(ref, chain) =
        [k \in 1..Chunks |->
           CASE \E i \in free : chain[i] = k -> 0
             [] \E i \in DOMAIN chain \ free : chain[i] = k /\ i - 1 \in free -> held[k] - 1
             [] OTHER -> held[k]]
  BY <1>0 DEF Chop
<1>. HIDE DEF held
<1>4. free = {1}
  <2>1. 1 \in free
    BY <1>0
  <2>2. ASSUME NEW i \in free, i # 1  PROVE FALSE
    <3>1. i \in 1..Len(chain) /\ 2 \in 2..i
      BY <1>0, <2>2
    <3>2. held[chain[2]] = 1 /\ Len(chain) > 1
      BY <1>0, <3>1
    <3>. QED  BY <1>1, <1>2, <3>2
  <2>. QED  BY <2>1, <2>2
<1>. HIDE DEF free
<1>5. ASSUME NEW k \in 1..Chunks
      PROVE  (CASE \E i \in free : chain[i] = k -> 0
                [] \E i \in DOMAIN chain \ free : chain[i] = k /\ i - 1 \in free -> held[k] - 1
                [] OTHER -> held[k])
             = IF k = chain[1] THEN 0 ELSE ref[k]
  <2>1. (\E i \in free : chain[i] = k) <=> k = chain[1]
    BY <1>4
  <2>2. (\E i \in DOMAIN chain \ free : chain[i] = k /\ i - 1 \in free)
          <=> Len(chain) > 1 /\ k = chain[2]
    BY <1>0, <1>4
  <2>3. CASE k = chain[1]
    BY <1>1, <2>1, <2>2, <2>3
  <2>4. CASE Len(chain) > 1 /\ k = chain[2]
    <3>1. held[k] - 1 = ref[k] /\ k # chain[1]
      BY <1>1, <1>2, <2>4
    <3>. QED  BY <2>1, <2>2, <2>4, <3>1
  <2>5. CASE k # chain[1] /\ ~(Len(chain) > 1 /\ k = chain[2])
    BY <1>2, <2>1, <2>2, <2>5
  <2>. QED  BY <2>3, <2>4, <2>5
<1>. QED  BY <1>3, <1>5

Freed(ref, chain, n) ==
    [k \in 1..Chunks |-> IF \E j \in 1..n : chain[j] = k THEN 0 ELSE ref[k]]

LEMMA ChopNext ==
    ASSUME NEW ref, NEW chain, Chain(ref, chain), NEW i \in 1..Len(chain)
    PROVE  Chop(Freed(ref, chain, i - 1), SubSeq(chain, i, Len(chain))) = Freed(ref, chain, i)
<1>. DEFINE r == Freed(ref, chain, i - 1)
            s == SubSeq(chain, i, Len(chain))
<1>0. /\ ref \in [1..Chunks -> Nat] /\ chain \in Seq(1..Chunks) /\ Len(chain) \in Nat
  BY DEF Chain
<1>1. /\ s \in Seq(1..Chunks) /\ Len(s) = Len(chain) - i + 1
      /\ \A j \in 1..Len(s) : s[j] = chain[i + j - 1] /\ i + j - 1 \in 1..Len(chain)
  <2>1. i \in 1..(Len(chain) + 1)
    BY <1>0
  <2>. QED  BY <1>0, <2>1, Rest
<1>2. r \in [1..Chunks -> Nat]
  BY <1>0 DEF Freed
<1>. HIDE DEF s
<1>3. \A j, k \in 1..Len(s) : s[j] = s[k] => j = k
  <2>. SUFFICES ASSUME NEW j \in 1..Len(s), NEW k \in 1..Len(s), s[j] = s[k]
                PROVE  j = k
    OBVIOUS
  <2>1. i + j - 1 = i + k - 1
    BY <1>1 DEF Chain
  <2>. QED  BY <1>0, <2>1
<1>4. ASSUME NEW j \in 1..Len(s)  PROVE r[s[j]] > 0
  <2>1. s[j] = chain[i + j - 1] /\ i + j - 1 \in 1..Len(chain) /\ s[j] \in 1..Chunks
    BY <1>1, ElementIn
  <2>2. \A k \in 1..(i - 1) : chain[k] # s[j]
    <3>. SUFFICES ASSUME NEW k \in 1..(i - 1), chain[k] = s[j]  PROVE FALSE
      OBVIOUS
    <3>1. k = i + j - 1
      BY <1>0, <2>1 DEF Chain
    <3>. QED  BY <1>0, <1>1, <3>1
  <2>3. r[s[j]] = ref[s[j]]
    BY <2>1, <2>2 DEF Freed
  <2>. QED  BY <2>1, <2>3 DEF Chain
<1>. HIDE DEF r
<1>5. Chop(r, s) = [k \in 1..Chunks |-> IF k = s[1] THEN 0 ELSE r[k]]
  <2>1. Len(s) > 0
    BY <1>0, <1>1
  <2>2. Chain(r, s)
    BY <1>1, <1>2, <1>3, <1>4 DEF Chain
  <2>. QED  BY <2>1, <2>2, ChopFreesOne
<1>6. s[1] = chain[i]
  BY <1>0, <1>1
<1>7. ASSUME NEW k \in 1..Chunks
      PROVE  (IF k = s[1] THEN 0 ELSE r[k])
              = IF \E j \in 1..i : chain[j] = k THEN 0 ELSE ref[k]
  <2>1. r[k] = IF \E j \in 1..(i - 1) : chain[j] = k THEN 0 ELSE ref[k]
    BY DEF r, Freed
  <2>2. (\E j \in 1..i : chain[j] = k) <=> k = chain[i] \/ \E j \in 1..(i - 1) : chain[j] = k
    BY <1>0
  <2>. QED  BY <1>6, <2>1, <2>2
<1>8. Chop(r, s) = Freed(ref, chain, i)
  BY <1>5, <1>7 DEF Freed
<1>. QED  BY <1>8 DEF r, s

\* The n pbufs that were sent go back to the pool.
LEMMA ChopFrees ==
    ASSUME NEW ref, NEW chain, Chain(ref, chain), NEW n \in 0..Len(chain)
    PROVE  ChopFirst(ref, chain, n) = Freed(ref, chain, n)
<1>. DEFINE E(f) == [i \in 0..n |-> IF i = 0 THEN ref
                                    ELSE Chop(f[i - 1], SubSeq(chain, i, Len(chain)))]
            g == [i \in 0..n |-> Freed(ref, chain, i)]
            r == CHOOSE f : f = E(f)
<1>0. /\ ref \in [1..Chunks -> Nat] /\ chain \in Seq(1..Chunks) /\ Len(chain) \in Nat
  BY DEF Chain
<1>1. Freed(ref, chain, 0) = ref
  BY <1>0 DEF Freed
<1>2. g = E(g)
  <2>1. ASSUME NEW i \in 0..n, i # 0
        PROVE  g[i] = Chop(g[i - 1], SubSeq(chain, i, Len(chain)))
    <3>1. i \in 1..Len(chain) /\ i - 1 \in 0..n
      BY <1>0, <2>1
    <3>2. g[i - 1] = Freed(ref, chain, i - 1)
      BY <3>1
    <3>. QED  BY <3>1, <3>2, ChopNext
  <2>. QED  BY <1>1, <2>1
<1>3. ChopFirst(ref, chain, n) = r[n]
  BY DEF ChopFirst
<1>4. r = E(r)
  BY <1>2
<1>. HIDE DEF r, g
<1>. DEFINE S == {i \in Nat : i \in 0..n => r[i] = Freed(ref, chain, i)}
<1>5. 0 \in S
  BY <1>1, <1>4
<1>6. ASSUME NEW i \in Nat, i \in S  PROVE i + 1 \in S
  <2>. SUFFICES ASSUME i + 1 \in 0..n PROVE r[i + 1] = Freed(ref, chain, i + 1)
    OBVIOUS
  <2>1. r[i] = Freed(ref, chain, i) /\ i + 1 \in 1..Len(chain) /\ (i + 1) - 1 = i /\ i + 1 # 0
    BY <1>0, <1>6
  <2>2. r[i + 1] = Chop(r[(i + 1) - 1], SubSeq(chain, i + 1, Len(chain)))
    BY <1>4, <2>1
  <2>3. Chop(Freed(ref, chain, (i + 1) - 1), SubSeq(chain, i + 1, Len(chain)))
          = Freed(ref, chain, i + 1)
    BY <2>1, ChopNext
  <2>. QED  BY <2>1, <2>2, <2>3
<1>. HIDE DEF S
<1>7. n \in S
  BY <1>5, <1>6, NatSetInduction
<1>. QED  BY <1>3, <1>7 DEF S

-----------------------------------------------------------------------------
(* The callbacks of the command server.                                     *)

LEMMA Front ==
    ASSUME NEW T, NEW s \in Seq(T), NEW n \in 0..Len(s)
    PROVE  LET r == SubSeq(s, 1, n)
           IN  /\ r \in Seq(T) /\ Len(r) = n
               /\ \A j \in 1..n : r[j] = s[j]
OBVIOUS

LEMMA FunctionIsSeq ==
    ASSUME NEW T, NEW m \in Nat, NEW f \in [1..m -> T]
    PROVE  f \in Seq(T)
OBVIOUS

\* What waits is a chain of pbufs in use.
LEMMA WaitsInChain ==
    ASSUME NEW c, NEW n \in Nat, c \in EchoPcb, InLine(c, n), Buffered(c, n), n <= Chunks
    PROVE  Chain(c.app.ref, c.app.chain)
<1>0. /\ c.app \in EchoApp /\ c.app.chain \in Seq(Nat) /\ c.app.ref \in [1..Chunks -> Nat]
      /\ Len(c.written) \in Nat /\ Len(c.app.chain) \in Nat /\ Chunks \in Nat
      /\ DOMAIN c.app.chain = 1..Len(c.app.chain)
  BY ConnectionAssumption, SMTT(30) DEF EchoPcb, Pcb, EchoApp
<1>1. ASSUME NEW i \in 1..Len(c.app.chain)
      PROVE  /\ c.app.chain[i] = Len(c.written) + i /\ c.app.chain[i] \in 1..Chunks
             /\ c.app.ref[c.app.chain[i]] > 0
  <2>1. c.app.chain[i] = Len(c.written) + i
    BY DEF InLine
  <2>2. c.app.chain[i] \in 1..Chunks /\ c.app.chain[i] \in (Len(c.written) + 1)..n
    <3>. DEFINE l == Len(c.written)
                m == Len(c.app.chain)
    <3>1. l \in Nat /\ m \in Nat /\ l + m = n /\ i \in 1..m /\ Chunks \in Nat
      BY <1>0 DEF InLine
    <3>. HIDE DEF l, m
    <3>2. l + i \in 1..Chunks /\ l + i \in (l + 1)..n
      BY <3>1
    <3>. QED  BY <2>1, <3>2 DEF l
  <2>. QED  BY <2>1, <2>2 DEF Buffered
<1>2. c.app.chain \in Seq(1..Chunks)
  <2>1. c.app.chain = [i \in 1..Len(c.app.chain) |-> c.app.chain[i]]
    BY <1>0
  <2>2. [i \in 1..Len(c.app.chain) |-> c.app.chain[i]] \in [1..Len(c.app.chain) -> 1..Chunks]
    BY <1>1
  <2>3. c.app.chain \in [1..Len(c.app.chain) -> 1..Chunks]
    BY <2>1, <2>2
  <2>. QED  BY <1>0, <2>3, FunctionIsSeq
<1>3. \A i, j \in 1..Len(c.app.chain) : c.app.chain[i] = c.app.chain[j] => i = j
  BY <1>0, <1>1, SMTT(30)
<1>. QED  BY <1>0, <1>1, <1>2, <1>3 DEF Chain

\* echo_send: what it writes comes off the chain, its pbufs go back to the pool
\* and its places to the window.
LEMMA EchoSends ==
    ASSUME NEW c, NEW n \in Nat, NEW w \in Nat, EchoGood(c, n, w), c.app.es # "none",
           Numbers
    PROVE  LET d == echo_send(c)
           IN  /\ EchoGood(d, n, w) /\ d.app.es = c.app.es /\ d.state = c.state
               /\ d.rnxt = c.rnxt /\ d.app.executed = c.app.executed
<1>. DEFINE chain == c.app.chain
            l == Len(c.written)
            v == Len(chain)
            wanted == Least(v, tcp_sndbuf(c))
            m == Least(wanted, c.room)
            s == SubSeq(chain, 1, m)
            rest == SubSeq(chain, m + 1, Len(chain))
            wr == c.written \o s
            rm == c.room - m
            rw == Least(c.rwnd + m, Wnd)
            rf == ChopFirst(c.app.ref, chain, m)
            b == c.failed \/ m < wanted
            d == echo_send(c)
<1>0. /\ c \in EchoPcb /\ c.app \in EchoApp /\ c.written \in Seq(Nat) /\ c.room \in Nat
      /\ c.una \in Nat /\ c.rwnd \in Int /\ chain \in Seq(Nat) /\ c.failed \in BOOLEAN
      /\ l \in Nat /\ v \in Nat /\ Wnd \in Nat /\ SndBuf \in Nat /\ Chunks \in Nat
  <2>1. c \in EchoPcb
    BY DEF EchoGood
  <2>2. /\ c.app \in EchoApp /\ c.written \in Seq(Nat) /\ c.room \in Nat
        /\ c.una \in Nat /\ c.rwnd \in Int /\ c.failed \in BOOLEAN
    BY <2>1 DEF EchoPcb, Pcb
  <2>3. chain \in Seq(Nat)
    BY <2>2 DEF EchoApp
  <2>. QED  BY <2>1, <2>2, <2>3, ConnectionAssumption
<1>1. EchoLive(c, n, w)
  BY DEF EchoGood
<1>2. tcp_sndbuf(c) \in Nat
  <2>1. l - c.una <= SndBuf
    BY <1>1 DEF EchoLive
  <2>. QED  BY <1>0, <2>1 DEF tcp_sndbuf
<1>3. wanted \in Nat /\ m \in Nat /\ m <= v /\ m <= c.room
  BY <1>0, <1>2 DEF Least
<1>. HIDE DEF wanted, m
<1>4. s \in Seq(Nat) /\ Len(s) = m /\ \A j \in 1..m : s[j] = chain[j]
  <2>1. m \in 0..Len(chain)
    BY <1>0, <1>3
  <2>. QED  BY <1>0, <2>1, Front
<1>5. /\ rest \in Seq(Nat) /\ Len(rest) = v - m
      /\ \A j \in 1..Len(rest) : rest[j] = chain[m + j] /\ m + j \in 1..v
  <2>1. m + 1 \in 1..(Len(chain) + 1)
    BY <1>0, <1>3
  <2>2. /\ rest \in Seq(Nat) /\ Len(rest) = Len(chain) - (m + 1) + 1
        /\ \A j \in 1..Len(rest) : rest[j] = chain[(m + 1) + j - 1]
                                   /\ (m + 1) + j - 1 \in 1..Len(chain)
    BY <1>0, <2>1, Rest
  <2>3. Len(rest) = v - m
    BY <1>0, <1>3, <2>2
  <2>. HIDE DEF rest
  <2>4. ASSUME NEW j \in 1..Len(rest)  PROVE rest[j] = chain[m + j] /\ m + j \in 1..v
    <3>1. (m + 1) + j - 1 = m + j
      BY <1>3
    <3>2. rest[j] = chain[(m + 1) + j - 1] /\ (m + 1) + j - 1 \in 1..Len(chain)
      BY <2>2
    <3>. QED  BY <3>1, <3>2
  <2>. QED  BY <2>2, <2>3, <2>4
<1>6. d = [c EXCEPT !.written = wr, !.room = rm, !.rwnd = rw,
                    !.app = [c.app EXCEPT !.chain = rest, !.ref = rf], !.failed = b]
  BY <1>0, <1>4, ZenonT(60) DEF echo_send, tcp_recved, tcp_write, EchoPcb, Pcb, EchoApp, wanted, m
<1>7. rf = Freed(c.app.ref, chain, m)
  <2>1. Chain(c.app.ref, chain)
    BY <1>0, <1>1, WaitsInChain DEF EchoLive
  <2>2. m \in 0..Len(chain)
    BY <1>0, <1>3
  <2>. QED  BY <2>1, <2>2, ChopFrees
<1>. HIDE DEF d, s, rest, rf
<1>8. /\ wr \in Seq(Nat) /\ Len(wr) = l + m
      /\ \A i \in 1..l : wr[i] = c.written[i]
      /\ \A i \in (l + 1)..(l + m) : wr[i] = s[i - l]
  <2>1. /\ wr \in Seq(Nat) /\ Len(wr) = Len(c.written) + Len(s)
        /\ \A i \in 1..Len(c.written) : wr[i] = c.written[i]
        /\ \A i \in (Len(c.written) + 1)..Len(wr) : wr[i] = s[i - Len(c.written)]
    BY <1>0, <1>4, Joined, ZenonT(60)
  <2>. HIDE DEF wr
  <2>. QED  BY <1>4, <2>1
<1>. HIDE DEF wr
<1>9. /\ l + v = n /\ c.rwnd + v + w = Wnd /\ l - c.una <= SndBuf /\ n <= Chunks
      /\ \A i \in 1..l : c.written[i] = i
      /\ \A i \in 1..v : chain[i] = l + i
  BY <1>1 DEF EchoLive, InLine
<1>. HIDE DEF l, v, chain
<1>10. rm \in Nat /\ rw \in Int /\ rw = c.rwnd + m
  <2>1. c.rwnd + m <= Wnd /\ c.rwnd + m \in Int /\ rm \in Nat
    <3>. DEFINE x == c.rwnd
    <3>1. x \in Int /\ x + v + w = Wnd
      BY <1>0, <1>9
    <3>. HIDE DEF x
    <3>2. x + m <= Wnd /\ x + m \in Int
      BY <1>0, <1>3, <3>1
    <3>3. rm \in Nat
      BY <1>0, <1>3
    <3>. QED  BY <3>2, <3>3 DEF x
  <2>. QED  BY <1>0, <2>1 DEF Least
<1>11. rf \in [1..Chunks -> Nat]
  <2>1. c.app.ref \in [1..Chunks -> Nat]
    BY <1>0 DEF EchoApp
  <2>. QED  BY <1>7, <2>1 DEF Freed
<1>. HIDE DEF rm, rw, b
<1>12. d \in EchoPcb
  <2>. DEFINE a == [c.app EXCEPT !.chain = rest, !.ref = rf]
              g == [c EXCEPT !.written = wr, !.room = rm, !.rwnd = rw]
  <2>1. a \in EchoApp
    BY <1>0, <1>5, <1>11 DEF EchoApp
  <2>2. g \in EchoPcb /\ d = [g EXCEPT !.app = a, !.failed = b]
    BY <1>0, <1>6, <1>8, <1>10 DEF EchoPcb, Pcb
  <2>3. b \in BOOLEAN
    BY <1>0 DEF b
  <2>. HIDE DEF a, g
  <2>. QED  BY <2>1, <2>2, <2>3 DEF EchoPcb, Pcb
<1>13. /\ d.written = wr /\ d.rwnd = rw /\ d.una = c.una /\ d.fin = c.fin
       /\ d.rxclosed = c.rxclosed /\ d.state = c.state /\ d.rnxt = c.rnxt /\ d.out = c.out
       /\ d.port = c.port /\ d.dangling = c.dangling
       /\ d.app = [c.app EXCEPT !.chain = rest, !.ref = rf]
  BY <1>0, <1>6 DEF EchoPcb, Pcb
<1>14. /\ d.app.chain = rest /\ d.app.ref = rf /\ d.app.es = c.app.es
       /\ d.app.executed = c.app.executed /\ d.app.leaked = c.app.leaked
  BY <1>0, <1>13 DEF EchoApp
<1>15. InLine(d, n)
  <2>1. (l + m) + (v - m) = n
    BY <1>0, <1>3, <1>9
  <2>2. ASSUME NEW i \in 1..(l + m)  PROVE wr[i] = i
    <3>1. CASE i \in 1..l
      BY <1>8, <1>9, <3>1
    <3>2. CASE i \notin 1..l
      <4>. DEFINE j == i - l
      <4>1. i \in (l + 1)..(l + m) /\ j \in 1..m /\ j \in 1..v /\ l + j = i
        BY <1>0, <1>3, <3>2
      <4>2. wr[i] = s[j]
        BY <1>8, <4>1
      <4>. HIDE DEF j
      <4>. QED  BY <1>4, <1>9, <4>1, <4>2
    <3>. QED  BY <3>1, <3>2
  <2>3. ASSUME NEW i \in 1..(v - m)  PROVE rest[i] = (l + m) + i
    <3>1. rest[i] = chain[m + i] /\ m + i \in 1..v
      BY <1>5
    <3>2. chain[m + i] = l + (m + i)
      BY <1>9, <3>1
    <3>. QED  BY <1>0, <1>3, <3>1, <3>2
  <2>. QED  BY <1>5, <1>8, <1>13, <1>14, <2>1, <2>2, <2>3 DEF InLine
<1>16. Buffered(d, n)
  <2>. SUFFICES ASSUME NEW k \in 1..Chunks
                PROVE  rf[k] > 0 <=> k \in (l + m + 1)..n
    BY <1>8, <1>13, <1>14 DEF Buffered
  <2>1. c.app.ref[k] > 0 <=> k \in (l + 1)..n
    BY <1>1 DEF EchoLive, Buffered, l
  <2>2. rf[k] = IF \E j \in 1..m : chain[j] = k THEN 0 ELSE c.app.ref[k]
    BY <1>7 DEF Freed
  <2>3. (\E j \in 1..m : chain[j] = k) <=> k \in (l + 1)..(l + m)
    <3>1. ASSUME NEW j \in 1..m, chain[j] = k  PROVE k \in (l + 1)..(l + m)
      <4>1. j \in 1..v
        BY <1>0, <1>3
      <4>2. k = l + j
        BY <1>9, <3>1, <4>1
      <4>. QED  BY <1>0, <1>3, <4>2
    <3>2. ASSUME k \in (l + 1)..(l + m)  PROVE \E j \in 1..m : chain[j] = k
      <4>1. k - l \in 1..m /\ k - l \in 1..v /\ l + (k - l) = k
        BY <1>0, <1>3, <3>2
      <4>2. chain[k - l] = l + (k - l)
        BY <1>9, <4>1
      <4>. QED  BY <4>1, <4>2
    <3>. QED  BY <3>1, <3>2
  <2>4. k \in (l + m + 1)..n <=> k \in (l + 1)..n /\ k \notin (l + 1)..(l + m)
    BY <1>0, <1>3
  <2>. QED  BY <2>1, <2>2, <2>3, <2>4
<1>17. Behind(d)
  <2>1. /\ c.una <= pgot /\ pgot <= l /\ c.out <= l /\ \A k \in down : k <= l
    BY <1>1 DEF EchoLive, Behind, l
  <2>2. pgot \in Int /\ c.out \in Int /\ down \subseteq Int
    BY <1>0 DEF Numbers, EchoPcb, Pcb
  <2>3. pgot <= l + m /\ c.out <= l + m /\ \A k \in down : k <= l + m
    BY <1>0, <1>3, <2>1, <2>2
  <2>. QED  BY <1>8, <1>13, <2>1, <2>3 DEF Behind
<1>18. EchoLive(d, n, w)
  <2>1. rw + (v - m) + w = Wnd /\ (l + m) - c.una <= SndBuf
    <3>1. m <= tcp_sndbuf(c) /\ tcp_sndbuf(c) = SndBuf - (l - c.una)
      BY <1>0, <1>2 DEF m, wanted, Least, tcp_sndbuf, l
    <3>2. rw + (v - m) + w = Wnd
      <4>. DEFINE x == c.rwnd
      <4>1. x \in Int /\ x + v + w = Wnd /\ rw = x + m
        BY <1>0, <1>9, <1>10
      <4>. HIDE DEF x
      <4>. QED  BY <1>0, <1>3, <4>1
    <3>3. (l + m) - c.una <= SndBuf
      <4>. DEFINE y == c.una
                  z == tcp_sndbuf(c)
      <4>1. y \in Nat /\ z \in Nat /\ m <= z /\ z = SndBuf - (l - y)
        BY <1>0, <1>2, <3>1
      <4>. HIDE DEF y, z
      <4>2. (l + m) - y <= SndBuf
        BY <1>0, <1>3, <4>1
      <4>. QED  BY <4>2 DEF y
    <3>. QED  BY <3>2, <3>3
  <2>3. c.app.leaked = {} /\ ~c.fin /\ ~c.rxclosed /\ (c.app.es = "ACCEPTED" => n = 0)
    BY <1>1 DEF EchoLive
  <2>4. Len(d.app.chain) = v - m /\ Len(d.written) = l + m
    BY <1>5, <1>8, <1>13, <1>14
  <2>5. d.rwnd + Len(d.app.chain) + w = Wnd /\ Len(d.written) - d.una <= SndBuf
    <3>1. d.rwnd = rw /\ d.una = c.una
      BY <1>13
    <3>. QED  BY <2>1, <2>4, <3>1
  <2>6. /\ d.app.leaked = {} /\ ~d.fin /\ ~d.rxclosed
        /\ d.app.es = "ACCEPTED" => n = 0
    BY <1>13, <1>14, <2>3
  <2>. QED  BY <1>9, <1>15, <1>16, <1>17, <2>5, <2>6 DEF EchoLive
<1>19. EchoGood(d, n, w) /\ d.app.es = c.app.es /\ d.state = c.state
       /\ d.rnxt = c.rnxt /\ d.app.executed = c.app.executed
  BY <1>12, <1>13, <1>14, <1>18 DEF EchoGood
<1>. QED  BY <1>19 DEF d

\* echo_close, when nothing waits any more: with a FIN, and the pcb stays.
LEMMA EchoCloses ==
    ASSUME NEW c, NEW n \in Nat, EchoGood(c, n, 0), c.app.es # "none",
           c.app.chain = <<>>, c.state = "CLOSE_WAIT"
    PROVE  LET d == echo_close(c)
           IN  /\ EchoGood(d, n, 0) /\ d.app.es = "none" /\ d.rnxt = c.rnxt
               /\ d.state \in {"CLOSE_WAIT", "LAST_ACK"}
<1>. DEFINE b == [c EXCEPT !.app.es = "none"]
            d == tcp_close(b)
<1>0. /\ c \in EchoPcb /\ c.app \in EchoApp /\ c.rwnd \in Int /\ EchoLive(c, n, 0)
      /\ c.app.leaked = {} /\ Executed(c.app.executed, n) /\ c.port = EchoPort /\ ~c.dangling
  BY DEF EchoGood, EchoLive, EchoPcb, Pcb
<1>1. c.rwnd = Wnd
  BY <1>0, ConnectionAssumption DEF EchoLive
<1>2. b \in EchoPcb
  BY <1>0 DEF EchoPcb, Pcb, EchoApp
<1>3. /\ b.app.es = "none" /\ b.app.chain = <<>> /\ b.app.leaked = c.app.leaked
      /\ b.app.ref = c.app.ref /\ b.app.executed = c.app.executed
      /\ b.port = c.port /\ b.dangling = c.dangling /\ b.state = c.state
      /\ b.rwnd = c.rwnd /\ b.rnxt = c.rnxt
  BY <1>0 DEF EchoPcb, Pcb, EchoApp
<1>. HIDE DEF b
<1>4. d \in EchoPcb /\ ClosedFrom(b, d)
  BY <1>2, CloseShape DEF EchoPcb
<1>. HIDE DEF d
<1>5. /\ d.app = b.app /\ d.port = EchoPort /\ ~d.dangling /\ d.rnxt = c.rnxt
      /\ d.state \in {"CLOSE_WAIT", "LAST_ACK"}
  BY <1>0, <1>1, <1>3, <1>4 DEF ClosedFrom
<1>6. \A k \in 1..Chunks : ~(c.app.ref[k] > 0)
  <2>1. Len(c.written) = n /\ n \in Nat
    BY <1>0 DEF EchoLive, InLine, EchoPcb, Pcb
  <2>. QED  BY <1>0, <2>1, ConnectionAssumption DEF EchoLive, Buffered
<1>7. EchoDead(d)
  BY <1>0, <1>3, <1>5, <1>6 DEF EchoDead
<1>8. EchoGood(d, n, 0)
  BY <1>0, <1>3, <1>4, <1>5, <1>7 DEF EchoGood
<1>. QED  BY <1>3, <1>5, <1>8 DEF echo_close, d, b

\* echo_sent and echo_poll.  A place in the window that belongs to a FIN or to
\* data is only there before the server is closing.
LEMMA EchoSent ==
    ASSUME NEW c, NEW n \in Nat, NEW w \in Nat, EchoGood(c, n, w), Numbers,
           c.app.es = "CLOSING" => c.state = "CLOSE_WAIT" /\ w = 0
    PROVE  LET d == echo_sent(c)
           IN  /\ EchoGood(d, n, w) /\ d.rnxt = c.rnxt
               /\ \/ d.app.es = c.app.es /\ d.state = c.state
                  \/ /\ c.app.es = "CLOSING" /\ d.app.es = "none"
                     /\ d.state \in {"CLOSE_WAIT", "LAST_ACK"}
<1>1. CASE c.app.chain # <<>>
  <2>1. echo_sent(c) = echo_send(c)
    BY <1>1 DEF echo_sent
  <2>2. c.app.es # "none"
    BY <1>1 DEF EchoGood, EchoDead
  <2>. QED  BY <2>1, <2>2, EchoSends
<1>2. CASE c.app.chain = <<>> /\ c.app.es = "CLOSING"
  <2>1. echo_sent(c) = echo_close(c)
    BY <1>2 DEF echo_sent
  <2>. QED  BY <1>2, <2>1, EchoCloses
<1>3. CASE c.app.chain = <<>> /\ c.app.es # "CLOSING"
  <2>1. echo_sent(c) = c
    BY <1>3 DEF echo_sent
  <2>. QED  BY <2>1
<1>. QED  BY <1>1, <1>2, <1>3

\* A chunk that is put behind the others.
LEMMA EchoAdds ==
    ASSUME NEW c, NEW n \in Nat, NEW w \in Nat, EchoGood(c, n, w + 1), c.app.es # "none",
           n + 1 <= Chunks, NEW x \in Nat \ {0}, NEW d \in EchoPcb,
           d.app.chain = Append(c.app.chain, n + 1), d.app.es = "RECEIVED",
           d.app.ref = [c.app.ref EXCEPT ![n + 1] = x], d.app.leaked = c.app.leaked,
           Executed(d.app.executed, n + 1), d.written = c.written, d.una = c.una,
           d.fin = c.fin, d.rxclosed = c.rxclosed, d.rwnd = c.rwnd, d.out = c.out,
           d.port = c.port, d.dangling = c.dangling
    PROVE  EchoGood(d, n + 1, w)
<1>. DEFINE l == Len(c.written)
            v == Len(c.app.chain)
<1>0. /\ c \in EchoPcb /\ c.app \in EchoApp /\ c.app.chain \in Seq(Nat) /\ c.rwnd \in Int
      /\ l \in Nat /\ v \in Nat /\ Wnd \in Nat /\ Chunks \in Nat
      /\ c.app.ref \in [1..Chunks -> Nat]
  <2>1. c \in EchoPcb
    BY DEF EchoGood
  <2>2. c.app \in EchoApp /\ c.written \in Seq(Nat) /\ c.rwnd \in Int
    BY <2>1 DEF EchoPcb, Pcb
  <2>3. c.app.chain \in Seq(Nat) /\ c.app.ref \in [1..Chunks -> Nat]
    BY <2>2 DEF EchoApp
  <2>4. l \in Nat /\ v \in Nat
    BY <2>2, <2>3
  <2>. QED  BY <2>1, <2>2, <2>3, <2>4, ConnectionAssumption
<1>1. EchoLive(c, n, w + 1)
  BY DEF EchoGood
<1>2. l + v = n /\ c.rwnd + v + (w + 1) = Wnd
  BY <1>1 DEF EchoLive, InLine
<1>3. /\ Len(d.app.chain) = v + 1 /\ d.app.chain[v + 1] = n + 1
      /\ \A i \in 1..v : d.app.chain[i] = c.app.chain[i]
  BY <1>0, SMTT(30)
<1>4. InLine(d, n + 1)
  <2>1. /\ \A i \in 1..l : d.written[i] = i
        /\ \A i \in 1..v : d.app.chain[i] = l + i
    BY <1>1, <1>3 DEF EchoLive, InLine
  <2>. HIDE DEF l, v
  <2>2. ASSUME NEW i \in 1..(v + 1)  PROVE d.app.chain[i] = l + i
    <3>1. CASE i \in 1..v
      BY <2>1, <3>1
    <3>2. CASE i \notin 1..v
      <4>0. l \in Nat /\ v \in Nat /\ l + v = n
        BY <1>0, <1>2
      <4>1. i = v + 1 /\ l + i = n + 1
        BY <3>2, <4>0
      <4>. QED  BY <1>3, <4>1
    <3>. QED  BY <3>1, <3>2
  <2>3. l + (v + 1) = n + 1
    BY <1>0, <1>2
  <2>4. Len(d.written) = l
    BY DEF l
  <2>. QED  BY <1>3, <2>1, <2>2, <2>3, <2>4 DEF InLine
<1>5. Buffered(d, n + 1)
  <2>. SUFFICES ASSUME NEW k \in 1..Chunks
                PROVE  d.app.ref[k] > 0 <=> k \in (l + 1)..(n + 1)
    BY DEF Buffered
  <2>1. c.app.ref[k] > 0 <=> k \in (l + 1)..n
    BY <1>1 DEF EchoLive, Buffered
  <2>. HIDE DEF l, v
  <2>2. CASE k = n + 1
    <3>1. d.app.ref[k] = x
      BY <1>0, <2>2
    <3>2. k \in (l + 1)..(n + 1)
      BY <1>0, <1>2, <2>2
    <3>. QED  BY <3>1, <3>2
  <2>3. CASE k # n + 1
    <3>1. d.app.ref[k] = c.app.ref[k]
      BY <1>0, <2>3
    <3>2. k \in (l + 1)..n <=> k \in (l + 1)..(n + 1)
      BY <1>0, <2>3, SMTT(30)
    <3>. QED  BY <2>1, <3>1, <3>2
  <2>. QED  BY <2>2, <2>3
<1>6. Behind(d)
  BY <1>1 DEF EchoLive, Behind
<1>7. d.rwnd + Len(d.app.chain) + w = Wnd
  <2>. HIDE DEF l, v
  <2>. DEFINE y == c.rwnd
  <2>1. y \in Int /\ y + v + (w + 1) = Wnd /\ d.rwnd = y /\ Len(d.app.chain) = v + 1
    BY <1>0, <1>2, <1>3
  <2>. HIDE DEF y
  <2>2. y + (v + 1) + w = Wnd
    BY <1>0, <2>1
  <2>. QED  BY <2>1, <2>2
<1>8. Len(d.written) - d.una <= SndBuf /\ d.app.leaked = {} /\ ~d.fin /\ ~d.rxclosed
  BY <1>1 DEF EchoLive
<1>9. EchoLive(d, n + 1, w)
  BY <1>4, <1>5, <1>6, <1>7, <1>8 DEF EchoLive
<1>. QED  BY <1>9 DEF EchoGood

LEMMA ExecutedMore ==
    ASSUME NEW ex \in Seq(Nat), NEW n \in Nat, Executed(ex, n)
    PROVE  /\ Executed(Append(ex, n + 1), n + 1)
           /\ n = 0 \/ n + 1 \in eager => Executed(ex, n + 1)
<1>. DEFINE m == Len(ex)
            f == Append(ex, n + 1)
<1>0. /\ m \in Nat /\ Len(f) = m + 1 /\ f[m + 1] = n + 1
      /\ \A i \in 1..m : f[i] = ex[i]
  OBVIOUS
<1>1. /\ \A i \in 1..m : ex[i] \in 1..n
      /\ \A i \in 1..(m - 1) : ex[i] < ex[i + 1]
      /\ \A k \in 2..n : k \in eager \/ \E i \in 1..m : ex[i] = k
  BY DEF Executed
<1>2. n = 0 \/ n + 1 \in eager => Executed(ex, n + 1)
  <2>1. \A i \in 1..m : ex[i] \in 1..(n + 1)
    BY <1>1
  <2>2. ASSUME n = 0 \/ n + 1 \in eager, NEW k \in 2..(n + 1)
        PROVE  k \in eager \/ \E i \in 1..m : ex[i] = k
    <3>1. k = n + 1 \/ k \in 2..n
      OBVIOUS
    <3>2. CASE k = n + 1
      BY <2>2, <3>2
    <3>. QED  BY <1>1, <3>1, <3>2
  <2>. QED  BY <1>1, <2>1, <2>2 DEF Executed
<1>. HIDE DEF f, m
<1>3. \A i \in 1..(m + 1) : f[i] \in 1..(n + 1)
  <2>. SUFFICES ASSUME NEW i \in 1..(m + 1) PROVE f[i] \in 1..(n + 1)
    OBVIOUS
  <2>1. CASE i = m + 1
    BY <1>0, <2>1
  <2>2. CASE i \in 1..m
    BY <1>0, <1>1, <2>2
  <2>. QED  BY <1>0, <2>1, <2>2
<1>4. \A i \in 1..m : f[i] < f[i + 1]
  <2>. SUFFICES ASSUME NEW i \in 1..m PROVE f[i] < f[i + 1]
    OBVIOUS
  <2>1. CASE i = m
    <3>1. f[i] \in 1..n /\ f[i + 1] = n + 1
      BY <1>0, <1>1, <2>1
    <3>. QED  BY <3>1
  <2>2. CASE i \in 1..(m - 1)
    <3>1. i + 1 \in 1..m
      BY <1>0, <2>2
    <3>. QED  BY <1>0, <1>1, <2>2, <3>1
  <2>. QED  BY <1>0, <2>1, <2>2
<1>5. \A k \in 2..(n + 1) : k \in eager \/ \E i \in 1..(m + 1) : f[i] = k
  <2>. SUFFICES ASSUME NEW k \in 2..(n + 1), k \notin eager
                PROVE  \E i \in 1..(m + 1) : f[i] = k
    OBVIOUS
  <2>1. CASE k = n + 1
    BY <1>0, <2>1
  <2>2. CASE k \in 2..n
    <3>1. PICK i \in 1..m : ex[i] = k
      BY <1>1, <2>2
    <3>2. f[i] = k /\ i \in 1..(m + 1)
      BY <1>0, <3>1
    <3>. QED  BY <3>2
  <2>. QED  BY <2>1, <2>2
<1>6. Executed(f, n + 1)
  <2>1. Len(f) - 1 = m /\ Len(f) = m + 1
    BY <1>0
  <2>. QED  BY <1>3, <1>4, <1>5, <2>1 DEF Executed
<1>. QED  BY <1>2, <1>6 DEF f

Taken(c, k, x, ch, ex) ==
    [c EXCEPT !.app = [c.app EXCEPT !.es = "RECEIVED", !.chain = ch,
                                    !.ref = [c.app.ref EXCEPT ![k] = x], !.executed = ex]]

\* echo_recv with the next chunk.  One that finds others waiting came from a
\* host that did not wait.
LEMMA EchoRecv ==
    ASSUME NEW c, NEW n \in Nat, NEW w \in Nat, EchoGood(c, n, w + 1), Numbers, Patient,
           c.app.es \in {"ACCEPTED", "RECEIVED"}, n + 1 <= psent, psent <= Chunks
    PROVE  LET d == echo_recv(c, n + 1)
           IN  /\ EchoGood(d, n + 1, w) /\ d.rnxt = c.rnxt
               /\ d.app.es = "RECEIVED" /\ d.state = c.state
<1>. DEFINE k == n + 1
<1>0. /\ c \in EchoPcb /\ c.app \in EchoApp /\ c.app.chain \in Seq(Nat)
      /\ c.app.ref \in [1..Chunks -> Nat] /\ c.app.executed \in Seq(Nat)
      /\ c.written \in Seq(Nat) /\ Executed(c.app.executed, n)
  <2>1. c \in EchoPcb /\ Executed(c.app.executed, n)
    BY DEF EchoGood
  <2>2. c.app \in EchoApp /\ c.written \in Seq(Nat)
    BY <2>1 DEF EchoPcb, Pcb
  <2>. QED  BY <2>1, <2>2 DEF EchoApp
<1>1. k \in Nat /\ k \in 1..Chunks /\ k \in 1..psent
  BY ConnectionAssumption DEF Numbers
<1>2. EchoLive(c, n, w + 1)
  BY DEF EchoGood
<1>3. ASSUME NEW x \in {1, 2}, NEW ch, NEW ex, ch = Append(c.app.chain, k),
             ex \in Seq(Nat), Executed(ex, k)
      PROVE  LET e == Taken(c, k, x, ch, ex)
             IN  /\ EchoGood(e, k, w) /\ e.app.es = "RECEIVED" /\ e.state = c.state
                 /\ e.rnxt = c.rnxt
  <2>. DEFINE e == Taken(c, k, x, ch, ex)
              rf == [c.app.ref EXCEPT ![k] = x]
              a == [c.app EXCEPT !.es = "RECEIVED", !.chain = ch, !.ref = rf, !.executed = ex]
  <2>1. rf \in [1..Chunks -> Nat] /\ ch \in Seq(Nat)
    BY <1>0, <1>1, <1>3, SMTT(30)
  <2>2. e = [c EXCEPT !.app = a]
    BY DEF Taken
  <2>. HIDE DEF rf, e
  <2>3. a \in EchoApp
    BY <1>0, <1>3, <2>1 DEF EchoApp
  <2>4. /\ a.es = "RECEIVED" /\ a.chain = ch /\ a.ref = rf /\ a.executed = ex
        /\ a.leaked = c.app.leaked
    BY <1>0 DEF EchoApp
  <2>. HIDE DEF a
  <2>5. /\ e \in EchoPcb /\ e.app = a /\ e.written = c.written /\ e.una = c.una
        /\ e.fin = c.fin /\ e.rxclosed = c.rxclosed /\ e.rwnd = c.rwnd /\ e.out = c.out
        /\ e.port = c.port /\ e.dangling = c.dangling /\ e.state = c.state /\ e.rnxt = c.rnxt
    BY <1>0, <2>2, <2>3 DEF EchoPcb, Pcb
  <2>6. n + 1 <= Chunks /\ x \in Nat \ {0} /\ c.app.es # "none"
    BY <1>1
  <2>7. EchoGood(e, n + 1, w)
    <3>1. /\ e.app.chain = Append(c.app.chain, n + 1) /\ e.app.es = "RECEIVED"
          /\ e.app.ref = [c.app.ref EXCEPT ![n + 1] = x] /\ e.app.leaked = c.app.leaked
          /\ Executed(e.app.executed, n + 1)
      BY <1>3, <2>4, <2>5 DEF rf
    <3>. QED  BY <2>5, <2>6, <3>1, EchoAdds
  <2>. QED  BY <2>4, <2>5, <2>7 DEF e
<1>4. CASE c.app.es = "ACCEPTED"
  <2>. DEFINE e == Taken(c, k, 1, <<k>>, c.app.executed)
  <2>1. n = 0 /\ c.app.chain = <<>>
    <3>1. n = 0 /\ Len(c.written) + Len(c.app.chain) = n
      BY <1>2, <1>4 DEF EchoLive, InLine
    <3>2. Len(c.written) \in Nat /\ Len(c.app.chain) \in Nat
      BY <1>0
    <3>3. Len(c.app.chain) = 0
      <4>. DEFINE l == Len(c.written)
                  v == Len(c.app.chain)
      <4>1. l \in Nat /\ v \in Nat /\ l + v = 0
        BY <3>1, <3>2
      <4>. HIDE DEF l, v
      <4>2. v = 0
        BY <4>1
      <4>. QED  BY <4>2 DEF v
    <3>4. c.app.chain \in Seq(Nat)
      BY <1>0
    <3>. QED  BY <3>1, <3>3, <3>4
  <2>2. echo_recv(c, k) = echo_send(e)
    BY <1>0, <1>4, ZenonT(60) DEF echo_recv, Taken, EchoPcb, Pcb, EchoApp
  <2>3. <<k>> = Append(c.app.chain, k) /\ Executed(c.app.executed, k)
    <3>1. <<k>> = Append(c.app.chain, k)
      BY <2>1
    <3>. QED  BY <1>0, <2>1, <3>1, ExecutedMore
  <2>4. EchoGood(e, k, w) /\ e.app.es = "RECEIVED" /\ e.state = c.state /\ e.rnxt = c.rnxt
    BY <1>0, <1>3, <2>3
  <2>. HIDE DEF e, k
  <2>. QED  BY <1>1, <2>2, <2>4, EchoSends DEF k
<1>5. CASE c.app.es = "RECEIVED" /\ c.app.chain = <<>>
  <2>. DEFINE ex == Append(c.app.executed, k)
              e == Taken(c, k, 1, <<k>>, ex)
  <2>2. echo_recv(c, k) = echo_send(e)
    <3>. DEFINE rf == [c.app.ref EXCEPT ![k] = 1]
                a == [c.app EXCEPT !.chain = <<k>>, !.ref = rf, !.executed = ex]
                one == [c EXCEPT !.app.chain = <<k>>, !.app.ref[k] = 1]
    <3>1. echo_recv(c, k) = echo_send([one EXCEPT !.app.executed = Append(@, k)])
      BY <1>5 DEF echo_recv
    <3>2. [one EXCEPT !.app.executed = Append(@, k)] = [c EXCEPT !.app = a]
      BY <1>0 DEF EchoPcb, Pcb, EchoApp
    <3>. HIDE DEF rf, ex
    <3>3. a = [c.app EXCEPT !.es = "RECEIVED", !.chain = <<k>>, !.ref = rf, !.executed = ex]
      BY <1>0, <1>5 DEF EchoApp
    <3>4. e = [c EXCEPT !.app = a]
      BY <3>3 DEF Taken, rf
    <3>. QED  BY <3>1, <3>2, <3>4
  <2>3. <<k>> = Append(c.app.chain, k) /\ Executed(ex, k) /\ ex \in Seq(Nat)
    <3>1. <<k>> = Append(c.app.chain, k)
      BY <1>5
    <3>2. k \in Nat /\ c.app.executed \in Seq(Nat) /\ Executed(c.app.executed, n)
      BY <1>0, <1>1
    <3>3. ex \in Seq(Nat)
      BY <3>2
    <3>4. Executed(ex, k)
      BY <3>2, ExecutedMore
    <3>. QED  BY <3>1, <3>3, <3>4
  <2>4. EchoGood(e, k, w) /\ e.app.es = "RECEIVED" /\ e.state = c.state /\ e.rnxt = c.rnxt
    BY <1>3, <2>3
  <2>. HIDE DEF e, k
  <2>. QED  BY <1>1, <2>2, <2>4, EchoSends DEF k
<1>6. CASE c.app.es = "RECEIVED" /\ c.app.chain # <<>>
  <2>. DEFINE e == Taken(c, k, 2, Append(c.app.chain, k), c.app.executed)
  <2>1. k \in eager
    <3>. SUFFICES ASSUME k \notin eager PROVE FALSE
      OBVIOUS
    <3>1. k - 1 <= pgot /\ pgot \in Int
      BY <1>1 DEF Patient, Numbers
    <3>. DEFINE l == Len(c.written)
                v == Len(c.app.chain)
    <3>2. pgot <= l /\ l + v = n
      BY <1>2 DEF EchoLive, Behind, InLine
    <3>3. l \in Nat /\ v \in Nat
      BY <1>0
    <3>4. v # 0
      BY <1>0, <1>6
    <3>. HIDE DEF l, v
    <3>. QED  BY <3>1, <3>2, <3>3, <3>4
  <2>2. echo_recv(c, k) = e
    BY <1>0, <1>6, ZenonT(60) DEF echo_recv, Taken, EchoPcb, Pcb, EchoApp
  <2>3. Executed(c.app.executed, k)
    BY <1>0, <2>1, ExecutedMore
  <2>4. EchoGood(e, k, w) /\ e.app.es = "RECEIVED" /\ e.state = c.state /\ e.rnxt = c.rnxt
    BY <1>0, <1>3, <2>3
  <2>. QED  BY <2>2, <2>4
<1>. QED  BY <1>4, <1>5, <1>6

\* echo_recv without data: the FIN has its place in the window back before.
LEMMA EchoClosed ==
    ASSUME NEW c, NEW n \in Nat, EchoGood(c, n, 1), Numbers,
           c.app.es \in {"ACCEPTED", "RECEIVED"}, c.state = "CLOSE_WAIT"
    PROVE  LET d == echo_closed(FinTaken(c))
           IN  /\ EchoGood(d, n, 0) /\ d.rnxt = c.rnxt
               /\ \/ d.app.es = "CLOSING" /\ d.state = "CLOSE_WAIT"
                  \/ d.app.es = "none" /\ d.state \in {"CLOSE_WAIT", "LAST_ACK"}
<1>. DEFINE r == c.rwnd + 1
            f == [c EXCEPT !.rwnd = r]
            e == [f EXCEPT !.app.es = "CLOSING"]
            a == [c.app EXCEPT !.es = "CLOSING"]
            v == Len(c.app.chain)
<1>0. /\ c \in EchoPcb /\ c.app \in EchoApp /\ c.rwnd \in Int /\ c.app.chain \in Seq(Nat)
      /\ v \in Nat /\ Wnd \in Nat
  <2>1. c \in EchoPcb
    BY DEF EchoGood
  <2>2. c.app \in EchoApp /\ c.rwnd \in Int
    BY <2>1 DEF EchoPcb, Pcb
  <2>3. c.app.chain \in Seq(Nat)
    BY <2>2 DEF EchoApp
  <2>4. v \in Nat
    BY <2>3
  <2>. QED  BY <2>1, <2>2, <2>3, <2>4, ConnectionAssumption
<1>1. EchoLive(c, n, 1)
  BY DEF EchoGood
<1>2. r \in Int /\ r + v + 0 = Wnd /\ c.rwnd # Wnd
  <2>1. c.rwnd + v + 1 = Wnd
    BY <1>1 DEF EchoLive
  <2>. HIDE DEF v
  <2>. QED  BY <1>0, <2>1
<1>3. FinTaken(c) = f
  BY <1>0, <1>2 DEF FinTaken, EchoPcb, Pcb
<1>. HIDE DEF r
<1>4. a \in EchoApp /\ e = [c EXCEPT !.rwnd = r, !.app = a]
  BY <1>0 DEF EchoPcb, Pcb, EchoApp
<1>5. /\ a.es = "CLOSING" /\ a.chain = c.app.chain /\ a.ref = c.app.ref
      /\ a.executed = c.app.executed /\ a.leaked = c.app.leaked
  BY <1>0 DEF EchoApp
<1>6. f.app = c.app
  BY <1>0 DEF EchoPcb, Pcb
<1>7. echo_closed(f) = IF c.app.chain = <<>> THEN echo_close(e) ELSE echo_send(e)
  BY <1>6 DEF echo_closed
<1>. HIDE DEF a, e
<1>8. /\ e \in EchoPcb /\ e.app = a /\ e.rwnd = r /\ e.written = c.written /\ e.una = c.una
      /\ e.fin = c.fin /\ e.rxclosed = c.rxclosed /\ e.out = c.out /\ e.port = c.port
      /\ e.dangling = c.dangling /\ e.state = c.state /\ e.rnxt = c.rnxt
  BY <1>0, <1>2, <1>4 DEF EchoPcb, Pcb
<1>9. EchoGood(e, n, 0)
  <2>1. InLine(e, n) /\ Buffered(e, n) /\ Behind(e)
    BY <1>1, <1>5, <1>8 DEF EchoLive, InLine, Buffered, Behind
  <2>2. e.rwnd + Len(e.app.chain) + 0 = Wnd
    BY <1>2, <1>5, <1>8
  <2>3. /\ n <= Chunks /\ c.app.leaked = {} /\ ~c.fin /\ ~c.rxclosed
        /\ Len(c.written) - c.una <= SndBuf
    BY <1>1 DEF EchoLive
  <2>4. EchoLive(e, n, 0)
    BY <1>5, <1>8, <2>1, <2>2, <2>3 DEF EchoLive
  <2>. QED  BY <1>5, <1>8, <2>4 DEF EchoGood
<1>10. CASE c.app.chain = <<>>
  BY <1>3, <1>5, <1>7, <1>8, <1>9, <1>10, EchoCloses
<1>11. CASE c.app.chain # <<>>
  BY <1>3, <1>5, <1>7, <1>8, <1>9, <1>11, EchoSends
<1>. QED  BY <1>10, <1>11

\* tcp_process: what it takes off the window is owed to the server.
Owing(c, s) == Bit(GotData(c, s)) + Bit(GotFin(c, s))

LEMMA EchoProcessed ==
    ASSUME NEW c, NEW n \in Nat, EchoGood(c, n, 0), Numbers, NEW s \in Segment(c),
           s.ack <= pgot
    PROVE  LET p == tcp_process(c, s)
           IN  /\ EchoGood(p, n, Owing(c, s)) /\ p.app = c.app
               /\ p.rnxt = c.rnxt + Owing(c, s) /\ Owing(c, s) \in Nat
               /\ p.state = NewState(c, GotFin(c, s), c.fin /\ s.ack = Total(c))
<1>. DEFINE p == tcp_process(c, s)
            b1 == Bit(GotData(c, s))
            b2 == Bit(GotFin(c, s))
            l == Len(c.written)
            v == Len(c.app.chain)
<1>0. /\ c \in EchoPcb /\ c.app \in EchoApp /\ c.rwnd \in Int /\ l \in Nat /\ v \in Nat
      /\ Wnd \in Nat /\ c.out \in Int /\ c.una \in Nat /\ SndBuf \in Nat /\ c.rnxt \in Nat
      /\ pgot \in Int /\ s.ack \in Nat /\ c.una <= s.ack
  <2>1. c \in EchoPcb
    BY DEF EchoGood
  <2>2. c.app \in EchoApp /\ c.rwnd \in Int /\ c.out \in Int /\ c.una \in Nat
        /\ c.rnxt \in Nat /\ c.written \in Seq(Nat)
    BY <2>1 DEF EchoPcb, Pcb
  <2>3. c.app.chain \in Seq(Nat)
    BY <2>2 DEF EchoApp
  <2>4. v \in Nat /\ l \in Nat
    BY <2>2, <2>3
  <2>5. s.ack \in Nat /\ c.una <= s.ack
    BY DEF Segment
  <2>. QED  BY <2>1, <2>2, <2>4, <2>5, ConnectionAssumption DEF Numbers
<1>1. b1 \in Nat /\ b2 \in Nat /\ Owing(c, s) = b1 + b2
  BY DEF Bit, Owing
<1>2. p \in EchoPcb /\ ProcessedFrom(c, s, p)
  BY <1>0, ProcessShape DEF EchoPcb
<1>. HIDE DEF p
<1>3. /\ p.written = c.written /\ p.app = c.app /\ p.fin = c.fin /\ p.rxclosed = c.rxclosed
      /\ p.dangling = c.dangling /\ p.una = s.ack /\ p.port = c.port
      /\ p.rnxt = c.rnxt + b1 + b2 /\ p.rwnd = c.rwnd - b1 - b2
      /\ p.out = Most(c.out, s.ack)
      /\ p.state = NewState(c, GotFin(c, s), c.fin /\ s.ack = Total(c))
  BY <1>2 DEF ProcessedFrom
<1>. HIDE DEF b1, b2
<1>4. p.rnxt = c.rnxt + Owing(c, s) /\ Owing(c, s) \in Nat
  BY <1>0, <1>1, <1>3, SMTT(30)
<1>5. CASE c.app.es = "none"
  <2>1. EchoDead(p)
    BY <1>3, <1>5 DEF EchoGood, EchoDead
  <2>2. EchoGood(p, n, Owing(c, s))
    BY <1>2, <1>3, <1>5, <2>1 DEF EchoGood
  <2>. QED  BY <1>3, <1>4, <2>2 DEF p
<1>6. CASE c.app.es # "none"
  <2>0. EchoLive(c, n, 0)
    BY <1>6 DEF EchoGood
  <2>1. InLine(p, n) /\ Buffered(p, n)
    BY <1>3, <2>0 DEF EchoLive, InLine, Buffered
  <2>2. /\ c.una <= pgot /\ pgot <= l /\ c.out <= l /\ \A k \in down : k <= l
        /\ c.rwnd + v + 0 = Wnd /\ l - c.una <= SndBuf
    BY <2>0 DEF EchoLive, Behind
  <2>3. Len(p.written) = l /\ Len(p.app.chain) = v
    BY <1>3
  <2>. HIDE DEF l, v
  <2>4. Behind(p)
    <3>1. Most(c.out, s.ack) <= l
      BY <1>0, <2>2 DEF Most
    <3>. QED  BY <1>3, <2>2, <2>3, <3>1 DEF Behind
  <2>5. p.rwnd + Len(p.app.chain) + Owing(c, s) = Wnd
    <3>. DEFINE x == c.rwnd
                z == p.rwnd
    <3>1. x \in Int /\ x + v + 0 = Wnd /\ z = x - b1 - b2
      BY <1>0, <1>3, <2>2
    <3>. HIDE DEF x, z
    <3>2. z + v + (b1 + b2) = Wnd
      BY <1>0, <1>1, <3>1
    <3>. QED  BY <1>1, <2>3, <3>2 DEF z
  <2>6. Len(p.written) - p.una <= SndBuf
    <3>1. l - s.ack <= SndBuf
      <4>. DEFINE x == c.una
                  y == s.ack
      <4>1. x \in Nat /\ y \in Nat /\ x <= y /\ l - x <= SndBuf
        BY <1>0, <2>2
      <4>. HIDE DEF x, y
      <4>2. l - y <= SndBuf
        BY <1>0, <4>1
      <4>. QED  BY <4>2 DEF y
    <3>. QED  BY <1>3, <2>3, <3>1
  <2>7. /\ n <= Chunks /\ c.app.leaked = {} /\ ~c.fin /\ ~c.rxclosed
        /\ c.app.es = "ACCEPTED" => n = 0
    BY <2>0 DEF EchoLive
  <2>8. EchoLive(p, n, Owing(c, s))
    BY <1>3, <2>1, <2>4, <2>5, <2>6, <2>7 DEF EchoLive
  <2>9. EchoGood(p, n, Owing(c, s))
    BY <1>2, <1>3, <1>6, <2>8 DEF EchoGood
  <2>. QED  BY <1>3, <1>4, <2>9 DEF p
<1>. QED  BY <1>5, <1>6

\* A segment with the callbacks it leads to.
LEMMA EchoTakes ==
    ASSUME NEW c, EchoWell(c), Numbers, Patient, psent <= Chunks,
           c.state \notin {"SYN_RCVD", "TIME_WAIT", "gone"},
           NEW s \in Segment(c), s.ack <= pgot, s.len = 1 => s.seq \in 1..psent,
           s.fin => pfin /\ s.seq + s.len = psent + 1,
           NEW e \in tcp_input(c, s, echo_sent, echo_recv, echo_closed)
    PROVE  EchoWell(e) /\ e.state # "SYN_RCVD"
<1>. DEFINE p == tcp_process(c, s)
            q == IF Least(s.ack, Len(c.written)) > c.una /\ p.state # "gone"
                   THEN echo_sent(p) ELSE p
            r == IF ~GotData(c, s) THEN q
                 ELSE IF q.rxclosed THEN [q EXCEPT !.state = "gone"]
                 ELSE echo_recv(q, s.seq)
            n == Least(c.rnxt, psent)
            w == Owing(c, s)
<1>1. e = IF GotFin(c, s) /\ r.state # "gone" THEN echo_closed(FinTaken(r)) ELSE r
  <2>. DEFINE sent(z) == IF Least(s.ack, Len(c.written)) > c.una /\ z.state # "gone"
                           THEN echo_sent(z) ELSE z
              recv(y) == IF ~GotData(c, s) THEN y
                         ELSE IF y.rxclosed THEN [y EXCEPT !.state = "gone"]
                         ELSE echo_recv(y, s.seq)
              closed(x) == IF GotFin(c, s) /\ x.state # "gone"
                             THEN echo_closed(FinTaken(x)) ELSE x
  <2>1. e \in {closed(x) : x \in {recv(y) : y \in {sent(z) : z \in {p}}}}
    BY DEF tcp_input
  <2>2. q = sent(p) /\ r = recv(q)
    OBVIOUS
  <2>. HIDE DEF sent, recv, closed, q, r, p
  <2>3. e = closed(r)
    BY <2>1, <2>2
  <2>. QED  BY <2>3 DEF closed
<1>2. /\ EchoGood(c, n, 0) /\ Placed(c) /\ c.rnxt \in Nat /\ psent \in Nat /\ n \in Nat
      /\ c.rnxt <= psent \/ (c.rnxt = psent + 1 /\ pfin)
      /\ c.app.es \in {"none", "ACCEPTED", "RECEIVED", "CLOSING"}
  <2>1. EchoGood(c, n, 0) /\ c \in EchoPcb
    BY DEF EchoWell, EchoGood
  <2>2. c.rnxt \in Nat /\ psent \in Nat /\ c.app \in EchoApp
    BY <2>1 DEF EchoPcb, Pcb, Numbers
  <2>3. c.app.es \in {"none", "ACCEPTED", "RECEIVED", "CLOSING"}
    BY <2>2 DEF EchoApp
  <2>4. n \in Nat
    BY <2>2 DEF Least
  <2>. QED  BY <2>1, <2>2, <2>3, <2>4 DEF EchoWell
<1>. HIDE DEF n
<1>3. /\ EchoGood(p, n, w) /\ p.app = c.app /\ p.rnxt = c.rnxt + w /\ w \in Nat
      /\ p.state = NewState(c, GotFin(c, s), c.fin /\ s.ack = Total(c))
  BY <1>2, EchoProcessed
<1>. HIDE DEF p
<1>4. CASE c.app.es \in {"none", "CLOSING"}
  <2>1. c.state \in {"CLOSE_WAIT", "LAST_ACK"} /\ (c.app.es = "CLOSING" => c.state = "CLOSE_WAIT")
    BY <1>2, <1>4 DEF Placed
  <2>2. ~GotData(c, s) /\ ~GotFin(c, s)
    BY <2>1 DEF GotData, GotFin, InSequence
  <2>3. w = 0
    BY <2>2 DEF Owing, Bit
  <2>4. p.rnxt = c.rnxt /\ EchoGood(p, n, 0)
    BY <1>2, <1>3, <2>3
  <2>5. /\ c.state = "CLOSE_WAIT" => p.state = "CLOSE_WAIT"
        /\ c.state = "LAST_ACK" => p.state \in {"LAST_ACK", "gone"}
    BY <1>3, <2>2 DEF NewState
  <2>6. /\ EchoGood(q, n, 0) /\ q.rnxt = p.rnxt
        /\ \/ q.app.es = p.app.es /\ q.state = p.state
           \/ p.app.es = "CLOSING" /\ q.app.es = "none" /\ q.state \in {"CLOSE_WAIT", "LAST_ACK"}
    <3>1. p.app.es = "CLOSING" => p.state = "CLOSE_WAIT" /\ 0 = 0
      BY <1>3, <2>1, <2>5
    <3>. QED  BY <1>2, <2>4, <3>1, EchoSent
  <2>7. e = q
    BY <1>1, <2>2
  <2>. HIDE DEF q
  <2>8. Placed(q)
    BY <1>2, <1>3, <1>4, <2>1, <2>5, <2>6 DEF Placed
  <2>9. q.state # "SYN_RCVD"
    BY <2>1, <2>5, <2>6
  <2>. QED  BY <1>2, <2>4, <2>6, <2>7, <2>8, <2>9 DEF EchoWell, n
<1>5. CASE c.app.es \in {"ACCEPTED", "RECEIVED"}
  <2>. DEFINE b1 == Bit(GotData(c, s))
              b2 == Bit(GotFin(c, s))
  <2>1. c.state = "ESTABLISHED"
    BY <1>2, <1>5 DEF Placed
  <2>2. p.state = IF GotFin(c, s) THEN "CLOSE_WAIT" ELSE "ESTABLISHED"
    BY <1>3, <2>1 DEF NewState
  <2>3. /\ EchoGood(q, n, w) /\ q.rnxt = p.rnxt /\ q.app.es = c.app.es /\ q.state = p.state
        /\ ~q.rxclosed
    <3>1. p.app.es # "CLOSING" /\ p.app.es = c.app.es
      BY <1>3, <1>5
    <3>2. EchoGood(q, n, w) /\ q.rnxt = p.rnxt /\ q.app.es = c.app.es /\ q.state = p.state
      BY <1>2, <1>3, <3>1, EchoSent
    <3>. HIDE DEF q
    <3>. QED  BY <1>5, <3>2 DEF EchoGood, EchoLive
  <2>. HIDE DEF q
  <2>4. b1 \in {0, 1} /\ b2 \in {0, 1} /\ w = b1 + b2
    BY DEF Bit, Owing
  <2>5. /\ GotData(c, s) => b1 = 1 /\ s.seq = c.rnxt + 1 /\ s.seq \in 1..psent
        /\ ~GotData(c, s) => b1 = 0
        /\ GotFin(c, s) => b2 = 1 /\ pfin /\ c.rnxt + b1 = psent
        /\ ~GotFin(c, s) => b2 = 0
    <3>1. s.len \in {0, 1} /\ s.seq \in Nat
      BY DEF Segment
    <3>2. GotData(c, s) => b1 = 1 /\ s.seq = c.rnxt + 1 /\ s.seq \in 1..psent
      BY <3>1 DEF GotData, InSequence, Bit
    <3>3. (~GotData(c, s) => b1 = 0) /\ (~GotFin(c, s) => b2 = 0)
      BY DEF Bit
    <3>4. ASSUME GotFin(c, s)  PROVE b2 = 1 /\ pfin /\ c.rnxt + b1 = psent
      <4>1. s.fin /\ s.seq = c.rnxt + 1 /\ b2 = 1 /\ pfin /\ s.seq + s.len = psent + 1
        BY <3>4 DEF GotFin, InSequence, Bit
      <4>2. s.len = b1
        BY <3>1, <3>4 DEF GotData, GotFin, Bit
      <4>. QED  BY <1>2, <2>4, <4>1, <4>2
    <3>. QED  BY <3>2, <3>3, <3>4
  <2>6. /\ n + b1 \in Nat /\ n + b1 = Least(p.rnxt, psent)
        /\ p.rnxt <= psent \/ (p.rnxt = psent + 1 /\ pfin)
        /\ GotData(c, s) => s.seq = n + 1 /\ n + 1 <= psent
    <3>. DEFINE x == c.rnxt
                y == p.rnxt
                k == s.seq
    <3>1. /\ y = x + (b1 + b2) /\ x \in Nat /\ psent \in Nat /\ k \in Nat
          /\ n = (IF x < psent THEN x ELSE psent)
          /\ x <= psent \/ (x = psent + 1 /\ pfin)
          /\ GotData(c, s) => b1 = 1 /\ k = x + 1 /\ k \in 1..psent
          /\ GotFin(c, s) => pfin /\ x + b1 = psent
          /\ ~GotData(c, s) => b1 = 0
          /\ ~GotFin(c, s) => b2 = 0
      BY <1>2, <1>3, <2>4, <2>5 DEF n, Least, Segment
    <3>. HIDE DEF x, y, k, b1, b2
    <3>2. GotData(c, s) => k = n + 1 /\ n + 1 <= psent
      BY <2>4, <3>1
    <3>3. y <= psent \/ (y = psent + 1 /\ pfin)
      BY <2>4, <3>1
    <3>4. n + b1 \in Nat /\ n + b1 = IF y < psent THEN y ELSE psent
      BY <2>4, <3>1
    <3>. QED  BY <3>2, <3>3, <3>4 DEF x, y, k, Least
  <2>. HIDE DEF b1, b2
  <2>7. /\ EchoGood(r, n + b1, b2) /\ r.rnxt = p.rnxt /\ r.state = p.state
        /\ r.app.es \in {"ACCEPTED", "RECEIVED"}
    <3>1. CASE ~GotData(c, s)
      <4>1. r = q /\ n + b1 = n /\ w = b2
        BY <1>2, <2>4, <2>5, <3>1
      <4>. QED  BY <1>5, <2>3, <4>1
    <3>2. CASE GotData(c, s)
      <4>1. r = echo_recv(q, n + 1) /\ n + b1 = n + 1 /\ w = b2 + 1 /\ b2 \in Nat
        BY <2>3, <2>4, <2>5, <2>6, <3>2
      <4>. QED  BY <1>2, <1>5, <2>3, <2>6, <3>2, <4>1, EchoRecv
    <3>. QED  BY <3>1, <3>2
  <2>. HIDE DEF r
  <2>8. CASE GotFin(c, s)
    <3>1. r.state = "CLOSE_WAIT" /\ b2 = 1 /\ e = echo_closed(FinTaken(r))
      BY <1>1, <2>2, <2>5, <2>7, <2>8
    <3>2. /\ EchoGood(e, n + b1, 0) /\ e.rnxt = r.rnxt
          /\ \/ e.app.es = "CLOSING" /\ e.state = "CLOSE_WAIT"
             \/ e.app.es = "none" /\ e.state \in {"CLOSE_WAIT", "LAST_ACK"}
      BY <2>6, <2>7, <3>1, EchoClosed
    <3>3. Placed(e)
      BY <1>2, <3>2 DEF Placed
    <3>. QED  BY <2>6, <2>7, <3>2, <3>3 DEF EchoWell
  <2>9. CASE ~GotFin(c, s)
    <3>1. e = r /\ b2 = 0 /\ r.state = "ESTABLISHED"
      BY <1>1, <2>2, <2>5, <2>7, <2>9
    <3>2. Placed(e)
      BY <1>2, <2>7, <3>1 DEF Placed
    <3>. QED  BY <2>6, <2>7, <3>1, <3>2 DEF EchoWell
  <2>. QED  BY <2>8, <2>9
<1>. QED  BY <1>2, <1>4, <1>5

\* What the host and the wire may do to a connection that is well.
LEMMA EchoMoves ==
    ASSUME NEW c, EchoWell(c), conn' = c, reset' = reset, eager \subseteq eager',
           c.rnxt <= psent' \/ (c.rnxt = psent' + 1 /\ pfin'),
           Least(c.rnxt, psent') = Least(c.rnxt, psent),
           c.app.es # "none" => /\ c.una <= pgot' /\ pgot' <= Len(c.written)
                                /\ \A k \in down' : k <= Len(c.written),
           c.state = "SYN_RCVD" => pgot' = 0 /\ down' = {}
    PROVE  EchoWell(conn)'
<1>0. PICK n : n = Least(c.rnxt, psent)
  OBVIOUS
<1>1. EchoGood(c, n, 0) /\ Placed(c)
  BY <1>0 DEF EchoWell
<1>2. Placed(conn)'
  BY <1>1 DEF Placed
<1>3. Least(conn.rnxt, psent)' = n
  BY <1>0 DEF Least
<1>4. Executed(c.app.executed, n)'
  BY <1>1 DEF EchoGood, Executed
<1>5. ASSUME c.app.es = "none"  PROVE EchoDead(conn)'
  BY <1>1, <1>5 DEF EchoGood, EchoDead
<1>6. ASSUME c.app.es # "none"
      PROVE  EchoLive(conn, n, 0)'
  <2>1. EchoLive(c, n, 0)
    BY <1>1, <1>6 DEF EchoGood
  <2>2. InLine(conn, n)' /\ Buffered(conn, n)'
    BY <2>1 DEF EchoLive, InLine, Buffered
  <2>3. Behind(conn)'
    BY <1>6, <2>1 DEF EchoLive, Behind
  <2>. QED  BY <2>1, <2>2, <2>3 DEF EchoLive
<1>7. (conn \in EchoPcb)' /\ (conn.port = EchoPort)' /\ (~conn.dangling)'
  BY <1>1 DEF EchoGood, EchoPcb, Pcb, EchoApp
<1>8. EchoGood(conn, Least(conn.rnxt, psent), 0)'
  BY <1>3, <1>4, <1>5, <1>6, <1>7 DEF EchoGood
<1>. QED  BY <1>2, <1>8 DEF EchoWell

\* Only how much was sent and what memory there is has changed.
LEMMA EchoOutput ==
    ASSUME NEW c, EchoWell(c), NEW d \in EchoPcb, SameButOutput(c, d),
           c.app.es # "none" => d.out <= Len(c.written),
           c.state = "SYN_RCVD" => d.out = 0
    PROVE  EchoWell(d)
<1>. DEFINE n == Least(c.rnxt, psent)
<1>1. EchoGood(c, n, 0) /\ Placed(c) /\ n = Least(d.rnxt, psent)
  BY DEF EchoWell, SameButOutput
<1>2. c.rnxt <= psent \/ (c.rnxt = psent + 1 /\ pfin)
  BY DEF EchoWell
<1>3. Placed(d)
  BY <1>1 DEF Placed, SameButOutput
<1>. HIDE DEF n
<1>4. EchoDead(c) => EchoDead(d)
  BY DEF EchoDead, SameButOutput
<1>5. EchoLive(c, n, 0) /\ c.app.es # "none" => EchoLive(d, n, 0)
  BY DEF EchoLive, InLine, Buffered, Behind, SameButOutput
<1>6. EchoGood(d, n, 0)
  BY <1>1, <1>4, <1>5 DEF EchoGood, SameButOutput
<1>. QED  BY <1>1, <1>2, <1>3, <1>6 DEF EchoWell, SameButOutput

LEMMA EchoEndsHandler ==
    ASSUME EchoInv, UNCHANGED <<psent, pfin, pgot, eager, reset>>, NEW C, NEW room,
           \A c \in C : EchoWell(c) /\ c.state # "SYN_RCVD", Settle(C, room)
    PROVE  EchoInv'
<1>1. PICK c \in C : \E o \in Outs(c) :
        conn' = Settled(c, o) /\ down' = down \cup ((c.out + 1)..o)
  BY DEF Settle, Settled
<1>2. PICK o \in Outs(c) :
        conn' = Settled(c, o) /\ down' = down \cup ((c.out + 1)..o)
  BY <1>1
<1>3. EchoWell(c) /\ c \in EchoPcb /\ c.out \in Int /\ c.state # "SYN_RCVD"
  BY DEF EchoWell, EchoGood, EchoPcb, Pcb
<1>4. o \in Int
  BY <1>3, OutputShape DEF EchoPcb
<1>. DEFINE d == Settled(c, o)
            n == Least(c.rnxt, psent)
<1>5. d \in EchoPcb /\ SameButOutput(c, d) /\ d.out = o
  <2>1. d.out = o
    BY <1>3 DEF Settled, EchoPcb, Pcb
  <2>. QED  BY <1>3, <1>4, <2>1, SettledPcb DEF EchoPcb
<1>. HIDE DEF d
<1>6. ASSUME c.app.es # "none"
      PROVE  /\ o <= Len(c.written) /\ c.una <= pgot /\ pgot <= Len(c.written)
             /\ \A k \in down : k <= Len(c.written)
  <2>1. EchoLive(c, n, 0)
    BY <1>3, <1>6 DEF EchoWell, EchoGood
  <2>2. ~c.fin /\ c.out <= Len(c.written) /\ Len(c.written) \in Nat
    BY <1>3, <2>1 DEF EchoLive, Behind, EchoPcb, Pcb
  <2>3. Total(c) = Len(c.written)
    BY <2>2 DEF Total, Bit
  <2>4. o <= Len(c.written)
    BY <1>3, <2>2, <2>3 DEF Outs
  <2>. QED  BY <2>1, <2>4 DEF EchoLive, Behind
<1>7. EchoWell(d)
  BY <1>3, <1>5, <1>6, EchoOutput
<1>8. ASSUME d.app.es # "none"
      PROVE  /\ d.una <= pgot' /\ pgot' <= Len(d.written)
             /\ \A k \in down' : k <= Len(d.written)
  <2>1. c.app.es # "none" /\ d.una = c.una /\ d.written = c.written
    BY <1>5, <1>8 DEF SameButOutput
  <2>2. Len(c.written) \in Nat
    BY <1>3 DEF EchoPcb, Pcb
  <2>3. \A k \in (c.out + 1)..o : k <= Len(c.written)
    BY <1>3, <1>4, <1>6, <2>1, <2>2
  <2>. QED  BY <1>2, <1>6, <2>1, <2>3
<1>9. EchoWell(conn)'
  <2>1. d.rnxt <= psent \/ (d.rnxt = psent + 1 /\ pfin)
    BY <1>7 DEF EchoWell
  <2>2. d.state # "SYN_RCVD" /\ conn' = d
    BY <1>2, <1>3, <1>5 DEF SameButOutput, d
  <2>. QED  BY <1>7, <1>8, <2>1, <2>2, EchoMoves
<1>10. Numbers'
  <2>1. (c.out + 1)..o \subseteq Int
    BY <1>3, <1>4
  <2>2. down' \subseteq Int
    BY <1>2, <2>1 DEF EchoInv, Numbers
  <2>. QED  BY <2>2 DEF EchoInv, Numbers
<1>11. (psent <= Chunks)' /\ Patient'
  BY DEF EchoInv, Patient
<1>. QED  BY <1>9, <1>10, <1>11 DEF EchoInv

LEMMA EchoCommon ==
    ASSUME EchoInv, Common
    PROVE  EchoInv'
<1>0. PICK c : c = conn
  OBVIOUS
<1>1. /\ EchoWell(c) /\ EchoGood(c, Least(c.rnxt, psent), 0) /\ Placed(c) /\ c \in EchoPcb
      /\ c.rnxt \in Nat /\ c.una \in Nat /\ c.out \in Int /\ Len(c.written) \in Nat
      /\ c.port = EchoPort /\ c.app.es \in {"none", "ACCEPTED", "RECEIVED", "CLOSING"}
      /\ c.rnxt <= psent \/ (c.rnxt = psent + 1 /\ pfin)
  <2>1. EchoWell(c) /\ EchoGood(c, Least(c.rnxt, psent), 0) /\ Placed(c)
    BY <1>0 DEF EchoInv, EchoWell
  <2>2. c \in EchoPcb /\ c.port = EchoPort
    BY <2>1 DEF EchoGood
  <2>3. c.rnxt \in Nat /\ c.una \in Nat /\ c.out \in Int /\ c.written \in Seq(Nat)
        /\ c.app \in EchoApp
    BY <2>2 DEF EchoPcb, Pcb
  <2>4. Len(c.written) \in Nat /\ c.app.es \in {"none", "ACCEPTED", "RECEIVED", "CLOSING"}
    BY <2>3 DEF EchoApp
  <2>5. c.rnxt <= psent \/ (c.rnxt = psent + 1 /\ pfin)
    BY <2>1 DEF EchoWell
  <2>. QED  BY <2>1, <2>2, <2>3, <2>4, <2>5
<1>2. /\ Numbers /\ psent \in Nat /\ pgot \in Int /\ down \subseteq Int
      /\ psent <= Chunks /\ Patient /\ Chunks \in Nat
  BY ConnectionAssumption DEF EchoInv, Numbers
<1>3. Numbers'
  BY <1>0, <1>1, <1>2, CommonNumbers
<1>4. c.app.es # "none" => Behind(c)
  BY <1>1 DEF EchoGood, EchoLive
<1>5. CASE Expire
  BY <1>0, <1>1, <1>5 DEF Expire, Placed
<1>6. CASE FastRexmit
  <2>1. /\ UNCHANGED <<psent, pfin, pgot, eager, reset>> /\ conn' = c
        /\ down' = down \cup {c.una + 1} /\ c.out > pgot + 1 /\ c.state # "SYN_RCVD"
    BY <1>0, <1>6 DEF FastRexmit, Open
  <2>2. c.app.es # "none" => c.una + 1 <= Len(c.written)
    BY <1>1, <1>2, <1>4, <2>1 DEF Behind
  <2>3. c.app.es # "none" => /\ c.una <= pgot' /\ pgot' <= Len(c.written)
                             /\ \A k \in down' : k <= Len(c.written)
    BY <1>4, <2>1, <2>2 DEF Behind
  <2>4. EchoWell(conn)'
    BY <1>1, <2>1, <2>3, EchoMoves
  <2>. QED  BY <1>2, <1>3, <2>1, <2>4 DEF EchoInv, Patient
<1>7. CASE HostSends
  <2>1. /\ UNCHANGED <<pgot, reset, pfin, down>> /\ conn' = c /\ psent' = psent + 1
        /\ psent < Chunks /\ c.state # "SYN_RCVD" /\ ~pfin
        /\ eager' = IF pgot < psent THEN eager \cup {psent + 1} ELSE eager
    BY <1>0, <1>1, <1>7 DEF HostSends
  <2>2. c.rnxt <= psent /\ c.rnxt <= psent' /\ psent + 1 <= Chunks
        /\ Least(c.rnxt, psent') = Least(c.rnxt, psent)
    BY <1>1, <1>2, <2>1 DEF Least
  <2>3. EchoWell(conn)'
    BY <1>1, <1>4, <2>1, <2>2, EchoMoves DEF Behind
  <2>4. Patient'
    <3>. SUFFICES ASSUME NEW k \in 1..(psent + 1)
                  PROVE  k \in eager' \/ k - 1 <= pgot
      BY <2>1 DEF Patient
    <3>1. CASE k \in 1..psent
      BY <1>2, <2>1, <3>1 DEF Patient
    <3>2. CASE k = psent + 1
      BY <1>2, <2>1, <3>2
    <3>. QED  BY <1>2, <3>1, <3>2
  <2>. QED  BY <1>3, <2>1, <2>2, <2>3, <2>4 DEF EchoInv
<1>8. CASE HostCloses
  <2>1. UNCHANGED <<psent, pgot, reset, eager, down>> /\ conn' = c /\ c.state # "SYN_RCVD" /\ pfin'
    BY <1>0, <1>8 DEF HostCloses
  <2>2. EchoWell(conn)'
    BY <1>1, <1>4, <2>1, EchoMoves DEF Behind
  <2>. QED  BY <1>2, <1>3, <2>1, <2>2 DEF EchoInv, Patient
<1>9. ASSUME NEW k \in down, HostGets(k)
      PROVE  EchoInv'
  <2>1. /\ UNCHANGED <<psent, pfin, reset, eager>> /\ conn' = c /\ down' \subseteq down
        /\ pgot' = IF k = pgot + 1 THEN k ELSE pgot
    BY <1>0, <1>9 DEF HostGets
  <2>2. c.state # "SYN_RCVD"
    BY <1>1, <1>9 DEF Placed
  <2>3. k \in Int /\ pgot' \in Int /\ pgot <= pgot'
    BY <1>2, <1>9, <2>1
  <2>4. c.app.es # "none" => /\ c.una <= pgot' /\ pgot' <= Len(c.written)
                             /\ \A x \in down' : x <= Len(c.written)
    BY <1>1, <1>2, <1>4, <1>9, <2>1, <2>3 DEF Behind
  <2>5. EchoWell(conn)'
    BY <1>1, <2>1, <2>2, <2>4, EchoMoves
  <2>6. Patient'
    BY <1>2, <2>1, <2>3 DEF Patient
  <2>. QED  BY <1>2, <1>3, <2>1, <2>5, <2>6 DEF EchoInv
<1>10. ASSUME NEW k \in down, Lose(k)
       PROVE  EchoInv'
  <2>1. UNCHANGED <<psent, pfin, pgot, reset, eager>> /\ conn' = c /\ down' \subseteq down
    BY <1>0, <1>10 DEF Lose
  <2>2. c.state # "SYN_RCVD"
    BY <1>1, <1>10 DEF Placed
  <2>3. EchoWell(conn)'
    BY <1>1, <1>4, <2>1, <2>2, EchoMoves DEF Behind
  <2>. QED  BY <1>2, <1>3, <2>1, <2>3 DEF EchoInv, Patient
<1>. QED  BY <1>5, <1>6, <1>7, <1>8, <1>9, <1>10 DEF Common, Wire

LEMMA EchoAccepts ==
    ASSUME EchoInv, echo_accept
    PROVE  EchoInv'
<1>. DEFINE a == [NoEcho EXCEPT !.es = "ACCEPTED"]
<1>0. PICK c : c = conn
  OBVIOUS
<1>1. /\ c \in EchoPcb /\ c.port = EchoPort /\ ~c.dangling /\ Placed(c) /\ EchoWell(c)
      /\ Numbers /\ psent <= Chunks /\ Patient /\ psent \in Nat
  BY <1>0 DEF EchoInv, EchoWell, EchoGood, Numbers
<1>2. /\ c.state = "SYN_RCVD"
      /\ UNCHANGED <<psent, pfin, pgot, down, eager, reset>>
      /\ \/ conn' = [c EXCEPT !.state = "ESTABLISHED", !.app = a]
         \/ conn' = [c EXCEPT !.state = "gone"]
  BY <1>0 DEF echo_accept, Accept
<1>3. /\ c.written = <<>> /\ c.una = 0 /\ c.out = 0 /\ ~c.fin /\ ~c.rxclosed /\ c.rwnd = Wnd
      /\ c.rnxt = 0 /\ pgot = 0 /\ down = {} /\ ~reset /\ c.app.es = "none"
  <2>1. c.app \in EchoApp
    BY <1>1 DEF EchoPcb, Pcb
  <2>2. c.app.es \in {"none", "ACCEPTED", "RECEIVED", "CLOSING"}
    BY <2>1 DEF EchoApp
  <2>. QED  BY <1>1, <1>2, <2>2 DEF Placed
<1>4. /\ a \in EchoApp /\ a.es = "ACCEPTED" /\ a.chain = <<>> /\ a.executed = <<>>
      /\ a.leaked = {} /\ \A k \in 1..Chunks : a.ref[k] = 0
  <2>1. <<>> \in Seq(Nat) /\ [k \in 1..Chunks |-> 0] \in [1..Chunks -> Nat]
    OBVIOUS
  <2>. QED  BY <2>1 DEF NoEcho, EchoApp
<1>5. Least(0, psent) = 0 /\ Len(<<>>) = 0 /\ Wnd \in Nat /\ SndBuf \in Nat /\ Chunks \in Nat
  BY <1>1, ConnectionAssumption DEF Least
<1>. HIDE DEF a
<1>6. CASE conn' = [c EXCEPT !.state = "ESTABLISHED", !.app = a]
  <2>0. PICK d : d = conn'
    OBVIOUS
  <2>1. /\ d \in EchoPcb /\ d.app = a /\ d.state = "ESTABLISHED" /\ d.port = c.port
        /\ d.written = c.written /\ d.una = c.una /\ d.out = c.out /\ d.fin = c.fin
        /\ d.rxclosed = c.rxclosed /\ d.rwnd = c.rwnd /\ d.rnxt = c.rnxt
        /\ d.dangling = c.dangling
    BY <1>1, <1>4, <1>6, <2>0 DEF EchoPcb, Pcb, TcpState
  <2>2. InLine(d, 0) /\ Buffered(d, 0) /\ Behind(d)
    BY <1>3, <1>4, <1>5, <2>1 DEF InLine, Buffered, Behind
  <2>3. EchoLive(d, 0, 0)
    BY <1>3, <1>4, <1>5, <2>1, <2>2 DEF EchoLive
  <2>4. Executed(d.app.executed, 0)
    BY <1>4, <2>1 DEF Executed
  <2>5. EchoGood(d, Least(d.rnxt, psent), 0)
    BY <1>1, <1>3, <1>4, <1>5, <2>1, <2>3, <2>4 DEF EchoGood
  <2>6. EchoWell(d)
    BY <1>1, <1>3, <1>4, <2>1, <2>5 DEF EchoWell, Placed
  <2>7. EchoWell(conn)'
    BY <1>2, <1>3, <1>5, <2>0, <2>1, <2>6, EchoMoves DEF EchoWell
  <2>. QED  BY <1>1, <1>2, <2>7 DEF EchoInv, Numbers, Patient
<1>7. CASE conn' = [c EXCEPT !.state = "gone"]
  <2>0. PICK d : d = conn'
    OBVIOUS
  <2>1. /\ d \in EchoPcb /\ d.app = c.app /\ d.state = "gone" /\ d.port = c.port
        /\ d.rnxt = c.rnxt /\ d.dangling = c.dangling
    BY <1>1, <1>7, <2>0 DEF EchoPcb, Pcb, TcpState
  <2>2. EchoGood(c, Least(c.rnxt, psent), 0) /\ EchoDead(c)
    BY <1>1, <1>3 DEF EchoWell, EchoGood
  <2>3. EchoDead(d)
    BY <2>1, <2>2 DEF EchoDead
  <2>4. EchoGood(d, Least(d.rnxt, psent), 0)
    BY <1>3, <2>1, <2>2, <2>3 DEF EchoGood
  <2>5. EchoWell(d)
    BY <1>1, <1>3, <2>1, <2>4 DEF EchoWell, Placed
  <2>6. EchoWell(conn)'
    BY <1>2, <1>3, <2>0, <2>1, <2>5, EchoMoves DEF EchoWell
  <2>. QED  BY <1>1, <1>2, <2>6 DEF EchoInv, Numbers, Patient
<1>. QED  BY <1>2, <1>6, <1>7

\* The pbufs in use are those of the chain.
LEMMA HeldIsChain ==
    ASSUME NEW c \in EchoPcb, NEW n \in Int, EchoLive(c, n, 0)
    PROVE  LET L == {c.app.chain[i] : i \in DOMAIN c.app.chain}
           IN  L \subseteq 1..Chunks /\ \A k \in 1..Chunks : c.app.ref[k] > 0 <=> k \in L
<1>. DEFINE l == Len(c.written)
            v == Len(c.app.chain)
            L == {c.app.chain[i] : i \in DOMAIN c.app.chain}
<1>1. /\ l + v = n /\ n <= Chunks
      /\ \A i \in 1..v : c.app.chain[i] = l + i
      /\ \A k \in 1..Chunks : c.app.ref[k] > 0 <=> k \in (l + 1)..n
  BY DEF EchoLive, InLine, Buffered
<1>2. L = {c.app.chain[i] : i \in 1..v} /\ l \in Nat /\ v \in Nat /\ Chunks \in Nat
  <2>1. c.app \in EchoApp /\ c.written \in Seq(Nat)
    BY DEF EchoPcb, Pcb
  <2>2. c.app.chain \in Seq(Nat)
    BY <2>1 DEF EchoApp
  <2>. QED  BY <2>1, <2>2, ConnectionAssumption
<1>. HIDE DEF l, v, L
<1>3. ASSUME NEW k \in L  PROVE k \in (l + 1)..n
  <2>1. PICK i \in 1..v : k = c.app.chain[i]
    BY <1>2, <1>3
  <2>2. k = l + i
    BY <1>1, <2>1
  <2>. QED  BY <1>1, <1>2, <2>2
<1>4. ASSUME NEW k \in (l + 1)..n  PROVE k \in L
  <2>1. k - l \in 1..v /\ l + (k - l) = k
    BY <1>1, <1>2
  <2>2. c.app.chain[k - l] = k
    BY <1>1, <2>1
  <2>. QED  BY <1>2, <2>1, <2>2
<1>5. (l + 1)..n \subseteq 1..Chunks
  BY <1>1, <1>2
<1>6. L \subseteq 1..Chunks /\ \A k \in 1..Chunks : c.app.ref[k] > 0 <=> k \in L
  BY <1>1, <1>3, <1>4, <1>5
<1>. QED  BY <1>6 DEF L

\* echo_error: all that waited is left behind, and nothing else.
LEMMA EchoLoses ==
    ASSUME EchoInv, EchoLost
    PROVE  EchoInv'
<1>0. PICK c : c = conn
  OBVIOUS
<1>1. PICK n : n = Least(c.rnxt, psent)
  OBVIOUS
<1>2. /\ c \in EchoPcb /\ c.app \in EchoApp /\ c.port = EchoPort /\ ~c.dangling /\ Placed(c)
      /\ EchoGood(c, n, 0) /\ Numbers /\ psent <= Chunks /\ Patient
      /\ c.rnxt <= psent \/ (c.rnxt = psent + 1 /\ pfin)
      /\ Executed(c.app.executed, n)
  <2>1. EchoGood(c, n, 0)
    BY <1>0, <1>1 DEF EchoInv, EchoWell
  <2>. QED  BY <1>0, <2>1 DEF EchoInv, EchoWell, EchoGood, EchoPcb, Pcb
<1>. DEFINE b == tcp_pcb_remove(c)
            L == {c.app.chain[i] : i \in DOMAIN c.app.chain}
            f == [c.app EXCEPT !.es = "none"]
            g == [f EXCEPT !.chain = <<>>]
            h == [g EXCEPT !.leaked = L]
            d == echo_error(b)
<1>3. /\ conn' = d /\ reset' = TRUE /\ down' = {} /\ c.state \notin {"SYN_RCVD", "gone"}
      /\ UNCHANGED <<psent, pfin, pgot, eager>>
  BY <1>0 DEF EchoLost, ConnectionLost, Open
<1>4. /\ b \in EchoPcb /\ b.state = "gone" /\ b.app = c.app /\ b.port = c.port
      /\ b.rnxt = c.rnxt /\ b.dangling = c.dangling
  BY <1>2, RemovedPcb DEF EchoPcb
<1>. HIDE DEF b
<1>5. /\ c.app.chain \in Seq(Nat) /\ DOMAIN c.app.chain = 1..Len(c.app.chain)
      /\ c.app.es \in {"none", "ACCEPTED", "RECEIVED", "CLOSING"}
      /\ Len(c.app.chain) \in Nat /\ Len(c.written) \in Nat /\ n \in Int /\ Chunks \in Nat
  <2>1. c.app.chain \in Seq(Nat) /\ c.app.es \in {"none", "ACCEPTED", "RECEIVED", "CLOSING"}
    BY <1>2 DEF EchoApp
  <2>2. c.written \in Seq(Nat) /\ c.rnxt \in Nat /\ psent \in Nat
    BY <1>2 DEF EchoPcb, Pcb, Numbers
  <2>3. n \in Int
    BY <1>1, <2>2 DEF Least
  <2>. QED  BY <2>1, <2>2, <2>3, ConnectionAssumption
<1>6. d = [b EXCEPT !.app = h]
  <2>1. L = {b.app.chain[i] : i \in DOMAIN b.app.chain} /\ b.app \in EchoApp
    BY <1>2, <1>4
  <2>. HIDE DEF L
  <2>2. d = [b EXCEPT !.app.es = "none", !.app.chain = <<>>, !.app.leaked = L]
    BY <2>1 DEF echo_error
  <2>3. h = [c.app EXCEPT !.es = "none", !.chain = <<>>, !.leaked = L]
    BY <1>2 DEF EchoApp
  <2>4. d = [b EXCEPT !.app = [b.app EXCEPT !.es = "none", !.chain = <<>>, !.leaked = L]]
    BY <1>4, <2>1, <2>2 DEF EchoPcb, Pcb, EchoApp
  <2>. QED  BY <1>4, <2>3, <2>4
<1>7. L \subseteq 1..Chunks /\ \A k \in 1..Chunks : c.app.ref[k] > 0 <=> k \in L
  <2>1. CASE c.app.es = "none"
    <3>1. EchoDead(c) /\ ~reset
      BY <1>2, <1>3, <2>1 DEF EchoGood, Placed
    <3>2. c.app.chain = <<>> /\ c.app.leaked = {}
      BY <3>1 DEF EchoDead
    <3>3. L = {}
      BY <1>5, <3>2
    <3>. QED  BY <3>1, <3>2, <3>3 DEF EchoDead
  <2>2. CASE c.app.es # "none"
    BY <1>2, <1>5, <2>2, HeldIsChain DEF EchoGood
  <2>. QED  BY <2>1, <2>2
<1>. HIDE DEF d, L
<1>8. h \in EchoApp /\ h.es = "none" /\ h.chain = <<>> /\ h.leaked = L
      /\ h.ref = c.app.ref /\ h.executed = c.app.executed
  <2>1. f \in EchoApp /\ f.es = "none" /\ f.ref = c.app.ref /\ f.executed = c.app.executed
    BY <1>2 DEF EchoApp
  <2>. HIDE DEF f
  <2>2. g \in EchoApp /\ g.es = "none" /\ g.ref = c.app.ref /\ g.executed = c.app.executed
        /\ g.chain = <<>>
    <3>1. <<>> \in Seq(Nat)
      OBVIOUS
    <3>. QED  BY <2>1, <3>1 DEF EchoApp
  <2>. HIDE DEF g
  <2>. QED  BY <1>7, <2>2 DEF EchoApp
<1>. HIDE DEF h
<1>9. /\ d \in EchoPcb /\ d.app = h /\ d.state = "gone" /\ d.port = EchoPort
      /\ d.rnxt = c.rnxt /\ ~d.dangling
  BY <1>2, <1>4, <1>6, <1>8 DEF EchoPcb, Pcb
<1>10. EchoDead(conn)' /\ Placed(conn)'
  BY <1>3, <1>7, <1>8, <1>9 DEF EchoDead, Placed
<1>11. (conn \in EchoPcb)' /\ Least(conn.rnxt, psent)' = n
  BY <1>1, <1>3, <1>9 DEF EchoPcb, Pcb, EchoApp, Least
<1>12. Executed(conn.app.executed, n)'
  BY <1>2, <1>3, <1>8, <1>9 DEF Executed
<1>13. EchoGood(conn, Least(conn.rnxt, psent), 0)'
  BY <1>3, <1>8, <1>9, <1>10, <1>11, <1>12 DEF EchoGood
<1>14. EchoWell(conn)'
  BY <1>2, <1>3, <1>9, <1>10, <1>13 DEF EchoWell
<1>15. Numbers' /\ Patient' /\ (psent <= Chunks)'
  BY <1>2, <1>3 DEF Numbers, Patient
<1>. QED  BY <1>14, <1>15 DEF EchoInv

\* The start of a handler: what memory there is, and what is to be sent again.
LEMMA EchoBegins ==
    ASSUME EchoInv, NEW room \in Rooms, NEW o \in {conn.out, conn.una}, Open
    PROVE  LET c == Started(conn, room, o)
           IN  /\ EchoWell(c) /\ c \in EchoPcb /\ SameButOutput(conn, c)
               /\ c.state \notin {"SYN_RCVD", "TIME_WAIT", "gone"}
<1>. DEFINE c == Started(conn, room, o)
<1>1. /\ EchoWell(conn) /\ conn \in EchoPcb /\ conn.out \in Int /\ conn.una \in Nat
      /\ EchoGood(conn, Least(conn.rnxt, psent), 0) /\ pgot \in Int
  BY DEF EchoInv, EchoWell, EchoGood, EchoPcb, Pcb, Numbers
<1>2. c \in EchoPcb /\ SameButOutput(conn, c)
  BY <1>1, StartedPcb DEF EchoPcb
<1>3. c.out = o /\ conn.state \notin {"SYN_RCVD", "TIME_WAIT", "gone"}
  BY <1>1 DEF Started, EchoPcb, Pcb, Open
<1>. HIDE DEF c
<1>4. conn.app.es # "none" => c.out <= Len(conn.written)
  <2>1. Len(conn.written) \in Nat
    BY <1>1 DEF EchoPcb, Pcb
  <2>. QED  BY <1>1, <1>3, <2>1 DEF EchoGood, EchoLive, Behind
<1>5. EchoWell(c)
  BY <1>1, <1>2, <1>3, <1>4, EchoOutput
<1>. QED  BY <1>2, <1>3, <1>5 DEF c, SameButOutput

LEMMA EchoStep ==
    ASSUME EchoInv, [EchoNext]_connvars
    PROVE  EchoInv'
<1>0. /\ EchoWell(conn) /\ conn \in EchoPcb /\ conn.una \in Nat /\ conn.out \in Int
      /\ Numbers /\ psent <= Chunks /\ Patient /\ psent \in Nat /\ pgot \in Int
  BY DEF EchoInv, EchoWell, EchoGood, EchoPcb, Pcb, Numbers
<1>1. CASE echo_accept
  BY <1>1, EchoAccepts
<1>2. ASSUME NEW s \in Segments, NEW room \in Rooms, EchoInput(s, room)
      PROVE  EchoInv'
  <2>. DEFINE c == [conn EXCEPT !.room = room]
  <2>1. c = Started(conn, room, conn.out)
    BY <1>0 DEF Started, EchoPcb, Pcb
  <2>2. /\ Open /\ UNCHANGED <<psent, pfin, pgot, eager, reset>>
        /\ Settle(tcp_input(c, s, echo_sent, echo_recv, echo_closed), room)
    BY <1>2 DEF EchoInput, Arrive
  <2>. HIDE DEF c
  <2>3. /\ EchoWell(c) /\ SameButOutput(conn, c)
        /\ c.state \notin {"SYN_RCVD", "TIME_WAIT", "gone"}
    BY <2>1, <2>2, EchoBegins
  <2>4. /\ s \in [seq : Nat, len : {0, 1}, fin : BOOLEAN, ack : conn.una..pgot]
        /\ s.len = 1 => s.seq \in 1..psent
        /\ s.fin => pfin /\ s.seq + s.len = psent + 1
    BY <1>0, SegmentShape
  <2>5. s \in Segment(c) /\ s.ack <= pgot
    BY <1>0, <2>3, <2>4 DEF Segment, SameButOutput
  <2>6. \A e \in tcp_input(c, s, echo_sent, echo_recv, echo_closed) :
          EchoWell(e) /\ e.state # "SYN_RCVD"
    BY <1>0, <2>3, <2>4, <2>5, EchoTakes
  <2>. QED  BY <2>2, <2>6, EchoEndsHandler
<1>3. ASSUME NEW late \in BOOLEAN, NEW room \in Rooms, EchoTick(late, room)
      PROVE  EchoInv'
  <2>. DEFINE o == IF late THEN conn.una ELSE conn.out
              c == Started(conn, room, o)
              C == {IF TRUE THEN echo_poll(b) ELSE b : b \in {c}}
              n == Least(c.rnxt, psent)
              e == echo_sent(c)
  <2>1. Open /\ UNCHANGED <<psent, pfin, pgot, eager, reset>> /\ Settle(C, room)
    BY <1>0, <1>3 DEF EchoTick, SlowTimer, Started, EchoPcb, Pcb
  <2>2. o \in {conn.out, conn.una}
    OBVIOUS
  <2>. HIDE DEF o
  <2>3. /\ EchoWell(c) /\ c \in EchoPcb /\ c.state \notin {"SYN_RCVD", "TIME_WAIT", "gone"}
    BY <2>1, <2>2, EchoBegins
  <2>. HIDE DEF c
  <2>4. /\ EchoGood(c, n, 0) /\ Placed(c) /\ n \in Nat
        /\ c.rnxt <= psent \/ (c.rnxt = psent + 1 /\ pfin)
    <3>1. c.rnxt \in Nat
      BY <2>3 DEF EchoPcb, Pcb
    <3>2. n \in Nat
      BY <1>0, <3>1 DEF Least
    <3>. QED  BY <2>3, <3>2 DEF EchoWell
  <2>5. n = Least(c.rnxt, psent)
    OBVIOUS
  <2>. HIDE DEF n
  <2>6. /\ EchoGood(e, n, 0) /\ e.rnxt = c.rnxt
        /\ \/ e.app.es = c.app.es /\ e.state = c.state
           \/ /\ c.app.es = "CLOSING" /\ e.app.es = "none"
              /\ e.state \in {"CLOSE_WAIT", "LAST_ACK"}
    <3>1. c.app.es = "CLOSING" => c.state = "CLOSE_WAIT" /\ 0 = 0
      BY <2>4 DEF Placed
    <3>. QED  BY <1>0, <2>4, <3>1, EchoSent
  <2>7. C = {e}
    BY DEF echo_poll
  <2>. HIDE DEF e
  <2>8. EchoWell(e) /\ e.state # "SYN_RCVD"
    <3>1. Placed(e) /\ e.state # "SYN_RCVD"
      BY <2>3, <2>4, <2>6 DEF Placed
    <3>. QED  BY <2>4, <2>5, <2>6, <3>1 DEF EchoWell
  <2>9. \A x \in C : EchoWell(x) /\ x.state # "SYN_RCVD"
    BY <2>7, <2>8
  <2>. HIDE DEF C
  <2>. QED  BY <2>1, <2>9, EchoEndsHandler
<1>4. CASE EchoLost
  BY <1>4, EchoLoses
<1>5. CASE Common
  BY <1>5, EchoCommon
<1>6. CASE UNCHANGED connvars
  <2>1. UNCHANGED <<conn, psent, pfin, pgot, down, eager, reset>>
    BY <1>6 DEF connvars, netvars
  <2>2. PICK c : c = conn
    OBVIOUS
  <2>3. EchoWell(c) /\ (c.app.es # "none" => Behind(c))
    BY <1>0, <2>2 DEF EchoWell, EchoGood, EchoLive
  <2>4. EchoWell(conn)'
    BY <2>1, <2>2, <2>3, EchoMoves DEF EchoWell, Behind, Placed
  <2>. QED  BY <1>0, <2>1, <2>4 DEF EchoInv, Numbers, Patient
<1>. QED  BY <1>1, <1>2, <1>3, <1>4, <1>5, <1>6 DEF EchoNext, EchoSteps

LEMMA EchoStarts == EchoInit => EchoInv
<1>. SUFFICES ASSUME ConnInit(EchoPort, NoEcho)  PROVE EchoInv
  BY DEF EchoInit
<1>. DEFINE a == NoEcho
<1>1. /\ a \in EchoApp /\ a.es = "none" /\ a.chain = <<>> /\ a.executed = <<>>
      /\ a.leaked = {} /\ \A k \in 1..Chunks : a.ref[k] = 0
  <2>1. <<>> \in Seq(Nat) /\ [k \in 1..Chunks |-> 0] \in [1..Chunks -> Nat]
    OBVIOUS
  <2>. QED  BY <2>1 DEF NoEcho, EchoApp
<1>2. Enough \in Nat /\ Wnd \in Nat /\ SndBuf \in Nat /\ Chunks \in Nat
  BY ConnectionAssumption DEF Enough
<1>3. conn = [port |-> EchoPort, state |-> "SYN_RCVD", rnxt |-> 0, rwnd |-> Wnd,
              written |-> <<>>, una |-> 0, out |-> 0, fin |-> FALSE, rxclosed |-> FALSE,
              room |-> Enough, failed |-> FALSE, dangling |-> FALSE, app |-> a]
  BY DEF ConnInit
<1>4. psent = 0 /\ pgot = 0 /\ down = {} /\ ~reset
  BY DEF ConnInit
<1>. HIDE DEF a
<1>5. conn \in EchoPcb
  BY <1>1, <1>2, <1>3 DEF EchoPcb, Pcb, TcpState, EchoPort
<1>6. /\ conn.written = <<>> /\ ~conn.fin /\ conn.una = 0 /\ conn.state = "SYN_RCVD"
      /\ conn.app = a /\ conn.out = 0 /\ ~conn.rxclosed /\ conn.rwnd = Wnd /\ conn.rnxt = 0
      /\ conn.port = EchoPort /\ ~conn.dangling
  BY <1>3
<1>7. Executed(conn.app.executed, 0) /\ EchoDead(conn) /\ Placed(conn)
  BY <1>1, <1>4, <1>6 DEF Executed, EchoDead, Placed
<1>8. EchoGood(conn, 0, 0) /\ Least(conn.rnxt, psent) = 0
  BY <1>1, <1>4, <1>5, <1>6, <1>7 DEF EchoGood, Least
<1>9. EchoWell(conn)
  BY <1>4, <1>6, <1>7, <1>8 DEF EchoWell
<1>. QED  BY <1>2, <1>4, <1>9 DEF EchoInv, Numbers, Patient

\* The command server and its connection stay well together: the chain, the
\* reference counts, the window and the send buffer agree while it has its
\* state, and nothing but what echo_error leaves behind is in use without it.
THEOREM EchoInvariant == EchoSpec => []EchoInv
BY EchoStarts, EchoStep, PTL DEF EchoSpec

\* What a server that is well has received.
LEMMA EchoNow ==
    ASSUME EchoInv
    PROVE  LET n == Least(conn.rnxt, psent)
           IN  /\ EchoGood(conn, n, 0) /\ n \in Nat /\ Received = 1..n /\ conn \in EchoPcb
               /\ conn.app \in EchoApp /\ Placed(conn)
<1>. DEFINE n == Least(conn.rnxt, psent)
<1>1. EchoGood(conn, n, 0) /\ Placed(conn) /\ Received = 1..n
  BY DEF EchoInv, EchoWell, Received
<1>2. conn \in EchoPcb
  BY <1>1 DEF EchoGood
<1>3. conn.app \in EchoApp /\ conn.rnxt \in Nat /\ psent \in Nat
  BY <1>2 DEF EchoPcb, Pcb, EchoInv, Numbers
<1>4. n \in Nat
  BY <1>3 DEF Least
<1>. QED  BY <1>1, <1>2, <1>3, <1>4

\* The host gets back what it sent, in order: no chunk is lost, repeated or
\* overtaken by echo_send and echo_recv while chunks pile up in the chain, for
\* every window and send buffer and however often memory fails.
THEOREM EchoesAreInOrder == EchoSpec => []EchoInOrder
<1>1. EchoInv => EchoInOrder
  <2>. SUFFICES ASSUME EchoInv, conn.app.es # "none"
                PROVE  conn.written \o conn.app.chain = [i \in Received |-> i]
    BY DEF EchoInOrder
  <2>. DEFINE n == Least(conn.rnxt, psent)
              w == conn.written
              h == conn.app.chain
  <2>1. InLine(conn, n) /\ n \in Nat /\ Received = 1..n /\ w \in Seq(Nat) /\ h \in Seq(Nat)
    BY EchoNow DEF EchoGood, EchoLive, EchoPcb, Pcb, EchoApp
  <2>2. /\ Len(w) + Len(h) = n /\ \A i \in 1..Len(w) : w[i] = i
        /\ \A i \in 1..Len(h) : h[i] = Len(w) + i
    BY <2>1 DEF InLine
  <2>. HIDE DEF n, w, h
  <2>3. w \o h \in Seq(Nat) /\ Len(w \o h) = n /\ DOMAIN (w \o h) = 1..n
    BY <2>1, <2>2
  <2>4. ASSUME NEW i \in 1..n  PROVE (w \o h)[i] = i
    <3>1. CASE i \in 1..Len(w)
      BY <2>1, <2>2, <3>1
    <3>2. CASE i \in (Len(w) + 1)..n
      <4>1. Len(w) \in Nat /\ Len(h) \in Nat
        BY <2>1
      <4>2. i - Len(w) \in 1..Len(h) /\ (w \o h)[i] = h[i - Len(w)]
        BY <2>1, <2>2, <3>2, <4>1
      <4>3. h[i - Len(w)] = Len(w) + (i - Len(w))
        BY <2>2, <4>2
      <4>. QED  BY <4>1, <4>2, <4>3
    <3>. DEFINE l == Len(w)
    <3>3. l \in Nat
      BY <2>1
    <3>. HIDE DEF l
    <3>4. i \in 1..l \/ i \in (l + 1)..n
      BY <2>1, <3>3
    <3>. QED  BY <3>1, <3>2, <3>4 DEF l
  <2>5. w \o h = [i \in 1..n |-> i]
    <3>. DEFINE z == w \o h
    <3>1. z = [i \in 1..n |-> z[i]]
      <4>1. z \in Seq(Nat) /\ Len(z) = n
        BY <2>3
      <4>. HIDE DEF z
      <4>2. z \in [1..Len(z) -> Nat]
        BY <4>1
      <4>. QED  BY <4>1, <4>2
    <3>. HIDE DEF z
    <3>2. \A i \in 1..n : z[i] = i
      BY <2>4 DEF z
    <3>3. z = [i \in 1..n |-> i]
      BY <3>1, <3>2
    <3>. QED  BY <3>3 DEF z
  <2>. QED  BY <2>1, <2>5 DEF w, h
<1>. QED  BY <1>1, EchoInvariant, PTL

\* echo_send, echo_recv and pbuf_free neither free a receive buffer early nor
\* keep one; only echo_error leaves some behind, when the connection is lost.
THEOREM BuffersAreHeld == EchoSpec => []BuffersHeld
<1>1. EchoInv => BuffersHeld
  <2>. SUFFICES ASSUME EchoInv  PROVE BuffersHeld
    OBVIOUS
  <2>. DEFINE n == Least(conn.rnxt, psent)
              L == {conn.app.chain[i] : i \in DOMAIN conn.app.chain}
              H == {k \in 1..Chunks : conn.app.ref[k] > 0}
  <2>1. /\ EchoGood(conn, n, 0) /\ n \in Nat /\ conn \in EchoPcb
        /\ conn.app.leaked \subseteq 1..Chunks
    BY EchoNow DEF EchoApp
  <2>2. CASE conn.app.es = "none"
    <3>1. /\ conn.app.chain = <<>> /\ (conn.app.leaked # {} => reset)
          /\ \A k \in 1..Chunks : conn.app.ref[k] > 0 <=> k \in conn.app.leaked
      BY <2>1, <2>2 DEF EchoGood, EchoDead
    <3>2. L = {}
      BY <3>1
    <3>3. H = conn.app.leaked
      BY <2>1, <3>1
    <3>. QED  BY <3>1, <3>2, <3>3 DEF BuffersHeld
  <2>3. CASE conn.app.es # "none"
    <3>1. EchoLive(conn, n, 0) /\ conn.app.leaked = {}
      BY <2>1, <2>3 DEF EchoGood, EchoLive
    <3>2. L \subseteq 1..Chunks /\ \A k \in 1..Chunks : conn.app.ref[k] > 0 <=> k \in L
      BY <2>1, <3>1, HeldIsChain
    <3>3. H = L
      BY <3>2
    <3>. QED  BY <3>1, <3>3 DEF BuffersHeld
  <2>. QED  BY <2>2, <2>3
<1>. QED  BY <1>1, EchoInvariant, PTL

\* echo_recv hands every command but the first to ethergate, once and in order,
\* when the host waits for its answers; what arrives again or overtakes another
\* changes nothing.
THEOREM CommandsAreExecuted == EchoSpec => []CommandsExecuted
<1>1. EchoInv => CommandsExecuted
  <2>. SUFFICES ASSUME EchoInv  PROVE CommandsExecuted
    OBVIOUS
  <2>. DEFINE n == Least(conn.rnxt, psent)
              ex == conn.app.executed
  <2>1. Executed(ex, n) /\ n \in Nat /\ Received = 1..n /\ ex \in Seq(Nat)
    BY EchoNow DEF EchoGood, EchoApp
  <2>2. DOMAIN ex = 1..Len(ex)
    BY <2>1
  <2>. HIDE DEF ex, n
  <2>3. \A k \in Received \ ({1} \cup eager) : \E i \in DOMAIN ex : ex[i] = k
    <3>. SUFFICES ASSUME NEW k \in Received \ ({1} \cup eager)
                  PROVE  \E i \in DOMAIN ex : ex[i] = k
      OBVIOUS
    <3>1. k \in 2..n /\ k \notin eager
      BY <2>1
    <3>. QED  BY <2>1, <2>2, <3>1 DEF Executed
  <2>4. \A i \in 1..(Len(ex) - 1) : ex[i] < ex[i + 1]
    BY <2>1 DEF Executed
  <2>. QED  BY <2>3, <2>4 DEF CommandsExecuted, ex
<1>. QED  BY <1>1, EchoInvariant, PTL

\* echo_send gives back exactly what it takes from the chain, so echo_close
\* finds the whole window free: tcp_close sends a FIN and never frees the pcb
\* that tcp_input goes on to use.
THEOREM ClosesAreOrderly == EchoSpec => []OrderlyClose
<1>1. EchoInv => OrderlyClose
  <2>. SUFFICES ASSUME EchoInv  PROVE OrderlyClose
    OBVIOUS
  <2>. DEFINE n == Least(conn.rnxt, psent)
              v == Len(conn.app.chain)
              x == conn.rwnd
  <2>1. EchoGood(conn, n, 0) /\ conn \in EchoPcb /\ conn.app.chain \in Seq(Nat)
    BY EchoNow DEF EchoApp
  <2>2. v \in Nat /\ x \in Int
    BY <2>1 DEF EchoPcb, Pcb
  <2>3. conn.app.es # "none" => x + v + 0 = Wnd
    BY <2>1 DEF EchoGood, EchoLive
  <2>. HIDE DEF n, v, x
  <2>4. conn.app.es # "none" => x + v = Wnd
    BY <2>2, <2>3
  <2>. QED  BY <2>1, <2>4 DEF EchoGood, OrderlyClose, v, x
<1>. QED  BY <1>1, EchoInvariant, PTL
=============================================================================
