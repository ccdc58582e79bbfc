----------------------------- MODULE MCNetwork -----------------------------
(* A connection of either server.                                           *)
EXTENDS EchoServer, HttpServer

\* A request in two parts, with or without more behind it; one in more parts
\* than the server queues; one for a page that is not there.
Request(n, k) == [need |-> n, kind |-> k]
MCRequests == {Request(2, "file"), Request(3, "file"), Request(1, "none")}

NetInit == EchoInit \/ HttpInit
NetNext == EchoSteps \/ HttpSteps \/ Common

\* EchoFairness and HttpFairness: a connection keeps its port, so that only
\* the actions of one server are ever enabled.
NetFairness ==
    /\ WF_connvars(echo_accept \/ http_accept)
    /\ WF_connvars(NextSegment) /\ WF_connvars(NewestAck \/ HttpNewestAck)
    /\ WF_connvars(HostGets(pgot + 1))
    /\ WF_connvars(EchoTick(TRUE, Enough) \/ HttpTick(TRUE, TRUE, Enough))
    /\ WF_connvars(Http /\ Expire)

NetSpec == NetInit /\ [][NetNext]_connvars /\ NetFairness
=============================================================================
