----------------------------- MODULE MCEthernet ----------------------------
(* The receive interrupt's driver and a connection of either server.  lwIP's *)
(* way from the one to the other is not modelled, so they share nothing: the *)
(* initial state chooses which of them is at work.                           *)
EXTENDS MCNetwork, Receive

VARIABLE side    \* the one at work: "driver" or "server"

EthInit ==
    /\ side \in {"driver", "server"} /\ RxInit
    /\ IF side = "server" THEN NetInit ELSE EchoInit

EthNext ==
    /\ UNCHANGED side
    /\ \/ side = "driver" /\ RxNext /\ UNCHANGED connvars
       \/ side = "server" /\ NetNext /\ UNCHANGED rxvars

EthSpec == EthInit /\ [][EthNext]_<<side, rxvars, connvars>>
=============================================================================
