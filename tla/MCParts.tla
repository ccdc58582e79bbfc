------------------------------- MODULE MCParts -----------------------------
(* Components that share nothing with each other: the status stream, the log *)
(* and the deque under the event queues, which interrupts share with the     *)
(* main loop, and the driver of the auxiliary outputs.                       *)
(* The initial state chooses the one at work.                                *)
EXTENDS Status, Logger, DequeRace, Monitor

VARIABLE part    \* the component at work

\* The interrupt stores the first number (the torque) and the first flag (the
\* sensors); the second of each belongs to the main loop.
MCPitItems == {<<"slot", 0>>, <<"flag", 0>>}
MCPitValues == {0, -3}

\* A number for a byte, one above 100 per cent, one too large for a byte, no
\* number; an argument that is neither 0 nor 1.
MonMsg(c, a, v) == [cmd |-> c, arg |-> a, val |-> v]
MCMonCommands ==
    {MonMsg(c, a, Unread)
       : c \in {"MON_SETVAC", "MON_SETDRUM", "WG20_SETDIR"}, a \in {0, 1, 2}}
    \cup {MonMsg("WG20_SETVEL", a, v) : a \in {0, 1, 2}, v \in {3, 6, 12, Unread}}
    \cup {MonMsg("MON_RESET", 0, Unread), MonMsg("unknown", 0, Unread)}

PartsInit ==
    /\ part \in {"stream", "log", "deque", "monitor"}
    /\ Init /\ LogInit /\ DequeInit /\ MonInit
    /\ \A i \in 1..DequeSlots : slot[i] = slot[1]
    /\ part # "deque" => elem = [evtype |-> "a", payload |-> 1] /\ slot[1] = elem

PartsNext ==
    /\ UNCHANGED part
    /\ \/ part = "stream" /\ Next /\ UNCHANGED <<logvars, dequevars, monvars>>
       \/ part = "log" /\ LogNext /\ UNCHANGED <<vars, dequevars, monvars>>
       \/ part = "deque" /\ DequeNext /\ UNCHANGED <<vars, logvars, monvars>>
       \/ part = "monitor" /\ MonNext /\ UNCHANGED <<vars, logvars, dequevars>>

PartsSpec ==
    /\ PartsInit /\ [][PartsNext]_<<vars, logvars, dequevars, monvars, part>>
    /\ WF_logvars(part = "log" /\ LogSteps)
=============================================================================
