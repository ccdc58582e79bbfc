----------------------------- MODULE RaceQueue -----------------------------
(***************************************************************************)
(* What the firmware can rely on in a std::queue<event_t> shared by two    *)
(* priorities without masking: the lower one pushes in two steps, the      *)
(* higher one pushes at once at any time, and the lower one pops.  This is *)
(* how the modules Sweep and Kernel use a queue.                           *)
(***************************************************************************)
EXTENDS EventQueue

CONSTANT Event
VARIABLES q,       \* the contents of the queue
          low,     \* "idle", or "push" while the lower priority pushes
          e, at    \* what it pushes and the length of the queue when it began

Init == q = <<>> /\ low = "idle" /\ e \in Event /\ at = 0

BeginPush == /\ low = "idle"
             /\ low' = "push"
             /\ e' \in Event
             /\ at' = Len(q)
             /\ UNCHANGED q

EndPush == /\ low = "push"
           /\ low' = "idle"
           /\ q' \in PushOutcomes(q, at, e, Event)
           /\ at' = 0
           /\ UNCHANGED e

HighPush == /\ \E h \in Event : q' = Append(q, h)
            /\ UNCHANGED <<low, e, at>>

Pop == /\ low = "idle"
       /\ q # <<>>
       /\ q' = Tail(q)
       /\ UNCHANGED <<low, e, at>>

Next == BeginPush \/ EndPush \/ HighPush \/ Pop

Spec == Init /\ [][Next]_<<q, low, e, at>>
=============================================================================
