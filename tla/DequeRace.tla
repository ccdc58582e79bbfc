----------------------------- MODULE DequeRace -----------------------------
(***************************************************************************)
(* The steps of libstdc++'s deque as compiled without optimisation: push   *)
(* copies the event into the slot at finish.cur word by word, then loads,  *)
(* increments and stores finish.cur; pop advances start.cur.  The slots    *)
(* are those of one node.  It implements RaceQueue: inside a node nothing  *)
(* but the outcomes of EventQueue can happen.                              *)
(***************************************************************************)
EXTENDS Integers, Sequences, EventQueue

CONSTANTS EvTypes, Payloads,
          DequeSlots     \* bound of the model: slots of the node ever used

ASSUME DequeAssumption == DequeSlots \in Nat \ {0}

Event == [evtype : EvTypes, payload : Payloads]

VARIABLES slot, start, finish,     \* the memory and the two cursors
          dpc, elem, unstored,     \* the lower priority's push, and its words
          daddr, dreg,             \*   not stored yet; its copies of finish.cur
          held                     \* not in the code: what first overtook it

dequevars == <<slot, start, finish, dpc, elem, unstored, daddr, dreg, held>>

\* Memory fresh from the heap holds anything.
DequeInit == /\ slot \in [1..DequeSlots -> Event]
             /\ start = 0 /\ finish = 0
             /\ dpc = "idle" /\ elem \in Event /\ unstored = {}
             /\ daddr = 0 /\ dreg = 0 /\ held = elem

LowAddr == /\ dpc = "idle" /\ finish < DequeSlots - 1
           /\ dpc' = "store"
           /\ elem' \in Event /\ unstored' = {"evtype", "payload"}
           /\ daddr' = finish
           /\ UNCHANGED <<slot, start, finish, dreg, held>>

\* In whatever order the compiler copies them.
LowStore == /\ dpc = "store"
            /\ \E f \in unstored :
                 /\ slot' = [slot EXCEPT ![daddr + 1] = [@ EXCEPT ![f] = elem[f]]]
                 /\ unstored' = unstored \ {f}
            /\ dpc' = IF unstored' = {} THEN "load" ELSE "store"
            /\ UNCHANGED <<start, finish, elem, daddr, dreg, held>>

MutLowLoad == /\ dpc = "load"         \* mutant: the cursor is not read again
              /\ dpc' = "write"
              /\ dreg' = daddr
              /\ UNCHANGED <<slot, start, finish, elem, unstored, daddr, held>>

LowLoad == /\ dpc = "load"
           /\ dpc' = "write"
           /\ dreg' = finish
           /\ UNCHANGED <<slot, start, finish, elem, unstored, daddr, held>>

LowWrite == /\ dpc = "write" /\ dreg < DequeSlots
            /\ dpc' = "idle"
            /\ finish' = dreg + 1
            /\ daddr' = 0 /\ dreg' = 0 /\ held' = elem
            /\ UNCHANGED <<slot, start, elem, unstored>>

HighPush == /\ finish < DequeSlots - 1
            /\ \E h \in Event :
                 /\ slot' = [slot EXCEPT ![finish + 1] = h]
                 /\ held' = IF dpc # "idle" /\ finish = daddr THEN h ELSE held
            /\ finish' = finish + 1
            /\ UNCHANGED <<start, dpc, elem, unstored, daddr, dreg>>

Pop == /\ dpc = "idle"
       /\ start # finish
       /\ start' = start + 1
       /\ UNCHANGED <<slot, finish, dpc, elem, unstored, daddr, dreg, held>>

DequeNext == LowAddr \/ LowStore \/ LowLoad \/ LowWrite \/ HighPush \/ Pop

DequeSpec == DequeInit /\ [][DequeNext]_dequevars

Content == SubSeq(slot, start + 1, finish)

\* Before an overtaken push is over, its slot belongs to what overtook it.
Queue == IF dpc # "idle" /\ daddr < finish
           THEN [Content EXCEPT ![daddr - start + 1] = held] ELSE Content

Abstract == INSTANCE RaceQueue WITH
                q <- Queue, e <- elem,
                at <- IF dpc = "idle" THEN 0 ELSE daddr - start,
                low <- IF dpc = "idle" THEN "idle" ELSE "push"

\* The deque's pushes and pops, interrupted anywhere inside a node, are those of
\* RaceQueue: what the memory then holds is one of the outcomes that the other
\* modules assume.
ImplementsRaceQueue == Abstract!Spec
=============================================================================
