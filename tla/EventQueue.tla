---------------------------- MODULE EventQueue -----------------------------
(***************************************************************************)
(* What std::queue<event_t>::push leaves behind when another context       *)
(* pushes in the middle of it, inside one node of the deque.  libstdc++    *)
(* stores the event at finish.cur, a word at a time, and then advances     *)
(* finish.cur by a load, an addition and a store; nothing in the firmware  *)
(* masks interrupts around it.  Popping moves start.cur only, so a pop and *)
(* a push do not disturb each other.                                       *)
(*                                                                         *)
(* An event_t is a record [evtype, payload]: nothing reads `simple'.       *)
(***************************************************************************)
EXTENDS Integers, Sequences

\* A store of e that the store of h fell into leaves some words of each.
Torn(e, h) == [evtype : {e.evtype, h.evtype}, payload : {e.payload, h.payload}]

\* q is the queue as the overtaking pushes left it, `at' its length when the
\* overtaken push of e began, n its length when that push loaded finish.cur,
\* stale what an unwritten slot may hold.  Slot at + 1 keeps the first event
\* that overtook e if e had been stored before, else e may be written over it.
Kept(q, at, e, n) ==
    IF n = at THEN {q}
              ELSE {[q EXCEPT ![at + 1] = x] : x \in Torn(e, q[at + 1])}

\* finish.cur was loaded at length n, before the last overtaking push: storing
\* it afterwards cuts off everything pushed since.
CutOff(q, at, e) ==
    UNION {{SubSeq(b, 1, n + 1) : b \in Kept(q, at, e, n)} : n \in at..(Len(q) - 1)}

\* finish.cur was loaded after the last one: the queue grows by an unwritten slot.
Padded(q, at, e, stale) ==
    {Append(b, g) : b \in Kept(q, at, e, Len(q)), g \in stale}

PushOutcomes(q, at, e, stale) ==
    IF Len(q) = at
      THEN {Append(q, e)}
      ELSE CutOff(q, at, e) \cup Padded(q, at, e, stale)

\* Something was pushed since the push that began at length `at'.
Overtaken(q, at) == Len(q) > at
=============================================================================
