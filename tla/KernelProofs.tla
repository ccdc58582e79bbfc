---------------------------- MODULE KernelProofs ---------------------------
(***************************************************************************)
(* Theorems about Kernel for every counter range, alarm interval, set of   *)
(* destination bytes and number of messages.                               *)
(***************************************************************************)
EXTENDS Kernel, CommonProofs, FiniteSetTheorems

(* The inductive invariant.                                                 *)

\* Where the main loop and the interrupt stand decides what they hold.
Places ==
    /\ pc \in {"spush", "popmail"} => postoffice # <<>>
    /\ pc \in {"own", "handled"} => inbox["SWEEP"] # <<>>
    /\ pc \in {"spush", "own"} => mat <= Len(inbox["SWEEP"])
    /\ pc = "own" => mpushed \in {TickEvt, JobEvt}
    /\ pc = "reload" => ctrl_state = "INIT"
    /\ pc = "convert" => ctrl_state = "ALARM" /\ ~adcflag /\ ~adcbusy
    /\ ctrl_state = "RECVU" => event_temp.evtype = "CTRL_ETH_SIG"
    /\ epc = "off" => epushed = AlarmEvt
    /\ epc = "push" => epushed.payload = sent /\ epushed.evtype \in EthSigs
    /\ epc = "push" => eat <= Len(postoffice) /\ sent > 0 /\ sent \notin unaddressed
    /\ unaddressed \subseteq 1..sent

\* The numbers of the messages in a queue.
Ids(q) == {q[i].payload : i \in 1..Len(q)} \ {0}

Increasing(q) == \A i, j \in 1..Len(q) :
                    i < j /\ q[i].payload # 0 /\ q[j].payload # 0 => q[i].payload < q[j].payload

\* The message the main loop has taken out of its queue and not announced yet.
Held == IF ctrl_state = "RECVU" THEN <<event_temp>> ELSE <<>>

\* The messages that have left the post office.
Waiting == UNION {Ids(inbox[o]) : o \in Obj}
Handed == Waiting \cup Ids(served) \cup Ids(Held)

\* What is pushed: ethergate's messages, the alarms and Sweep's own events.
Letter == [evtype : EthSigs, payload : MsgId]
Posted == {AlarmEvt} \cup Letter
Own == {TickEvt, JobEvt}

\* Own events stay with Sweep, the others go where they are subscribed to.
Box(o) == {e \in Posted : o \in Subscribers(e.evtype)}
            \cup IF o = "SWEEP" THEN Own ELSE {}

\* Without a race every queue holds whole events, each in the queue of its
\* object, and only messages are served.
Sorted ==
    /\ Unread \in Seq(Posted)
    /\ \A o \in Obj : inbox[o] \in Seq(Box(o))
    /\ served \in Seq(Letter) /\ Held \in Seq(Letter)
    /\ pc = "spush" => /\ mpushed = Head(postoffice)
                       /\ "SWEEP" \in Subscribers(mpushed.evtype)

\* Without a race messages travel in the order of their numbers.
Flow ==
    /\ \A x \in Handed, y \in Ids(Unread) : x < y
    /\ \A x \in Handed \cup Ids(Unread) : x <= sent /\ (epc = "push" => x < sent)
    /\ Increasing(Unread) /\ \A o \in Obj : Increasing(inbox[o])
    /\ \A o, p \in Obj : o # p => Ids(inbox[o]) \cap Ids(inbox[p]) = {}

\* Served messages are older than what waits for the same object.
Older ==
    /\ \A i \in 1..Len(served) : \A o \in Obj : \A j \in 1..Len(inbox[o]) :
         served[i].evtype = inbox[o][j].evtype => served[i].payload < inbox[o][j].payload
    /\ \A h \in 1..Len(Held) :
         /\ \A i \in 1..Len(served) :
              served[i].evtype = Held[h].evtype => served[i].payload < Held[h].payload
         /\ \A j \in 1..Len(inbox["MAIN"]) :
              inbox["MAIN"][j].evtype = Held[h].evtype => Held[h].payload < inbox["MAIN"][j].payload

\* The payload of a message on its way has not been deleted.
Alive == /\ Ids(Unread) \subseteq live
         /\ \A o \in Obj : Ids(inbox[o]) \subseteq live
         /\ epc = "push" => sent \in live

Inv == TypeOK /\ Places /\ OneConversion /\ AlarmNear
Calm == ~raced => Sorted /\ Flow /\ Older /\ InOrder /\ Alive /\ Conservation

-----------------------------------------------------------------------------
(* Events and subscriptions.                                                *)

\* Every event has a number, and its words may be put together anew.
LEMMA EventFacts ==
    /\ \A e \in Event : e.payload \in 0..MaxMsgs
    /\ \A x, y \in Event : Torn(x, y) \subseteq Event
<1>1. \A x, y \in Event : Torn(x, y) \subseteq Event
  BY TornIsEvent DEF Event
<1>. QED  BY <1>1 DEF Event

LEMMA EventKinds ==
    /\ AlarmEvt \in Event /\ AlarmEvt.payload = 0 /\ AlarmEvt.evtype = "ALARM_SIG"
    /\ TickEvt \in Event /\ TickEvt.payload = 0 /\ TickEvt.evtype = "SWEEP_TICK_SIG"
    /\ JobEvt \in Event /\ JobEvt.payload = 0 /\ JobEvt.evtype = "SWEEP_SWEEPJOB_SIG"
    /\ \A d \in 1..4, n \in MsgId : [evtype |-> EthSig[d], payload |-> n] \in Letter
BY KernelAssumption DEF Event, AlarmEvt, TickEvt, JobEvt, Letter, SweepSigs, EthSig,
   EthSigs, MsgId

\* A message has a number, and a type of its own.
LEMMA LetterFacts ==
    ASSUME NEW e \in Letter
    PROVE  /\ e \in Event /\ e.payload \in MsgId /\ e.payload # 0
           /\ e.evtype \in EthSigs /\ e.evtype # "ALARM_SIG"
BY KernelAssumption DEF Letter, Event, EthSigs, MsgId

\* A slot that was never written holds an event.
LEMMA StaleEvents ==
    ASSUME TypeOK
    PROVE  Stale(PostSigs) \subseteq Event /\ Stale(SweepSigs) \subseteq Event
<1>1. PostSigs \subseteq {"ALARM_SIG"} \cup EthSigs
  <2>1. \A d \in 1..4 : EthSig[d] \in EthSigs
    BY DEF EthSig, EthSigs
  <2>. QED  BY <2>1 DEF PostSigs
<1>2. 0..sent \subseteq 0..MaxMsgs
  BY KernelAssumption DEF TypeOK
<1>. QED  BY <1>1, <1>2 DEF Stale, Event

\* verifymail hands every event to exactly one object.
LEMMA OneSubscriber ==
    /\ Subscribers("ALARM_SIG") = {"MAIN"}
    /\ Subscribers("CTRL_ETH_SIG") = {"MAIN"}
    /\ Subscribers("SWEEP_ETH_SIG") = {"SWEEP"}
    /\ Subscribers("SERVO_ETH_SIG") = {"SERVO"}
    /\ Subscribers("MONITOR_ETH_SIG") = {"MONITOR"}
<1>1. Len(subscriptions) = 5
  BY DEF subscriptions
<1>2. 1..5 = {1, 2, 3, 4, 5}
  OBVIOUS
<1>. QED  BY <1>1, <1>2 DEF subscriptions, Subscribers

\* Sweep's own events are not subscribed to.
LEMMA NoSubscriber ==
    Subscribers("SWEEP_TICK_SIG") = {} /\ Subscribers("SWEEP_SWEEPJOB_SIG") = {}
<1>1. Len(subscriptions) = 5
  BY DEF subscriptions
<1>2. 1..5 = {1, 2, 3, 4, 5}
  OBVIOUS
<1>. QED  BY <1>1, <1>2 DEF subscriptions, Subscribers

\* What an object's queue holds when nothing was overtaken.
LEMMA BoxFacts ==
    ASSUME NEW o \in Obj, NEW e \in Box(o)
    PROVE  /\ e \in Event /\ (e.payload = 0 <=> e \in {AlarmEvt} \cup Own)
           /\ e.payload # 0 => e \in Letter /\ o \in Subscribers(e.evtype)
           /\ o # "MAIN" => e # AlarmEvt
           /\ o = "MAIN" => e = AlarmEvt \/ (e \in Letter /\ e.evtype = "CTRL_ETH_SIG")
           /\ o # "SWEEP" => e \notin Own
<1>1. CASE e \in Own
  <2>1. o = "SWEEP"
    <3>1. e \notin Posted
      BY <1>1, EventKinds, LetterFacts DEF Own, Posted, EthSigs
    <3>. QED  BY <3>1 DEF Box
  <2>. QED  BY <1>1, <2>1, EventKinds DEF Own
<1>2. CASE e = AlarmEvt /\ o \in Subscribers(e.evtype)
  <2>1. e \in Event /\ e.payload = 0 /\ e.evtype = "ALARM_SIG"
    BY <1>2, EventKinds
  <2>2. o = "MAIN"
    BY <1>2, <2>1, OneSubscriber
  <2>3. e \notin Own
    BY <2>1, EventKinds DEF Own
  <2>. QED  BY <1>2, <2>1, <2>2, <2>3
<1>3. CASE e \in Letter /\ o \in Subscribers(e.evtype)
  <2>1. e \notin Own /\ e # AlarmEvt
    BY <1>3, LetterFacts, EventKinds DEF Own
  <2>2. o = "MAIN" => e.evtype = "CTRL_ETH_SIG"
    BY <1>3, LetterFacts, OneSubscriber DEF EthSigs
  <2>. QED  BY <1>3, <2>1, <2>2, LetterFacts
<1>. QED  BY <1>1, <1>2, <1>3 DEF Box, Posted

\* The distance to an alarm on the circle of counter values.
LEMMA Circle ==
    ASSUME NEW a \in 0..(Wrap - 1), NEW b \in 0..(Wrap - 1)
    PROVE  (a - b) % Wrap = IF b <= a THEN a - b ELSE a - b + Wrap
BY KernelAssumption

LEMMA OnCircle == ASSUME NEW n \in Int PROVE n % Wrap \in 0..(Wrap - 1)
BY KernelAssumption

LEMMA Forward ==
    ASSUME NEW b \in 0..(Wrap - 1), NEW n \in 0..(Wrap - 1)
    PROVE  (b + n) % Wrap = IF b + n < Wrap THEN b + n ELSE b + n - Wrap
BY KernelAssumption

-----------------------------------------------------------------------------
(* The numbers in a queue, as it is appended to and popped.                 *)

LEMMA IdsOfEvents ==
    ASSUME NEW q \in Seq(Event)
    PROVE  /\ Ids(q) \subseteq MsgId
           /\ \A i \in 1..Len(q) : q[i] \in Event /\ (q[i].payload # 0 => q[i].payload \in Ids(q))
<1>1. \A i \in 1..Len(q) : q[i] \in Event
  OBVIOUS
<1>. QED  BY <1>1, EventFacts, KernelAssumption DEF Ids, MsgId

LEMMA IdsAppend ==
    ASSUME NEW q \in Seq(Event), NEW e \in Event
    PROVE  Ids(Append(q, e)) = Ids(q) \cup ({e.payload} \ {0})
<1>. DEFINE r == Append(q, e)
<1>1. r \in Seq(Event) /\ Len(r) = Len(q) + 1 /\ r[Len(q) + 1] = e
  OBVIOUS
<1>2. \A i \in 1..Len(q) : r[i] = q[i]
  OBVIOUS
<1>3. \A x : x \in Ids(r) <=> x \in Ids(q) \/ x \in {e.payload} \ {0}
  BY <1>1, <1>2 DEF Ids
<1>. QED  BY <1>3

LEMMA IdsTail ==
    ASSUME NEW q \in Seq(Event), q # <<>>
    PROVE  Ids(q) = Ids(Tail(q)) \cup ({Head(q).payload} \ {0})
<1>. DEFINE r == Tail(q)
<1>1. r \in Seq(Event) /\ Len(r) = Len(q) - 1 /\ q[1] = Head(q) /\ Len(q) > 0
  OBVIOUS
<1>2. \A i \in 1..Len(r) : r[i] = q[i + 1]
  OBVIOUS
<1>3. ASSUME NEW x \in Ids(q)  PROVE x \in Ids(r) \/ x \in {Head(q).payload} \ {0}
  <2>1. PICK i \in 1..Len(q) : x = q[i].payload /\ x # 0
    BY DEF Ids
  <2>2. CASE i = 1
    BY <2>1, <2>2, <1>1
  <2>3. CASE i # 1
    <3>1. i - 1 \in 1..Len(r) /\ r[i - 1] = q[i]
      BY <2>3, <1>1, <1>2
    <3>. QED  BY <2>1, <3>1 DEF Ids
  <2>. QED  BY <2>2, <2>3
<1>4. ASSUME NEW x \in Ids(r)  PROVE x \in Ids(q)
  <2>1. PICK i \in 1..Len(r) : x = r[i].payload /\ x # 0
    BY DEF Ids
  <2>2. i + 1 \in 1..Len(q) /\ x = q[i + 1].payload
    BY <2>1, <1>1, <1>2
  <2>. QED  BY <2>1, <2>2 DEF Ids
<1>5. {Head(q).payload} \ {0} \subseteq Ids(q)
  BY <1>1 DEF Ids
<1>. QED  BY <1>3, <1>4, <1>5

LEMMA IncreasingAppend ==
    ASSUME NEW q \in Seq(Event), NEW e \in Event, Increasing(q),
           \A x \in Ids(q) : e.payload = 0 \/ x < e.payload
    PROVE  Increasing(Append(q, e))
<1>. DEFINE r == Append(q, e)
<1>1. r \in Seq(Event) /\ Len(r) = Len(q) + 1 /\ r[Len(q) + 1] = e
  OBVIOUS
<1>2. \A i \in 1..Len(q) : r[i] = q[i] /\ (q[i].payload # 0 => q[i].payload \in Ids(q))
  BY DEF Ids
<1>3. \A i, j \in 1..Len(r) :
        i < j /\ r[i].payload # 0 /\ r[j].payload # 0 => r[i].payload < r[j].payload
  BY <1>1, <1>2 DEF Increasing
<1>. QED  BY <1>3 DEF Increasing

\* What is popped is older than all that stays.
LEMMA IncreasingTail ==
    ASSUME NEW q \in Seq(Event), q # <<>>, Increasing(q)
    PROVE  /\ Increasing(Tail(q))
           /\ Head(q).payload # 0 => \A x \in Ids(Tail(q)) : Head(q).payload < x
<1>. DEFINE r == Tail(q)
<1>1. r \in Seq(Event) /\ Len(r) = Len(q) - 1 /\ q[1] = Head(q) /\ Len(q) > 0
  OBVIOUS
<1>2. \A i \in 1..Len(r) : i + 1 \in 1..Len(q) /\ r[i] = q[i + 1]
  BY <1>1
<1>3. \A i, j \in 1..Len(r) :
        i < j /\ r[i].payload # 0 /\ r[j].payload # 0 => r[i].payload < r[j].payload
  BY <1>1, <1>2 DEF Increasing
<1>4. ASSUME Head(q).payload # 0, NEW x \in Ids(r)  PROVE Head(q).payload < x
  <2>1. PICK i \in 1..Len(r) : x = r[i].payload /\ x # 0
    BY DEF Ids
  <2>. QED  BY <1>1, <1>2, <1>4, <2>1 DEF Increasing
<1>. QED  BY <1>3, <1>4 DEF Increasing

-----------------------------------------------------------------------------
(* Counting a message in a queue.                                           *)

Where(q, id) == {i \in 1..Len(q) : q[i].payload = id}

LEMMA CountIsCard ==
    ASSUME NEW q, NEW id
    PROVE  Occurrences(q, id) = Cardinality(Where(q, id))
BY DEF Occurrences, Where

LEMMA WhereFinite ==
    ASSUME NEW q \in Seq(Event), NEW id
    PROVE  IsFiniteSet(Where(q, id)) /\ Cardinality(Where(q, id)) \in Nat
<1>1. IsFiniteSet(1..Len(q))
  BY FS_Interval
<1>2. IsFiniteSet(Where(q, id))
  BY <1>1, FS_Subset DEF Where
<1>. QED  BY <1>2, FS_CardinalityType

\* Moving a set of places does not change how many there are.
Moved(S, k) == {i + k : i \in S}

LEMMA MovedCount ==
    ASSUME NEW S \in SUBSET Int, NEW k \in Int, IsFiniteSet(S)
    PROVE  IsFiniteSet(Moved(S, k)) /\ Cardinality(Moved(S, k)) = Cardinality(S)
<1>. DEFINE f == [i \in S |-> i + k]
<1>1. f \in Injection(S, Moved(S, k))
  BY DEF Injection, IsInjective, Moved
<1>2. f \in Surjection(S, Moved(S, k))
  BY DEF Surjection, Moved
<1>3. ExistsBijection(S, Moved(S, k))
  BY <1>1, <1>2 DEF ExistsBijection, Bijection
<1>. QED  BY <1>3, FS_Bijection

LEMMA CountNone ==
    ASSUME NEW q \in Seq(Event), NEW id \in Nat \ {0}, id \notin Ids(q)
    PROVE  Occurrences(q, id) = 0
<1>1. Where(q, id) = {}
  BY DEF Where, Ids
<1>. QED  BY <1>1, FS_EmptySet, CountIsCard

LEMMA CountAppend ==
    ASSUME NEW q \in Seq(Event), NEW e \in Event, NEW id \in Nat
    PROVE  /\ Occurrences(q, id) \in Nat
           /\ Occurrences(Append(q, e), id) =
                Occurrences(q, id) + IF e.payload = id THEN 1 ELSE 0
<1>. DEFINE r == Append(q, e)
            n == Len(q) + 1
<1>1. r \in Seq(Event) /\ Len(r) = n /\ r[n] = e /\ n \notin Where(q, id)
  BY DEF Where
<1>2. \A i \in 1..Len(q) : r[i] = q[i]
  OBVIOUS
<1>3. CASE e.payload = id
  <2>1. Where(r, id) = Where(q, id) \cup {n}
    BY <1>1, <1>2, <1>3 DEF Where
  <2>. QED  BY <1>1, <1>3, <2>1, WhereFinite, FS_AddElement, CountIsCard
<1>4. CASE e.payload # id
  <2>1. Where(r, id) = Where(q, id)
    BY <1>1, <1>2, <1>4 DEF Where
  <2>. QED  BY <1>4, <2>1, WhereFinite, CountIsCard
<1>. QED  BY <1>3, <1>4

LEMMA CountTail ==
    ASSUME NEW q \in Seq(Event), q # <<>>, NEW id \in Nat
    PROVE  /\ Occurrences(Tail(q), id) \in Nat
           /\ Occurrences(q, id) =
                Occurrences(Tail(q), id) + IF Head(q).payload = id THEN 1 ELSE 0
<1>. DEFINE r == Tail(q)
            S == Where(r, id)
            T == Where(q, id) \ {1}
<1>1. r \in Seq(Event) /\ Len(r) = Len(q) - 1 /\ q[1] = Head(q) /\ Len(q) > 0
  OBVIOUS
<1>2. \A i \in 1..Len(r) : i + 1 \in 1..Len(q) /\ r[i] = q[i + 1]
  BY <1>1
<1>3. \A j \in T : j - 1 \in S /\ j = (j - 1) + 1
  BY <1>1, <1>2 DEF Where
<1>4. \A i \in S : i + 1 \in T
  BY <1>1, <1>2 DEF Where
<1>5. T = Moved(S, 1)
  BY <1>3, <1>4 DEF Moved
<1>6. S \in SUBSET Int
  BY <1>1 DEF Where
<1>6a. IsFiniteSet(S) /\ Cardinality(S) \in Nat
  BY <1>1, WhereFinite
<1>7. Cardinality(T) = Cardinality(S)
  <2>. HIDE DEF S, T
  <2>1. IsFiniteSet(Moved(S, 1)) /\ Cardinality(Moved(S, 1)) = Cardinality(S)
    BY <1>6, <1>6a, MovedCount
  <2>. QED  BY <1>5, <2>1
<1>8. 1 \in Where(q, id) <=> Head(q).payload = id
  BY <1>1 DEF Where
<1>9. Cardinality(T) = IF Head(q).payload = id THEN Cardinality(Where(q, id)) - 1
                                           ELSE Cardinality(Where(q, id))
  BY <1>8, WhereFinite, FS_RemoveElement
<1>10. Cardinality(Where(q, id)) \in Nat
  BY WhereFinite
<1>. QED  BY <1>6a, <1>7, <1>9, <1>10, CountIsCard

LEMMA CountConcat ==
    ASSUME NEW q \in Seq(Event), NEW r \in Seq(Event), NEW id \in Nat
    PROVE  Occurrences(q \o r, id) = Occurrences(q, id) + Occurrences(r, id)
<1>. DEFINE s == q \o r
            n == Len(q)
            S == Where(r, id)
            T == Where(s, id) \ Where(q, id)
<1>1. s \in Seq(Event) /\ Len(s) = n + Len(r)
  OBVIOUS
<1>2. /\ \A i \in 1..n : i \in 1..Len(s) /\ s[i] = q[i]
      /\ \A i \in 1..Len(r) : i + n \in 1..Len(s) /\ s[i + n] = r[i]
      /\ \A j \in 1..Len(s) : j > n => j - n \in 1..Len(r)
  BY <1>1
<1>3. \A j \in T : j - n \in S /\ j = (j - n) + n
  <2>1. \A j \in T : j > n
    BY <1>1, <1>2 DEF Where
  <2>2. \A j \in T : j \in 1..Len(s) /\ s[j].payload = id
    BY DEF Where
  <2>3. \A j \in T : j - n \in 1..Len(r) /\ j = (j - n) + n
    BY <1>1, <1>2, <2>1, <2>2
  <2>4. \A j \in T : s[(j - n) + n] = r[j - n]
    BY <1>2, <2>3
  <2>. QED  BY <2>2, <2>3, <2>4 DEF Where
<1>4. \A i \in S : i + n \in T
  BY <1>1, <1>2 DEF Where
<1>5. T = Moved(S, n)
  BY <1>3, <1>4 DEF Moved
<1>6. S \in SUBSET Int
  BY <1>1 DEF Where
<1>6a. IsFiniteSet(S) /\ IsFiniteSet(Where(q, id)) /\ Cardinality(Where(q, id)) \in Nat
  BY WhereFinite
<1>7. IsFiniteSet(T) /\ Cardinality(T) = Cardinality(S)
  <2>. HIDE DEF S, T
  <2>1. IsFiniteSet(Moved(S, n)) /\ Cardinality(Moved(S, n)) = Cardinality(S)
    BY <1>6, <1>6a, MovedCount
  <2>. QED  BY <1>5, <2>1
<1>8. Where(s, id) = Where(q, id) \cup T /\ Where(q, id) \cap T = {}
  BY <1>1, <1>2 DEF Where
<1>9. Cardinality(Where(s, id)) = Cardinality(Where(q, id)) + Cardinality(T)
  <2>1. Cardinality(T) \in Nat
    BY <1>7, FS_CardinalityType
  <2>. HIDE DEF T
  <2>2. Cardinality(Where(q, id) \cup T) =
          Cardinality(Where(q, id)) + Cardinality(T) - Cardinality(Where(q, id) \cap T)
    BY <1>6a, <1>7, FS_Union
  <2>3. Cardinality(Where(q, id) \cap T) = 0
    BY <1>8, FS_EmptySet
  <2>. QED  BY <1>6a, <1>8, <2>1, <2>2, <2>3
<1>. QED  BY <1>7, <1>9, CountIsCard

-----------------------------------------------------------------------------
(* What the steps do to the queues.                                         *)

LEMMA SweepIsObj == "SWEEP" \in Obj /\ "MAIN" \in Obj
BY DEF Obj

\* The interrupt's SWEEPJOB joins Sweep's queue.
LEMMA BoardPushEffect ==
    ASSUME TypeOK, BoardPush
    PROVE  /\ inbox' \in [Obj -> Seq(Event)] /\ jobs' \in Nat
           /\ \/ inbox' = inbox
              \/ inbox' = [inbox EXCEPT !["SWEEP"] = Append(inbox["SWEEP"], JobEvt)]
           /\ Len(inbox["SWEEP"]) <= Len(inbox'["SWEEP"])
           /\ inbox["SWEEP"] # <<>> => inbox'["SWEEP"] # <<>>
<1>1. inbox \in [Obj -> Seq(Event)] /\ inbox["SWEEP"] \in Seq(Event) /\ jobs \in Nat
  BY SweepIsObj DEF TypeOK
<1>2. CASE UNCHANGED <<inbox, jobs>>
  BY <1>1, <1>2
<1>3. CASE jobs' = jobs + 1 /\ inbox' = [inbox EXCEPT !["SWEEP"] = Append(inbox["SWEEP"], JobEvt)]
  <2>1. Append(inbox["SWEEP"], JobEvt) \in Seq(Event)
    BY <1>1, EventKinds
  <2>2. inbox'["SWEEP"] = Append(inbox["SWEEP"], JobEvt)
    BY <1>1, <1>3, SweepIsObj
  <2>. QED  BY <1>1, <1>3, <2>1, <2>2
<1>. QED  BY <1>2, <1>3 DEF BoardPush

\* However it was overtaken, the main loop's push leaves Sweep a queue.
LEMMA EndPushEffect ==
    ASSUME TypeOK, EndPush, mat <= Len(inbox["SWEEP"])
    PROVE  /\ inbox' \in [Obj -> Seq(Event)] /\ inbox'["SWEEP"] # <<>>
           /\ raced' \in BOOLEAN /\ mpushed' \in Event /\ mat' \in Nat
<1>1. PICK q \in PushOutcomes(inbox["SWEEP"], mat, mpushed, Stale(SweepSigs)) :
        inbox' = [inbox EXCEPT !["SWEEP"] = q]
  BY DEF EndPush
<1>2. inbox["SWEEP"] \in Seq(Event) /\ mat \in Nat /\ mpushed \in Event
  BY SweepIsObj DEF TypeOK
<1>3. q \in Seq(Event) /\ q # <<>>
  BY <1>2, StaleEvents, EventFacts, PushKeepsQueue
<1>4. raced' \in BOOLEAN /\ mpushed' \in Event /\ mat' \in Nat
  BY EventKinds DEF EndPush
<1>. QED  BY <1>1, <1>3, <1>4, SweepIsObj DEF TypeOK

\* A push that was not overtaken appends.
LEMMA EndPushQuiet ==
    ASSUME TypeOK, EndPush, mat <= Len(inbox["SWEEP"]), ~raced'
    PROVE  ~raced /\ inbox' = [inbox EXCEPT !["SWEEP"] = Append(inbox["SWEEP"], mpushed)]
<1>1. ~raced /\ ~Overtaken(inbox["SWEEP"], mat)
  BY DEF EndPush
<1>2. inbox["SWEEP"] \in Seq(Event) /\ mat \in Nat
  BY SweepIsObj DEF TypeOK
<1>3. mat = Len(inbox["SWEEP"])
  BY <1>1, <1>2 DEF Overtaken
<1>4. PICK q \in PushOutcomes(inbox["SWEEP"], mat, mpushed, Stale(SweepSigs)) :
        inbox' = [inbox EXCEPT !["SWEEP"] = q]
  BY DEF EndPush
<1>5. q = Append(inbox["SWEEP"], mpushed)
  BY <1>3, QuietPush
<1>. QED  BY <1>1, <1>4, <1>5

\* The front of an object's queue is popped.
LEMMA PopEffect ==
    ASSUME TypeOK, NEW o \in Obj, inbox[o] # <<>>,
           inbox' = [inbox EXCEPT ![o] = Tail(inbox[o])]
    PROVE  inbox' \in [Obj -> Seq(Event)] /\ Head(inbox[o]) \in Event
<1>1. inbox[o] \in Seq(Event)
  BY DEF TypeOK
<1>2. Tail(inbox[o]) \in Seq(Event) /\ Head(inbox[o]) \in Event
  BY <1>1
<1>. QED  BY <1>2 DEF TypeOK

LEMMA ServesEffect ==
    ASSUME TypeOK, NEW evt \in Event, Serves(evt)
    PROVE  served' \in Seq(Event) /\ live' \in SUBSET MsgId
<1>1. served \in Seq(Event) /\ live \in SUBSET MsgId
  BY DEF TypeOK
<1>2. Append(served, evt) \in Seq(Event) /\ live \ {evt.payload} \in SUBSET MsgId
  BY <1>1
<1>. QED  BY <1>1, <1>2 DEF Serves

\* Popping leaves events of a queue, appending adds one.
LEMMA TailEvents ==
    ASSUME NEW q \in Seq(Event), q # <<>>
    PROVE  /\ Head(q) = q[1] /\ 1 \in 1..Len(q)
           /\ \A i \in 1..Len(Tail(q)) : i + 1 \in 1..Len(q) /\ Tail(q)[i] = q[i + 1]
OBVIOUS

LEMMA AppendEvents ==
    ASSUME NEW q \in Seq(Event), NEW e \in Event
    PROVE  \A i \in 1..Len(Append(q, e)) :
             \/ i \in 1..Len(q) /\ Append(q, e)[i] = q[i]
             \/ i = Len(q) + 1 /\ Append(q, e)[i] = e
OBVIOUS

-----------------------------------------------------------------------------
(* The invariant that holds with and without a race.                        *)

\* main() up to its loop leaves the invariant.
LEMMA InitInv == Init => Inv
<1>. SUFFICES ASSUME Init PROVE Inv
  OBVIOUS
<1>. USE KernelAssumption DEF Init
<1>1. TypeOK
  <2>1. bspcounter \in 0..(Wrap - 1) /\ alarm \in 0..(Wrap - 1) /\ reload \in {0, Interval}
    BY DEF Never
  <2>2. /\ postoffice \in Seq(Event) /\ inbox \in [Obj -> Seq(Event)]
        /\ served \in Seq(Event)
    <3>1. <<TickEvt>> \in Seq(Event)
      BY EventKinds
    <3>. QED  BY <3>1
  <2>3. adcflag \in BOOLEAN /\ adcbusy \in BOOLEAN /\ raced \in BOOLEAN
    OBVIOUS
  <2>. QED  BY <2>1, <2>2, <2>3, EventKinds DEF TypeOK
<1>2. Places /\ OneConversion /\ AlarmNear
  BY DEF Places, OneConversion, AlarmNear
<1>. QED  BY <1>1, <1>2 DEF Inv

\* Handing an event out and popping it leave queues of events.
LEMMA QueueTypes ==
    ASSUME NEW q \in Seq(Event), q # <<>>
    PROVE  Head(q) \in Event /\ Tail(q) \in Seq(Event)
OBVIOUS

\* Every step of the loop and of the interrupts keeps the types.
LEMMA TypeStep == TypeOK /\ Places /\ [Next]_vars => TypeOK'
<1>. SUFFICES ASSUME TypeOK, Places, [Next]_vars PROVE TypeOK'
  OBVIOUS
<1>. USE KernelAssumption, EventKinds DEF TypeOK
<1>1. CASE Pit
  <2>1. bspcounter' \in 0..(Wrap - 1)
    BY <1>1, Forward DEF Pit
  <2>2. alarm' \in 0..(Wrap - 1) /\ postoffice' \in Seq(Event)
    <3>1. CASE Due
      <4>1. alarm' = IF reload # 0 THEN (bspcounter' + reload) % Wrap ELSE Never
        BY <1>1, <3>1 DEF Pit
      <4>2. (bspcounter' + reload) % Wrap \in 0..(Wrap - 1)
        <5>1. bspcounter' + reload \in Int
          BY <2>1
        <5>. QED  BY <5>1, OnCircle
      <4>3. postoffice' = Append(postoffice, AlarmEvt)
        BY <1>1, <3>1 DEF Pit
      <4>. QED  BY <4>1, <4>2, <4>3 DEF Never
    <3>2. CASE ~Due
      BY <1>1, <3>2 DEF Pit
    <3>. QED  BY <3>1, <3>2
  <2>3. inbox' \in [Obj -> Seq(Event)] /\ jobs' \in Nat
    BY <1>1, BoardPushEffect DEF Pit
  <2>. QED  BY <1>1, <2>1, <2>2, <2>3 DEF Pit, enet, adc, ghosts
<1>2. CASE AdcDone
  BY <1>2 DEF AdcDone, timers, sweep, enet, ghosts
<1>3. CASE Ethergate
  <2>1. sent + 1 \in MsgId /\ sent' \in 0..MaxMsgs
    BY <1>3 DEF Ethergate, MsgId
  <2>2. epushed' \in Event /\ eat' \in Nat /\ epc' \in {"off", "push"}
    BY <1>3, <2>1, LetterFacts DEF Ethergate
  <2>3. live' \subseteq MsgId /\ unaddressed' \subseteq MsgId
    BY <1>3, <2>1 DEF Ethergate
  <2>. QED  BY <1>3, <2>1, <2>2, <2>3 DEF Ethergate, timers, sweep, adc
<1>4. CASE EthergatePush
  <2>1. postoffice' \in Seq(Event)
    BY <1>4, PushKeepsQueue, StaleEvents, EventFacts DEF EthergatePush, Places
  <2>2. raced' \in BOOLEAN
    BY <1>4 DEF EthergatePush
  <2>. QED  BY <1>4, <2>1, <2>2 DEF EthergatePush, timers, sweep, adc
<1>5. CASE MailFront
  <2>1. Head(postoffice) \in Event
    BY <1>5 DEF MailFront
  <2>2. inbox' \in [Obj -> Seq(Event)] /\ mpushed' \in Event /\ mat' \in Nat
    <3>1. CASE "SWEEP" \in Subscribers(Head(postoffice).evtype)
      <4>1. inbox["SWEEP"] \in Seq(Event)
        BY SweepIsObj
      <4>2. inbox' = inbox /\ mpushed' = Head(postoffice) /\ mat' = Len(inbox["SWEEP"])
        BY <1>5, <3>1 DEF MailFront
      <4>3. Len(inbox["SWEEP"]) \in Nat
        BY <4>1
      <4>. QED  BY <2>1, <4>2, <4>3
    <3>2. CASE "SWEEP" \notin Subscribers(Head(postoffice).evtype)
      <4>1. /\ inbox' = [o \in Obj |-> IF o \in Subscribers(Head(postoffice).evtype)
                                         THEN Append(inbox[o], Head(postoffice)) ELSE inbox[o]]
            /\ UNCHANGED <<mpushed, mat>>
        BY <1>5, <3>2 DEF MailFront
      <4>2. \A o \in Obj : inbox[o] \in Seq(Event) /\ Append(inbox[o], Head(postoffice)) \in Seq(Event)
        BY <2>1
      <4>. QED  BY <4>1, <4>2
    <3>. QED  BY <3>1, <3>2
  <2>3. pc' \in {"spush", "popmail"}
    BY <1>5 DEF MailFront
  <2>. QED  BY <1>5, <2>2, <2>3 DEF MailFront, timers, enet, adc, ghosts
<1>6. CASE MailPop
  BY <1>6 DEF MailPop, Running, Places, timers, sweep, enet, adc, ghosts
<1>7. CASE MailEmpty
  BY <1>7 DEF MailEmpty, timers, enet, adc, ghosts
<1>8. CASE Serve
  <2>1. CASE inbox[pc] # <<>>
    <3>1. inbox' \in [Obj -> Seq(Event)] /\ Head(inbox[pc]) \in Event
      BY <1>8, <2>1, PopEffect DEF Serve
    <3>2. served' \in Seq(Event) /\ live' \in SUBSET MsgId /\ pc' = pc
      BY <1>8, <2>1, <3>1, ServesEffect DEF Serve
    <3>. QED  BY <1>8, <3>1, <3>2 DEF Serve, timers, sweep, enet, adc
  <2>2. CASE inbox[pc] = <<>>
    <3>1. pc' \in {"SERVO", "MONITOR", "ctrl"}
      BY <1>8, <2>2 DEF Serve, After, Obj
    <3>. QED  BY <1>8, <2>2, <3>1 DEF Serve, timers, sweep, enet, adc
  <2>. QED  BY <2>1, <2>2
<1>15. CASE SweepPush
  <2>1. /\ inbox' \in [Obj -> Seq(Event)] /\ raced' \in BOOLEAN
        /\ mpushed' \in Event /\ mat' \in Nat
    BY <1>15, EndPushEffect DEF SweepPush, Running, Places
  <2>. QED  BY <1>15, <2>1 DEF SweepPush, timers, enet, adc
<1>16. CASE HandlerPush
  <2>1. inbox["SWEEP"] \in Seq(Event)
    BY SweepIsObj
  <2>2. mpushed' \in Event /\ mat' \in Nat
    BY <1>16, <2>1 DEF HandlerPush
  <2>. QED  BY <1>16, <2>2 DEF HandlerPush, timers, enet, adc, ghosts
<1>17. CASE HandlerPushed
  <2>1. /\ inbox' \in [Obj -> Seq(Event)] /\ raced' \in BOOLEAN
        /\ mpushed' \in Event /\ mat' \in Nat
    BY <1>17, EndPushEffect DEF HandlerPushed, Running, Places
  <2>. QED  BY <1>17, <2>1 DEF HandlerPushed, timers, enet, adc
<1>18. CASE HandlerReturns
  <2>1. inbox' \in [Obj -> Seq(Event)] /\ Head(inbox["SWEEP"]) \in Event
    BY <1>18, PopEffect, SweepIsObj DEF HandlerReturns, Running, Places
  <2>2. served' \in Seq(Event) /\ live' \in SUBSET MsgId
    BY <1>18, <2>1, ServesEffect DEF HandlerReturns
  <2>. QED  BY <1>18, <2>1, <2>2 DEF HandlerReturns, timers, sweep, enet, adc
<1>19. CASE Undefined
  BY <1>19 DEF Undefined, timers, sweep, enet, adc, ghosts
<1>9. CASE CtrlInit
  <2>1. alarm' \in 0..(Wrap - 1)
    BY <1>9, Forward DEF CtrlInit
  <2>. QED  BY <1>9, <2>1 DEF CtrlInit, sweep, enet, adc, ghosts
<1>10. CASE CtrlReload
  BY <1>10 DEF CtrlReload, sweep, enet, adc, ghosts
<1>11. CASE CtrlIdle
  <2>1. inbox["MAIN"] \in Seq(Event)
    BY DEF Obj
  <2>2. inbox' \in [Obj -> Seq(Event)] /\ event_temp' \in Event
    <3>1. CASE inbox["MAIN"] # <<>>
      <4>1. Head(inbox["MAIN"]) \in Event /\ Tail(inbox["MAIN"]) \in Seq(Event)
        BY <2>1, <3>1
      <4>2. inbox' = [inbox EXCEPT !["MAIN"] = Tail(inbox["MAIN"])]
        BY <1>11, <3>1 DEF CtrlIdle
      <4>3. event_temp' = Head(inbox["MAIN"])
        BY <1>11, <3>1 DEF CtrlIdle
      <4>. QED  BY <4>1, <4>2, <4>3
    <3>2. CASE inbox["MAIN"] = <<>>
      BY <1>11, <3>2 DEF CtrlIdle
    <3>. QED  BY <3>1, <3>2
  <2>3. ctrl_state' \in {"INIT", "IDLE", "ALARM", "RECVU"}
    BY <1>11 DEF CtrlIdle
  <2>. QED  BY <1>11, <2>2, <2>3 DEF CtrlIdle, timers, sweep, enet, adc, ghosts
<1>12. CASE CtrlAlarm
  <2>1. adcflag' \in BOOLEAN /\ adcbusy' \in BOOLEAN
    BY <1>12 DEF CtrlAlarm, adc
  <2>2. /\ pc' \in {"mail", "convert"} /\ ctrl_state' \in {"IDLE", "ALARM"}
        /\ UNCHANGED <<timers, postoffice, inbox, event_temp, sweep, enet, live, ghosts>>
    BY <1>12 DEF CtrlAlarm, Running
  <2>. QED  BY <2>1, <2>2 DEF timers, sweep, enet, ghosts
<1>13. CASE CtrlRecvu
  BY <1>13 DEF CtrlRecvu, timers, sweep, enet, adc
<1>14. CASE UNCHANGED vars
  BY <1>14 DEF vars, timers, sweep, enet, adc, ghosts
<1>. QED
  BY <1>1, <1>2, <1>3, <1>4, <1>5, <1>6, <1>7, <1>8, <1>9, <1>10, <1>11, <1>12,
     <1>13, <1>14, <1>15, <1>16, <1>17, <1>18, <1>19 DEF Next, Main

\* The program counters stand where the loop and ethergate left them.
LEMMA PlacesStep == TypeOK /\ Places /\ OneConversion /\ [Next]_vars => Places'
<1>. SUFFICES ASSUME TypeOK, Places, OneConversion, [Next]_vars PROVE Places'
  OBVIOUS
<1>. USE DEF Places
<1>0. inbox["SWEEP"] \in Seq(Event) /\ Len(inbox["SWEEP"]) \in Nat /\ mat \in Nat
  <2>1. inbox["SWEEP"] \in Seq(Event) /\ mat \in Nat
    BY SweepIsObj DEF TypeOK
  <2>. QED  BY <2>1
<1>1. CASE Pit
  <2>1. postoffice \in Seq(Event) /\ AlarmEvt \in Event
    BY EventKinds DEF TypeOK
  <2>2. postoffice' = postoffice \/ postoffice' = Append(postoffice, AlarmEvt)
    BY <1>1 DEF Pit
  <2>3. Len(postoffice') >= Len(postoffice) /\ (postoffice # <<>> => postoffice' # <<>>)
    BY <2>1, <2>2
  <2>4. Len(postoffice') \in Nat /\ Len(postoffice) \in Nat /\ eat \in Nat
    BY <2>1, <2>2 DEF TypeOK
  <2>5. /\ inbox["SWEEP"] # <<>> => inbox'["SWEEP"] # <<>>
        /\ mat <= Len(inbox["SWEEP"]) => mat <= Len(inbox'["SWEEP"])
    <3>1. /\ inbox' \in [Obj -> Seq(Event)] /\ Len(inbox["SWEEP"]) <= Len(inbox'["SWEEP"])
          /\ inbox["SWEEP"] # <<>> => inbox'["SWEEP"] # <<>>
      BY <1>1, BoardPushEffect DEF Pit
    <3>2. Len(inbox'["SWEEP"]) \in Nat
      BY <3>1, SweepIsObj
    <3>. QED  BY <1>0, <3>1, <3>2
  <2>. QED  BY <1>1, <2>3, <2>4, <2>5 DEF Pit, enet, adc, ghosts
<1>2. CASE AdcDone
  BY <1>2 DEF AdcDone, timers, sweep, enet, ghosts
<1>3. CASE Ethergate
  <2>1. sent \in Nat /\ sent' = sent + 1 /\ Len(postoffice) \in Nat
    BY <1>3 DEF Ethergate, TypeOK
  <2>2. unaddressed' \subseteq unaddressed \cup {sent'} /\ sent' \notin unaddressed
    BY <1>3, <2>1 DEF Ethergate
  <2>3. unaddressed' \subseteq 1..sent'
    BY <2>1, <2>2
  <2>4. epc' = "push" => /\ epushed'.payload = sent' /\ epushed'.evtype \in EthSigs
                         /\ eat' = Len(postoffice) /\ unaddressed' = unaddressed
    BY <1>3, <2>1 DEF Ethergate, EthSig, EthSigs
  <2>5. epc' = "off" => epushed' = AlarmEvt
    BY <1>3 DEF Ethergate
  <2>. QED  BY <1>3, <2>1, <2>2, <2>3, <2>4, <2>5 DEF Ethergate, timers, sweep, adc
<1>4. CASE EthergatePush
  <2>1. postoffice' # <<>>
    BY <1>4, PushKeepsQueue, StaleEvents, EventFacts DEF EthergatePush, TypeOK
  <2>. QED  BY <1>4, <2>1 DEF EthergatePush, timers, sweep, adc
<1>5. CASE MailFront
  <2>1. pc' = "spush" => inbox' = inbox /\ mat' = Len(inbox["SWEEP"])
    BY <1>5 DEF MailFront
  <2>2. pc' \in {"spush", "popmail"} /\ postoffice' # <<>>
    BY <1>5 DEF MailFront
  <2>. QED  BY <1>0, <1>5, <2>1, <2>2 DEF MailFront, timers, enet, adc, ghosts
<1>6. CASE MailPop \/ MailEmpty
  BY <1>6 DEF MailPop, MailEmpty, Running, timers, sweep, enet, adc, ghosts
<1>7. CASE Serve
  <2>1. pc' \in {"SWEEP", "SERVO", "MONITOR", "ctrl"}
    BY <1>7 DEF Serve, After, Obj, TypeOK
  <2>. QED  BY <1>7, <2>1 DEF Serve, timers, sweep, enet, adc
<1>8. CASE SweepPush
  <2>1. pc' = "popmail" /\ postoffice' # <<>>
    BY <1>8 DEF SweepPush, Running
  <2>. QED  BY <1>8, <2>1 DEF SweepPush, timers, enet, adc
<1>9. CASE HandlerPush
  <2>1. /\ pc' = "own" /\ mpushed' \in {TickEvt, JobEvt} /\ mat' = Len(inbox["SWEEP"])
        /\ inbox' = inbox /\ inbox["SWEEP"] # <<>>
    BY <1>9 DEF HandlerPush
  <2>. QED  BY <1>0, <1>9, <2>1 DEF HandlerPush, timers, enet, adc, ghosts
<1>10. CASE HandlerPushed
  <2>1. pc' = "handled" /\ inbox'["SWEEP"] # <<>>
    BY <1>10, EndPushEffect DEF HandlerPushed, Running
  <2>. QED  BY <1>10, <2>1 DEF HandlerPushed, timers, enet, adc
<1>11. CASE HandlerReturns \/ Undefined
  <2>1. pc' \in {"SWEEP", "dead"}
    BY <1>11 DEF HandlerReturns, Undefined
  <2>. QED  BY <1>11, <2>1 DEF HandlerReturns, Undefined, timers, sweep, enet, adc, ghosts
<1>12. CASE CtrlInit \/ CtrlReload
  BY <1>12 DEF CtrlInit, CtrlReload, Running, sweep, enet, adc, ghosts
<1>13. CASE CtrlIdle
  <2>1. ctrl_state' = "RECVU" => event_temp'.evtype = "CTRL_ETH_SIG"
    BY <1>13 DEF CtrlIdle
  <2>. QED  BY <1>13, <2>1 DEF CtrlIdle, Running, timers, sweep, enet, adc, ghosts
<1>14. CASE CtrlAlarm
  <2>1. /\ pc' \in {"mail", "convert"} /\ ctrl_state' \in {"IDLE", "ALARM"}
        /\ pc' = "convert" => ctrl_state' = "ALARM" /\ ~adcflag' /\ ~adcbusy'
    BY <1>14 DEF CtrlAlarm, OneConversion, Running, adc
  <2>2. UNCHANGED <<postoffice, event_temp, epc, epushed, eat, sent, unaddressed>>
    BY <1>14 DEF CtrlAlarm, enet, ghosts
  <2>. QED  BY <2>1, <2>2
<1>15. CASE CtrlRecvu
  BY <1>15 DEF CtrlRecvu, Running, timers, sweep, enet, adc
<1>16. CASE UNCHANGED vars
  BY <1>16 DEF vars, timers, sweep, enet, adc, ghosts
<1>. QED
  BY <1>1, <1>2, <1>3, <1>4, <1>5, <1>6, <1>7, <1>8, <1>9, <1>10, <1>11, <1>12, <1>13,
     <1>14, <1>15, <1>16 DEF Next, Main

\* The flag is raised only by the conversion it waits for.
LEMMA ConversionStep == Places /\ OneConversion /\ [Next]_vars => OneConversion'
<1>. SUFFICES ASSUME Places, OneConversion, [Next]_vars PROVE OneConversion'
  OBVIOUS
<1>. USE DEF Places, OneConversion
<1>1. CASE CtrlAlarm
  BY <1>1 DEF CtrlAlarm, Running, adc
<1>2. CASE AdcDone
  BY <1>2 DEF AdcDone
<1>. QED
  BY <1>1, <1>2 DEF Next, Main, Pit, Ethergate, EthergatePush, MailFront, MailPop,
     MailEmpty, SweepPush, Serve, HandlerPush, HandlerPushed, HandlerReturns, Undefined,
     CtrlInit, CtrlReload, CtrlIdle, CtrlRecvu, vars, adc

\* The counter passes an armed alarm only in the tick that sets it again.
LEMMA AlarmStep == TypeOK /\ AlarmNear /\ [Next]_vars => AlarmNear'
<1>. SUFFICES ASSUME TypeOK, AlarmNear, [Next]_vars, alarm' # Never
              PROVE  (alarm' - bspcounter') % Wrap <= Interval
  BY DEF AlarmNear
<1>. USE KernelAssumption
<1>0. bspcounter \in 0..(Wrap - 1) /\ alarm \in 0..(Wrap - 1) /\ reload \in {0, Interval}
  BY DEF TypeOK
<1>1. CASE Pit
  <2>1. /\ bspcounter' \in 0..(Wrap - 1)
        /\ bspcounter' = IF bspcounter + 1 < Wrap THEN bspcounter + 1 ELSE 0
    <3>1. bspcounter' = (bspcounter + 1) % Wrap
      BY <1>1 DEF Pit
    <3>. QED  BY <1>0, <3>1
  <2>2. CASE Due
    <3>1. alarm' = (bspcounter' + Interval) % Wrap
      BY <1>0, <1>1, <2>2 DEF Pit
    <3>2. alarm' = IF bspcounter' + Interval < Wrap THEN bspcounter' + Interval
                                                     ELSE bspcounter' + Interval - Wrap
      <4>1. bspcounter' \in 0..(Wrap - 1) /\ Interval \in 0..(Wrap - 1)
        BY <2>1
      <4>2. (bspcounter' + Interval) % Wrap =
              IF bspcounter' + Interval < Wrap THEN bspcounter' + Interval
                                               ELSE bspcounter' + Interval - Wrap
        BY <4>1, Forward
      <4>. QED  BY <3>1, <4>2
    <3>3. alarm' \in 0..(Wrap - 1)
      BY <2>1, <3>2
    <3>4. (alarm' - bspcounter') % Wrap = IF bspcounter' <= alarm' THEN alarm' - bspcounter'
                                           ELSE alarm' - bspcounter' + Wrap
      BY <2>1, <3>3, Circle
    <3>. QED  BY <2>1, <3>2, <3>3, <3>4
  <2>3. CASE ~Due
    <3>1. alarm' = alarm /\ alarm # Never /\ ~(alarm < bspcounter')
      BY <1>1, <2>3 DEF Pit, Due
    <3>2. (alarm - bspcounter) % Wrap <= Interval
      BY <3>1 DEF AlarmNear
    <3>. QED  BY <1>0, <2>1, <3>1, <3>2, Circle DEF Never
  <2>. QED  BY <2>2, <2>3
<1>2. CASE CtrlInit
  <2>1. alarm' = (bspcounter + Interval) % Wrap /\ bspcounter' = bspcounter
    BY <1>2 DEF CtrlInit
  <2>2. alarm' = IF bspcounter + Interval < Wrap THEN bspcounter + Interval
                                                  ELSE bspcounter + Interval - Wrap
    BY <1>0, <2>1, Forward
  <2>3. alarm' \in 0..(Wrap - 1)
    BY <1>0, <2>2
  <2>. QED  BY <1>0, <2>1, <2>2, <2>3, Circle
<1>3. CASE UNCHANGED <<bspcounter, alarm>>
  BY <1>3 DEF AlarmNear
<1>. QED
  BY <1>1, <1>2, <1>3 DEF Next, Main, AdcDone, Ethergate, EthergatePush, MailFront,
     MailPop, MailEmpty, SweepPush, Serve, HandlerPush, HandlerPushed, HandlerReturns,
     Undefined, CtrlReload, CtrlIdle, CtrlAlarm, CtrlRecvu, vars, timers

-----------------------------------------------------------------------------
(* The moves of a message.  Without a race every step is one of these, or   *)
(* leaves all messages where they are.                                      *)

gate == <<epc, epushed, sent, unaddressed>>

\* Events that carry no message are pushed, or none.
Noted == /\ Unread' = Unread \/ Unread' = Append(Unread, AlarmEvt)
         /\ \/ inbox' = inbox
            \/ \E e \in Own : inbox' = [inbox EXCEPT !["SWEEP"] = Append(inbox["SWEEP"], e)]
         /\ UNCHANGED <<Held, served, live, gate>>

Arrives == /\ epc = "off" /\ sent' = sent + 1 /\ live' = live \cup {sent'}
           /\ \/ epc' = "push" /\ epushed'.payload = sent' /\ unaddressed' = unaddressed
              \/ UNCHANGED <<epc, epushed>> /\ unaddressed' = unaddressed \cup {sent'}
           /\ UNCHANGED <<Unread, inbox, Held, served>>

IsPosted == /\ epc = "push" /\ epc' = "off" /\ epushed' = AlarmEvt
            /\ Unread' = Append(Unread, epushed)
            /\ UNCHANGED <<inbox, Held, served, live, sent, unaddressed>>

HandedTo(o) == /\ Unread # <<>> /\ o \in Subscribers(Head(Unread).evtype)
               /\ Unread' = Tail(Unread)
               /\ inbox' = [inbox EXCEPT ![o] = Append(inbox[o], Head(Unread))]
               /\ UNCHANGED <<Held, served, live, gate>>

OwnServed == /\ inbox["SWEEP"] # <<>> /\ Head(inbox["SWEEP"]) \in Own
             /\ inbox' = [inbox EXCEPT !["SWEEP"] = Tail(inbox["SWEEP"])]
             /\ UNCHANGED <<Unread, Held, served, live, gate>>

ServedBy(o) == /\ o # "MAIN" /\ inbox[o] # <<>> /\ Head(inbox[o]) \in Letter
               /\ inbox' = [inbox EXCEPT ![o] = Tail(inbox[o])]
               /\ served' = Append(served, Head(inbox[o]))
               /\ live' = live \ {Head(inbox[o]).payload}
               /\ UNCHANGED <<Unread, Held, gate>>

TakenByMain == /\ inbox["MAIN"] # <<>> /\ Held = <<>>
               /\ inbox' = [inbox EXCEPT !["MAIN"] = Tail(inbox["MAIN"])]
               /\ \/ Head(inbox["MAIN"]) = AlarmEvt /\ Held' = <<>>
                  \/ /\ Head(inbox["MAIN"]) \in Letter
                     /\ Head(inbox["MAIN"]).evtype = "CTRL_ETH_SIG"
                     /\ Held' = <<Head(inbox["MAIN"])>>
               /\ UNCHANGED <<Unread, served, live, gate>>

Announced == /\ Held = <<event_temp>> /\ Held' = <<>> /\ event_temp \in Letter
             /\ event_temp.evtype = "CTRL_ETH_SIG"
             /\ served' = Append(served, event_temp)
             /\ UNCHANGED <<Unread, inbox, live, gate>>

Move == \/ Noted \/ Arrives \/ IsPosted \/ OwnServed
        \/ (\E o \in Obj : HandedTo(o) \/ ServedBy(o)) \/ TakenByMain \/ Announced

\* The queues the moves are about hold events.
LEMMA FlowTypes ==
    ASSUME TypeOK, Places
    PROVE  /\ Unread \in Seq(Event) /\ inbox \in [Obj -> Seq(Event)]
           /\ Held \in Seq(Event) /\ served \in Seq(Event)
           /\ sent \in Nat /\ epushed \in Event /\ live \subseteq MsgId
           /\ \A h \in 1..Len(Held) : Held[h].evtype = "CTRL_ETH_SIG"
<1>1. Unread \in Seq(Event)
  BY DEF TypeOK, Places, Unread
<1>2. Held \in Seq(Event) /\ \A h \in 1..Len(Held) : Held[h].evtype = "CTRL_ETH_SIG"
  BY DEF TypeOK, Places, Held
<1>. QED  BY <1>1, <1>2 DEF TypeOK

\* The front that verifymail has handed out and not popped hides no push.
LEMMA UnreadAppend ==
    ASSUME TypeOK, Places, NEW e \in Event,
           postoffice' = Append(postoffice, e), pc' = pc
    PROVE  Unread' = Append(Unread, e)
<1>1. postoffice \in Seq(Event) /\ (pc = "popmail" => postoffice # <<>>)
  BY DEF TypeOK, Places
<1>2. ASSUME postoffice # <<>>
      PROVE  Tail(Append(postoffice, e)) = Append(Tail(postoffice), e)
  BY <1>1, <1>2
<1>. QED  BY <1>1, <1>2 DEF Unread

\* What is popped from an object's queue is a message, or one of Sweep's own.
LEMMA PopIsMove ==
    ASSUME TypeOK, Sorted, NEW o \in Obj, o # "MAIN", inbox[o] # <<>>,
           inbox' = [inbox EXCEPT ![o] = Tail(inbox[o])], Serves(Head(inbox[o])),
           UNCHANGED <<Unread, Held, gate>>
    PROVE  Move
<1>. DEFINE e == Head(inbox[o])
<1>1. e \in Box(o)
  <2>1. inbox[o] \in Seq(Box(o))
    BY DEF Sorted
  <2>. QED  BY <2>1
<1>2. CASE e \in Own
  <2>1. o = "SWEEP"
    BY <1>1, <1>2, BoxFacts
  <2>2. UNCHANGED <<served, live>>
    BY <1>2, EventKinds DEF Serves, Own, EthSigs
  <2>. QED  BY <1>2, <2>1, <2>2 DEF Move, OwnServed
<1>3. CASE e \in Letter
  <2>1. served' = Append(served, e) /\ live' = live \ {e.payload}
    BY <1>3, LetterFacts DEF Serves
  <2>. QED  BY <1>3, <2>1 DEF Move, ServedBy
<1>. QED
  <2>1. e \in Own \/ e \in Letter
    BY <1>1, BoxFacts
  <2>. QED  BY <2>1, <1>2, <1>3

\* A message is handed to the one object that subscribed to it.
LEMMA Fanout ==
    ASSUME NEW e \in Posted
    PROVE  \E o \in Obj : Subscribers(e.evtype) = {o}
BY LetterFacts, EventKinds, OneSubscriber DEF Posted, EthSigs, Obj

LEMMA StepIsMove ==
    ASSUME TypeOK, Places, ~raced => Sorted, [Next]_vars, ~raced'
    PROVE  ~raced /\ Move
<1>0. Unread \in Seq(Event) /\ inbox \in [Obj -> Seq(Event)]
  BY FlowTypes
<1>1. CASE Pit
  <2>1. postoffice' = postoffice \/ postoffice' = Append(postoffice, AlarmEvt)
    BY <1>1 DEF Pit
  <2>2. UNCHANGED <<Held, served, live, gate, raced>> /\ pc' = pc
    BY <1>1 DEF Pit, Held, gate, enet, ghosts
  <2>3. postoffice' = postoffice => Unread' = Unread
    BY <2>2 DEF Unread
  <2>4. postoffice' # postoffice => Unread' = Append(Unread, AlarmEvt)
    BY <2>1, <2>2, UnreadAppend, EventKinds
  <2>5. \/ inbox' = inbox
        \/ \E e \in Own : inbox' = [inbox EXCEPT !["SWEEP"] = Append(inbox["SWEEP"], e)]
    BY <1>1, BoardPushEffect DEF Pit, Own
  <2>. QED  BY <2>2, <2>3, <2>4, <2>5 DEF Move, Noted
<1>2. CASE AdcDone \/ CtrlInit \/ CtrlReload \/ MailPop \/ MailEmpty \/ HandlerPush \/ Undefined
  <2>1. UNCHANGED <<inbox, served, live, gate, raced>>
    BY <1>2 DEF AdcDone, CtrlInit, CtrlReload, MailPop, MailEmpty, HandlerPush, Undefined,
       gate, enet, ghosts
  <2>2. Unread' = Unread
    BY <1>2 DEF AdcDone, CtrlInit, CtrlReload, MailPop, MailEmpty, HandlerPush, Undefined,
       Running, Unread
  <2>3. Held' = Held
    BY <1>2 DEF AdcDone, CtrlInit, CtrlReload, MailPop, MailEmpty, HandlerPush, Undefined,
       Running, Places, Held
  <2>. QED  BY <2>1, <2>2, <2>3 DEF Move, Noted
<1>3. CASE Ethergate
  <2>1. UNCHANGED <<Unread, inbox, Held, served, raced>>
    BY <1>3 DEF Ethergate, Unread, Held
  <2>2. epc = "off" /\ sent' = sent + 1 /\ live' = live \cup {sent'}
    BY <1>3 DEF Ethergate
  <2>3. \/ epc' = "push" /\ epushed'.payload = sent' /\ unaddressed' = unaddressed
        \/ UNCHANGED <<epc, epushed>> /\ unaddressed' = unaddressed \cup {sent'}
    BY <1>3 DEF Ethergate
  <2>. QED  BY <2>1, <2>2, <2>3 DEF Move, Arrives
<1>4. CASE EthergatePush
  <2>1. ~raced /\ ~Overtaken(postoffice, eat)
    BY <1>4 DEF EthergatePush
  <2>2. eat = Len(postoffice)
    BY <1>4, <2>1 DEF EthergatePush, Overtaken, Places, TypeOK
  <2>3. postoffice' = Append(postoffice, epushed) /\ pc' = pc
    BY <1>4, <2>2, QuietPush DEF EthergatePush
  <2>4. Unread' = Append(Unread, epushed)
    BY <2>3, UnreadAppend DEF TypeOK
  <2>5. IsPosted
    BY <1>4, <2>4 DEF EthergatePush, IsPosted, Held
  <2>. QED  BY <2>1, <2>5 DEF Move
<1>5. CASE MailFront
  <2>1. UNCHANGED <<Held, served, live, gate, raced>> /\ Unread = postoffice
    BY <1>5 DEF MailFront, Running, Unread, Held, gate, enet, ghosts
  <2>2. CASE "SWEEP" \in Subscribers(Head(postoffice).evtype)
    <3>1. inbox' = inbox /\ Unread' = Unread
      BY <1>5, <2>1, <2>2 DEF MailFront, Unread
    <3>. QED  BY <2>1, <3>1 DEF Move, Noted
  <2>3. CASE "SWEEP" \notin Subscribers(Head(postoffice).evtype)
    <3>1. postoffice # <<>> /\ Head(postoffice) \in Posted
      <4>1. postoffice \in Seq(Posted) /\ postoffice # <<>>
        BY <1>5, <2>1 DEF MailFront, Sorted
      <4>. QED  BY <4>1
    <3>2. PICK o \in Obj : Subscribers(Head(postoffice).evtype) = {o}
      BY <3>1, Fanout
    <3>3. /\ inbox' = [p \in Obj |-> IF p \in Subscribers(Head(postoffice).evtype)
                                       THEN Append(inbox[p], Head(postoffice)) ELSE inbox[p]]
          /\ Unread' = Tail(postoffice)
      BY <1>5, <2>3 DEF MailFront, Unread
    <3>4. inbox' = [inbox EXCEPT ![o] = Append(inbox[o], Head(postoffice))]
      BY <1>0, <3>2, <3>3
    <3>5. HandedTo(o)
      BY <2>1, <3>1, <3>2, <3>3, <3>4 DEF HandedTo
    <3>. QED  BY <2>1, <3>5 DEF Move
  <2>. QED  BY <2>2, <2>3
<1>6. CASE SweepPush
  <2>1. ~raced /\ inbox' = [inbox EXCEPT !["SWEEP"] = Append(inbox["SWEEP"], mpushed)]
    BY <1>6, EndPushQuiet DEF SweepPush, Running, Places
  <2>2. /\ Unread = postoffice /\ Unread' = Tail(postoffice) /\ postoffice # <<>>
        /\ mpushed = Head(postoffice)
    BY <1>6, <2>1 DEF SweepPush, Running, Unread, Sorted, Places
  <2>3. UNCHANGED <<Held, served, live, gate>>
    BY <1>6 DEF SweepPush, Held, gate, enet
  <2>4. "SWEEP" \in Subscribers(Head(Unread).evtype)
    BY <1>6, <2>1, <2>2 DEF SweepPush, Running, Sorted
  <2>. QED  BY <2>1, <2>2, <2>3, <2>4, SweepIsObj DEF Move, HandedTo
<1>7. CASE Serve
  <2>1. pc \in {"SWEEP", "SERVO", "MONITOR"} /\ pc' # "popmail" /\ pc \in Obj
    BY <1>7 DEF Serve, TypeOK, Obj, After
  <2>2. UNCHANGED <<Unread, Held, gate, raced>>
    BY <1>7, <2>1 DEF Serve, Unread, Held, gate, enet
  <2>3. CASE inbox[pc] # <<>>
    <3>1. /\ inbox' = [inbox EXCEPT ![pc] = Tail(inbox[pc])]
          /\ Serves(Head(inbox[pc]))
      BY <1>7, <2>3 DEF Serve
    <3>. QED  BY <2>1, <2>2, <2>3, <3>1, PopIsMove
  <2>4. CASE inbox[pc] = <<>>
    BY <1>7, <2>2, <2>4 DEF Serve, Move, Noted
  <2>. QED  BY <2>3, <2>4
<1>8. CASE HandlerPushed
  <2>1. ~raced /\ inbox' = [inbox EXCEPT !["SWEEP"] = Append(inbox["SWEEP"], mpushed)]
    BY <1>8, EndPushQuiet DEF HandlerPushed, Running, Places
  <2>2. mpushed \in Own
    BY <1>8 DEF HandlerPushed, Running, Places, Own
  <2>3. UNCHANGED <<Unread, Held, served, live, gate>>
    BY <1>8 DEF HandlerPushed, Running, Unread, Held, gate, enet
  <2>. QED  BY <2>1, <2>2, <2>3 DEF Move, Noted
<1>9. CASE HandlerReturns
  <2>1. UNCHANGED <<Unread, Held, gate, raced>>
    BY <1>9 DEF HandlerReturns, Running, Unread, Held, gate, enet
  <2>2. /\ inbox["SWEEP"] # <<>> /\ Serves(Head(inbox["SWEEP"]))
        /\ inbox' = [inbox EXCEPT !["SWEEP"] = Tail(inbox["SWEEP"])]
    BY <1>9 DEF HandlerReturns, Running, Places
  <2>. QED  BY <2>1, <2>2, PopIsMove, SweepIsObj
<1>10. CASE CtrlIdle
  <2>1. UNCHANGED <<Unread, served, live, gate, raced>> /\ Held = <<>>
    BY <1>10 DEF CtrlIdle, Running, Unread, Held, gate, enet, ghosts
  <2>2. CASE inbox["MAIN"] # <<>>
    <3>. DEFINE e == Head(inbox["MAIN"])
    <3>1. /\ inbox' = [inbox EXCEPT !["MAIN"] = Tail(inbox["MAIN"])] /\ event_temp' = e
          /\ ctrl_state' = CASE e.evtype = "ALARM_SIG" -> "ALARM"
                             [] e.evtype = "CTRL_ETH_SIG" -> "RECVU"
                             [] OTHER -> "IDLE"
      BY <1>10, <2>2 DEF CtrlIdle
    <3>2. e \in Box("MAIN")
      <4>1. inbox["MAIN"] \in Seq(Box("MAIN"))
        BY <2>1, SweepIsObj DEF Sorted
      <4>. QED  BY <2>2, <4>1
    <3>3. e = AlarmEvt \/ (e \in Letter /\ e.evtype = "CTRL_ETH_SIG")
      BY <3>2, BoxFacts, SweepIsObj
    <3>4. CASE e = AlarmEvt
      <4>1. ctrl_state' = "ALARM"
        BY <3>1, <3>4, EventKinds
      <4>. QED  BY <2>1, <2>2, <3>1, <3>4, <4>1 DEF Move, TakenByMain, Held
    <3>5. CASE e \in Letter /\ e.evtype = "CTRL_ETH_SIG"
      <4>1. ctrl_state' = "RECVU"
        BY <3>1, <3>5
      <4>. QED  BY <2>1, <2>2, <3>1, <3>5, <4>1 DEF Move, TakenByMain, Held
    <3>. QED  BY <3>3, <3>4, <3>5
  <2>3. CASE inbox["MAIN"] = <<>>
    BY <1>10, <2>1, <2>3 DEF CtrlIdle, Move, Noted, Held
  <2>. QED  BY <2>2, <2>3
<1>11. CASE CtrlAlarm
  <2>1. /\ UNCHANGED <<postoffice, inbox, served, live, gate, raced>>
        /\ pc # "popmail" /\ pc' # "popmail"
        /\ ctrl_state # "RECVU" /\ ctrl_state' # "RECVU"
    BY <1>11 DEF CtrlAlarm, Running, Places, gate, enet, ghosts
  <2>. QED  BY <2>1 DEF Move, Noted, Unread, Held
<1>12. CASE CtrlRecvu
  <2>1. Held = <<event_temp>> /\ raced' = raced
    BY <1>12 DEF CtrlRecvu, Held
  <2>2. event_temp \in Letter
    <3>1. <<event_temp>> \in Seq(Letter)
      BY <2>1 DEF Sorted
    <3>2. 1 \in 1..Len(<<event_temp>>) /\ <<event_temp>>[1] = event_temp
      OBVIOUS
    <3>. QED  BY <3>1, <3>2
  <2>3. event_temp.evtype = "CTRL_ETH_SIG"
    BY <1>12 DEF CtrlRecvu, Places
  <2>4. Announced
    BY <1>12, <2>1, <2>2, <2>3 DEF CtrlRecvu, Running, Announced, Unread, Held, gate, enet
  <2>. QED  BY <2>1, <2>4 DEF Move
<1>13. CASE UNCHANGED vars
  BY <1>13 DEF vars, Move, Noted, Unread, Held, gate, enet, ghosts
<1>. QED
  BY <1>1, <1>2, <1>3, <1>4, <1>5, <1>6, <1>7, <1>8, <1>9, <1>10, <1>11, <1>12, <1>13
     DEF Next, Main

-----------------------------------------------------------------------------
(* Every move keeps the order.                                              *)

\* An object's queue loses its front.
LEMMA InboxPop ==
    ASSUME inbox \in [Obj -> Seq(Event)], NEW o \in Obj, inbox[o] # <<>>,
           inbox' = [inbox EXCEPT ![o] = Tail(inbox[o])]
    PROVE  /\ inbox'[o] = Tail(inbox[o]) /\ \A p \in Obj \ {o} : inbox'[p] = inbox[p]
           /\ Head(inbox[o]) \in Event
           /\ Head(inbox[o]).payload # 0 => Head(inbox[o]).payload \in Ids(inbox[o])
           /\ \A p \in Obj : Ids(inbox'[p]) \subseteq Ids(inbox[p])
<1>1. inbox[o] \in Seq(Event)
  OBVIOUS
<1>2. inbox'[o] = Tail(inbox[o]) /\ \A p \in Obj \ {o} : inbox'[p] = inbox[p]
  OBVIOUS
<1>3. Head(inbox[o]) \in Event
  BY <1>1
<1>4. Ids(inbox[o]) = Ids(Tail(inbox[o])) \cup ({Head(inbox[o]).payload} \ {0})
  BY <1>1, IdsTail
<1>. QED  BY <1>2, <1>3, <1>4

\* Events without a message leave the messages where they are.
LEMMA AppendOwn ==
    ASSUME NEW q \in Seq(Event), NEW e \in Event, e.payload = 0
    PROVE  /\ Ids(Append(q, e)) = Ids(q)
           /\ Increasing(q) => Increasing(Append(q, e))
           /\ \A id \in Nat \ {0} : Occurrences(Append(q, e), id) = Occurrences(q, id)
<1>1. Ids(Append(q, e)) = Ids(q)
  <2>1. Ids(Append(q, e)) = Ids(q) \cup ({e.payload} \ {0})
    BY IdsAppend
  <2>2. {e.payload} \ {0} = {}
    OBVIOUS
  <2>. QED  BY <2>1, <2>2
<1>2. Increasing(q) => Increasing(Append(q, e))
  BY IncreasingAppend
<1>3. ASSUME NEW id \in Nat \ {0}
      PROVE  Occurrences(Append(q, e), id) = Occurrences(q, id)
  <2>1. /\ Occurrences(q, id) \in Nat
        /\ Occurrences(Append(q, e), id) = Occurrences(q, id) + IF e.payload = id THEN 1 ELSE 0
    BY CountAppend
  <2>. QED  BY <2>1
<1>. QED  BY <1>1, <1>2, <1>3

LEMMA NotedUnread ==
    ASSUME TypeOK, Places, Noted
    PROVE  /\ Ids(Unread') = Ids(Unread)
           /\ Increasing(Unread) => Increasing(Unread')
           /\ \A id \in Nat \ {0} : Occurrences(Unread', id) = Occurrences(Unread, id)
<1>1. Unread \in Seq(Event)
  BY FlowTypes
<1>2. CASE Unread' = Unread
  BY <1>2
<1>3. CASE Unread' = Append(Unread, AlarmEvt)
  BY <1>1, <1>3, EventKinds, AppendOwn
<1>. QED  BY <1>2, <1>3 DEF Noted

LEMMA NotedInbox ==
    ASSUME TypeOK, Places, Noted, NEW o \in Obj
    PROVE  /\ Ids(inbox'[o]) = Ids(inbox[o])
           /\ Increasing(inbox[o]) => Increasing(inbox'[o])
           /\ \A id \in Nat \ {0} : Occurrences(inbox'[o], id) = Occurrences(inbox[o], id)
           /\ \A j \in 1..Len(inbox'[o]) :
                \/ inbox'[o][j] \in Own
                \/ j \in 1..Len(inbox[o]) /\ inbox'[o][j] = inbox[o][j]
<1>1. inbox \in [Obj -> Seq(Event)]
  BY FlowTypes
<1>2. CASE inbox'[o] = inbox[o]
  BY <1>2
<1>3. CASE \E e \in Own : inbox'[o] = Append(inbox[o], e)
  <2>1. PICK e \in Own : inbox'[o] = Append(inbox[o], e)
    BY <1>3
  <2>2. e \in Event /\ e.payload = 0 /\ inbox[o] \in Seq(Event)
    BY <1>1, EventKinds DEF Own
  <2>3. /\ Ids(Append(inbox[o], e)) = Ids(inbox[o])
        /\ Increasing(inbox[o]) => Increasing(Append(inbox[o], e))
        /\ \A id \in Nat \ {0} : Occurrences(Append(inbox[o], e), id) = Occurrences(inbox[o], id)
    BY <2>2, AppendOwn
  <2>4. \A j \in 1..Len(Append(inbox[o], e)) :
          \/ j \in 1..Len(inbox[o]) /\ Append(inbox[o], e)[j] = inbox[o][j]
          \/ Append(inbox[o], e)[j] = e
    BY <2>2, AppendEvents
  <2>. QED  BY <2>1, <2>3, <2>4
<1>4. inbox'[o] = inbox[o] \/ \E e \in Own : inbox'[o] = Append(inbox[o], e)
  <2>1. CASE inbox' = inbox
    BY <2>1
  <2>2. ASSUME NEW e \in Own, inbox' = [inbox EXCEPT !["SWEEP"] = Append(inbox["SWEEP"], e)]
        PROVE  inbox'[o] = inbox[o] \/ inbox'[o] = Append(inbox[o], e)
    BY <1>1, <2>2
  <2>. QED  BY <2>1, <2>2 DEF Noted
<1>. QED  BY <1>2, <1>3, <1>4

LEMMA NotedMessages ==
    ASSUME TypeOK, Places, Noted
    PROVE  Waiting' = Waiting /\ Handed' = Handed
<1>1. \A o \in Obj : Ids(inbox'[o]) = Ids(inbox[o])
  BY NotedInbox
<1>2. Waiting' = Waiting
  BY <1>1 DEF Waiting
<1>. QED  BY <1>2 DEF Noted, Handed

\* Every move leaves each event with its object.
LEMMA SortedStep ==
    ASSUME TypeOK, Places, Sorted, Move
    PROVE  /\ Unread' \in Seq(Posted)
           /\ \A o \in Obj : inbox'[o] \in Seq(Box(o))
           /\ served' \in Seq(Letter) /\ Held' \in Seq(Letter)
<1>0. /\ Unread \in Seq(Posted) /\ served \in Seq(Letter) /\ Held \in Seq(Letter)
      /\ inbox \in [Obj -> Seq(Event)] /\ \A o \in Obj : inbox[o] \in Seq(Box(o))
  BY FlowTypes DEF Sorted
<1>1. CASE Noted
  <2>1. Unread' \in Seq(Posted)
    <3>1. Append(Unread, AlarmEvt) \in Seq(Posted)
      BY <1>0 DEF Posted
    <3>. QED  BY <1>0, <1>1, <3>1 DEF Noted
  <2>2. \A o \in Obj : inbox'[o] \in Seq(Box(o))
    <3>1. CASE inbox' = inbox
      BY <1>0, <3>1
    <3>2. ASSUME NEW e \in Own, inbox' = [inbox EXCEPT !["SWEEP"] = Append(inbox["SWEEP"], e)],
                 NEW o \in Obj
          PROVE  inbox'[o] \in Seq(Box(o))
      <4>1. e \in Box("SWEEP") /\ inbox["SWEEP"] \in Seq(Box("SWEEP"))
        BY <1>0, SweepIsObj DEF Box
      <4>2. Append(inbox["SWEEP"], e) \in Seq(Box("SWEEP"))
        BY <4>1
      <4>. QED  BY <1>0, <3>2, <4>2
    <3>. QED  BY <1>1, <3>1, <3>2 DEF Noted
  <2>. QED  BY <1>0, <1>1, <2>1, <2>2 DEF Noted
<1>2. CASE Arrives
  BY <1>0, <1>2 DEF Arrives
<1>3. CASE IsPosted
  <2>1. epushed \in Letter
    BY <1>3, EventFacts, KernelAssumption
    DEF IsPosted, Places, TypeOK, Letter, MsgId, Event
  <2>2. Append(Unread, epushed) \in Seq(Posted)
    BY <1>0, <2>1 DEF Posted
  <2>. QED  BY <1>0, <1>3, <2>2 DEF IsPosted
<1>4. ASSUME NEW o \in Obj, HandedTo(o), NEW p \in Obj
      PROVE  Unread' \in Seq(Posted) /\ inbox'[p] \in Seq(Box(p)) /\ UNCHANGED <<served, Held>>
  <2>1. Head(Unread) \in Posted /\ Tail(Unread) \in Seq(Posted)
    BY <1>0, <1>4 DEF HandedTo
  <2>2. Head(Unread) \in Box(o) /\ inbox[o] \in Seq(Box(o))
    BY <1>0, <1>4, <2>1 DEF HandedTo, Box
  <2>3. Append(inbox[o], Head(Unread)) \in Seq(Box(o))
    BY <2>2
  <2>. QED  BY <1>0, <1>4, <2>1, <2>3 DEF HandedTo
<1>5. ASSUME NEW o \in Obj, inbox[o] # <<>>, inbox' = [inbox EXCEPT ![o] = Tail(inbox[o])],
             NEW p \in Obj
      PROVE  inbox'[p] \in Seq(Box(p))
  <2>1. Tail(inbox[o]) \in Seq(Box(o))
    BY <1>0, <1>5
  <2>. QED  BY <1>0, <1>5, <2>1
<1>6. CASE OwnServed
  BY <1>0, <1>5, <1>6, SweepIsObj DEF OwnServed
<1>7. ASSUME NEW o \in Obj, ServedBy(o)
      PROVE  Unread' = Unread /\ Held' = Held /\ served' \in Seq(Letter)
  <2>1. Append(served, Head(inbox[o])) \in Seq(Letter)
    BY <1>0, <1>7 DEF ServedBy
  <2>. QED  BY <1>7, <2>1 DEF ServedBy
<1>8. CASE TakenByMain
  <2>1. Held' \in Seq(Letter)
    <3>1. CASE Held' = <<>>
      BY <3>1
    <3>2. CASE Head(inbox["MAIN"]) \in Letter /\ Held' = <<Head(inbox["MAIN"])>>
      BY <3>2
    <3>. QED  BY <1>8, <3>1, <3>2 DEF TakenByMain
  <2>2. \A o \in Obj : inbox'[o] \in Seq(Box(o))
    BY <1>5, <1>8, SweepIsObj DEF TakenByMain
  <2>. QED  BY <1>0, <1>8, <2>1, <2>2 DEF TakenByMain
<1>9. CASE Announced
  <2>1. Append(served, event_temp) \in Seq(Letter) /\ Held' \in Seq(Letter)
    BY <1>0, <1>9 DEF Announced
  <2>. QED  BY <1>0, <1>9, <2>1 DEF Announced
<1>10. CASE \E o \in Obj : HandedTo(o)
  BY <1>0, <1>4, <1>10, SweepIsObj
<1>11. CASE \E o \in Obj : ServedBy(o)
  <2>1. PICK o \in Obj : ServedBy(o)
    BY <1>11
  <2>2. \A p \in Obj : inbox'[p] \in Seq(Box(p))
    BY <1>5, <2>1 DEF ServedBy
  <2>. QED  BY <1>0, <1>7, <2>1, <2>2
<1>. QED  BY <1>1, <1>2, <1>3, <1>6, <1>8, <1>9, <1>10, <1>11 DEF Move

\* verifymail's copy is the front until it has been pushed.
LEMMA CopyStep ==
    ASSUME TypeOK, Places, Sorted, [Next]_vars, ~raced', pc' = "spush"
    PROVE  mpushed' = Head(postoffice') /\ "SWEEP" \in Subscribers(mpushed'.evtype)
<1>1. CASE MailFront
  BY <1>1 DEF MailFront
<1>2. CASE pc = "spush" /\ mpushed' = mpushed
  <2>1. postoffice \in Seq(Event) /\ postoffice # <<>>
    BY <1>2 DEF TypeOK, Places
  <2>2. \/ postoffice' = postoffice
        \/ \E e \in Event : postoffice' = Append(postoffice, e)
    <3>1. CASE EthergatePush
      <4>0. ~Overtaken(postoffice, eat) /\ eat <= Len(postoffice)
        BY <3>1 DEF EthergatePush, Places
      <4>1. eat = Len(postoffice)
        BY <2>1, <4>0 DEF Overtaken, TypeOK
      <4>2. postoffice' = Append(postoffice, epushed) /\ epushed \in Event
        BY <3>1, <4>1, QuietPush DEF EthergatePush, TypeOK
      <4>. QED  BY <4>2
    <3>2. CASE Pit
      BY <3>2, EventKinds DEF Pit
    <3>. QED
      BY <1>2, <3>1, <3>2 DEF Next, Main, AdcDone, Ethergate, MailFront, MailPop,
         MailEmpty, SweepPush, Serve, HandlerPush, HandlerPushed, HandlerReturns,
         Undefined, CtrlInit, CtrlReload, CtrlIdle, CtrlAlarm, CtrlRecvu, vars, Running
  <2>3. Head(postoffice') = Head(postoffice)
    BY <2>1, <2>2
  <2>. QED  BY <1>2, <2>3 DEF Sorted
<1>3. MailFront \/ (pc = "spush" /\ mpushed' = mpushed)
  <2>1. ASSUME Serve PROVE pc' # "spush"
    BY <2>1 DEF Serve, After, TypeOK, Obj
  <2>. QED
    BY <2>1 DEF Next, Main, Pit, AdcDone, Ethergate, EthergatePush, MailPop, MailEmpty,
       SweepPush, HandlerPush, HandlerPushed, HandlerReturns, Undefined, CtrlInit,
       CtrlReload, CtrlIdle, CtrlAlarm, CtrlRecvu, vars, Running, sweep
<1>. QED  BY <1>1, <1>2, <1>3

LEMMA FlowStep ==
    ASSUME TypeOK, Places, Places', Flow, Move
    PROVE  Flow'
<1>0. /\ Unread \in Seq(Event) /\ inbox \in [Obj -> Seq(Event)]
      /\ Held \in Seq(Event) /\ served \in Seq(Event)
      /\ sent \in Nat /\ epushed \in Event
  BY FlowTypes
<1>a. /\ Ids(Unread) \subseteq Nat /\ Ids(served) \subseteq Nat /\ Ids(Held) \subseteq Nat
      /\ \A o \in Obj : Ids(inbox[o]) \subseteq Nat
  BY <1>0, IdsOfEvents DEF MsgId
<1>b. Handed \subseteq Nat
  <2>1. Waiting \subseteq Nat
    BY <1>a DEF Waiting
  <2>. QED  BY <1>a, <2>1 DEF Handed
<1>1. CASE Noted
  <2>1. Ids(Unread') = Ids(Unread) /\ Increasing(Unread')
    BY <1>1, NotedUnread DEF Flow
  <2>2. \A o \in Obj : Ids(inbox'[o]) = Ids(inbox[o]) /\ Increasing(inbox'[o])
    BY <1>1, NotedInbox DEF Flow
  <2>3. Handed' = Handed
    BY <1>1, NotedMessages
  <2>4. UNCHANGED <<epc, sent>>
    BY <1>1 DEF Noted, gate
  <2>. QED  BY <2>1, <2>2, <2>3, <2>4 DEF Flow
<1>3. CASE Arrives
  <2>1. Handed' = Handed
    BY <1>3 DEF Arrives, Handed, Waiting
  <2>2. \A x \in Handed \cup Ids(Unread) : x <= sent' /\ x < sent'
    BY <1>0, <1>a, <1>b, <1>3 DEF Arrives, Flow
  <2>. QED  BY <1>3, <2>1, <2>2 DEF Arrives, Flow
<1>4. CASE IsPosted
  <2>1. epushed.payload = sent /\ sent > 0 /\ sent' = sent /\ epc' = "off"
    BY <1>4 DEF IsPosted, Places
  <2>2. Ids(Unread') = Ids(Unread) \cup {sent}
    BY <1>0, <1>4, <2>1, IdsAppend DEF IsPosted
  <2>3. \A x \in Handed \cup Ids(Unread) : x < sent
    BY <1>4 DEF IsPosted, Flow
  <2>4. Increasing(Unread')
    BY <1>0, <1>4, <2>1, <2>3, IncreasingAppend DEF IsPosted, Flow
  <2>5. Handed' = Handed
    BY <1>4 DEF IsPosted, Handed, Waiting
  <2>6. \A x \in Handed', y \in Ids(Unread') : x < y
    BY <2>2, <2>3, <2>5 DEF Flow
  <2>7. \A x \in Handed' \cup Ids(Unread') : x <= sent
    BY <1>0, <1>a, <1>b, <2>2, <2>3, <2>5
  <2>. QED  BY <1>4, <2>1, <2>4, <2>6, <2>7 DEF IsPosted, Flow
<1>5. ASSUME NEW o \in Obj, HandedTo(o)  PROVE Flow'
  <2>. DEFINE e == Head(Unread)
              new == {e.payload} \ {0}
  <2>1. Unread # <<>> /\ Unread' = Tail(Unread) /\ e \in Event
    BY <1>0, <1>5 DEF HandedTo
  <2>2. Ids(Unread) = Ids(Unread') \cup new
    BY <1>0, <2>1, IdsTail
  <2>3. Increasing(Unread') /\ \A x \in new, y \in Ids(Unread') : x < y
    BY <1>0, <2>1, IncreasingTail DEF Flow
  <2>4. inbox'[o] = Append(inbox[o], e) /\ \A p \in Obj \ {o} : inbox'[p] = inbox[p]
    BY <1>0, <1>5 DEF HandedTo
  <2>5. Ids(inbox'[o]) = Ids(inbox[o]) \cup new
    BY <1>0, <2>1, <2>4, IdsAppend
  <2>6. Handed' \subseteq Handed \cup new
    <3>1. Waiting' \subseteq Waiting \cup new
      BY <2>4, <2>5 DEF Waiting
    <3>. QED  BY <1>5, <3>1 DEF HandedTo, Handed
  <2>7. \A x \in Handed, y \in new : x < y
    BY <2>2 DEF Flow
  <2>8. \A p \in Obj : \A x \in Ids(inbox[p]), y \in new : x < y
    BY <2>7 DEF Handed, Waiting
  <2>9. \A p \in Obj : Increasing(inbox'[p])
    <3>1. inbox[o] \in Seq(Event) /\ Increasing(inbox[o])
      BY <1>0 DEF Flow
    <3>2. \A x \in Ids(inbox[o]) : e.payload = 0 \/ x < e.payload
      BY <2>8
    <3>3. Increasing(inbox'[o])
      <4>. HIDE DEF e
      <4>. QED  BY <2>1, <2>4, <3>1, <3>2, IncreasingAppend
    <3>. QED  BY <2>4, <3>3 DEF Flow
  <2>10. \A p, r \in Obj : p # r => Ids(inbox'[p]) \cap Ids(inbox'[r]) = {}
    <3>1. \A p \in Obj : Ids(inbox[p]) \cap new = {}
      BY <1>a, <2>8
    <3>. QED  BY <2>4, <2>5, <3>1 DEF Flow
  <2>11. \A x \in Handed', y \in Ids(Unread') : x < y
    BY <2>2, <2>3, <2>6 DEF Flow
  <2>12. \A x \in Handed' \cup Ids(Unread') : x <= sent' /\ (epc' = "push" => x < sent')
    BY <1>5, <2>2, <2>6 DEF Flow, HandedTo, gate
  <2>. QED  BY <2>3, <2>9, <2>10, <2>11, <2>12 DEF Flow
<1>6. ASSUME UNCHANGED <<Unread, epc, sent>>, Handed' \subseteq Handed,
             NEW o \in Obj, inbox[o] # <<>>,
             inbox' = [inbox EXCEPT ![o] = Tail(inbox[o])]
      PROVE  Flow'
  <2>1. /\ inbox'[o] = Tail(inbox[o]) /\ \A p \in Obj \ {o} : inbox'[p] = inbox[p]
        /\ \A p \in Obj : Ids(inbox'[p]) \subseteq Ids(inbox[p])
    BY <1>0, <1>6, InboxPop
  <2>2. Increasing(inbox'[o])
    BY <1>0, <1>6, <2>1, IncreasingTail DEF Flow
  <2>3. \A p \in Obj : Increasing(inbox'[p])
    BY <2>1, <2>2 DEF Flow
  <2>4. \A p, r \in Obj : p # r => Ids(inbox'[p]) \cap Ids(inbox'[r]) = {}
    BY <2>1 DEF Flow
  <2>. QED  BY <1>6, <2>3, <2>4 DEF Flow
<1>7. ASSUME NEW o \in Obj, ServedBy(o)  PROVE Flow'
  <2>1. /\ Head(inbox[o]) \in Event
        /\ Head(inbox[o]).payload # 0 => Head(inbox[o]).payload \in Ids(inbox[o])
        /\ \A p \in Obj : Ids(inbox'[p]) \subseteq Ids(inbox[p])
    BY <1>0, <1>7, InboxPop DEF ServedBy
  <2>2. Ids(served') = Ids(served) \cup ({Head(inbox[o]).payload} \ {0})
    BY <1>0, <1>7, <2>1, IdsAppend DEF ServedBy
  <2>3. Handed' \subseteq Handed
    <3>1. Waiting' \subseteq Waiting
      BY <2>1 DEF Waiting
    <3>2. {Head(inbox[o]).payload} \ {0} \subseteq Waiting
      BY <1>7, <2>1 DEF Waiting
    <3>3. Held' = Held
      BY <1>7 DEF ServedBy
    <3>. QED  BY <2>2, <3>1, <3>2, <3>3 DEF Handed
  <2>. QED  BY <1>6, <1>7, <2>3 DEF ServedBy, gate
<1>2. CASE OwnServed
  <2>1. \A p \in Obj : Ids(inbox'[p]) \subseteq Ids(inbox[p])
    BY <1>0, <1>2, InboxPop, SweepIsObj DEF OwnServed
  <2>2. Handed' \subseteq Handed
    <3>1. Waiting' \subseteq Waiting
      BY <2>1 DEF Waiting
    <3>. QED  BY <1>2, <3>1 DEF OwnServed, Handed
  <2>. QED  BY <1>2, <1>6, <2>2, SweepIsObj DEF OwnServed, gate
<1>8. CASE TakenByMain
  <2>0. "MAIN" \in Obj
    BY DEF Obj
  <2>1. /\ Head(inbox["MAIN"]) \in Event
        /\ Head(inbox["MAIN"]).payload # 0 => Head(inbox["MAIN"]).payload \in Ids(inbox["MAIN"])
        /\ \A p \in Obj : Ids(inbox'[p]) \subseteq Ids(inbox[p])
    BY <1>0, <1>8, <2>0, InboxPop DEF TakenByMain
  <2>2. Ids(Held') \subseteq Ids(inbox["MAIN"])
    BY <1>8, <2>1 DEF TakenByMain, Ids
  <2>3. Handed' \subseteq Handed
    <3>1. Waiting' \subseteq Waiting
      BY <2>1 DEF Waiting
    <3>2. Ids(Held') \subseteq Waiting
      BY <2>0, <2>2 DEF Waiting
    <3>3. served' = served
      BY <1>8 DEF TakenByMain
    <3>. QED  BY <3>1, <3>2, <3>3 DEF Handed
  <2>. QED  BY <1>6, <1>8, <2>0, <2>3 DEF TakenByMain, gate
<1>9. CASE Announced
  <2>1. event_temp \in Event
    BY DEF TypeOK
  <2>2. Ids(served') = Ids(served) \cup ({event_temp.payload} \ {0})
    BY <1>0, <1>9, <2>1, IdsAppend DEF Announced
  <2>3. Ids(Held) = {event_temp.payload} \ {0} /\ Ids(Held') = {}
    BY <1>9 DEF Announced, Ids
  <2>4. Handed' \subseteq Handed
    BY <1>9, <2>2, <2>3 DEF Announced, Handed, Waiting
  <2>. QED  BY <1>9, <2>4 DEF Announced, Flow, gate
<1>. QED
  BY <1>1, <1>2, <1>3, <1>4, <1>5, <1>7, <1>8, <1>9 DEF Move

\* Events of one kind wait in one queue.
LEMMA OneQueue ==
    ASSUME NEW e \in Letter, NEW o \in Obj, NEW p \in Obj, NEW f \in Box(p),
           o \in Subscribers(e.evtype), f.evtype = e.evtype
    PROVE  f \in Letter /\ f.payload # 0 /\ p = o
             /\ (e.evtype = "CTRL_ETH_SIG" <=> o = "MAIN")
<1>1. e.evtype \in EthSigs /\ "ALARM_SIG" \notin EthSigs
  BY LetterFacts DEF EthSigs
<1>2. f \notin Own /\ f # AlarmEvt
  BY <1>1, EventKinds DEF Own, EthSigs
<1>3. f \in Letter /\ f.payload # 0 /\ p \in Subscribers(f.evtype)
  <2>1. f.payload # 0
    BY <1>2, BoxFacts
  <2>. QED  BY <2>1, BoxFacts
<1>. QED  BY <1>1, <1>3, OneSubscriber DEF EthSigs

\* Messages of one kind in the order of their numbers.
InLine(q) == \A i, j \in 1..Len(q) :
                i < j /\ q[i].evtype = q[j].evtype => q[i].payload < q[j].payload

LEMMA InLineAppend ==
    ASSUME NEW q \in Seq(Event), NEW e \in Event, InLine(q),
           \A i \in 1..Len(q) : q[i].evtype = e.evtype => q[i].payload < e.payload
    PROVE  InLine(Append(q, e))
<1>1. SUFFICES ASSUME NEW i \in 1..Len(Append(q, e)), NEW j \in 1..Len(Append(q, e)),
                      i < j, Append(q, e)[i].evtype = Append(q, e)[j].evtype
               PROVE  Append(q, e)[i].payload < Append(q, e)[j].payload
  BY DEF InLine
<1>2. i \in 1..Len(q) /\ Append(q, e)[i] = q[i]
  BY <1>1
<1>3. CASE j \in 1..Len(q)
  BY <1>1, <1>2, <1>3 DEF InLine
<1>4. CASE j = Len(q) + 1
  BY <1>1, <1>2, <1>4
<1>. QED  BY <1>3, <1>4

LEMMA OlderStep ==
    ASSUME TypeOK, Places, Sorted, ~raced, Flow, Older, InOrder, Move
    PROVE  Older' /\ InOrder'
<1>0. /\ Unread \in Seq(Event) /\ inbox \in [Obj -> Seq(Event)]
      /\ Held \in Seq(Event) /\ served \in Seq(Event) /\ "MAIN" \in Obj
      /\ \A h \in 1..Len(Held) : Held[h].evtype = "CTRL_ETH_SIG"
  BY FlowTypes DEF Obj
<1>a. \A i \in 1..Len(served) : served[i] \in Letter /\ served[i].payload \in Handed
  <2>1. \A i \in 1..Len(served) : served[i] \in Letter
    BY DEF Sorted
  <2>. QED  BY <1>0, <2>1, IdsOfEvents, LetterFacts DEF Handed
<1>b. \A h \in 1..Len(Held) : Held[h] \in Letter /\ Held[h].payload \in Handed
  <2>1. \A h \in 1..Len(Held) : Held[h] \in Letter
    BY DEF Sorted
  <2>. QED  BY <1>0, <2>1, IdsOfEvents, LetterFacts DEF Handed
<1>c. InLine(served)
  BY DEF InOrder, InLine
<1>d. \A p \in Obj : \A j \in 1..Len(inbox[p]) : inbox[p][j] \in Box(p)
  BY DEF Sorted
<1>1. CASE UNCHANGED <<inbox, Held, served>>
  BY <1>1, <1>c DEF Older, InOrder, InLine
<1>7. CASE Noted
  <2>0. UNCHANGED <<Held, served>>
    BY <1>7 DEF Noted
  <2>1. ASSUME NEW f \in Letter, NEW p \in Obj, NEW j \in 1..Len(inbox'[p]),
               f.evtype = inbox'[p][j].evtype
        PROVE  j \in 1..Len(inbox[p]) /\ inbox'[p][j] = inbox[p][j]
    <3>1. inbox'[p][j] \notin Own
      BY <2>1, LetterFacts, EventKinds DEF Own, EthSigs
    <3>. QED  BY <1>7, <2>1, <3>1, NotedInbox
  <2>2. \A i \in 1..Len(served) : \A p \in Obj : \A j \in 1..Len(inbox'[p]) :
          served[i].evtype = inbox'[p][j].evtype => served[i].payload < inbox'[p][j].payload
    BY <1>a, <2>1 DEF Older
  <2>3. \A h \in 1..Len(Held) : \A j \in 1..Len(inbox'["MAIN"]) :
          inbox'["MAIN"][j].evtype = Held[h].evtype => Held[h].payload < inbox'["MAIN"][j].payload
    BY <1>0, <1>b, <2>1 DEF Older
  <2>. QED  BY <1>c, <2>0, <2>2, <2>3 DEF Older, InOrder, InLine
<1>8. CASE OwnServed
  <2>0. /\ UNCHANGED <<Held, served>> /\ inbox["SWEEP"] # <<>>
        /\ inbox' = [inbox EXCEPT !["SWEEP"] = Tail(inbox["SWEEP"])]
    BY <1>8 DEF OwnServed
  <2>1. inbox["SWEEP"] \in Seq(Event) /\ inbox'["SWEEP"] = Tail(inbox["SWEEP"])
          /\ \A p \in Obj \ {"SWEEP"} : inbox'[p] = inbox[p]
    BY <1>0, <2>0, SweepIsObj
  <2>2. \A p \in Obj : \A j \in 1..Len(inbox'[p]) :
          \E k \in 1..Len(inbox[p]) : inbox'[p][j] = inbox[p][k]
    BY <2>0, <2>1, TailEvents
  <2>3. \A i \in 1..Len(served) : \A p \in Obj : \A j \in 1..Len(inbox'[p]) :
          served[i].evtype = inbox'[p][j].evtype => served[i].payload < inbox'[p][j].payload
    <3>1. ASSUME NEW i \in 1..Len(served), NEW p \in Obj, NEW j \in 1..Len(inbox'[p]),
                 served[i].evtype = inbox'[p][j].evtype
          PROVE  served[i].payload < inbox'[p][j].payload
      <4>1. PICK k \in 1..Len(inbox[p]) : inbox'[p][j] = inbox[p][k]
        BY <2>2
      <4>. QED  BY <3>1, <4>1 DEF Older
    <3>. QED  BY <3>1
  <2>4. \A h \in 1..Len(Held) : \A j \in 1..Len(inbox'["MAIN"]) :
          inbox'["MAIN"][j].evtype = Held[h].evtype => Held[h].payload < inbox'["MAIN"][j].payload
    <3>1. inbox'["MAIN"] = inbox["MAIN"]
      BY <1>0, <2>1
    <3>. QED  BY <3>1 DEF Older
  <2>. QED  BY <1>c, <2>0, <2>3, <2>4 DEF Older, InOrder, InLine
<1>2. ASSUME NEW o \in Obj, HandedTo(o)  PROVE Older' /\ InOrder'
  <2>. DEFINE e == Head(Unread)
  <2>1. Unread # <<>> /\ e \in Event /\ inbox[o] \in Seq(Event) /\ UNCHANGED <<Held, served>>
    BY <1>0, <1>2 DEF HandedTo
  <2>a. e \in Posted
    <3>1. Unread \in Seq(Posted)
      BY DEF Sorted
    <3>. QED  BY <2>1, <3>1
  <2>2. e.payload # 0 => e.payload \in Ids(Unread)
    BY <1>0, <2>1, IdsTail
  <2>3. ASSUME NEW f \in Letter, f.payload \in Handed, f.evtype = e.evtype
        PROVE  f.payload < e.payload
    <3>1. e # AlarmEvt
      BY <2>3, LetterFacts, EventKinds
    <3>2. e.payload # 0
      BY <2>a, <3>1, LetterFacts DEF Posted
    <3>. QED  BY <2>2, <2>3, <3>2 DEF Flow
  <2>4. ASSUME NEW p \in Obj, NEW j \in 1..Len(inbox'[p])
        PROVE  (j \in 1..Len(inbox[p]) /\ inbox'[p][j] = inbox[p][j]) \/ inbox'[p][j] = e
    <3>1. CASE p # o
      BY <1>0, <1>2, <2>4, <3>1 DEF HandedTo
    <3>2. CASE p = o
      <4>1. inbox'[p] = Append(inbox[p], e)
        BY <1>0, <1>2, <3>2 DEF HandedTo
      <4>. QED  BY <2>1, <2>4, <3>2, <4>1, AppendEvents
    <3>. QED  BY <3>1, <3>2
  <2>5. ASSUME NEW i \in 1..Len(served), NEW p \in Obj, NEW j \in 1..Len(inbox'[p]),
               served[i].evtype = inbox'[p][j].evtype
        PROVE  served[i].payload < inbox'[p][j].payload
    BY <1>a, <2>3, <2>4, <2>5 DEF Older
  <2>6. ASSUME NEW h \in 1..Len(Held), NEW j \in 1..Len(inbox'["MAIN"]),
               inbox'["MAIN"][j].evtype = Held[h].evtype
        PROVE  Held[h].payload < inbox'["MAIN"][j].payload
    <3>1. (j \in 1..Len(inbox["MAIN"]) /\ inbox'["MAIN"][j] = inbox["MAIN"][j])
             \/ inbox'["MAIN"][j] = e
      BY <1>0, <2>4, <2>6
    <3>. QED  BY <1>b, <2>3, <2>6, <3>1 DEF Older
  <2>. QED  BY <1>c, <2>1, <2>5, <2>6 DEF Older, InOrder, InLine
<1>3. ASSUME NEW o \in Obj, inbox[o] # <<>>,
             inbox' = [inbox EXCEPT ![o] = Tail(inbox[o])]
      PROVE  /\ Head(inbox[o]) = inbox[o][1] /\ 1 \in 1..Len(inbox[o])
             /\ Head(inbox[o]) \in Box(o)
             /\ \A p \in Obj : \A j \in 1..Len(inbox'[p]) :
                  \E k \in 1..Len(inbox[p]) : inbox'[p][j] = inbox[p][k]
             /\ \A j \in 1..Len(inbox'[o]) :
                  Head(inbox[o]).payload # 0 /\ inbox'[o][j].payload # 0
                       => Head(inbox[o]).payload < inbox'[o][j].payload
  <2>1. inbox[o] \in Seq(Event) /\ inbox'[o] = Tail(inbox[o]) /\ inbox'[o] \in Seq(Event)
    BY <1>0, <1>3
  <2>2. /\ Head(inbox[o]) = inbox[o][1] /\ 1 \in 1..Len(inbox[o])
        /\ \A i \in 1..Len(inbox'[o]) :
             i + 1 \in 1..Len(inbox[o]) /\ inbox'[o][i] = inbox[o][i + 1]
    BY <1>3, <2>1, TailEvents
  <2>3. \A p \in Obj \ {o} : inbox'[p] = inbox[p]
    BY <1>0, <1>3
  <2>4. Head(inbox[o]).payload # 0 => \A x \in Ids(inbox'[o]) : Head(inbox[o]).payload < x
    BY <1>3, <2>1, IncreasingTail DEF Flow
  <2>5. \A j \in 1..Len(inbox'[o]) :
          inbox'[o][j] \in Event /\ (inbox'[o][j].payload # 0 => inbox'[o][j].payload \in Ids(inbox'[o]))
    BY <2>1, IdsOfEvents
  <2>6. Head(inbox[o]) \in Box(o)
    BY <1>d, <2>2
  <2>7. ASSUME NEW p \in Obj, NEW j \in 1..Len(inbox'[p])
        PROVE  \E k \in 1..Len(inbox[p]) : inbox'[p][j] = inbox[p][k]
    BY <2>2, <2>3, <2>7
  <2>. QED  BY <2>2, <2>4, <2>5, <2>6, <2>7
<1>4. ASSUME NEW o \in Obj, ServedBy(o)  PROVE Older' /\ InOrder'
  <2>. DEFINE e == Head(inbox[o])
  <2>0. inbox[o] # <<>> /\ inbox' = [inbox EXCEPT ![o] = Tail(inbox[o])] /\ Held' = Held
    BY <1>4 DEF ServedBy
  <2>1. e = inbox[o][1] /\ 1 \in 1..Len(inbox[o]) /\ e \in Box(o)
    BY <1>3, <2>0
  <2>a. e \in Letter /\ e \in Event /\ e.payload # 0 /\ o \in Subscribers(e.evtype)
    <3>1. e \in Letter
      BY <1>4 DEF ServedBy
    <3>. QED  BY <2>1, <3>1, BoxFacts, LetterFacts
  <2>2. \A p \in Obj : \A j \in 1..Len(inbox'[p]) :
          \E k \in 1..Len(inbox[p]) : inbox'[p][j] = inbox[p][k]
    BY <1>3, <2>0
  <2>3. \A j \in 1..Len(inbox'[o]) :
          e.payload # 0 /\ inbox'[o][j].payload # 0 => e.payload < inbox'[o][j].payload
    BY <1>3, <2>0
  <2>4. e.evtype # "CTRL_ETH_SIG"
    BY <1>4, <2>1, <2>a, OneQueue DEF ServedBy
  <2>5. served' = Append(served, e)
    BY <1>4 DEF ServedBy
  <2>6. \A i \in 1..Len(served') : \/ i \in 1..Len(served) /\ served'[i] = served[i]
                                   \/ i = Len(served) + 1 /\ served'[i] = e
    BY <1>0, <2>a, <2>5, AppendEvents
  <2>7. \A i \in 1..Len(served) : served[i].evtype = e.evtype => served[i].payload < e.payload
    BY <2>1 DEF Older
  <2>8. ASSUME NEW p \in Obj, NEW j \in 1..Len(inbox'[p]), e.evtype = inbox'[p][j].evtype
        PROVE  e.payload < inbox'[p][j].payload
    <3>1. PICK k \in 1..Len(inbox[p]) : inbox'[p][j] = inbox[p][k]
      BY <2>2
    <3>2. p = o /\ inbox'[p][j].payload # 0
      BY <1>d, <2>a, <2>8, <3>1, OneQueue
    <3>. QED  BY <2>3, <2>a, <3>2
  <2>9. InLine(served')
    BY <1>0, <1>c, <2>a, <2>5, <2>7, InLineAppend
  <2>10. ASSUME NEW i \in 1..Len(served'), NEW p \in Obj, NEW j \in 1..Len(inbox'[p]),
                served'[i].evtype = inbox'[p][j].evtype
         PROVE  served'[i].payload < inbox'[p][j].payload
    <3>1. PICK k \in 1..Len(inbox[p]) : inbox'[p][j] = inbox[p][k]
      BY <2>2
    <3>2. CASE i \in 1..Len(served) /\ served'[i] = served[i]
      BY <2>10, <3>1, <3>2 DEF Older
    <3>3. CASE served'[i] = e
      BY <2>8, <2>10, <3>3
    <3>. QED  BY <2>6, <3>2, <3>3
  <2>11. ASSUME NEW h \in 1..Len(Held)
         PROVE  /\ \A i \in 1..Len(served') :
                     served'[i].evtype = Held[h].evtype => served'[i].payload < Held[h].payload
                /\ \A j \in 1..Len(inbox'["MAIN"]) :
                     inbox'["MAIN"][j].evtype = Held[h].evtype
                       => Held[h].payload < inbox'["MAIN"][j].payload
    <3>1. e.evtype # Held[h].evtype
      BY <1>0, <2>4
    <3>2. \A i \in 1..Len(served') :
            served'[i].evtype = Held[h].evtype => served'[i].payload < Held[h].payload
      BY <2>6, <3>1 DEF Older
    <3>3. ASSUME NEW j \in 1..Len(inbox'["MAIN"]),
                 inbox'["MAIN"][j].evtype = Held[h].evtype
          PROVE  Held[h].payload < inbox'["MAIN"][j].payload
      <4>1. PICK k \in 1..Len(inbox["MAIN"]) : inbox'["MAIN"][j] = inbox["MAIN"][k]
        BY <1>0, <2>2
      <4>. QED  BY <3>3, <4>1 DEF Older
    <3>. QED  BY <3>2, <3>3
  <2>12. Older'
    <3>1. Held' = Held
      BY <2>0
    <3>. QED  BY <2>10, <2>11, <3>1 DEF Older
  <2>. QED  BY <2>9, <2>12 DEF InOrder, InLine
<1>5. CASE TakenByMain
  <2>. DEFINE e == Head(inbox["MAIN"])
  <2>0. /\ inbox["MAIN"] # <<>> /\ inbox' = [inbox EXCEPT !["MAIN"] = Tail(inbox["MAIN"])]
        /\ served' = served
    BY <1>5 DEF TakenByMain
  <2>1. e = inbox["MAIN"][1] /\ 1 \in 1..Len(inbox["MAIN"])
    BY <1>0, <1>3, <2>0
  <2>2. \A p \in Obj : \A j \in 1..Len(inbox'[p]) :
          \E k \in 1..Len(inbox[p]) : inbox'[p][j] = inbox[p][k]
    BY <1>0, <1>3, <2>0
  <2>3. \A j \in 1..Len(inbox'["MAIN"]) :
          e.payload # 0 /\ inbox'["MAIN"][j].payload # 0 => e.payload < inbox'["MAIN"][j].payload
    BY <1>0, <1>3, <2>0
  <2>4. ASSUME NEW i \in 1..Len(served), NEW p \in Obj, NEW j \in 1..Len(inbox'[p]),
               served[i].evtype = inbox'[p][j].evtype
        PROVE  served[i].payload < inbox'[p][j].payload
    <3>1. PICK k \in 1..Len(inbox[p]) : inbox'[p][j] = inbox[p][k]
      BY <2>2
    <3>. QED  BY <2>4, <3>1 DEF Older
  <2>5. ASSUME NEW h \in 1..Len(Held')
        PROVE  /\ \A i \in 1..Len(served) :
                    served[i].evtype = Held'[h].evtype => served[i].payload < Held'[h].payload
               /\ \A j \in 1..Len(inbox'["MAIN"]) :
                    inbox'["MAIN"][j].evtype = Held'[h].evtype
                      => Held'[h].payload < inbox'["MAIN"][j].payload
    <3>1. Held'[h] = e /\ e \in Letter /\ e.evtype = "CTRL_ETH_SIG"
      <4>1. Held' = <<e>> /\ e \in Letter /\ e.evtype = "CTRL_ETH_SIG"
        BY <1>5, <2>5 DEF TakenByMain
      <4>. QED  BY <2>5, <4>1
    <3>2. e.payload # 0
      BY <3>1, LetterFacts
    <3>3. ASSUME NEW j \in 1..Len(inbox'["MAIN"]), inbox'["MAIN"][j].evtype = e.evtype
          PROVE  inbox'["MAIN"][j].payload # 0
      <4>1. PICK k \in 1..Len(inbox["MAIN"]) : inbox'["MAIN"][j] = inbox["MAIN"][k]
        BY <1>0, <2>2
      <4>2. "MAIN" \in Subscribers(e.evtype)
        BY <3>1, OneSubscriber
      <4>3. inbox'["MAIN"][j] \in Box("MAIN")
        BY <1>0, <1>d, <4>1
      <4>. HIDE DEF e
      <4>. QED  BY <1>0, <3>1, <3>3, <4>2, <4>3, OneQueue
    <3>4. \A i \in 1..Len(served) : served[i].evtype = e.evtype => served[i].payload < e.payload
      BY <1>0, <2>1 DEF Older
    <3>. QED  BY <2>3, <3>1, <3>2, <3>3, <3>4
  <2>6. \A i \in 1..Len(served') : \A p \in Obj : \A j \in 1..Len(inbox'[p]) :
          served'[i].evtype = inbox'[p][j].evtype => served'[i].payload < inbox'[p][j].payload
    BY <2>0, <2>4
  <2>7. \A h \in 1..Len(Held') : \A i \in 1..Len(served') :
          served'[i].evtype = Held'[h].evtype => served'[i].payload < Held'[h].payload
    BY <2>0, <2>5
  <2>8. \A h \in 1..Len(Held') : \A j \in 1..Len(inbox'["MAIN"]) :
          inbox'["MAIN"][j].evtype = Held'[h].evtype => Held'[h].payload < inbox'["MAIN"][j].payload
    BY <2>5
  <2>9. Older'
    BY <2>6, <2>7, <2>8 DEF Older
  <2>10. InLine(served')
    BY <1>c, <2>0
  <2>. QED  BY <2>9, <2>10 DEF InOrder, InLine
<1>6. CASE Announced
  <2>. DEFINE e == event_temp
  <2>0. /\ Held = <<e>> /\ Held' = <<>> /\ e.evtype = "CTRL_ETH_SIG"
        /\ served' = Append(served, e) /\ inbox' = inbox /\ e \in Event /\ e \in Letter
    BY <1>6 DEF Announced, TypeOK
  <2>1. 1 \in 1..Len(Held) /\ Held[1] = e /\ 1..Len(Held') = {}
    BY <2>0
  <2>2. \A i \in 1..Len(served') : \/ i \in 1..Len(served) /\ served'[i] = served[i]
                                   \/ i = Len(served) + 1 /\ served'[i] = e
    BY <1>0, <2>0, AppendEvents
  <2>3. \A i \in 1..Len(served) : served[i].evtype = e.evtype => served[i].payload < e.payload
    BY <2>1 DEF Older
  <2>4. ASSUME NEW p \in Obj, NEW j \in 1..Len(inbox[p]), e.evtype = inbox[p][j].evtype
        PROVE  e.payload < inbox[p][j].payload
    <3>1. p = "MAIN"
      <4>1. "MAIN" \in Subscribers(e.evtype)
        BY <2>0, OneSubscriber
      <4>. QED  BY <1>0, <1>d, <2>0, <2>4, <4>1, OneQueue
    <3>. QED  BY <2>1, <2>4, <3>1 DEF Older
  <2>5. InLine(served')
    BY <1>0, <1>c, <2>0, <2>1, <2>3, InLineAppend
  <2>6. \A i \in 1..Len(served') : \A p \in Obj : \A j \in 1..Len(inbox[p]) :
           served'[i].evtype = inbox[p][j].evtype => served'[i].payload < inbox[p][j].payload
    BY <2>2, <2>4 DEF Older
  <2>. QED  BY <2>0, <2>1, <2>5, <2>6 DEF Older, InOrder, InLine
<1>. QED
  BY <1>1, <1>2, <1>4, <1>5, <1>6, <1>7, <1>8 DEF Move, Arrives, IsPosted

\* The handler that deletes a payload has taken the only event that points to it.
LEMMA AliveStep ==
    ASSUME TypeOK, Places, Flow, Alive, Move
    PROVE  Alive'
<1>0. /\ Unread \in Seq(Event) /\ inbox \in [Obj -> Seq(Event)] /\ "MAIN" \in Obj
      /\ sent \in Nat /\ epushed \in Event
  BY FlowTypes DEF Obj
<1>1. CASE Announced
  BY <1>1 DEF Announced, Alive, gate
<1>2. CASE Noted
  <2>1. Ids(Unread') = Ids(Unread) /\ \A o \in Obj : Ids(inbox'[o]) = Ids(inbox[o])
    BY <1>2, NotedUnread, NotedInbox
  <2>. QED  BY <1>2, <2>1 DEF Noted, Alive, gate
<1>8. CASE OwnServed
  <2>1. \A p \in Obj : Ids(inbox'[p]) \subseteq Ids(inbox[p])
    BY <1>0, <1>8, InboxPop, SweepIsObj DEF OwnServed
  <2>. QED  BY <1>8, <2>1 DEF OwnServed, Alive, gate
<1>3. CASE Arrives
  BY <1>3 DEF Arrives, Alive
<1>4. CASE IsPosted
  <2>1. Ids(Unread') = Ids(Unread) \cup ({epushed.payload} \ {0})
    BY <1>0, <1>4, IdsAppend DEF IsPosted
  <2>2. epushed.payload = sent /\ sent \in live
    BY <1>4 DEF IsPosted, Places, Alive
  <2>. QED  BY <1>4, <2>1, <2>2 DEF IsPosted, Alive
<1>5. ASSUME NEW o \in Obj, HandedTo(o)  PROVE Alive'
  <2>. DEFINE new == {Head(Unread).payload} \ {0}
  <2>1. Head(Unread) \in Event /\ Unread' = Tail(Unread) /\ Unread # <<>>
    BY <1>0, <1>5 DEF HandedTo
  <2>2. Ids(Unread) = Ids(Unread') \cup new
    BY <1>0, <2>1, IdsTail
  <2>3. /\ inbox'[o] = Append(inbox[o], Head(Unread))
        /\ \A p \in Obj \ {o} : inbox'[p] = inbox[p]
    BY <1>0, <1>5 DEF HandedTo
  <2>4. Ids(inbox'[o]) = Ids(inbox[o]) \cup new
    BY <1>0, <2>1, <2>3, IdsAppend
  <2>. QED  BY <1>5, <2>2, <2>3, <2>4 DEF HandedTo, Alive, gate
<1>6. ASSUME NEW o \in Obj, ServedBy(o)  PROVE Alive'
  <2>. DEFINE gone == Head(inbox[o]).payload
  <2>0. inbox[o] # <<>> /\ inbox' = [inbox EXCEPT ![o] = Tail(inbox[o])]
    BY <1>6 DEF ServedBy
  <2>1. /\ inbox'[o] = Tail(inbox[o]) /\ \A p \in Obj \ {o} : inbox'[p] = inbox[p]
        /\ gone # 0 => gone \in Ids(inbox[o])
        /\ \A p \in Obj : Ids(inbox'[p]) \subseteq Ids(inbox[p])
    BY <1>0, <2>0, InboxPop
  <2>2. inbox[o] \in Seq(Event) /\ inbox'[o] \in Seq(Event) /\ gone \in Nat
    <3>1. Head(inbox[o]) \in Event
      BY <1>0, <2>0
    <3>. QED  BY <1>0, <2>0, <2>1, <3>1, EventFacts
  <2>3. gone \notin Ids(inbox'[o])
    <3>1. gone # 0 => \A x \in Ids(inbox'[o]) : gone < x
      BY <2>0, <2>1, <2>2, IncreasingTail DEF Flow
    <3>2. 0 \notin Ids(inbox'[o])
      BY DEF Ids
    <3>. QED  BY <2>2, <3>1, <3>2
  <2>4. \A p \in Obj \ {o} : gone \notin Ids(inbox'[p])
    BY <2>1 DEF Flow, Ids
  <2>5. gone # 0 => gone \in Handed
    BY <2>1 DEF Handed, Waiting
  <2>6. gone \notin Ids(Unread) /\ (epc = "push" => gone # sent)
    <3>1. CASE gone = 0
      BY <3>1 DEF Ids, Places
    <3>2. CASE gone # 0
      BY <2>2, <2>5, <3>2 DEF Flow
    <3>. QED  BY <3>1, <3>2
  <2>7. live' = live \ {gone} /\ UNCHANGED <<Unread, epc, sent>>
    BY <1>6 DEF ServedBy, gate
  <2>. QED  BY <2>1, <2>3, <2>4, <2>6, <2>7 DEF Alive
<1>7. CASE TakenByMain
  <2>1. \A p \in Obj : Ids(inbox'[p]) \subseteq Ids(inbox[p])
    BY <1>0, <1>7, InboxPop DEF TakenByMain
  <2>. QED  BY <1>7, <2>1 DEF TakenByMain, Alive, gate
<1>. QED  BY <1>1, <1>2, <1>3, <1>4, <1>5, <1>6, <1>7, <1>8 DEF Move

-----------------------------------------------------------------------------
(* No move loses or doubles a message.                                      *)

\* How often a message waits for an object, and how often it is anywhere.
Waits(id) == Occurrences(inbox["MAIN"], id) + Occurrences(inbox["SWEEP"], id)
               + Occurrences(inbox["SERVO"], id) + Occurrences(inbox["MONITOR"], id)
Pushed(id) == IF epushed.payload = id THEN 1 ELSE 0
Total(id) == Occurrences(Unread, id) + Occurrences(served, id) + Waits(id)
               + Pushed(id) + Occurrences(Held, id)

LEMMA CountType ==
    ASSUME NEW q \in Seq(Event), NEW id \in Nat
    PROVE  Occurrences(q, id) \in Nat
BY CountIsCard, WhereFinite

LEMMA CountShort ==
    ASSUME NEW id \in Nat
    PROVE  /\ Occurrences(<<>>, id) = 0
           /\ \A e \in Event : Occurrences(<<e>>, id) = IF e.payload = id THEN 1 ELSE 0
<1>1. <<>> \in Seq(Event) /\ Where(<<>>, id) = {}
  BY DEF Where
<1>2. Occurrences(<<>>, id) = 0
  BY <1>1, FS_EmptySet, CountIsCard
<1>3. ASSUME NEW e \in Event
      PROVE  Occurrences(<<e>>, id) = IF e.payload = id THEN 1 ELSE 0
  <2>1. <<e>> = Append(<<>>, e)
    OBVIOUS
  <2>2. Occurrences(Append(<<>>, e), id) =
          Occurrences(<<>>, id) + IF e.payload = id THEN 1 ELSE 0
    BY <1>1, CountAppend
  <2>. QED  BY <1>2, <2>1, <2>2
<1>. QED  BY <1>2, <1>3

LEMMA TotalType ==
    ASSUME TypeOK, Places, NEW id \in Nat
    PROVE  /\ Occurrences(Unread, id) \in Nat /\ Occurrences(served, id) \in Nat
           /\ \A o \in Obj : Occurrences(inbox[o], id) \in Nat
           /\ Waits(id) \in Nat /\ Occurrences(Held, id) \in Nat /\ Pushed(id) \in {0, 1}
<1>1. \A o \in Obj : Occurrences(inbox[o], id) \in Nat
  BY FlowTypes, CountType
<1>2. Waits(id) \in Nat
  BY <1>1 DEF Waits, Obj
<1>. QED  BY <1>1, <1>2, FlowTypes, CountType DEF Pushed

\* The terms of Conservation add up to Total.
LEMMA ConservationIsTotal ==
    ASSUME TypeOK, Places
    PROVE  Conservation <=> (~raced => \A id \in 1..sent \ unaddressed : Total(id) = 1)
<1>1. ASSUME NEW id \in Nat
      PROVE  Occurrences(Unread, id) + Occurrences(served, id)
               + Occurrences(inbox["MAIN"] \o inbox["SWEEP"], id)
               + Occurrences(inbox["SERVO"] \o inbox["MONITOR"], id)
               + (IF epushed.payload = id THEN 1 ELSE 0)
               + (IF ctrl_state = "RECVU" /\ event_temp.payload = id THEN 1 ELSE 0) = Total(id)
  <2>1. /\ inbox["MAIN"] \in Seq(Event) /\ inbox["SWEEP"] \in Seq(Event)
        /\ inbox["SERVO"] \in Seq(Event) /\ inbox["MONITOR"] \in Seq(Event)
    BY DEF TypeOK, Obj
  <2>2. Occurrences(inbox["MAIN"] \o inbox["SWEEP"], id) =
          Occurrences(inbox["MAIN"], id) + Occurrences(inbox["SWEEP"], id)
    BY <2>1, CountConcat
  <2>3. Occurrences(inbox["SERVO"] \o inbox["MONITOR"], id) =
          Occurrences(inbox["SERVO"], id) + Occurrences(inbox["MONITOR"], id)
    BY <2>1, CountConcat
  <2>4. (IF ctrl_state = "RECVU" /\ event_temp.payload = id THEN 1 ELSE 0) =
          Occurrences(Held, id)
    BY CountShort DEF Held, TypeOK
  <2>5. /\ Occurrences(inbox["MAIN"], id) \in Nat /\ Occurrences(inbox["SWEEP"], id) \in Nat
        /\ Occurrences(inbox["SERVO"], id) \in Nat
        /\ Occurrences(inbox["MONITOR"], id) \in Nat
    BY <2>1, CountType
  <2>. QED  BY <2>2, <2>3, <2>4, <2>5, TotalType DEF Total, Waits, Pushed
<1>2. sent \in Nat
  BY DEF TypeOK
<1>. QED  BY <1>1, <1>2 DEF Conservation

\* One queue of an object changes its count, the others keep theirs.
LEMMA WaitsStep ==
    ASSUME TypeOK, Places, NEW id \in Nat, NEW o \in Obj, NEW q \in Seq(Event),
           NEW d \in Int,
           inbox' = [inbox EXCEPT ![o] = q],
           Occurrences(q, id) = Occurrences(inbox[o], id) + d
    PROVE  Waits(id)' = Waits(id) + d
<1>1. \A p \in Obj : Occurrences(inbox[p], id) \in Nat
  BY TotalType
<1>2. inbox'[o] = q /\ \A p \in Obj \ {o} : inbox'[p] = inbox[p]
  BY DEF TypeOK
<1>3. Obj = {"MAIN", "SWEEP", "SERVO", "MONITOR"}
  BY DEF Obj
<1>4. \A p \in Obj : Occurrences(inbox'[p], id) =
        Occurrences(inbox[p], id) + IF p = o THEN d ELSE 0
  BY <1>1, <1>2
<1>. QED  BY <1>1, <1>3, <1>4 DEF Waits

LEMMA TotalStep ==
    ASSUME TypeOK, Places, Places', Flow, Move, NEW id \in 1..sent', id \notin unaddressed'
    PROVE  IF id <= sent THEN Total(id)' = Total(id) ELSE Total(id)' = 1
<1>0. /\ Unread \in Seq(Event) /\ inbox \in [Obj -> Seq(Event)]
      /\ Held \in Seq(Event) /\ served \in Seq(Event)
      /\ sent \in Nat /\ epushed \in Event /\ id \in Nat \ {0}
  <2>1. sent \in Nat /\ sent' \in {sent, sent + 1}
    BY FlowTypes DEF Move, Noted, Arrives, IsPosted, HandedTo, OwnServed, ServedBy,
       TakenByMain, Announced, gate
  <2>. QED  BY <2>1, FlowTypes
<1>a. /\ Occurrences(Unread, id) \in Nat /\ Occurrences(served, id) \in Nat
      /\ Waits(id) \in Nat /\ Occurrences(Held, id) \in Nat /\ Pushed(id) \in {0, 1}
  BY <1>0, TotalType
<1>1. CASE Noted
  <2>1. Occurrences(Unread', id) = Occurrences(Unread, id)
    BY <1>0, <1>1, NotedUnread
  <2>2. Waits(id)' = Waits(id)
    <3>1. \A o \in Obj : Occurrences(inbox'[o], id) = Occurrences(inbox[o], id)
      BY <1>0, <1>1, NotedInbox
    <3>. QED  BY <3>1 DEF Waits, Obj
  <2>3. Pushed(id)' = Pushed(id) /\ UNCHANGED <<served, Held, sent>>
    BY <1>1 DEF Noted, gate, Pushed
  <2>4. Total(id)' = Total(id)
    BY <2>1, <2>2, <2>3 DEF Total
  <2>. QED  BY <1>0, <2>3, <2>4
<1>3. CASE Arrives
  <2>1. UNCHANGED <<Unread, inbox, Held, served>> /\ sent' = sent + 1 /\ epc = "off"
    BY <1>3 DEF Arrives
  <2>2. epushed.payload = 0
    BY <2>1, EventKinds DEF Places
  <2>3. CASE id <= sent
    <3>1. Pushed(id)' = 0 /\ Pushed(id) = 0
      BY <1>0, <1>3, <2>1, <2>2, <2>3 DEF Arrives, Pushed
    <3>. QED  BY <2>1, <2>3, <3>1 DEF Total, Waits
  <2>4. CASE id = sent + 1
    <3>1. id \notin Handed /\ id \notin Ids(Unread)
      BY <1>0, <2>4 DEF Flow
    <3>2. /\ id \notin Ids(served) /\ id \notin Ids(Held)
          /\ \A o \in Obj : id \notin Ids(inbox[o])
      BY <3>1 DEF Handed, Waiting
    <3>3. /\ Occurrences(Unread, id) = 0 /\ Occurrences(served, id) = 0
          /\ Occurrences(Held, id) = 0 /\ \A o \in Obj : Occurrences(inbox[o], id) = 0
      BY <1>0, <3>1, <3>2, CountNone
    <3>4. Waits(id) = 0
      BY <3>3 DEF Waits, Obj
    <3>5. Pushed(id)' = 1
      BY <1>3, <2>1, <2>4 DEF Arrives, Pushed
    <3>6. Total(id)' = 1
      BY <2>1, <3>3, <3>4, <3>5 DEF Total, Waits
    <3>. QED  BY <1>0, <2>4, <3>6
  <2>. QED  BY <1>0, <2>1, <2>3, <2>4
<1>4. CASE IsPosted
  <2>1. Occurrences(Unread', id) = Occurrences(Unread, id) + Pushed(id)
    BY <1>0, <1>4, CountAppend DEF IsPosted, Pushed
  <2>2. Pushed(id)' = 0 /\ Waits(id)' = Waits(id)
    BY <1>0, <1>4, EventKinds DEF IsPosted, Pushed, Waits
  <2>3. UNCHANGED <<served, Held, sent>>
    BY <1>4 DEF IsPosted
  <2>. QED  BY <1>0, <1>a, <2>1, <2>2, <2>3 DEF Total
<1>5. ASSUME NEW o \in Obj, HandedTo(o)  PROVE Total(id)' = Total(id) /\ sent' = sent
  <2>. DEFINE d == IF Head(Unread).payload = id THEN 1 ELSE 0
  <2>1. /\ Unread # <<>> /\ Head(Unread) \in Event /\ Unread' = Tail(Unread)
        /\ inbox' = [inbox EXCEPT ![o] = Append(inbox[o], Head(Unread))]
        /\ UNCHANGED <<served, Held, sent, epushed>>
    BY <1>0, <1>5 DEF HandedTo, gate
  <2>2. Occurrences(Unread, id) = Occurrences(Unread', id) + d /\ Occurrences(Unread', id) \in Nat
    BY <1>0, <2>1, CountTail
  <2>3. /\ Append(inbox[o], Head(Unread)) \in Seq(Event)
        /\ Occurrences(Append(inbox[o], Head(Unread)), id) = Occurrences(inbox[o], id) + d
    <3>1. inbox[o] \in Seq(Event)
      BY <1>0
    <3>. HIDE DEF d
    <3>2. Append(inbox[o], Head(Unread)) \in Seq(Event)
      BY <2>1, <3>1
    <3>3. Occurrences(Append(inbox[o], Head(Unread)), id) =
            Occurrences(inbox[o], id) + IF Head(Unread).payload = id THEN 1 ELSE 0
      BY <1>0, <2>1, <3>1, CountAppend
    <3>. QED  BY <3>2, <3>3 DEF d
  <2>4. Waits(id)' = Waits(id) + d
    <3>1. d \in Int
      OBVIOUS
    <3>. HIDE DEF d
    <3>. QED  BY <1>0, <2>1, <2>3, <3>1, WaitsStep
  <2>5. Pushed(id)' = Pushed(id)
    BY <2>1 DEF Pushed
  <2>. QED  BY <1>a, <2>1, <2>2, <2>4, <2>5 DEF Total
<1>6. ASSUME NEW o \in Obj, inbox[o] # <<>>,
             inbox' = [inbox EXCEPT ![o] = Tail(inbox[o])]
      PROVE  /\ Waits(id)' = Waits(id) - (IF Head(inbox[o]).payload = id THEN 1 ELSE 0)
             /\ Head(inbox[o]) \in Event
  <2>. DEFINE d == IF Head(inbox[o]).payload = id THEN -1 ELSE 0
  <2>1. inbox[o] \in Seq(Event) /\ Tail(inbox[o]) \in Seq(Event) /\ Head(inbox[o]) \in Event
    BY <1>0, <1>6
  <2>2. Occurrences(Tail(inbox[o]), id) = Occurrences(inbox[o], id) + d
    <3>1. /\ Occurrences(Tail(inbox[o]), id) \in Nat
          /\ Occurrences(inbox[o], id) =
               Occurrences(Tail(inbox[o]), id) + IF Head(inbox[o]).payload = id THEN 1 ELSE 0
      BY <1>0, <1>6, <2>1, CountTail
    <3>. QED  BY <3>1
  <2>3. Waits(id)' = Waits(id) + d
    <3>1. d \in Int
      OBVIOUS
    <3>. HIDE DEF d
    <3>. QED  BY <1>0, <1>6, <2>1, <2>2, <3>1, WaitsStep
  <2>. QED  BY <1>a, <2>1, <2>3
<1>2. CASE OwnServed
  <2>1. Waits(id)' = Waits(id) - (IF Head(inbox["SWEEP"]).payload = id THEN 1 ELSE 0)
    BY <1>2, <1>6, SweepIsObj DEF OwnServed
  <2>2. Head(inbox["SWEEP"]).payload = 0
    BY <1>2, EventKinds DEF OwnServed, Own
  <2>3. Pushed(id)' = Pushed(id) /\ UNCHANGED <<Unread, served, Held, sent>>
    BY <1>2 DEF OwnServed, gate, Pushed
  <2>4. Total(id)' = Total(id)
    <3>1. Waits(id)' = Waits(id)
      BY <1>0, <1>a, <2>1, <2>2
    <3>. QED  BY <2>3, <3>1 DEF Total
  <2>. QED  BY <1>0, <2>3, <2>4
<1>7. ASSUME NEW o \in Obj, ServedBy(o)  PROVE Total(id)' = Total(id) /\ sent' = sent
  <2>1. /\ Waits(id)' = Waits(id) - (IF Head(inbox[o]).payload = id THEN 1 ELSE 0)
        /\ Head(inbox[o]) \in Event
    BY <1>6, <1>7 DEF ServedBy
  <2>2. Occurrences(served', id) =
          Occurrences(served, id) + IF Head(inbox[o]).payload = id THEN 1 ELSE 0
    BY <1>0, <1>7, <2>1, CountAppend DEF ServedBy
  <2>3. Pushed(id)' = Pushed(id) /\ UNCHANGED <<Unread, Held, sent>>
    BY <1>7 DEF ServedBy, gate, Pushed
  <2>. QED  BY <1>a, <2>1, <2>2, <2>3 DEF Total
<1>8. CASE TakenByMain
  <2>0. "MAIN" \in Obj
    BY DEF Obj
  <2>1. /\ Waits(id)' = Waits(id) - (IF Head(inbox["MAIN"]).payload = id THEN 1 ELSE 0)
        /\ Head(inbox["MAIN"]) \in Event
    BY <1>6, <1>8, <2>0 DEF TakenByMain
  <2>2. /\ Occurrences(Held, id) = 0
        /\ Occurrences(Held', id) = IF Head(inbox["MAIN"]).payload = id THEN 1 ELSE 0
    <3>1. Occurrences(Held, id) = 0 /\ id # 0
      BY <1>0, <1>8, CountShort DEF TakenByMain
    <3>2. CASE Head(inbox["MAIN"]) = AlarmEvt /\ Held' = <<>>
      BY <1>0, <3>1, <3>2, CountShort, EventKinds
    <3>3. CASE Held' = <<Head(inbox["MAIN"])>>
      BY <1>0, <2>1, <3>1, <3>3, CountShort
    <3>. QED  BY <1>8, <3>1, <3>2, <3>3 DEF TakenByMain
  <2>3. Pushed(id)' = Pushed(id) /\ UNCHANGED <<Unread, served, sent>>
    BY <1>8 DEF TakenByMain, gate, Pushed
  <2>. QED  BY <1>0, <1>a, <2>1, <2>2, <2>3 DEF Total
<1>9. CASE Announced
  <2>1. event_temp \in Event
    BY DEF TypeOK
  <2>2. Occurrences(served', id) =
          Occurrences(served, id) + IF event_temp.payload = id THEN 1 ELSE 0
    BY <1>0, <1>9, <2>1, CountAppend DEF Announced
  <2>3. /\ Occurrences(Held, id) = IF event_temp.payload = id THEN 1 ELSE 0
        /\ Occurrences(Held', id) = 0
    BY <1>0, <1>9, <2>1, CountShort DEF Announced
  <2>4. Pushed(id)' = Pushed(id) /\ Waits(id)' = Waits(id) /\ UNCHANGED <<Unread, sent>>
    BY <1>9 DEF Announced, gate, Pushed, Waits
  <2>. QED  BY <1>0, <1>a, <2>2, <2>3, <2>4 DEF Total
<1>10. CASE sent' = sent /\ Total(id)' = Total(id)
  BY <1>0, <1>10
<1>. QED
  BY <1>1, <1>2, <1>3, <1>4, <1>5, <1>7, <1>8, <1>9, <1>10 DEF Move

-----------------------------------------------------------------------------
(* The theorems.                                                            *)

\* With and without a race the invariant is kept.
LEMMA InvStep == Inv /\ [Next]_vars => Inv'
BY TypeStep, PlacesStep, ConversionStep, AlarmStep DEF Inv

\* Nothing has been sent at first.
LEMMA InitCalm == Init => Calm
<1>. SUFFICES ASSUME Init
              PROVE  Sorted /\ Flow /\ Older /\ InOrder /\ Alive /\ Conservation
  BY DEF Calm
<1>. USE DEF Init
<1>1. /\ Unread = <<>> /\ Held = <<>> /\ served = <<>> /\ pc = "mail"
      /\ \A o \in Obj : inbox[o] = IF o = "SWEEP" THEN <<TickEvt>> ELSE <<>>
  BY DEF Unread, Held
<1>2. /\ Ids(Unread) = {} /\ Ids(served) = {} /\ Ids(Held) = {}
      /\ \A o \in Obj : Ids(inbox[o]) = {}
  <2>1. Ids(<<>>) = {}
    BY DEF Ids
  <2>2. Ids(<<TickEvt>>) = {}
    BY EventKinds DEF Ids
  <2>. QED  BY <1>1, <2>1, <2>2
<1>3. Handed = {}
  BY <1>2 DEF Handed, Waiting
<1>4. Flow
  <2>1. \A o \in Obj : Increasing(inbox[o])
    <3>1. Increasing(<<>>) /\ Increasing(<<TickEvt>>)
      BY DEF Increasing
    <3>. QED  BY <1>1, <3>1
  <2>2. Increasing(Unread)
    BY <1>1 DEF Increasing
  <2>. QED  BY <1>2, <1>3, <2>1, <2>2 DEF Flow
<1>5. Older /\ InOrder /\ Alive
  BY <1>1, <1>2 DEF Older, InOrder, Alive, Obj
<1>6. Conservation
  BY DEF Conservation
<1>7. Sorted
  <2>1. <<TickEvt>> \in Seq(Box("SWEEP"))
    <3>1. TickEvt \in Box("SWEEP")
      BY DEF Box, Own
    <3>. QED  BY <3>1
  <2>2. \A o \in Obj : inbox[o] \in Seq(Box(o))
    BY <1>1, <2>1
  <2>. QED  BY <1>1, <2>2 DEF Sorted
<1>. QED  BY <1>4, <1>5, <1>6, <1>7

\* Steps that are not overtaken keep every message in its place and in line.
LEMMA CalmStep == Inv /\ Calm /\ [Next]_vars => Calm'
<1>. SUFFICES ASSUME Inv, Calm, [Next]_vars, ~raced'
              PROVE  Sorted' /\ Flow' /\ Older' /\ InOrder' /\ Alive' /\ Conservation'
  BY DEF Calm
<1>1. TypeOK /\ Places /\ (~raced => Sorted) /\ TypeOK' /\ Places'
  BY InvStep DEF Inv, Calm
<1>2. ~raced /\ Move
  BY <1>1, StepIsMove
<1>3. Sorted /\ Flow /\ Older /\ InOrder /\ Alive /\ Conservation
  BY <1>2 DEF Calm
<1>4. Flow' /\ Older' /\ InOrder' /\ Alive'
  BY <1>1, <1>2, <1>3, FlowStep, OlderStep, AliveStep
<1>6. Sorted'
  BY <1>1, <1>2, <1>3, SortedStep, CopyStep DEF Sorted
<1>5. Conservation'
  <2>1. \A id \in 1..sent \ unaddressed : Total(id) = 1
    BY <1>1, <1>2, <1>3, ConservationIsTotal
  <2>2. ASSUME NEW id \in 1..sent', id \notin unaddressed'
        PROVE  Total(id)' = 1
    <3>1. IF id <= sent THEN Total(id)' = Total(id) ELSE Total(id)' = 1
      BY <1>1, <1>2, <1>3, <2>2, TotalStep
    <3>2. sent \in Nat /\ sent' \in Nat
      BY <1>1 DEF TypeOK
    <3>3. unaddressed \subseteq unaddressed'
      BY <1>2 DEF Move, Noted, Arrives, IsPosted, HandedTo, OwnServed, ServedBy,
         TakenByMain, Announced, gate
    <3>. QED  BY <2>1, <2>2, <3>1, <3>2, <3>3
  <2>3. (Conservation <=> (~raced => \A id \in 1..sent \ unaddressed : Total(id) = 1))'
    BY <1>1, ConservationIsTotal, PTL
  <2>. QED  BY <2>2, <2>3
<1>. QED  BY <1>4, <1>5, <1>6

\* Both parts hold in every reachable state.
THEOREM KernelInvariant == Spec => [](Inv /\ Calm)
<1>1. Init => Inv /\ Calm
  BY InitInv, InitCalm
<1>2. Inv /\ Calm /\ [Next]_vars => (Inv /\ Calm)'
  BY InvStep, CalmStep
<1>. QED  BY <1>1, <1>2, PTL DEF Spec

\* The counter, the queues, the program counters and the payloads have their
\* types, whatever the interrupts overtake.
THEOREM TypeCorrect == Spec => []TypeOK
<1>1. Inv /\ Calm => TypeOK
  BY DEF Inv
<1>. QED  BY <1>1, KernelInvariant, PTL

\* The main loop starts a conversion only when the last one has raised
\* g_Adc16ConversionDoneFlag and the flag has been cleared.
THEOREM ConversionsDoNotOverlap == Spec => []OneConversion
<1>1. Inv /\ Calm => OneConversion
  BY DEF Inv
<1>. QED  BY <1>1, KernelInvariant, PTL

\* For every width of bspcounter and every interval that fits into it an armed
\* alarm is at most one interval ahead, also across the counter's overflow.
THEOREM AlarmStaysNear == Spec => []AlarmNear
<1>1. Inv /\ Calm => AlarmNear
  BY DEF Inv
<1>. QED  BY <1>1, KernelInvariant, PTL

\* As long as no push is overtaken by the PIT interrupt, ethergate's into the
\* post office or the main loop's into Sweep's queue, every
\* message for an object is in exactly one place between ethergate and the end
\* of its handler.
THEOREM MessagesConserved == Spec => []Conservation
<1>1. Inv /\ Calm => Conservation
  BY DEF Calm, Conservation
<1>. QED  BY <1>1, KernelInvariant, PTL

\* Under the same condition an object serves the host's commands in the order
\* in which ethergate received them.
THEOREM ServedInOrder == Spec => []InOrder
<1>1. Inv /\ Calm => InOrder
  BY DEF Calm, InOrder
<1>. QED  BY <1>1, KernelInvariant, PTL

\* Under the same condition no queue holds an event whose payload a handler has
\* already deleted.
THEOREM NothingDangles == Spec => []NoDangling
<1>1. Inv /\ Calm => NoDangling
  <2>. SUFFICES ASSUME Inv, Calm, ~raced,
                       NEW q \in {Unread} \cup {inbox[o] : o \in Obj},
                       NEW i \in 1..Len(q), q[i].payload # 0
                PROVE  q[i].payload \in live
    BY DEF NoDangling
  <2>1. Alive /\ TypeOK /\ Places
    BY DEF Calm, Inv
  <2>2. q \in Seq(Event) /\ Ids(q) \subseteq live
    BY <2>1, FlowTypes DEF Alive
  <2>. QED  BY <2>2, IdsOfEvents
<1>. QED  BY <1>1, KernelInvariant, PTL
=============================================================================
