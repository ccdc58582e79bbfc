---------------------------- MODULE DequeProofs ----------------------------
(***************************************************************************)
(* DequeRace implements RaceQueue for every set of events and every number *)
(* of slots: inside a node of the deque the outcomes that EventQueue lists *)
(* are all there are.                                                      *)
(***************************************************************************)
EXTENDS DequeRace, CommonProofs

(* The inductive invariant.                                                 *)

TypeOK ==
    /\ slot \in [1..DequeSlots -> Event] /\ elem \in Event /\ held \in Event
    /\ start \in Nat /\ finish \in Nat /\ daddr \in Nat /\ dreg \in Nat
    /\ dpc \in {"idle", "store", "load", "write"}
    /\ unstored \subseteq {"evtype", "payload"}

\* The push on its way has its address behind what the queue held when it
\* began.
Cursors ==
    /\ start <= finish /\ finish <= DequeSlots
    /\ dpc # "idle" => start <= daddr /\ daddr <= finish /\ daddr < DequeSlots
    /\ dpc = "write" => daddr <= dreg /\ dreg <= finish
    /\ dpc \in {"load", "write"} => unstored = {}

\* The slot of the push holds the words stored so far; once it was overtaken,
\* each word is its own or that of what overtook it first.  If finish.cur was
\* loaded before that, all are of what overtook it.
Memory ==
    /\ dpc # "idle" /\ finish = daddr =>
         \A f \in {"evtype", "payload"} \ unstored : slot[daddr + 1][f] = elem[f]
    /\ dpc # "idle" /\ daddr < finish => slot[daddr + 1] \in Torn(elem, held)
    /\ dpc = "write" /\ dreg = daddr /\ daddr < finish => slot[daddr + 1] = held

Inv == TypeOK /\ Cursors /\ Memory

-----------------------------------------------------------------------------
(* Events, and sequences read from the memory.                              *)

\* An event is what its words are.
LEMMA EventWords ==
    /\ \A x \in Event : x = [evtype |-> x.evtype, payload |-> x.payload]
                          /\ x.evtype \in EvTypes /\ x.payload \in Payloads
    /\ \A x, y \in Event : Torn(x, y) \subseteq Event /\ y \in Torn(x, y)
<1>1. \A x \in Event : x = [evtype |-> x.evtype, payload |-> x.payload]
                          /\ x.evtype \in EvTypes /\ x.payload \in Payloads
  BY DEF Event
<1>2. \A x, y \in Event : Torn(x, y) \subseteq Event
  BY TornIsEvent DEF Event
<1>3. ASSUME NEW x \in Event, NEW y \in Event  PROVE y \in Torn(x, y)
  <2>1. y = [evtype |-> y.evtype, payload |-> y.payload]
    BY <1>1
  <2>2. [evtype |-> y.evtype, payload |-> y.payload] \in Torn(x, y)
    BY DEF Torn
  <2>. QED  BY <2>1, <2>2
<1>. QED  BY <1>1, <1>2, <1>3

\* Word f of the event y is stored in x.
Stored(x, y, f) == [x EXCEPT ![f] = y[f]]

LEMMA StoredWord ==
    ASSUME NEW x \in Event, NEW y \in Event, NEW f \in {"evtype", "payload"}
    PROVE  /\ Stored(x, y, f) \in Event /\ Stored(x, y, f)[f] = y[f]
           /\ \A g \in {"evtype", "payload"} \ {f} : Stored(x, y, f)[g] = x[g]
           /\ \A h \in Event : x \in Torn(y, h) => Stored(x, y, f) \in Torn(y, h)
<1>1. /\ x.evtype \in EvTypes /\ x.payload \in Payloads
      /\ y.evtype \in EvTypes /\ y.payload \in Payloads
      /\ x = [evtype |-> x.evtype, payload |-> x.payload]
  BY EventWords
<1>2. \A h \in Event : x \in Torn(y, h) =>
        x.evtype \in {y.evtype, h.evtype} /\ x.payload \in {y.payload, h.payload}
  BY DEF Torn
<1>3. CASE f = "evtype"
  <2>1. Stored(x, y, f) = [evtype |-> y.evtype, payload |-> x.payload]
    <3>1. Stored(x, y, f) = [x EXCEPT !.evtype = y.evtype]
      BY <1>3 DEF Stored
    <3>2. [x EXCEPT !.evtype = y.evtype] = [evtype |-> y.evtype, payload |-> x.payload]
      BY DEF Event
    <3>. QED  BY <3>1, <3>2
  <2>2. \A h \in Event : x \in Torn(y, h) =>
          [evtype |-> y.evtype, payload |-> x.payload] \in Torn(y, h)
    BY <1>2 DEF Torn
  <2>3. [evtype |-> y.evtype, payload |-> x.payload] \in Event
    BY <1>1 DEF Event
  <2>. QED  BY <1>3, <2>1, <2>2, <2>3
<1>4. CASE f = "payload"
  <2>1. Stored(x, y, f) = [evtype |-> x.evtype, payload |-> y.payload]
    <3>1. Stored(x, y, f) = [x EXCEPT !.payload = y.payload]
      BY <1>4 DEF Stored
    <3>2. [x EXCEPT !.payload = y.payload] = [evtype |-> x.evtype, payload |-> y.payload]
      BY DEF Event
    <3>. QED  BY <3>1, <3>2
  <2>2. \A h \in Event : x \in Torn(y, h) =>
          [evtype |-> x.evtype, payload |-> y.payload] \in Torn(y, h)
    BY <1>2 DEF Torn
  <2>3. [evtype |-> x.evtype, payload |-> y.payload] \in Event
    BY <1>1 DEF Event
  <2>. QED  BY <1>4, <2>1, <2>2, <2>3
<1>. QED  BY <1>3, <1>4

LEMMA SeqEqual ==
    ASSUME NEW p \in Seq(Event), NEW q \in Seq(Event), Len(p) = Len(q),
           \A j \in 1..Len(p) : p[j] = q[j]
    PROVE  p = q
OBVIOUS

\* The slots between two cursors, as a sequence.
LEMMA SlotsBetween ==
    ASSUME NEW m \in [1..DequeSlots -> Event], NEW a \in Nat, NEW b \in Nat,
           a <= b, b <= DequeSlots
    PROVE  /\ SubSeq(m, a + 1, b) \in Seq(Event)
           /\ Len(SubSeq(m, a + 1, b)) = b - a
           /\ \A j \in 1..(b - a) : SubSeq(m, a + 1, b)[j] = m[a + j]
<1>1. m \in Seq(Event) /\ Len(m) = DequeSlots
  BY DequeAssumption
<1>. QED  BY <1>1

\* The queue is what the memory holds, but for the slot of an overtaken push.
LEMMA QueueFacts ==
    ASSUME TypeOK, Cursors
    PROVE  /\ Content \in Seq(Event) /\ Len(Content) = finish - start
           /\ \A j \in 1..(finish - start) : Content[j] = slot[start + j]
           /\ Queue \in Seq(Event) /\ Len(Queue) = finish - start
           /\ dpc = "idle" \/ daddr = finish => Queue = Content
           /\ dpc # "idle" /\ daddr < finish =>
                /\ Queue[daddr - start + 1] = held
                /\ \A j \in 1..(finish - start) :
                     j # daddr - start + 1 => Queue[j] = Content[j]
<1>1. /\ start \in Nat /\ finish \in Nat /\ daddr \in Nat /\ start <= finish
      /\ finish <= DequeSlots /\ held \in Event /\ slot \in [1..DequeSlots -> Event]
      /\ dpc # "idle" => start <= daddr
  BY DEF TypeOK, Cursors
<1>2. /\ Content \in Seq(Event) /\ Len(Content) = finish - start
      /\ \A j \in 1..(finish - start) : Content[j] = slot[start + j]
  BY <1>1, SlotsBetween DEF Content
<1>. HIDE DEF Content
<1>3. CASE dpc # "idle" /\ daddr < finish
  <2>1. daddr - start + 1 \in 1..(finish - start)
    BY <1>1, <1>3
  <2>2. Queue = [Content EXCEPT ![daddr - start + 1] = held]
    BY <1>3 DEF Queue
  <2>. QED  BY <1>1, <1>2, <1>3, <2>1, <2>2
<1>4. CASE ~(dpc # "idle" /\ daddr < finish)
  <2>1. Queue = Content
    BY <1>4 DEF Queue
  <2>. QED  BY <1>1, <1>2, <1>4, <2>1
<1>. QED  BY <1>3, <1>4

-----------------------------------------------------------------------------
(* The invariant.                                                           *)

LEMMA InitInv == DequeInit => Inv
BY DequeAssumption DEF DequeInit, Inv, TypeOK, Cursors, Memory

\* A word is stored: no slot but the push's own changes.
LEMMA StoreStep ==
    ASSUME Inv, LowStore
    PROVE  Inv' /\ Queue' = Queue
<1>1. /\ slot \in [1..DequeSlots -> Event] /\ elem \in Event /\ held \in Event
      /\ start \in Nat /\ finish \in Nat /\ daddr \in Nat /\ DequeSlots \in Nat
      /\ start <= daddr /\ daddr <= finish /\ daddr < DequeSlots /\ dpc = "store"
      /\ finish <= DequeSlots /\ unstored \subseteq {"evtype", "payload"}
  BY DequeAssumption DEF Inv, TypeOK, Cursors, LowStore
<1>2. PICK f \in unstored :
        /\ slot' = [slot EXCEPT ![daddr + 1] = [@ EXCEPT ![f] = elem[f]]]
        /\ unstored' = unstored \ {f}
  BY DEF LowStore
<1>3. /\ dpc' = IF unstored' = {} THEN "load" ELSE "store"
      /\ UNCHANGED <<start, finish, elem, daddr, dreg, held>>
  BY DEF LowStore
<1>. DEFINE x == slot[daddr + 1]
            y == Stored(x, elem, f)
<1>4. daddr + 1 \in 1..DequeSlots /\ x \in Event /\ f \in {"evtype", "payload"}
  BY <1>1
<1>5. /\ y \in Event /\ y[f] = elem[f] /\ \A g \in {"evtype", "payload"} \ {f} : y[g] = x[g]
      /\ \A h \in Event : x \in Torn(elem, h) => y \in Torn(elem, h)
  BY <1>1, <1>4, StoredWord
<1>. HIDE DEF y
<1>6. slot' = [slot EXCEPT ![daddr + 1] = y]
  BY <1>2 DEF y, Stored
<1>7. slot' \in [1..DequeSlots -> Event] /\ slot'[daddr + 1] = y
  BY <1>1, <1>4, <1>5, <1>6
<1>8. TypeOK'
  BY <1>1, <1>2, <1>3, <1>7 DEF TypeOK, Inv
<1>9. Cursors'
  BY <1>1, <1>3 DEF Cursors, Inv
<1>10. Memory'
  <2>1. ASSUME finish = daddr, NEW g \in {"evtype", "payload"} \ unstored'
        PROVE  slot'[daddr + 1][g] = elem[g]
    <3>1. CASE g = f
      BY <1>5, <1>7, <3>1
    <3>2. CASE g # f
      <4>1. x[g] = elem[g]
        BY <1>1, <1>2, <2>1, <3>2 DEF Inv, Memory
      <4>. QED  BY <1>5, <1>7, <2>1, <3>2, <4>1
    <3>. QED  BY <3>1, <3>2
  <2>2. ASSUME daddr < finish  PROVE slot'[daddr + 1] \in Torn(elem, held)
    <3>1. x \in Torn(elem, held)
      BY <1>1, <2>2 DEF Inv, Memory
    <3>. QED  BY <1>1, <1>5, <1>7, <3>1
  <2>3. dpc' # "write"
    BY <1>3
  <2>. QED  BY <1>3, <2>1, <2>2, <2>3 DEF Memory
<1>11. Queue' = Queue
  <2>1. /\ Content \in Seq(Event) /\ Len(Content) = finish - start
        /\ \A j \in 1..(finish - start) : Content[j] = slot[start + j]
        /\ Queue \in Seq(Event) /\ Len(Queue) = finish - start
        /\ daddr = finish => Queue = Content
        /\ daddr < finish => /\ Queue[daddr - start + 1] = held
                             /\ \A j \in 1..(finish - start) :
                                  j # daddr - start + 1 => Queue[j] = Content[j]
    BY <1>1, QueueFacts DEF Inv
  <2>2. /\ Content' \in Seq(Event) /\ Len(Content') = finish - start
        /\ \A j \in 1..(finish - start) : Content'[j] = slot'[start + j]
        /\ Queue' \in Seq(Event) /\ Len(Queue') = finish - start
        /\ daddr = finish => Queue' = Content'
        /\ daddr < finish => /\ Queue'[daddr - start + 1] = held
                             /\ \A j \in 1..(finish - start) :
                                  j # daddr - start + 1 => Queue'[j] = Content'[j]
    <3>1. (TypeOK /\ Cursors =>
             /\ Content \in Seq(Event) /\ Len(Content) = finish - start
             /\ \A j \in 1..(finish - start) : Content[j] = slot[start + j]
             /\ Queue \in Seq(Event) /\ Len(Queue) = finish - start
             /\ dpc = "idle" \/ daddr = finish => Queue = Content
             /\ dpc # "idle" /\ daddr < finish =>
                  /\ Queue[daddr - start + 1] = held
                  /\ \A j \in 1..(finish - start) :
                       j # daddr - start + 1 => Queue[j] = Content[j])'
      BY QueueFacts, PTL
    <3>. QED  BY <1>3, <1>8, <1>9, <3>1
  <2>3. ASSUME NEW j \in 1..(finish - start)  PROVE Queue'[j] = Queue[j]
    <3>1. CASE start + j = daddr + 1
      BY <1>1, <2>1, <2>2, <2>3, <3>1
    <3>2. CASE start + j # daddr + 1
      <4>1. slot'[start + j] = slot[start + j]
        BY <1>1, <1>6, <2>3, <3>2
      <4>2. Content'[j] = Content[j]
        BY <2>1, <2>2, <2>3, <4>1
      <4>3. j # daddr - start + 1
        BY <1>1, <2>3, <3>2
      <4>. QED  BY <1>1, <2>1, <2>2, <2>3, <4>2, <4>3
    <3>. QED  BY <3>1, <3>2
  <2>. QED  BY <2>1, <2>2, <2>3, SeqEqual
<1>. QED  BY <1>8, <1>9, <1>10, <1>11 DEF Inv

\* The higher priority pushes at once, whatever the lower one is doing: if it
\* is the first to overtake, its event is what the slot of that push now holds.
LEMMA HighPushStep ==
    ASSUME Inv, NEW h \in Event, finish < DequeSlots - 1,
           slot' = [slot EXCEPT ![finish + 1] = h],
           held' = IF dpc # "idle" /\ finish = daddr THEN h ELSE held,
           finish' = finish + 1, UNCHANGED <<start, dpc, elem, unstored, daddr, dreg>>
    PROVE  Inv' /\ Queue' = Append(Queue, h)
<1>1. /\ slot \in [1..DequeSlots -> Event] /\ elem \in Event /\ held \in Event
      /\ start \in Nat /\ finish \in Nat /\ daddr \in Nat /\ DequeSlots \in Nat
      /\ start <= finish /\ (dpc # "idle" => start <= daddr /\ daddr <= finish)
  BY DequeAssumption DEF Inv, TypeOK, Cursors
<1>2. finish + 1 \in 1..DequeSlots /\ slot'[finish + 1] = h
  BY <1>1
<1>3. slot' \in [1..DequeSlots -> Event] /\ held' \in Event
  BY <1>1, <1>2
<1>4. TypeOK' /\ Cursors'
  BY <1>1, <1>3 DEF Inv, TypeOK, Cursors
<1>5. ASSUME NEW i \in 1..finish  PROVE slot'[i] = slot[i]
  BY <1>1, <1>2, <1>5
<1>6. Memory'
  <2>1. CASE dpc # "idle" /\ daddr = finish
    <3>1. h \in Torn(elem, h)
      BY <1>1, EventWords
    <3>. QED  BY <1>1, <1>2, <2>1, <3>1 DEF Memory
  <2>2. CASE dpc # "idle" /\ daddr < finish
    <3>1. slot'[daddr + 1] = slot[daddr + 1]
      BY <1>1, <1>5, <2>2
    <3>. QED  BY <1>1, <2>2, <3>1 DEF Inv, Memory
  <2>3. CASE dpc = "idle"
    BY <2>3 DEF Memory
  <2>. QED  BY <1>1, <2>1, <2>2, <2>3
<1>7. /\ Content \in Seq(Event) /\ Len(Content) = finish - start
      /\ \A j \in 1..(finish - start) : Content[j] = slot[start + j]
      /\ Queue \in Seq(Event) /\ Len(Queue) = finish - start
      /\ dpc = "idle" \/ daddr = finish => Queue = Content
      /\ dpc # "idle" /\ daddr < finish =>
           /\ Queue[daddr - start + 1] = held
           /\ \A j \in 1..(finish - start) :
                j # daddr - start + 1 => Queue[j] = Content[j]
  BY QueueFacts DEF Inv
<1>8. /\ Len(Content') = finish + 1 - start
      /\ \A j \in 1..(finish + 1 - start) : Content'[j] = slot'[start + j]
      /\ Queue' \in Seq(Event) /\ Len(Queue') = finish + 1 - start
      /\ dpc = "idle" => Queue' = Content'
      /\ dpc # "idle" =>
           /\ Queue'[daddr - start + 1] = held'
           /\ \A j \in 1..(finish + 1 - start) :
                j # daddr - start + 1 => Queue'[j] = Content'[j]
  <2>1. (TypeOK /\ Cursors =>
           /\ Content \in Seq(Event) /\ Len(Content) = finish - start
           /\ \A j \in 1..(finish - start) : Content[j] = slot[start + j]
           /\ Queue \in Seq(Event) /\ Len(Queue) = finish - start
           /\ dpc = "idle" \/ daddr = finish => Queue = Content
           /\ dpc # "idle" /\ daddr < finish =>
                /\ Queue[daddr - start + 1] = held
                /\ \A j \in 1..(finish - start) :
                     j # daddr - start + 1 => Queue[j] = Content[j])'
    BY QueueFacts, PTL
  <2>2. dpc # "idle" => daddr < finish'
    BY <1>1
  <2>3. finish' = finish + 1 /\ start' = start /\ dpc' = dpc /\ daddr' = daddr
    OBVIOUS
  <2>4. /\ Content' \in Seq(Event) /\ Len(Content') = finish' - start'
        /\ \A j \in 1..(finish' - start') : Content'[j] = slot'[start' + j]
        /\ Queue' \in Seq(Event) /\ Len(Queue') = finish' - start'
        /\ dpc' = "idle" => Queue' = Content'
        /\ dpc' # "idle" /\ daddr' < finish' =>
             /\ Queue'[daddr' - start' + 1] = held'
             /\ \A j \in 1..(finish' - start') :
                  j # daddr' - start' + 1 => Queue'[j] = Content'[j]
    BY <1>4, <2>1
  <2>5. dpc = "idle" => Queue' = Content'
    BY <2>3, <2>4
  <2>6. ASSUME dpc # "idle"
        PROVE  /\ Queue'[daddr - start + 1] = held'
               /\ \A j \in 1..(finish + 1 - start) : j # daddr - start + 1 => Queue'[j] = Content'[j]
    <3>1. daddr' < finish' /\ dpc' # "idle"
      BY <2>2, <2>3, <2>6
    <3>2. /\ Queue'[daddr' - start' + 1] = held'
          /\ \A j \in 1..(finish' - start') : j # daddr' - start' + 1 => Queue'[j] = Content'[j]
      BY <2>4, <3>1, Zenon
    <3>. QED  BY <1>1, <2>3, <3>2
  <2>7. /\ Len(Content') = finish + 1 - start /\ Queue' \in Seq(Event)
        /\ Len(Queue') = finish + 1 - start
    <3>1. /\ Len(Content') = finish' - start' /\ Queue' \in Seq(Event)
          /\ Len(Queue') = finish' - start'
      BY <2>4
    <3>. QED  BY <1>1, <2>3, <3>1
  <2>8. ASSUME NEW j \in 1..(finish + 1 - start)  PROVE Content'[j] = slot'[start + j]
    <3>1. j \in 1..(finish' - start')
      BY <1>1, <2>3, <2>8
    <3>2. Content'[j] = slot'[start' + j]
      BY <2>4, <3>1
    <3>. QED  BY <2>3, <3>2
  <2>. QED  BY <2>5, <2>6, <2>7, <2>8
<1>9. Append(Queue, h) \in Seq(Event) /\ Len(Append(Queue, h)) = finish + 1 - start
  <2>1. Queue \in Seq(Event) /\ Len(Queue) = finish - start
    BY <1>7
  <2>2. Append(Queue, h) \in Seq(Event) /\ Len(Append(Queue, h)) = Len(Queue) + 1
    BY <2>1
  <2>. QED  BY <1>1, <2>1, <2>2
<1>10. ASSUME NEW j \in 1..(finish + 1 - start)  PROVE Queue'[j] = Append(Queue, h)[j]
  <2>1. CASE j = finish + 1 - start
    <3>1. Append(Queue, h)[j] = h /\ start + j = finish + 1
      <4>1. Queue \in Seq(Event) /\ Len(Queue) + 1 = j
        BY <1>1, <1>7, <2>1
      <4>2. Append(Queue, h)[Len(Queue) + 1] = h
        BY <4>1
      <4>. QED  BY <1>1, <2>1, <4>1, <4>2
    <3>2. CASE dpc # "idle" /\ daddr = finish
      <4>1. j = daddr - start + 1 /\ held' = h
        BY <1>1, <2>1, <3>2
      <4>. QED  BY <1>8, <3>1, <3>2, <4>1
    <3>3. CASE dpc = "idle" \/ daddr # finish
      <4>1. Content'[j] = h
        BY <1>2, <1>8, <1>10, <3>1
      <4>2. dpc # "idle" => j # daddr - start + 1
        BY <1>1, <2>1, <3>3
      <4>. QED  BY <1>8, <1>10, <3>1, <4>1, <4>2
    <3>. QED  BY <3>2, <3>3
  <2>2. CASE j # finish + 1 - start
    <3>1. j \in 1..(finish - start) /\ start + j \in 1..finish
      BY <1>1, <1>10, <2>2
    <3>2. Append(Queue, h)[j] = Queue[j]
      BY <1>7, <3>1
    <3>3. Content'[j] = Content[j]
      BY <1>5, <1>7, <1>8, <1>10, <3>1
    <3>4. CASE dpc # "idle" /\ j = daddr - start + 1
      <4>1. daddr < finish /\ held' = held
        BY <1>1, <3>1, <3>4
      <4>. QED  BY <1>7, <1>8, <3>2, <3>4, <4>1
    <3>5. CASE dpc = "idle" \/ j # daddr - start + 1
      <4>1. Queue'[j] = Content'[j]
        BY <1>8, <1>10, <3>5
      <4>2. Queue[j] = Content[j]
        BY <1>1, <1>7, <3>1, <3>5
      <4>. QED  BY <3>2, <3>3, <4>1, <4>2
    <3>. QED  BY <3>4, <3>5
  <2>. QED  BY <2>1, <2>2
<1>11. Queue' = Append(Queue, h)
  BY <1>8, <1>9, <1>10, SeqEqual
<1>. QED  BY <1>4, <1>6, <1>11 DEF Inv

\* A pop leaves the slots alone and moves start.cur past the oldest event.
LEMMA PopStep ==
    ASSUME Inv, Pop
    PROVE  Inv' /\ Queue # <<>> /\ Queue' = Tail(Queue)
<1>1. /\ slot \in [1..DequeSlots -> Event] /\ start \in Nat /\ finish \in Nat
      /\ start <= finish /\ start # finish /\ finish <= DequeSlots /\ dpc = "idle"
  BY DEF Inv, TypeOK, Cursors, Pop
<1>2. start' = start + 1 /\ finish' = finish /\ slot' = slot /\ dpc' = "idle"
  BY DEF Pop
<1>3. TypeOK' /\ Cursors' /\ Memory'
  BY <1>1, <1>2 DEF Inv, TypeOK, Cursors, Memory, Pop
<1>4. Queue = SubSeq(slot, start + 1, finish) /\ Queue' = SubSeq(slot, start' + 1, finish)
  BY <1>1, <1>2 DEF Queue, Content
<1>5. /\ Queue \in Seq(Event) /\ Len(Queue) = finish - start
      /\ \A j \in 1..(finish - start) : Queue[j] = slot[start + j]
  BY <1>1, <1>4, SlotsBetween
<1>6. /\ Queue' \in Seq(Event) /\ Len(Queue') = finish - start'
      /\ \A j \in 1..(finish - start') : Queue'[j] = slot[start' + j]
  <2>1. start' \in Nat /\ start' <= finish
    BY <1>1, <1>2
  <2>. QED  BY <1>1, <1>4, <2>1, SlotsBetween
<1>. HIDE DEF Queue
<1>7. Queue # <<>> /\ Tail(Queue) \in Seq(Event) /\ Len(Tail(Queue)) = finish - start'
  BY <1>1, <1>2, <1>5
<1>8. ASSUME NEW j \in 1..(finish - start')  PROVE Queue'[j] = Tail(Queue)[j]
  <2>1. j + 1 \in 1..(finish - start) /\ start' + j = start + (j + 1)
    BY <1>1, <1>2, <1>8
  <2>2. Tail(Queue)[j] = Queue[j + 1]
    BY <1>5, <1>7, <2>1
  <2>. QED  BY <1>5, <1>6, <1>8, <2>1, <2>2
<1>9. Queue' = Tail(Queue)
  BY <1>6, <1>7, <1>8, SeqEqual
<1>. QED  BY <1>3, <1>7, <1>9 DEF Inv

\* The push writes finish.cur back: what the memory then holds is one of the
\* outcomes of EventQueue.
LEMMA WriteStep ==
    ASSUME Inv, LowWrite
    PROVE  Inv' /\ Queue' \in PushOutcomes(Queue, daddr - start, elem, Event)
<1>. DEFINE at == daddr - start
            n == dreg - start
            len == finish - start
            r == Queue'
<1>1. /\ slot \in [1..DequeSlots -> Event] /\ elem \in Event /\ held \in Event
      /\ start \in Nat /\ finish \in Nat /\ daddr \in Nat /\ dreg \in Nat
      /\ start <= daddr /\ daddr <= dreg /\ dreg <= finish /\ dreg < DequeSlots
      /\ finish <= DequeSlots /\ DequeSlots \in Nat /\ dpc = "write" /\ unstored = {}
  BY DequeAssumption DEF Inv, TypeOK, Cursors, LowWrite
<1>2. /\ dpc' = "idle" /\ finish' = dreg + 1 /\ slot' = slot /\ start' = start
      /\ elem' = elem /\ unstored' = unstored /\ daddr' = 0 /\ dreg' = 0 /\ held' = elem
  BY DEF LowWrite
<1>3. TypeOK' /\ Cursors' /\ Memory'
  BY <1>1, <1>2 DEF TypeOK, Cursors, Memory
<1>4. /\ r \in Seq(Event) /\ Len(r) = n + 1
      /\ \A j \in 1..(n + 1) : r[j] = slot[start + j]
  <2>1. r = SubSeq(slot, start + 1, dreg + 1)
    BY <1>2 DEF Queue, Content
  <2>2. dreg + 1 \in Nat /\ start <= dreg + 1 /\ dreg + 1 <= DequeSlots
          /\ (dreg + 1) - start = n + 1
    BY <1>1
  <2>3. /\ SubSeq(slot, start + 1, dreg + 1) \in Seq(Event)
        /\ Len(SubSeq(slot, start + 1, dreg + 1)) = (dreg + 1) - start
        /\ \A j \in 1..((dreg + 1) - start) : SubSeq(slot, start + 1, dreg + 1)[j] = slot[start + j]
    <3>. DEFINE b == dreg + 1
    <3>1. b \in Nat /\ start <= b /\ b <= DequeSlots
      BY <2>2
    <3>. HIDE DEF b
    <3>2. /\ SubSeq(slot, start + 1, b) \in Seq(Event) /\ Len(SubSeq(slot, start + 1, b)) = b - start
          /\ \A j \in 1..(b - start) : SubSeq(slot, start + 1, b)[j] = slot[start + j]
      BY <1>1, <3>1, SlotsBetween
    <3>. QED  BY <3>2 DEF b
  <2>. QED  BY <2>1, <2>2, <2>3
<1>5. /\ Content \in Seq(Event) /\ Len(Content) = len
      /\ \A j \in 1..len : Content[j] = slot[start + j]
      /\ Queue \in Seq(Event) /\ Len(Queue) = len
      /\ daddr = finish => Queue = Content
      /\ daddr < finish => /\ Queue[at + 1] = held
                           /\ \A j \in 1..len : j # at + 1 => Queue[j] = Content[j]
  BY <1>1, QueueFacts DEF Inv
<1>6. /\ at \in Nat /\ n \in Nat /\ len \in Nat /\ at <= n /\ n <= len
      /\ (at = len <=> daddr = finish) /\ (n = at <=> dreg = daddr)
      /\ at + 1 \in 1..(n + 1) /\ start + (at + 1) = daddr + 1
  BY <1>1
<1>. HIDE DEF at, n, len, r
<1>7. ASSUME at = len  PROVE r \in PushOutcomes(Queue, at, elem, Event)
  <2>1. slot[daddr + 1] = elem
    <3>1. slot[daddr + 1].evtype = elem.evtype /\ slot[daddr + 1].payload = elem.payload
      BY <1>1, <1>6, <1>7 DEF Inv, Memory
    <3>2. slot[daddr + 1] \in Event
      BY <1>1
    <3>. QED  BY <1>1, <3>1, <3>2, EventWords
  <2>2. Append(Queue, elem) \in Seq(Event) /\ Len(Append(Queue, elem)) = n + 1
    BY <1>1, <1>5, <1>6, <1>7
  <2>3. ASSUME NEW j \in 1..(n + 1)  PROVE r[j] = Append(Queue, elem)[j]
    <3>1. CASE j = n + 1
      <4>1. Append(Queue, elem)[j] = elem /\ start + j = daddr + 1
        BY <1>5, <1>6, <1>7, <3>1
      <4>. QED  BY <1>4, <2>1, <2>3, <4>1
    <3>2. CASE j # n + 1
      <4>1. j \in 1..len
        BY <1>6, <1>7, <2>3, <3>2
      <4>2. Append(Queue, elem)[j] = Queue[j]
        BY <1>5, <4>1
      <4>. QED  BY <1>4, <1>5, <1>6, <1>7, <2>3, <4>1, <4>2
    <3>. QED  BY <3>1, <3>2
  <2>4. r = Append(Queue, elem)
    BY <1>4, <2>2, <2>3, SeqEqual
  <2>. QED  BY <1>5, <1>7, <2>4 DEF PushOutcomes
<1>8. ASSUME at # len  PROVE Content \in Kept(Queue, at, elem, n)
  <2>1. /\ daddr < finish /\ at + 1 \in 1..len /\ Content[at + 1] = slot[daddr + 1]
        /\ Queue[at + 1] = held /\ \A j \in 1..len : j # at + 1 => Queue[j] = Content[j]
    BY <1>1, <1>5, <1>6, <1>8
  <2>2. CASE n = at
    <3>1. slot[daddr + 1] = held
      BY <1>1, <1>6, <2>1, <2>2 DEF Inv, Memory
    <3>2. \A j \in 1..len : Content[j] = Queue[j]
      BY <2>1, <3>1
    <3>3. Content = Queue
      BY <1>5, <3>2, SeqEqual
    <3>. QED  BY <2>2, <3>3 DEF Kept
  <2>3. CASE n # at
    <3>. DEFINE x == slot[daddr + 1]
    <3>1. x \in Torn(elem, Queue[at + 1]) /\ x \in Event
      BY <1>1, <2>1 DEF Inv, Memory
    <3>. HIDE DEF x
    <3>2. [Queue EXCEPT ![at + 1] = x] \in Seq(Event) /\ Len([Queue EXCEPT ![at + 1] = x]) = len
      BY <1>5, <2>1, <3>1
    <3>3. \A j \in 1..len : Content[j] = [Queue EXCEPT ![at + 1] = x][j]
      BY <1>5, <2>1 DEF x
    <3>4. Content = [Queue EXCEPT ![at + 1] = x]
      BY <1>5, <3>2, <3>3, SeqEqual
    <3>. QED  BY <2>3, <3>1, <3>4 DEF Kept
  <2>. QED  BY <2>2, <2>3
<1>9. ASSUME at # len, n < len  PROVE r \in PushOutcomes(Queue, at, elem, Event)
  <2>1. n \in at..(len - 1) /\ n + 1 \in 1..len
    BY <1>6, <1>9
  <2>2. /\ SubSeq(Content, 1, n + 1) \in Seq(Event) /\ Len(SubSeq(Content, 1, n + 1)) = n + 1
        /\ \A j \in 1..(n + 1) : SubSeq(Content, 1, n + 1)[j] = Content[j]
    BY <1>5, <2>1
  <2>3. \A j \in 1..(n + 1) : r[j] = SubSeq(Content, 1, n + 1)[j]
    BY <1>4, <1>5, <1>6, <2>1, <2>2
  <2>4. r = SubSeq(Content, 1, n + 1)
    BY <1>4, <2>2, <2>3, SeqEqual
  <2>5. r \in CutOff(Queue, at, elem)
    <3>1. n \in at..(Len(Queue) - 1) /\ Content \in Kept(Queue, at, elem, n)
      BY <1>5, <1>8, <1>9, <2>1
    <3>2. r \in {SubSeq(b, 1, n + 1) : b \in Kept(Queue, at, elem, n)}
      BY <2>4, <3>1
    <3>. QED  BY <3>1, <3>2 DEF CutOff
  <2>. QED  BY <1>5, <1>9, <2>5 DEF PushOutcomes
<1>10. ASSUME at # len, n = len  PROVE r \in PushOutcomes(Queue, at, elem, Event)
  <2>. DEFINE g == slot[start + len + 1]
  <2>1. start + len + 1 = dreg + 1 /\ start + len + 1 \in 1..DequeSlots
    BY <1>1, <1>10 DEF n
  <2>2. g \in Event
    BY <1>1, <2>1
  <2>3. Append(Content, g) \in Seq(Event) /\ Len(Append(Content, g)) = n + 1
    BY <1>5, <1>10, <2>2
  <2>4. ASSUME NEW j \in 1..(n + 1)  PROVE r[j] = Append(Content, g)[j]
    <3>1. CASE j = n + 1
      <4>0. Content \in Seq(Event) /\ j = Len(Content) + 1
        BY <1>5, <1>10, <3>1
      <4>1. Append(Content, g)[j] = g /\ start + j = start + len + 1
        BY <1>1, <1>6, <1>10, <2>2, <3>1, <4>0
      <4>. QED  BY <1>4, <2>4, <4>1
    <3>2. CASE j # n + 1
      <4>1. j \in 1..len /\ Append(Content, g)[j] = Content[j]
        BY <1>5, <1>6, <1>10, <2>4, <3>2
      <4>. QED  BY <1>4, <1>5, <2>4, <4>1
    <3>. QED  BY <3>1, <3>2
  <2>5. r = Append(Content, g)
    BY <1>4, <2>3, <2>4, SeqEqual
  <2>6. r \in Padded(Queue, at, elem, Event)
    BY <1>5, <1>8, <1>10, <2>2, <2>5 DEF Padded
  <2>. QED  BY <1>5, <1>10, <2>6 DEF PushOutcomes
<1>11. r \in PushOutcomes(Queue, at, elem, Event)
  BY <1>6, <1>7, <1>9, <1>10
<1>. QED  BY <1>3, <1>11 DEF Inv, at, r

\* Taking the address begins the push, loading finish.cur is inside it.
LEMMA QuietSteps ==
    ASSUME Inv, LowAddr \/ LowLoad
    PROVE  Inv' /\ Queue' = Queue /\ (LowAddr => daddr' - start' = Len(Queue))
<1>1. CASE LowAddr
  <2>1. TypeOK' /\ Cursors' /\ Memory'
    BY <1>1, DequeAssumption DEF Inv, TypeOK, Cursors, Memory, LowAddr
  <2>2. Queue' = Queue
    BY <1>1 DEF Inv, TypeOK, Queue, Content, LowAddr
  <2>3. daddr' - start' = Len(Queue)
    BY <1>1, QueueFacts DEF Inv, LowAddr
  <2>. QED  BY <2>1, <2>2, <2>3 DEF Inv
<1>2. CASE LowLoad
  <2>1. TypeOK' /\ Cursors' /\ Memory'
    BY <1>2 DEF Inv, TypeOK, Cursors, Memory, LowLoad
  <2>2. Queue' = Queue
    BY <1>2 DEF Queue, Content, LowLoad
  <2>. QED  BY <1>2, <2>1, <2>2 DEF Inv, LowLoad, LowAddr
<1>. QED  BY <1>1, <1>2

LEMMA InvStep ==
    ASSUME Inv, [DequeNext]_dequevars
    PROVE  Inv'
<1>1. CASE HighPush
  BY <1>1, HighPushStep DEF HighPush
<1>2. CASE UNCHANGED dequevars
  BY <1>2 DEF Inv, TypeOK, Cursors, Memory, dequevars
<1>. QED  BY <1>1, <1>2, StoreStep, WriteStep, PopStep, QuietSteps DEF DequeNext

-----------------------------------------------------------------------------
(* The results.                                                             *)

\* Of an event in the slots of the deque whole words survive, and only those of
\* an overtaken push mix with what overtook it: Inv is an invariant.
THEOREM DequeInvariant == DequeSpec => []Inv
<1>. QED  BY InitInv, InvStep, PTL DEF DequeSpec

\* Every step of the deque is a step of RaceQueue or leaves it alone: taking the
\* address begins the push, writing finish.cur back ends it, storing the
\* words and loading finish.cur are inside it.
LEMMA AbstractStep ==
    ASSUME Inv, [DequeNext]_dequevars
    PROVE  [Abstract!Next]_<<Queue, IF dpc = "idle" THEN "idle" ELSE "push", elem,
                             IF dpc = "idle" THEN 0 ELSE daddr - start>>
<1>1. CASE LowAddr
  <2>1. Abstract!BeginPush
    BY <1>1, QuietSteps DEF LowAddr, Abstract!BeginPush
  <2>. QED  BY <2>1 DEF Abstract!Next
<1>2. CASE LowStore
  <2>1. Queue' = Queue
    BY <1>2, StoreStep
  <2>2. dpc # "idle" /\ dpc' # "idle" /\ UNCHANGED <<elem, daddr, start>>
    BY <1>2 DEF LowStore
  <2>. QED  BY <2>1, <2>2
<1>3. CASE LowLoad
  <2>1. Queue' = Queue
    BY <1>3, QuietSteps
  <2>2. dpc # "idle" /\ dpc' # "idle" /\ UNCHANGED <<elem, daddr, start>>
    BY <1>3 DEF LowLoad
  <2>. QED  BY <2>1, <2>2
<1>4. CASE LowWrite
  <2>1. Queue' \in PushOutcomes(Queue, daddr - start, elem, Event)
    BY <1>4, WriteStep
  <2>2. PushOutcomes(Queue, daddr - start, elem, Event)
          = Abstract!PushOutcomes(Queue, daddr - start, elem, Event)
    BY DEF PushOutcomes, CutOff, Padded, Kept, Torn, Abstract!PushOutcomes,
           Abstract!CutOff, Abstract!Padded, Abstract!Kept, Abstract!Torn
  <2>3. dpc = "write" /\ dpc' = "idle" /\ elem' = elem
    BY <1>4 DEF LowWrite
  <2>4. Abstract!EndPush
    BY <2>1, <2>2, <2>3 DEF Abstract!EndPush
  <2>. QED  BY <2>4 DEF Abstract!Next
<1>5. CASE HighPush
  <2>1. \E h \in Event : Queue' = Append(Queue, h)
    BY <1>5, HighPushStep DEF HighPush
  <2>2. UNCHANGED <<dpc, elem, daddr, start>>
    BY <1>5 DEF HighPush
  <2>3. Abstract!HighPush
    BY <2>1, <2>2 DEF Abstract!HighPush
  <2>. QED  BY <2>3 DEF Abstract!Next
<1>6. CASE Pop
  <2>1. Queue # <<>> /\ Queue' = Tail(Queue)
    BY <1>6, PopStep
  <2>2. dpc = "idle" /\ dpc' = "idle" /\ elem' = elem
    BY <1>6 DEF Pop
  <2>3. Abstract!Pop
    BY <2>1, <2>2 DEF Abstract!Pop
  <2>. QED  BY <2>3 DEF Abstract!Next
<1>7. CASE UNCHANGED dequevars
  BY <1>7 DEF dequevars, Queue, Content
<1>. QED  BY <1>1, <1>2, <1>3, <1>4, <1>5, <1>6, <1>7 DEF DequeNext

\* libstdc++'s deque, its pushes interrupted anywhere inside a node by other
\* pushes, does what RaceQueue says and nothing else.
THEOREM DequeImplementsRaceQueue == DequeSpec => ImplementsRaceQueue
<1>1. DequeInit => Abstract!Init
  <2>. SUFFICES ASSUME DequeInit PROVE Abstract!Init
    OBVIOUS
  <2>1. Queue = <<>>
    <3>1. Inv /\ dpc = "idle" /\ finish - start = 0
      BY InitInv DEF DequeInit
    <3>2. Queue \in Seq(Event) /\ Len(Queue) = 0
      BY <3>1, QueueFacts DEF Inv
    <3>. QED  BY <3>2
  <2>. QED  BY <2>1 DEF DequeInit, Abstract!Init
<1>. QED  BY <1>1, AbstractStep, DequeInvariant, PTL
          DEF DequeSpec, ImplementsRaceQueue, Abstract!Spec
=============================================================================
