---------------------------- MODULE ReportProofs ---------------------------
(***************************************************************************)
(* What the host is told is what is the case: the status stream shows the  *)
(* stored values for every layout, every set of values and every choice of *)
(* items the interrupt stores, the reported state of the auxiliary outputs *)
(* is that of their pins, and the console shows the lines that were        *)
(* logged.                                                                 *)
(***************************************************************************)
EXTENDS Status, Monitor, Logger, CommonProofs, SequenceTheorems, FiniteSetTheorems

(* The auxiliary outputs: the two properties and the types are inductive.   *)

MonTypeOK ==
    /\ pin \in [drum : {0, 1}, vac : {0, 1}, dir : {0, 1}]
    /\ flag \in [drum : BOOLEAN, vac : BOOLEAN, dir : BOOLEAN]
    /\ drum \in BOOLEAN /\ stopped \in BOOLEAN

MonInv == MonTypeOK /\ OutputsAsReported

\* The monitor starts with them.
LEMMA MonInitInv == MonInit => MonInv
<1>. SUFFICES ASSUME MonInit  PROVE MonInv
  OBVIOUS
<1>1. Level(TRUE) = 0
  BY DEF Level
<1>2. /\ pin = [drum |-> 0, vac |-> 0, dir |-> 0]
      /\ flag = [drum |-> FALSE, vac |-> TRUE, dir |-> TRUE]
      /\ drum = FALSE /\ stopped = FALSE
      /\ speed = 0 /\ wg20pwm = 0 /\ wgduty = 0
  BY <1>1 DEF MonInit
<1>. QED  BY <1>1, <1>2 DEF MonInv, MonTypeOK, OutputsAsReported

\* A level is a bit.
LEMMA LevelType == \A on \in BOOLEAN : Level(on) \in {0, 1}
BY DEF Level

\* Every step of the monitor keeps them.
LEMMA MonInvStep ==
    ASSUME MonInv, [MonNext]_monvars
    PROVE  MonInv'
<1>. USE DEF MonInv
<1>0. Arg \in BOOLEAN /\ AnyArg \in BOOLEAN
  BY DEF Arg, AnyArg
<1>1. CASE MonDeliver \/ MonUnknown \/ UNCHANGED monvars
  BY <1>1 DEF MonDeliver, MonUnknown, monvars, MonTypeOK, OutputsAsReported
<1>2. CASE SetVac
  BY <1>0, <1>2, LevelType DEF SetVac, MonTypeOK, OutputsAsReported
<1>3. CASE SetDir
  BY <1>0, <1>3, LevelType DEF SetDir, MonTypeOK, OutputsAsReported
<1>4. CASE SetVel
  <2>1. wgduty' = speed' \/ speed' > FullDuty
    BY <1>4 DEF SetVel, DutyOf
  <2>. QED  BY <1>0, <1>4, <2>1, LevelType DEF SetVel, MonTypeOK, OutputsAsReported
<1>5. CASE SetDrum
  <2>1. Toggled \in {0, 1}
    BY DEF Toggled, MonTypeOK
  <2>. QED  BY <1>0, <1>5, <2>1 DEF SetDrum, MonTypeOK, OutputsAsReported
<1>6. CASE Reset
  <2>1. Toggled \in {0, 1}
    BY DEF Toggled, MonTypeOK
  <2>. QED  BY <1>6, <2>1, LevelType DEF Reset, MonTypeOK, OutputsAsReported
<1>. QED  BY <1>1, <1>2, <1>3, <1>4, <1>5, <1>6 DEF MonNext

\* MonInv is an invariant of the driver of the auxiliary outputs.
THEOREM MonitorInvariant == MonSpec => []MonInv
<1>. QED  BY MonInitInv, MonInvStep, PTL DEF MonSpec

\* Vacuum, direction and speed of the WG20 are what the status reports, whatever
\* setVaccum, setWg20Cw and setWG20Vel were asked for, but for the speed after
\* MON_RESET and for a reported speed above 100, which is not applied.
THEOREM OutputsReported == MonSpec => []OutputsAsReported
<1>. QED  BY MonitorInvariant, PTL DEF MonInv

-----------------------------------------------------------------------------
(* The layout of the stream: every item has its own characters.             *)

Span(item) == IF item[1] = "flag"
                THEN {FlagAt(item[2]), FlagAt(item[2]) + 1}
                ELSE (item[2] * Width)..(item[2] * Width + Width - 1)

\* A slot ends before a later one begins.
LEMMA Multiples ==
    ASSUME NEW m \in Nat, NEW n \in Nat, NEW w \in Nat, m < n
    PROVE  m * w \in Nat /\ m * w + w <= n * w
<1>1. PICK d \in Nat : n = m + 1 + d
  <2>1. n - m - 1 \in Nat /\ n = m + 1 + (n - m - 1)
    OBVIOUS
  <2>. QED  BY <2>1
<1>2. n * w = m * w + w + d * w
  BY <1>1
<1>3. d * w >= 0 /\ m * w \in Nat
  OBVIOUS
<1>. QED  BY <1>2, <1>3

\* A place has one slot and one offset in it.
LEMMA Quotient ==
    ASSUME NEW n \in Nat, NEW w \in Nat, NEW i \in Nat, i < w
    PROVE  (n * w + i) \div w = n
<1>. DEFINE q == (n * w + i) \div w
<1>1. n * w + i \in Nat /\ w > 0 /\ n * w \in Nat
  OBVIOUS
<1>2. q \in Nat /\ q * w <= n * w + i /\ n * w + i < q * w + w
  BY <1>1
<1>. HIDE DEF q
<1>3. ~(q < n)
  BY <1>1, <1>2, Multiples
<1>4. ~(n < q)
  BY <1>1, <1>2, Multiples
<1>. QED  BY <1>2, <1>3, <1>4 DEF q

\* An item is a slot or a flag.
LEMMA ItemIs ==
    ASSUME NEW item \in Item
    PROVE  /\ item = <<item[1], item[2]>> /\ item[2] \in Nat
           /\ \/ item[1] = "slot" /\ item[2] < Slots
              \/ item[1] = "flag" /\ item[2] < Flags
BY StatusAssumption DEF Item

\* None is not an item.
LEMMA NoneIsNoItem == None \notin Item
BY DEF None, Item

\* The fields of the slots end where the flags begin.
LEMMA SlotEnds ==
    ASSUME NEW n \in Nat, n < Slots
    PROVE  n * Width \in Nat /\ n * Width + Width <= Slots * Width /\ Slots * Width \in Nat
<1>1. Slots \in Nat /\ Width \in Nat
  BY StatusAssumption
<1>2. n * Width \in Nat /\ n * Width + Width <= Slots * Width
  BY <1>1, Multiples
<1>3. Slots * Width \in Nat
  BY <1>1
<1>. QED  BY <1>2, <1>3

\* The characters of an item are in the stream.
LEMMA SpanInCells ==
    ASSUME NEW item \in Item
    PROVE  Span(item) \subseteq Cells /\ Span(item) # {}
<1>. DEFINE n == item[2]
<1>1. /\ Slots \in Nat /\ Flags \in Nat /\ Width \in Nat /\ Width > 2 /\ n \in Nat
      /\ Slots * Width \in Nat
  BY StatusAssumption, ItemIs
<1>2. CASE item[1] = "slot"
  <2>1. n < Slots
    BY <1>2, ItemIs
  <2>2. n * Width \in Nat /\ n * Width + Width <= Slots * Width
    BY <1>1, <2>1, SlotEnds
  <2>. HIDE DEF n
  <2>3. (n * Width)..(n * Width + Width - 1) \subseteq Cells
    BY <1>1, <2>2 DEF Cells
  <2>4. n * Width \in (n * Width)..(n * Width + Width - 1)
    BY <1>1, <2>2
  <2>. QED  BY <1>2, <2>3, <2>4 DEF Span, n
<1>3. CASE item[1] = "flag"
  <2>1. n < Flags
    BY <1>3, ItemIs
  <2>. HIDE DEF n
  <2>2. FlagAt(n) \in Cells /\ FlagAt(n) + 1 \in Cells
    BY <1>1, <2>1 DEF FlagAt, Cells
  <2>. QED  BY <1>3, <2>2 DEF Span, n
<1>. QED  BY <1>2, <1>3, ItemIs

\* ItemAt finds the item of a character: no character belongs to two.
LEMMA ItemAtSpan ==
    ASSUME NEW item \in Item, NEW c \in Span(item)
    PROVE  ItemAt(c) = item
<1>. DEFINE n == item[2]
<1>1. /\ Slots \in Nat /\ Flags \in Nat /\ Width \in Nat /\ Width > 2 /\ n \in Nat
      /\ Slots * Width \in Nat
  BY StatusAssumption, ItemIs
<1>2. CASE item[1] = "slot"
  <2>1. n < Slots
    BY <1>2, ItemIs
  <2>2. n * Width \in Nat /\ n * Width + Width <= Slots * Width
    BY <1>1, <2>1, SlotEnds
  <2>3. c \in (n * Width)..(n * Width + Width - 1)
    BY <1>2 DEF Span
  <2>. HIDE DEF n
  <2>4. PICK i \in Nat : i < Width /\ c = n * Width + i
    <3>1. c - n * Width \in Nat /\ c - n * Width < Width /\ c = n * Width + (c - n * Width)
      BY <1>1, <2>2, <2>3
    <3>. QED  BY <3>1
  <2>5. c \div Width = n
    BY <1>1, <2>4, Quotient
  <2>6. c < Slots * Width
    BY <1>1, <2>2, <2>3
  <2>7. ItemAt(c) = <<"slot", n>>
    BY <2>5, <2>6 DEF ItemAt
  <2>. QED  BY <1>2, <2>7, ItemIs DEF n
<1>3. CASE item[1] = "flag"
  <2>1. c \in {FlagAt(n), FlagAt(n) + 1}
    BY <1>3 DEF Span
  <2>. HIDE DEF n
  <2>2. ~(c < Slots * Width) /\ (c - Slots * Width) \div 2 = n
    BY <1>1, <2>1 DEF FlagAt
  <2>3. ItemAt(c) = <<"flag", n>>
    BY <2>2 DEF ItemAt
  <2>. QED  BY <1>3, <2>3, ItemIs DEF n
<1>. QED  BY <1>2, <1>3, ItemIs

\* No two items share a character.
LEMMA SpansApart ==
    ASSUME NEW a \in Item, NEW b \in Item, NEW c \in Span(a), c \in Span(b)
    PROVE  a = b
BY ItemAtSpan

\* An item is written where its span is.
LEMMA WritesSpan ==
    ASSUME NEW item \in Item, NEW v
    PROVE  DOMAIN Writes(item, v) = Span(item)
BY DEF Writes, FlagWrites, SlotWrites, Span

\* A text shows an item if it has the characters a store of the value writes.
LEMMA ShowsIs ==
    ASSUME NEW item \in Item, NEW s
    PROVE  Shows(s, item) <=>
             \A c \in Span(item) : c \in DOMAIN s /\ s[c] = Writes(item, stored[item])[c]
<1>. DEFINE n == item[2]
            v == stored[item]
<1>1. n \in Nat /\ Width \in Nat /\ Slots * Width \in Nat
  BY StatusAssumption, ItemIs
<1>2. CASE item[1] = "flag"
  <2>1. FlagAt(n) # FlagAt(n) + 1
    BY <1>1 DEF FlagAt
  <2>2. Writes(item, v)[FlagAt(n)] = Bit(v) /\ Writes(item, v)[FlagAt(n) + 1] = Ends(n)
    BY <1>2, <2>1 DEF Writes, FlagWrites, Ends
  <2>3. Span(item) = {FlagAt(n), FlagAt(n) + 1}
    BY <1>2 DEF Span
  <2>. QED  BY <1>2, <2>2, <2>3 DEF Shows
<1>3. CASE item[1] = "slot"
  <2>0. n * Width \in Nat
    BY <1>1
  <2>1. Span(item) = (n * Width)..(n * Width + Width - 1)
    BY <1>3 DEF Span
  <2>2. \A c \in Span(item) : Writes(item, v)[c] = Text(v, c - n * Width)
    BY <1>3, <2>1 DEF Writes, SlotWrites
  <2>3. Shows(s, item) <=> \A i \in 0..(Width - 1) :
                             n * Width + i \in DOMAIN s /\ s[n * Width + i] = Text(v, i)
    BY <1>3 DEF Shows
  <2>. HIDE DEF n, v
  <2>4. ASSUME NEW c \in Span(item)
        PROVE  c - n * Width \in 0..(Width - 1) /\ c = n * Width + (c - n * Width)
    BY <1>1, <2>0, <2>1
  <2>5. ASSUME NEW i \in 0..(Width - 1)
        PROVE  n * Width + i \in Span(item) /\ (n * Width + i) - n * Width = i
    BY <1>1, <2>0, <2>1
  <2>6. ASSUME Shows(s, item), NEW c \in Span(item)
        PROVE  c \in DOMAIN s /\ s[c] = Writes(item, v)[c]
    BY <2>2, <2>3, <2>4, <2>6
  <2>7. ASSUME \A c \in Span(item) : c \in DOMAIN s /\ s[c] = Writes(item, v)[c]
        PROVE  Shows(s, item)
    <3>1. ASSUME NEW i \in 0..(Width - 1)
          PROVE  n * Width + i \in DOMAIN s /\ s[n * Width + i] = Text(v, i)
      BY <2>2, <2>5, <2>7
    <3>. QED  BY <2>3, <3>1
  <2>. QED  BY <2>6, <2>7 DEF v
<1>. QED  BY <1>2, <1>3, ItemIs

\* The stream is an interval.
LEMMA CellsEnd == Cells = 0..((Slots * Width + 2 * Flags) - 1)
<1>1. Slots * Width \in Nat /\ Flags \in Nat
  BY StatusAssumption
<1>2. \A x, y \in Nat : x + (2 * y - 1) = (x + 2 * y) - 1
  OBVIOUS
<1>3. Slots * Width + (2 * Flags - 1) = (Slots * Width + 2 * Flags) - 1
  BY <1>1, <1>2
<1>. QED  BY <1>3 DEF Cells

\* So is a span.
LEMMA SpanInterval ==
    ASSUME NEW item \in Item
    PROVE  \E a, b \in Nat : a <= b /\ Span(item) = a..b
<1>. DEFINE n == item[2]
<1>1. n \in Nat /\ Width \in Nat /\ Width > 2 /\ Slots * Width \in Nat /\ n * Width \in Nat
  BY StatusAssumption, ItemIs
<1>2. CASE item[1] = "flag"
  <2>. HIDE DEF n
  <2>1. {FlagAt(n), FlagAt(n) + 1} = FlagAt(n)..(FlagAt(n) + 1) /\ FlagAt(n) \in Nat
    BY <1>1 DEF FlagAt
  <2>. QED  BY <1>2, <2>1 DEF Span, n
<1>3. CASE item[1] = "slot"
  <2>1. n * Width <= n * Width + Width - 1 /\ n * Width + Width - 1 \in Nat
    BY <1>1
  <2>. QED  BY <1>1, <1>3, <2>1 DEF Span
<1>. QED  BY <1>2, <1>3, ItemIs

-----------------------------------------------------------------------------
(* The inductive invariant of the status stream.                            *)

Fits(item, v) == v \in (IF item[1] = "flag" THEN {0, 1} ELSE Number)

\* What a store of the stored value of an item writes.
Current(item) == Writes(item, stored[item])

StatusTypes ==
    /\ stored \in [Item -> Number \cup {0, 1}] /\ \A item \in Item : Fits(item, stored[item])
    /\ stream \in [Cells -> Char]
    /\ storing \in Item \cup {None}
    /\ epc \in {"off", "copy", "sent"} /\ pos \in Nat
    /\ clash \subseteq Item /\ touched \subseteq Item

StreamRight ==
    \A item \in Item \ (clash \cup {storing}) :
        \A c \in Span(item) : stream[c] = Current(item)[c]

\* The main loop writes the rest of its item from left to right; unless the
\* interrupt stored the same item, the rest and what it has already written are
\* the characters of the stored value.
Progress ==
    /\ storing = None => DOMAIN todo = {}
    /\ \A c \in DOMAIN todo : todo[c] \in Char
    /\ storing # None =>
         /\ \E a, b \in Nat : a <= b /\ DOMAIN todo = a..b
         /\ DOMAIN todo \subseteq Span(storing)
         /\ storing \notin clash =>
              \A c \in Span(storing) :
                 (IF c \in DOMAIN todo THEN todo[c] ELSE stream[c]) = Current(storing)[c]

\* What has been copied of an item that was not touched meanwhile is right, and
\* whatever is not in order in the stream counts as touched.
Copying ==
    /\ epc = "off" => pos = 0
    /\ epc = "copy" => pos \in Cells
    /\ epc = "sent" => pos = Slots * Width + 2 * Flags
    /\ DOMAIN report = 0..(pos - 1) /\ \A c \in DOMAIN report : report[c] \in Char
    /\ epc # "off" => clash \cup ({storing} \ {None}) \subseteq touched
    /\ \A item \in Item \ touched :
         \A c \in Span(item) : c < pos => report[c] = Current(item)[c]

StatusInv == StatusTypes /\ StreamRight /\ Progress /\ Copying

-----------------------------------------------------------------------------
(* Characters and values have their types.                                  *)

\* What sprintf makes of a number.
LEMMA TextIsChar ==
    ASSUME NEW v \in Number, NEW i \in 0..(Width - 1)
    PROVE  Text(v, i) \in Char
<1>1. Width \in Nat /\ Width > 2 /\ v \in Int
  <2>1. ASSUME NEW n \in 0..(Slots - 1)  PROVE InitVal(<<"slot", n>>) \in Int
    <3>1. n \in Int /\ n * 80 + n \div 3 \in Int
      OBVIOUS
    <3>2. InitVal(<<"slot", n>>) = n * 80 + n \div 3
      BY DEF InitVal
    <3>. QED  BY <3>1, <3>2
  <2>2. v \in Int
    BY <2>1, StatusAssumption DEF Number
  <2>. QED  BY <2>2, StatusAssumption
<1>. DEFINE d == IF v < 0 THEN i - 1 ELSE i
<1>2. d \in Int /\ d <= Width - 1
  BY <1>1
<1>3. Text(v, i) = IF d < 0 THEN Sign ELSE IF d < Width - 1 THEN Digit(Size(v), d) ELSE Comma
  BY DEF Text
<1>. HIDE DEF d
<1>4. CASE d \in 0..(Width - 2)
  <2>1. Digit(Size(v), d) \in Char
    BY <1>4 DEF Char
  <2>. QED  BY <1>1, <1>3, <1>4, <2>1
<1>5. CASE d \notin 0..(Width - 2)
  <2>1. Text(v, i) \in {Sign, Comma}
    BY <1>1, <1>2, <1>3, <1>5
  <2>. QED  BY <2>1 DEF Char
<1>. QED  BY <1>4, <1>5

\* What is written are characters.
LEMMA WritesChars ==
    ASSUME NEW item \in Item, NEW v, Fits(item, v), NEW c \in Span(item)
    PROVE  Writes(item, v)[c] \in Char
<1>. DEFINE n == item[2]
<1>1. n \in Nat /\ Width \in Nat /\ n * Width \in Nat
  BY StatusAssumption, ItemIs
<1>2. CASE item[1] = "flag"
  <2>1. v \in {0, 1} /\ c \in {FlagAt(n), FlagAt(n) + 1}
    BY <1>2 DEF Fits, Span
  <2>2. Writes(item, v)[c] \in {Bit(v), Nul, Comma}
    BY <1>2, <2>1 DEF Writes, FlagWrites
  <2>. QED  BY <2>1, <2>2 DEF Char
<1>3. CASE item[1] = "slot"
  <2>1. v \in Number /\ c \in (n * Width)..(n * Width + Width - 1)
    BY <1>3 DEF Fits, Span
  <2>2. Writes(item, v)[c] = Text(v, c - n * Width)
    BY <1>3, <2>1 DEF Writes, SlotWrites
  <2>. HIDE DEF n
  <2>3. c - n * Width \in 0..(Width - 1)
    BY <1>1, <2>1
  <2>. QED  BY <2>1, <2>2, <2>3, TextIsChar
<1>. QED  BY <1>2, <1>3, ItemIs

\* The values both contexts store fit their items.
LEMMA ValuesFit ==
    ASSUME NEW item \in Item, NEW v
    PROVE  /\ v \in ValuesOf(item, MainValues) => Fits(item, v)
           /\ v \in ValuesOf(item, PitValues) => Fits(item, v)
           /\ Fits(item, v) => v \in Number \cup {0, 1}
           /\ Fits(item, InitVal(item))
<1>1. item[1] = "slot" => InitVal(item) \in Number
  <2>1. SUFFICES ASSUME item[1] = "slot"  PROVE InitVal(item) \in Number
    OBVIOUS
  <2>2. item = <<"slot", item[2]>> /\ item[2] \in 0..(Slots - 1)
    BY <2>1, StatusAssumption DEF Item
  <2>. QED  BY <2>2 DEF Number
<1>. QED  BY <1>1, ItemIs DEF ValuesOf, Fits, Number, InitVal

-----------------------------------------------------------------------------
(* Every step keeps the invariant.                                          *)

\* initStatus writes every item.
LEMMA StatusInit == Init => StatusInv
<1>. SUFFICES ASSUME Init  PROVE StatusInv
  OBVIOUS
<1>1. /\ stored = [item \in Item |-> InitVal(item)] /\ storing = None /\ todo = Nothing
      /\ stream = [c \in Cells |-> Writes(ItemAt(c), InitVal(ItemAt(c)))[c]]
      /\ epc = "off" /\ pos = 0 /\ report = Nothing /\ clash = {} /\ touched = {}
  BY DEF Init
<1>2. ASSUME NEW item \in Item, NEW c \in Span(item)
      PROVE  stream[c] = Current(item)[c]
  <2>1. ItemAt(c) = item /\ c \in Cells
    BY ItemAtSpan, SpanInCells
  <2>. QED  BY <1>1, <2>1 DEF Current
<1>3. \A c \in Cells : ItemAt(c) \in Item /\ c \in Span(ItemAt(c))
  <2>1. SUFFICES ASSUME NEW c \in Cells  PROVE ItemAt(c) \in Item /\ c \in Span(ItemAt(c))
    OBVIOUS
  <2>2. Slots \in Nat /\ Width \in Nat /\ Width > 2 /\ Flags \in Nat /\ Slots * Width \in Nat
        /\ c \in Nat
    BY StatusAssumption DEF Cells
  <2>3. CASE c < Slots * Width
    <3>. DEFINE q == c \div Width
    <3>1. q \in Nat /\ q * Width <= c /\ c < q * Width + Width
      BY <2>2
    <3>2. ItemAt(c) = <<"slot", q>>
      BY <2>3 DEF ItemAt
    <3>. HIDE DEF q
    <3>3. q < Slots
      <4>1. q = Slots \/ Slots < q => Slots * Width <= q * Width
        BY <2>2, <3>1, Multiples
      <4>2. q * Width \in Nat
        BY <2>2, <3>1
      <4>. QED  BY <2>2, <2>3, <3>1, <4>1, <4>2
    <3>4. <<"slot", q>> \in Item
      BY <2>2, <3>1, <3>3 DEF Item
    <3>5. c \in (q * Width)..(q * Width + Width - 1)
      BY <2>2, <3>1
    <3>. QED  BY <3>2, <3>4, <3>5 DEF Span
  <2>4. CASE ~(c < Slots * Width)
    <3>. DEFINE q == (c - Slots * Width) \div 2
    <3>1. q \in 0..(Flags - 1) /\ c \in {Slots * Width + 2 * q, Slots * Width + 2 * q + 1}
      <4>. DEFINE k == c - Slots * Width
      <4>1. k \in Nat /\ k < 2 * Flags /\ c = Slots * Width + k
        BY <2>2, <2>4 DEF Cells
      <4>. HIDE DEF k
      <4>2. k \div 2 \in 0..(Flags - 1) /\ k \in {2 * (k \div 2), 2 * (k \div 2) + 1}
        BY <2>2, <4>1
      <4>. QED  BY <2>2, <4>1, <4>2 DEF k
    <3>2. ItemAt(c) = <<"flag", q>>
      BY <2>4 DEF ItemAt
    <3>. HIDE DEF q
    <3>3. <<"flag", q>> \in Item
      BY <3>1 DEF Item
    <3>. QED  BY <3>1, <3>2, <3>3 DEF Span, FlagAt
  <2>. QED  BY <2>3, <2>4
<1>4. stream \in [Cells -> Char]
  BY <1>1, <1>3, WritesChars, ValuesFit
<1>5. StatusTypes
  BY <1>1, <1>4, ValuesFit DEF StatusTypes
<1>6. StreamRight
  BY <1>2 DEF StreamRight
<1>7. DOMAIN Nothing = {}
  BY DEF Nothing
<1>8. Progress
  BY <1>1, <1>7 DEF Progress
<1>9. Copying
  <2>1. 0..(0 - 1) = {}
    OBVIOUS
  <2>2. \A item \in Item : \A c \in Span(item) : ~(c < 0)
    BY SpanInCells DEF Cells
  <2>. QED  BY <1>1, <1>7, <2>1, <2>2 DEF Copying
<1>. QED  BY <1>5, <1>6, <1>8, <1>9 DEF StatusInv

\* The main loop begins to store an item.
LEMMA StoreStep ==
    ASSUME StatusInv, Store
    PROVE  StatusInv'
<1>0. PICK item \in Item : \E v \in ValuesOf(item, MainValues) :
         /\ stored' = [stored EXCEPT ![item] = v] /\ storing' = item
         /\ todo' = Writes(item, v) /\ clash' = clash \ {item}
  BY DEF Store
<1>1. PICK v \in ValuesOf(item, MainValues) :
         /\ stored' = [stored EXCEPT ![item] = v] /\ storing' = item
         /\ todo' = Writes(item, v) /\ clash' = clash \ {item}
  BY <1>0
<1>2. /\ epc = "off" /\ storing = None /\ stream' = stream /\ epc' = epc /\ pos' = pos
      /\ report' = report /\ touched' = touched
  BY DEF Store
<1>3. /\ stored \in [Item -> Number \cup {0, 1}] /\ \A i \in Item : Fits(i, stored[i])
      /\ stream \in [Cells -> Char] /\ clash \subseteq Item
  BY DEF StatusInv, StatusTypes
<1>4. Fits(item, v) /\ v \in Number \cup {0, 1}
  BY ValuesFit
<1>5. stored'[item] = v /\ \A i \in Item : i # item => stored'[i] = stored[i]
  BY <1>1, <1>3
<1>6. StatusTypes'
  <2>1. stored' \in [Item -> Number \cup {0, 1}]
    BY <1>1, <1>3, <1>4
  <2>2. \A i \in Item : Fits(i, stored'[i])
    BY <1>3, <1>4, <1>5
  <2>. QED  BY <1>1, <1>2, <2>1, <2>2 DEF StatusInv, StatusTypes
<1>7. StreamRight'
  <2>1. ASSUME NEW i \in Item \ (clash' \cup {storing'}), NEW c \in Span(i)
        PROVE  stream'[c] = Writes(i, stored'[i])[c]
    <3>1. i # item /\ i \notin clash /\ i # storing
      BY <1>1, <1>2, NoneIsNoItem
    <3>. QED  BY <1>2, <1>5, <3>1 DEF StatusInv, StreamRight, Current
  <2>. QED  BY <2>1 DEF StreamRight, Current
<1>8. Progress'
  <2>1. DOMAIN todo' = Span(item)
    BY <1>1, WritesSpan
  <2>2. \A c \in DOMAIN todo' : todo'[c] \in Char
    BY <1>1, <1>4, <2>1, WritesChars
  <2>3. \E a, b \in Nat : a <= b /\ DOMAIN todo' = a..b
    BY <2>1, SpanInterval
  <2>4. storing' # None
    BY <1>1, NoneIsNoItem
  <2>5. \A c \in Span(storing') : todo'[c] = Writes(storing', stored'[storing'])[c]
    BY <1>1, <1>5
  <2>. QED  BY <1>1, <2>1, <2>2, <2>3, <2>4, <2>5 DEF Progress, Current
<1>9. Copying'
  <2>1. pos = 0
    BY <1>2 DEF StatusInv, Copying
  <2>2. \A i \in Item : \A c \in Span(i) : ~(c < 0)
    BY SpanInCells DEF Cells
  <2>. QED  BY <1>2, <2>1, <2>2 DEF StatusInv, Copying
<1>. QED  BY <1>6, <1>7, <1>8, <1>9 DEF StatusInv

\* The main loop writes a character of the item it stores.
LEMMA WriteCharStep ==
    ASSUME StatusInv, WriteChar
    PROVE  StatusInv'
<1>. DEFINE m == Min(DOMAIN todo)
<1>1. /\ epc = "off" /\ DOMAIN todo # {} /\ stream' = [stream EXCEPT ![m] = todo[m]]
      /\ todo' = [x \in DOMAIN todo \ {m} |-> todo[x]]
      /\ storing' = IF DOMAIN todo = {m} THEN None ELSE storing
      /\ stored' = stored /\ epc' = epc /\ pos' = pos /\ report' = report /\ clash' = clash
      /\ touched' = touched
  BY DEF WriteChar
<1>2. storing \in Item /\ storing # None /\ DOMAIN todo \subseteq Span(storing)
  BY <1>1 DEF StatusInv, StatusTypes, Progress
<1>3. PICK a \in Nat, b \in Nat : a <= b /\ DOMAIN todo = a..b
  BY <1>2 DEF StatusInv, Progress
<1>4. m = a
  <2>1. a \in DOMAIN todo /\ \A y \in DOMAIN todo : a <= y
    BY <1>3
  <2>2. m \in DOMAIN todo /\ \A y \in DOMAIN todo : m <= y
    BY <2>1 DEF Min
  <2>. QED  BY <1>3, <2>1, <2>2
<1>. HIDE DEF m
<1>5. /\ m \in DOMAIN todo /\ m \in Span(storing) /\ m \in Cells /\ todo[m] \in Char
      /\ stream \in [Cells -> Char]
  <2>1. m \in DOMAIN todo
    BY <1>3, <1>4
  <2>. QED  BY <1>2, <2>1, SpanInCells DEF StatusInv, Progress, StatusTypes
<1>6. stream'[m] = todo[m] /\ \A c \in Cells : c # m => stream'[c] = stream[c]
  BY <1>1, <1>5
<1>7. StatusTypes'
  <2>1. stream' \in [Cells -> Char]
    BY <1>1, <1>5
  <2>2. storing' \in Item \cup {None}
    BY <1>1, <1>2
  <2>. QED  BY <1>1, <2>1, <2>2 DEF StatusInv, StatusTypes
<1>8. ASSUME storing \notin clash, NEW c \in Span(storing)
      PROVE  (IF c \in DOMAIN todo \ {m} THEN todo[c] ELSE stream'[c])
               = Writes(storing, stored[storing])[c]
  <2>1. (IF c \in DOMAIN todo THEN todo[c] ELSE stream[c]) = Writes(storing, stored[storing])[c]
    BY <1>2, <1>8 DEF StatusInv, Progress, Current
  <2>2. c \in Cells
    BY <1>2, SpanInCells
  <2>. QED  BY <1>5, <1>6, <2>1, <2>2
<1>9. StreamRight'
  <2>1. ASSUME NEW i \in Item \ (clash' \cup {storing'}), NEW c \in Span(i)
        PROVE  stream'[c] = Writes(i, stored'[i])[c]
    <3>1. CASE i = storing
      <4>1. DOMAIN todo = {m}
        BY <1>1, <3>1
      <4>. QED  BY <1>1, <1>8, <3>1, <4>1
    <3>2. CASE i # storing
      <4>1. c # m /\ c \in Cells
        BY <1>2, <1>5, <3>2, SpansApart, SpanInCells
      <4>2. stream[c] = Writes(i, stored[i])[c]
        BY <1>1, <3>2 DEF StatusInv, StreamRight, Current
      <4>. QED  BY <1>1, <1>6, <4>1, <4>2
    <3>. QED  BY <3>1, <3>2
  <2>. QED  BY <2>1 DEF StreamRight, Current
<1>10. Progress'
  <2>1. DOMAIN todo' = DOMAIN todo \ {m} /\ \A c \in DOMAIN todo' : todo'[c] = todo[c]
    BY <1>1
  <2>2. \A c \in DOMAIN todo' : todo'[c] \in Char
    BY <2>1 DEF StatusInv, Progress
  <2>3. CASE DOMAIN todo = {m}
    BY <1>1, <2>1, <2>2, <2>3 DEF Progress
  <2>4. CASE DOMAIN todo # {m}
    <3>1. storing' = storing
      BY <1>1, <2>4
    <3>2. \E x, y \in Nat : x <= y /\ DOMAIN todo' = x..y
      <4>1. a # b
        BY <1>3, <1>4, <2>4
      <4>2. a + 1 \in Nat /\ a + 1 <= b /\ DOMAIN todo' = (a + 1)..b
        BY <1>3, <1>4, <2>1, <4>1
      <4>. QED  BY <4>2
    <3>3. storing \notin clash => \A c \in Span(storing) :
             (IF c \in DOMAIN todo' THEN todo'[c] ELSE stream'[c])
               = Writes(storing, stored[storing])[c]
      BY <1>8, <2>1
    <3>4. DOMAIN todo' \subseteq Span(storing)
      BY <1>2, <2>1
    <3>. QED  BY <1>1, <1>2, <2>2, <3>1, <3>2, <3>3, <3>4 DEF Progress, Current
  <2>. QED  BY <2>3, <2>4
<1>11. Copying'
  BY <1>1 DEF StatusInv, Copying, Current
<1>. QED  BY <1>7, <1>9, <1>10, <1>11 DEF StatusInv

\* The ENET interrupt takes the request, copies a character, has sent the answer.
LEMMA AnswerSteps ==
    ASSUME StatusInv, Request \/ CopyChar \/ Return
    PROVE  StatusInv'
<1>1. /\ stored' = stored /\ stream' = stream /\ storing' = storing /\ todo' = todo
      /\ clash' = clash
  BY DEF Request, CopyChar, Return
<1>2. StreamRight' /\ Progress'
  BY <1>1 DEF StatusInv, StreamRight, Progress, Current
<1>3. \A i \in Item : \A c \in Span(i) : c \in Cells /\ c \in Nat
  BY SpanInCells DEF Cells
<1>4. CASE Request
  <2>1. StatusTypes'
    BY <1>1, <1>4 DEF Request, StatusInv, StatusTypes
  <2>2. pos = 0 /\ pos' = 0 /\ report' = report /\ epc' = "copy"
    BY <1>4 DEF Request, StatusInv, Copying
  <2>3. 0 \in Cells
    <3>1. Slots \in Nat \ {0} /\ Width \in Nat \ {0} /\ Flags \in Nat \ {0}
          /\ Slots * Width \in Nat
      BY StatusAssumption
    <3>. QED  BY <3>1 DEF Cells
  <2>4. clash' \cup ({storing'} \ {None}) \subseteq touched'
    BY <1>1, <1>4 DEF Request
  <2>5. DOMAIN report' = 0..(pos' - 1) /\ \A c \in DOMAIN report' : report'[c] \in Char
    BY <2>2 DEF StatusInv, Copying
  <2>6. \A i \in Item : \A c \in Span(i) : ~(c < 0)
    BY <1>3
  <2>7. Copying'
    BY <2>2, <2>3, <2>4, <2>5, <2>6 DEF Copying
  <2>. QED  BY <1>2, <2>1, <2>7 DEF StatusInv
<1>5. CASE Return
  <2>1. StatusTypes'
    BY <1>1, <1>5 DEF Return, StatusInv, StatusTypes
  <2>2. pos' = 0 /\ report' = Nothing /\ epc' = "off" /\ DOMAIN Nothing = {}
    BY <1>5 DEF Return, Nothing
  <2>3. 0..(0 - 1) = {} /\ \A i \in Item : \A c \in Span(i) : ~(c < 0)
    BY <1>3
  <2>4. Copying'
    BY <2>2, <2>3 DEF Copying
  <2>. QED  BY <1>2, <2>1, <2>4 DEF StatusInv
<1>6. CASE CopyChar
  <2>1. /\ epc = "copy" /\ pos' = pos + 1 /\ touched' = touched
        /\ report' = [c \in 0..pos |-> IF c = pos THEN stream[c] ELSE report[c]]
        /\ epc' = IF pos + 1 \in Cells THEN "copy" ELSE "sent"
    BY <1>6 DEF CopyChar
  <2>2. /\ pos \in Cells /\ pos \in Nat /\ DOMAIN report = 0..(pos - 1)
        /\ clash \cup ({storing} \ {None}) \subseteq touched
        /\ \A c \in DOMAIN report : report[c] \in Char
        /\ stream \in [Cells -> Char]
    BY <2>1 DEF StatusInv, Copying, StatusTypes
  <2>3. StatusTypes'
    BY <1>1, <2>1, <2>2 DEF StatusInv, StatusTypes
  <2>4. /\ DOMAIN report' = 0..(pos' - 1) /\ report'[pos] = stream[pos]
        /\ \A c \in 0..(pos - 1) : report'[c] = report[c]
    BY <2>1, <2>2
  <2>5. \A c \in DOMAIN report' : report'[c] \in Char
    BY <2>1, <2>2, <2>4
  <2>6. pos' \in Cells \/ pos' = Slots * Width + 2 * Flags
    <3>1. Slots * Width \in Nat /\ Flags \in Nat
      BY StatusAssumption
    <3>. QED  BY <2>1, <2>2, <3>1 DEF Cells
  <2>7. ASSUME NEW i \in Item \ touched, NEW c \in Span(i), c < pos'
        PROVE  report'[c] = Writes(i, stored[i])[c]
    <3>1. CASE c = pos
      <4>1. i \notin clash \cup {storing}
        BY <2>2, NoneIsNoItem
      <4>2. stream[c] = Writes(i, stored[i])[c]
        BY <4>1 DEF StatusInv, StreamRight, Current
      <4>. QED  BY <2>4, <3>1, <4>2
    <3>2. CASE c # pos
      <4>1. c \in 0..(pos - 1) /\ c < pos
        BY <1>3, <2>1, <2>2, <2>7, <3>2
      <4>2. report[c] = Writes(i, stored[i])[c]
        BY <4>1 DEF StatusInv, Copying, Current
      <4>. QED  BY <2>4, <4>1, <4>2
    <3>. QED  BY <3>1, <3>2
  <2>8. Copying'
    BY <1>1, <2>1, <2>2, <2>4, <2>5, <2>6, <2>7 DEF Copying, Current
  <2>. QED  BY <1>2, <2>3, <2>8 DEF StatusInv
<1>. QED  BY <1>4, <1>5, <1>6

\* The PIT interrupt stores its readings, in the middle of whatever the others do.
LEMMA PitStoreStep ==
    ASSUME StatusInv, PitStore
    PROVE  StatusInv'
<1>. DEFINE ch(new) == {i \in PitItems : new[i] # stored[i]}
            wr(new) == [c \in UNION {DOMAIN Writes(i, new[i]) : i \in ch(new)} |->
                         Writes(CHOOSE i \in ch(new) : c \in DOMAIN Writes(i, new[i]),
                           new[CHOOSE i \in ch(new) : c \in DOMAIN Writes(i, new[i])])[c]]
<1>1. PICK new \in Readings :
         /\ stored' = [i \in Item |-> IF i \in ch(new) THEN new[i] ELSE stored[i]]
         /\ stream' = Over(wr(new), stream)
         /\ clash' = (clash \ ch(new)) \cup (ch(new) \cap {storing})
         /\ touched' = IF epc = "off" THEN touched ELSE touched \cup ch(new)
         /\ UNCHANGED <<storing, todo, epc, pos, report>>
  BY DEF PitStore
<1>. DEFINE changed == ch(new)
            writes == wr(new)
<1>2. storing' = storing /\ todo' = todo /\ epc' = epc /\ pos' = pos /\ report' = report
  BY <1>1
<1>3. /\ stored \in [Item -> Number \cup {0, 1}] /\ \A i \in Item : Fits(i, stored[i])
      /\ stream \in [Cells -> Char] /\ clash \subseteq Item /\ touched \subseteq Item
      /\ storing \in Item \cup {None} /\ epc \in {"off", "copy", "sent"} /\ pos \in Nat
  BY DEF StatusInv, StatusTypes
<1>4. changed \subseteq Item /\ \A i \in changed : new[i] \in ValuesOf(i, PitValues)
  BY StatusAssumption DEF Readings
<1>5. \A i \in changed : Fits(i, new[i]) /\ new[i] \in Number \cup {0, 1}
  BY <1>4, ValuesFit
<1>6. ASSUME NEW i \in changed, NEW c \in Span(i)
      PROVE  c \in DOMAIN writes /\ writes[c] = Writes(i, new[i])[c]
  <2>1. c \in DOMAIN Writes(i, new[i])
    BY <1>4, WritesSpan
  <2>2. \A j \in changed : c \in DOMAIN Writes(j, new[j]) => j = i
    BY <1>4, WritesSpan, SpansApart
  <2>3. (CHOOSE j \in changed : c \in DOMAIN Writes(j, new[j])) = i
    BY <2>1, <2>2
  <2>4. c \in UNION {DOMAIN Writes(j, new[j]) : j \in changed}
    BY <2>1
  <2>. QED  BY <2>3, <2>4
<1>7. ASSUME NEW c \in DOMAIN writes
      PROVE  \E i \in changed : c \in Span(i)
  <2>1. PICK i \in changed : c \in DOMAIN Writes(i, new[i])
    OBVIOUS
  <2>. QED  BY <1>4, <2>1, WritesSpan
<1>8. /\ stored' = [i \in Item |-> IF i \in changed THEN new[i] ELSE stored[i]]
      /\ stream' = [c \in Cells |-> IF c \in DOMAIN writes THEN writes[c] ELSE stream[c]]
      /\ clash' = (clash \ changed) \cup (changed \cap {storing})
      /\ touched' = IF epc = "off" THEN touched ELSE touched \cup changed
  BY <1>1, <1>3 DEF Over
<1>. HIDE DEF changed, writes, ch, wr
<1>9. /\ \A i \in Item : stored'[i] = IF i \in changed THEN new[i] ELSE stored[i]
      /\ \A c \in Cells : stream'[c] = IF c \in DOMAIN writes THEN writes[c] ELSE stream[c]
  BY <1>8
<1>10. ASSUME NEW i \in changed, NEW c \in Span(i)
       PROVE  stream'[c] = Writes(i, stored'[i])[c]
  <2>1. c \in Cells /\ i \in Item
    BY <1>4, SpanInCells
  <2>. QED  BY <1>6, <1>9, <2>1
<1>11. ASSUME NEW i \in Item \ changed, NEW c \in Span(i)
       PROVE  stream'[c] = stream[c] /\ stored'[i] = stored[i]
  <2>1. c \notin DOMAIN writes
    BY <1>4, <1>7, SpansApart
  <2>2. c \in Cells
    BY SpanInCells
  <2>. QED  BY <1>9, <2>1, <2>2
<1>12. StatusTypes'
  <2>1. stored' \in [Item -> Number \cup {0, 1}]
    BY <1>3, <1>5, <1>8
  <2>2. \A i \in Item : Fits(i, stored'[i])
    BY <1>3, <1>5, <1>9
  <2>3. \A c \in DOMAIN writes : writes[c] \in Char
    <3>1. SUFFICES ASSUME NEW c \in DOMAIN writes  PROVE writes[c] \in Char
      OBVIOUS
    <3>2. PICK i \in changed : c \in Span(i)
      BY <1>7
    <3>. QED  BY <1>4, <1>5, <1>6, <3>2, WritesChars
  <2>4. stream' \in [Cells -> Char]
    BY <1>3, <1>8, <2>3
  <2>5. clash' \subseteq Item /\ touched' \subseteq Item
    BY <1>3, <1>4, <1>8
  <2>. QED  BY <1>2, <1>3, <2>1, <2>2, <2>4, <2>5 DEF StatusTypes
<1>13. StreamRight'
  <2>1. ASSUME NEW i \in Item \ (clash' \cup {storing'}), NEW c \in Span(i)
        PROVE  stream'[c] = Writes(i, stored'[i])[c]
    <3>1. CASE i \in changed
      BY <1>10, <3>1
    <3>2. CASE i \notin changed
      <4>1. i \notin clash \cup {storing}
        BY <1>2, <1>8, <3>2
      <4>2. stream[c] = Writes(i, stored[i])[c]
        BY <4>1 DEF StatusInv, StreamRight, Current
      <4>. QED  BY <1>11, <3>2, <4>2
    <3>. QED  BY <3>1, <3>2
  <2>. QED  BY <2>1 DEF StreamRight, Current
<1>14. Progress'
  <2>1. ASSUME storing # None, storing \notin clash', NEW c \in Span(storing)
        PROVE  (IF c \in DOMAIN todo THEN todo[c] ELSE stream'[c])
                 = Writes(storing, stored'[storing])[c]
    <3>1. storing \in Item /\ storing \notin changed /\ storing \notin clash
      BY <1>3, <1>8, <2>1
    <3>2. (IF c \in DOMAIN todo THEN todo[c] ELSE stream[c]) = Writes(storing, stored[storing])[c]
      BY <2>1, <3>1 DEF StatusInv, Progress, Current
    <3>3. stream'[c] = stream[c] /\ stored'[storing] = stored[storing]
      BY <1>11, <3>1
    <3>. QED  BY <3>2, <3>3
  <2>2. /\ storing = None => DOMAIN todo = {}
        /\ \A c \in DOMAIN todo : todo[c] \in Char
        /\ storing # None => /\ \E a, b \in Nat : a <= b /\ DOMAIN todo = a..b
                             /\ DOMAIN todo \subseteq Span(storing)
    BY DEF StatusInv, Progress
  <2>. QED  BY <1>2, <2>1, <2>2 DEF Progress, Current
<1>15. Copying'
  <2>1. /\ epc = "off" => pos = 0
        /\ epc = "copy" => pos \in Cells
        /\ epc = "sent" => pos = Slots * Width + 2 * Flags
        /\ DOMAIN report = 0..(pos - 1) /\ \A c \in DOMAIN report : report[c] \in Char
    BY DEF StatusInv, Copying
  <2>2. epc # "off" => clash' \cup ({storing} \ {None}) \subseteq touched'
    BY <1>8 DEF StatusInv, Copying
  <2>3. ASSUME NEW i \in Item \ touched', NEW c \in Span(i), c < pos
        PROVE  report[c] = Writes(i, stored'[i])[c]
    <3>1. c \in Nat
      BY SpanInCells DEF Cells
    <3>2. epc # "off"
      BY <2>1, <2>3, <3>1
    <3>3. i \notin touched /\ i \notin changed
      BY <1>8, <3>2
    <3>4. report[c] = Writes(i, stored[i])[c]
      BY <2>3, <3>3 DEF StatusInv, Copying, Current
    <3>. QED  BY <1>9, <3>3, <3>4
  <2>. QED  BY <1>2, <2>1, <2>2, <2>3 DEF Copying, Current
<1>. QED  BY <1>12, <1>13, <1>14, <1>15 DEF StatusInv

\* Every step of the main loop and of the interrupts keeps the invariant.
LEMMA StatusStep ==
    ASSUME StatusInv, [Next]_vars
    PROVE  StatusInv'
<1>1. CASE UNCHANGED vars
  BY <1>1 DEF vars, StatusInv, StatusTypes, StreamRight, Progress, Copying, Current
<1>. QED  BY <1>1, StoreStep, WriteCharStep, PitStoreStep, AnswerSteps DEF Next

-----------------------------------------------------------------------------
(* The results.                                                             *)

\* StatusInv is an invariant of the status stream.
THEOREM StatusInvariant == Spec => []StatusInv
<1>. QED  BY StatusInit, StatusStep, PTL DEF Spec

\* storeMonitorSlot and storeMonitorFlag keep status_stream true to statusvals
\* and statusflags, for every layout and although the PIT interrupt stores its
\* items in the middle of a store of the main loop: but for the item being
\* stored and the items both stored at once.
THEOREM StreamIsRight == Spec => []StreamShows
<1>1. ASSUME StatusInv  PROVE StreamShows
  <2>1. ASSUME NEW item \in Item \ (clash \cup {storing})  PROVE Shows(stream, item)
    <3>1. DOMAIN stream = Cells
      BY <1>1 DEF StatusInv, StatusTypes
    <3>2. \A c \in Span(item) : c \in DOMAIN stream /\ stream[c] = Writes(item, stored[item])[c]
      BY <1>1, <2>1, <3>1, SpanInCells DEF StatusInv, StreamRight, Current
    <3>. QED  BY <3>2, ShowsIs
  <2>. QED  BY <2>1 DEF StreamShows
<1>. QED  BY <1>1, StatusInvariant, PTL

\* The answer to a callback request shows the stored value of every item that
\* was not stored while ethergate copied the stream.
THEOREM ReportIsWhole == Spec => []ReportWhole
<1>1. ASSUME StatusInv  PROVE ReportWhole
  <2>1. ASSUME epc = "sent", NEW item \in Item \ touched  PROVE Shows(report, item)
    <3>. DEFINE size == Slots * Width + 2 * Flags
    <3>1. Cells = 0..(size - 1) /\ pos = size /\ DOMAIN report = 0..(pos - 1) /\ pos \in Nat
      <4>1. Cells = 0..(size - 1)
        BY CellsEnd
      <4>. QED  BY <1>1, <2>1, <4>1 DEF StatusInv, StatusTypes, Copying
    <3>2. Span(item) \subseteq Cells
      BY SpanInCells
    <3>. HIDE DEF size
    <3>3. \A c \in Span(item) : c \in DOMAIN report /\ c < pos
      BY <3>1, <3>2
    <3>4. \A c \in Span(item) : c \in DOMAIN report /\ report[c] = Writes(item, stored[item])[c]
      BY <1>1, <2>1, <3>3 DEF StatusInv, Copying, Current
    <3>. QED  BY <3>4, ShowsIs
  <2>. QED  BY <2>1 DEF ReportWhole
<1>. QED  BY <1>1, StatusInvariant, PTL

\* Values, characters and the progress of the copies have their types: every
\* write and read of status_stream stays inside it.
THEOREM StatusTypeCorrect == Spec => []TypeOK
<1>1. ASSUME StatusInv  PROVE TypeOK
  <2>. DEFINE size == Slots * Width + 2 * Flags
  <2>1. /\ size \in Nat /\ Cells = 0..(size - 1) /\ pos \in Nat
        /\ epc \in {"off", "copy", "sent"}
        /\ epc = "off" => pos = 0
        /\ epc = "copy" => pos \in Cells
        /\ epc = "sent" => pos = size
    <3>1. size \in Nat
      BY StatusAssumption
    <3>2. Cells = 0..(size - 1)
      BY CellsEnd
    <3>. QED  BY <1>1, <3>1, <3>2 DEF StatusInv, StatusTypes, Copying
  <2>. HIDE DEF size
  <2>2. Cardinality(Cells) = size
    BY <2>1, FS_Interval
  <2>3. pos \in 0..Cardinality(Cells)
    BY <2>1, <2>2
  <2>4. DOMAIN todo \subseteq Cells
    BY <1>1, SpanInCells DEF StatusInv, StatusTypes, Progress
  <2>. QED  BY <1>1, <2>3, <2>4 DEF StatusInv, StatusTypes, Progress, Copying, TypeOK
<1>. QED  BY <1>1, StatusInvariant, PTL

-----------------------------------------------------------------------------
(* The log: FlattenSeq first, by induction along the recursive function it  *)
(* is made of.                                                              *)

\* The first m sequences of s one after the other.
Joins(s, m, f) == f = [i \in 1..m |-> IF i = 1 THEN s[i] ELSE f[i - 1] \o s[i]]

\* Such a function exists for every m.
LEMMA JoinsExists ==
    ASSUME NEW s, NEW m \in Nat
    PROVE  \E f : Joins(s, m, f)
<1>. DEFINE S == {k \in Nat : \E f : Joins(s, k, f)}
<1>1. 0 \in S
  <2>1. Joins(s, 0, [i \in 1..0 |-> 0])
    BY DEF Joins
  <2>. QED  BY <2>1
<1>2. ASSUME NEW k \in Nat, k \in S  PROVE k + 1 \in S
  <2>1. PICK f : Joins(s, k, f)
    BY <1>2
  <2>. DEFINE n == k + 1
              e == IF n = 1 THEN s[n] ELSE f[k] \o s[n]
              g == [i \in 1..n |-> IF i = n THEN e ELSE f[i]]
  <2>2. ASSUME NEW i \in 1..n
        PROVE  g[i] = IF i = 1 THEN s[i] ELSE g[i - 1] \o s[i]
    <3>1. CASE i = n
      <4>1. g[i] = IF i = 1 THEN s[i] ELSE f[i - 1] \o s[i]
        BY <3>1
      <4>2. i # 1 => i - 1 \in 1..n /\ i - 1 # n
        BY <2>2, <3>1
      <4>. QED  BY <4>1, <4>2
    <3>2. CASE i # n
      <4>1. i \in 1..k
        BY <3>2
      <4>2. f[i] = IF i = 1 THEN s[i] ELSE f[i - 1] \o s[i]
        BY <2>1, <4>1 DEF Joins
      <4>3. i # 1 => i - 1 \in 1..n /\ i - 1 # n
        BY <4>1
      <4>. QED  BY <3>2, <4>2, <4>3
    <3>. QED  BY <3>1, <3>2
  <2>3. g = [i \in 1..n |-> g[i]]
    OBVIOUS
  <2>. HIDE DEF g
  <2>4. Joins(s, n, g)
    BY <2>2, <2>3 DEF Joins
  <2>. QED  BY <2>4
<1>. HIDE DEF S
<1>3. m \in S
  BY <1>1, <1>2, NatSetInduction
<1>. QED  BY <1>3 DEF S

\* They do not depend on what follows.
LEMMA JoinsAgree ==
    ASSUME NEW T, NEW s \in Seq(Seq(T)), NEW t \in Seq(Seq(T)), Len(s) <= Len(t),
           \A i \in 1..Len(s) : s[i] = t[i],
           NEW f, Joins(s, Len(s), f), NEW g, Joins(t, Len(t), g)
    PROVE  \A i \in 1..Len(s) : f[i] = g[i] /\ f[i] \in Seq(T)
<1>. DEFINE m == Len(s)
            S == {k \in Nat : k \in 1..m => f[k] = g[k] /\ f[k] \in Seq(T)}
<1>0. m \in Nat /\ Len(t) \in Nat /\ (\A i \in 1..m : s[i] \in Seq(T))
      /\ 1..m \subseteq 1..Len(t)
  OBVIOUS
<1>1. 0 \in S
  OBVIOUS
<1>2. ASSUME NEW k \in Nat, k \in S  PROVE k + 1 \in S
  <2>. DEFINE n == k + 1
  <2>. SUFFICES ASSUME n \in 1..m  PROVE f[n] = g[n] /\ f[n] \in Seq(T)
    OBVIOUS
  <2>1. f[n] = (IF n = 1 THEN s[n] ELSE f[n - 1] \o s[n])
    BY <1>0 DEF Joins
  <2>2. g[n] = (IF n = 1 THEN t[n] ELSE g[n - 1] \o t[n])
    BY <1>0 DEF Joins
  <2>3. n # 1 => n - 1 = k /\ k \in 1..m
    BY <1>0
  <2>4. s[n] = t[n] /\ s[n] \in Seq(T)
    BY <1>0
  <2>5. n # 1 => f[n - 1] = g[n - 1] /\ f[n - 1] \in Seq(T)
    BY <1>2, <2>3
  <2>. HIDE DEF n
  <2>. QED  BY <2>1, <2>2, <2>4, <2>5
<1>. HIDE DEF S
<1>3. \A k \in Nat : k \in S
  BY <1>1, <1>2, NatSetInduction
<1>. QED  BY <1>0, <1>3 DEF S

\* FlattenSeq, one sequence at a time.
LEMMA FlattenAppend ==
    ASSUME NEW T, NEW s \in Seq(Seq(T)), NEW t \in Seq(T)
    PROVE  /\ FlattenSeq(s) \in Seq(T)
           /\ FlattenSeq(Append(s, t)) = FlattenSeq(s) \o t
<1>. DEFINE a == Append(s, t)
            m == Len(s)
            f == CHOOSE x : Joins(s, m, x)
            g == CHOOSE x : Joins(a, Len(a), x)
<1>0. /\ m \in Nat /\ a \in Seq(Seq(T)) /\ Len(a) = m + 1 /\ a[m + 1] = t
      /\ \A i \in 1..m : a[i] = s[i]
  OBVIOUS
<1>1. Joins(s, m, f) /\ Joins(a, Len(a), g)
  <2>1. Len(a) \in Nat
    BY <1>0
  <2>2. (\E x : Joins(s, m, x)) /\ (\E x : Joins(a, Len(a), x))
    BY <1>0, <2>1, JoinsExists
  <2>. QED  BY <2>2
<1>2. FlattenSeq(s) = IF m = 0 THEN s ELSE f[m]
  BY DEF FlattenSeq, Joins
<1>. HIDE DEF a
<1>3. FlattenSeq(a) = g[m + 1]
  <2>1. FlattenSeq(a) = IF Len(a) = 0 THEN a ELSE g[Len(a)]
    BY DEF FlattenSeq, Joins
  <2>. QED  BY <1>0, <2>1
<1>. HIDE DEF f, g
<1>4. \A i \in 1..m : f[i] = g[i] /\ f[i] \in Seq(T)
  <2>1. Len(s) <= Len(a) /\ \A i \in 1..Len(s) : s[i] = a[i]
    BY <1>0
  <2>. QED  BY <1>0, <1>1, <2>1, JoinsAgree
<1>5. g[m + 1] = IF m + 1 = 1 THEN t ELSE g[m] \o t
  <2>1. m + 1 \in 1..Len(a) /\ (m + 1) - 1 = m
    BY <1>0
  <2>2. g[m + 1] = IF m + 1 = 1 THEN a[m + 1] ELSE g[(m + 1) - 1] \o a[m + 1]
    BY <1>1, <2>1 DEF Joins
  <2>. QED  BY <1>0, <2>1, <2>2
<1>6. CASE m = 0
  <2>1. s = <<>>
    BY <1>6
  <2>2. <<>> \o t = t
    BY ConcatEmptySeq
  <2>. QED  BY <1>2, <1>3, <1>5, <1>6, <2>1, <2>2 DEF a
<1>7. CASE m # 0
  <2>1. m \in 1..m /\ m + 1 # 1
    BY <1>0, <1>7
  <2>. QED  BY <1>2, <1>3, <1>4, <1>5, <1>7, <2>1 DEF a
<1>. QED  BY <1>6, <1>7

Glyph == Nat \X Nat
Line(l, n) == [i \in 1..n |-> <<l, i - 1>>]
Flat(ls) == FlattenSeq([l \in DOMAIN ls |-> Line(l, ls[l])])
Held(b, from, p) == [i \in 1..(p - from) |-> b[from + i - 1]]

\* A function on 1..n is a sequence.
LEMMA FunctionIsSeq ==
    ASSUME NEW T, NEW n \in Nat, NEW f \in [1..n -> T]
    PROVE  f \in Seq(T) /\ Len(f) = n
OBVIOUS

\* Sequences that agree everywhere are the same.
LEMMA SameSeq ==
    ASSUME NEW T, NEW s \in Seq(T), NEW t \in Seq(T), Len(s) = Len(t),
           \A i \in 1..Len(s) : s[i] = t[i]
    PROVE  s = t
<1>. DEFINE n == Len(s)
<1>1. s \in [1..n -> T] /\ t \in [1..n -> T]
  BY LenProperties
<1>. HIDE DEF n
<1>. QED  BY <1>1 DEF n

\* A line is a sequence of its length.
LEMMA LineIsSeq ==
    ASSUME NEW l \in Nat, NEW n \in Nat
    PROVE  Line(l, n) \in Seq(Glyph) /\ Len(Line(l, n)) = n
<1>1. \A i \in 1..n : <<l, i - 1>> \in Glyph
  BY DEF Glyph
<1>2. Line(l, n) \in [1..n -> Glyph]
  BY <1>1 DEF Line
<1>. QED  BY <1>2, FunctionIsSeq

\* A new line comes behind all others.
LEMMA FlatMore ==
    ASSUME NEW ls \in Seq(Nat), NEW n \in Nat
    PROVE  /\ Flat(ls) \in Seq(Glyph)
           /\ Flat(Append(ls, n)) = Flat(ls) \o Line(Len(ls) + 1, n)
<1>. DEFINE m == Len(ls)
            more == Append(ls, n)
            s == [l \in 1..m |-> Line(l, ls[l])]
            t == [l \in 1..(m + 1) |-> Line(l, more[l])]
            a == Append(s, Line(m + 1, n))
<1>1. /\ m \in Nat /\ DOMAIN ls = 1..m /\ DOMAIN more = 1..(m + 1) /\ more[m + 1] = n
      /\ \A i \in 1..m : more[i] = ls[i] /\ ls[i] \in Nat
  OBVIOUS
<1>2. Flat(ls) = FlattenSeq(s) /\ Flat(more) = FlattenSeq(t)
  BY <1>1 DEF Flat
<1>. HIDE DEF more
<1>3. s \in Seq(Seq(Glyph)) /\ Len(s) = m
  <2>1. \A i \in 1..m : Line(i, ls[i]) \in Seq(Glyph)
    BY <1>1, LineIsSeq
  <2>2. s \in [1..m -> Seq(Glyph)]
    BY <2>1
  <2>. HIDE DEF s
  <2>. QED  BY <1>1, <2>2, FunctionIsSeq
<1>4. t \in Seq(Seq(Glyph)) /\ Len(t) = m + 1
  <2>1. \A i \in 1..(m + 1) : more[i] \in Nat
    <3>. TAKE i \in 1..(m + 1)
    <3>1. i = m + 1 \/ i \in 1..m
      BY <1>1
    <3>. QED  BY <1>1, <3>1
  <2>2. \A i \in 1..(m + 1) : Line(i, more[i]) \in Seq(Glyph)
    BY <1>1, <2>1, LineIsSeq
  <2>3. t \in [1..(m + 1) -> Seq(Glyph)] /\ m + 1 \in Nat
    BY <1>1, <2>2
  <2>. HIDE DEF t
  <2>. QED  BY <2>3, FunctionIsSeq
<1>5. Line(m + 1, n) \in Seq(Glyph)
  BY <1>1, LineIsSeq
<1>6. /\ a \in Seq(Seq(Glyph)) /\ Len(a) = m + 1 /\ a[m + 1] = Line(m + 1, n)
      /\ \A i \in 1..m : a[i] = s[i]
  <2>. HIDE DEF s
  <2>. QED  BY <1>1, <1>3, <1>5
<1>7. \A i \in 1..(m + 1) : t[i] = a[i]
  <2>. TAKE i \in 1..(m + 1)
  <2>1. CASE i = m + 1
    BY <1>1, <1>6, <2>1
  <2>2. CASE i \in 1..m
    <3>1. t[i] = Line(i, ls[i]) /\ s[i] = Line(i, ls[i])
      BY <1>1, <2>2
    <3>. QED  BY <1>6, <2>2, <3>1
  <2>. QED  BY <1>1, <2>1, <2>2
<1>. HIDE DEF s, t, a
<1>8. t = a
  BY <1>4, <1>6, <1>7, SameSeq
<1>9. FlattenSeq(s) \in Seq(Glyph) /\ FlattenSeq(a) = FlattenSeq(s) \o Line(m + 1, n)
  BY <1>3, <1>5, FlattenAppend DEF a
<1>. QED  BY <1>2, <1>8, <1>9 DEF more

\* The text between two places of the buffer.
LEMMA HeldIs ==
    ASSUME NEW b, NEW from \in Nat, NEW p \in Nat, \A i \in from..(p - 1) : b[i] \in Glyph
    PROVE  /\ Held(b, from, p) \in Seq(Glyph)
           /\ Len(Held(b, from, p)) = IF from <= p THEN p - from ELSE 0
           /\ from >= p => Held(b, from, p) = <<>>
<1>1. CASE from <= p
  <2>1. p - from \in Nat /\ \A i \in 1..(p - from) : from + i - 1 \in from..(p - 1)
    BY <1>1
  <2>2. Held(b, from, p) \in [1..(p - from) -> Glyph]
    BY <2>1 DEF Held
  <2>3. Held(b, from, p) \in Seq(Glyph) /\ Len(Held(b, from, p)) = p - from
    BY <2>1, <2>2, FunctionIsSeq
  <2>. QED  BY <1>1, <2>3, EmptySeq
<1>2. CASE from > p
  <2>1. 1..(p - from) = {} /\ 1..0 = {}
    BY <1>2
  <2>2. Held(b, from, p) \in [1..0 -> Glyph]
    BY <2>1 DEF Held
  <2>3. Held(b, from, p) \in Seq(Glyph) /\ Len(Held(b, from, p)) = 0
    BY <2>2, FunctionIsSeq
  <2>. QED  BY <1>2, <2>3, EmptySeq
<1>. QED  BY <1>1, <1>2

\* The same characters make the same text.
LEMMA HeldKept ==
    ASSUME NEW b, NEW c, NEW from \in Nat, NEW p \in Nat, \A i \in from..(p - 1) : c[i] = b[i]
    PROVE  Held(c, from, p) = Held(b, from, p)
<1>1. \A i \in 1..(p - from) : from + i - 1 \in from..(p - 1)
  OBVIOUS
<1>. QED  BY <1>1 DEF Held

\* The buffer holds characters from one place to another, and a line at p.
CharsIn(b, from, p) == \A i \in from..(p - 1) : b[i] \in Glyph
LineAt(b, p, l, n) == \A j \in 0..(n - 1) : b[p + j] = <<l, j>>

Consists(u, s, t) == u = s \o t

\* The text up to the end of a line is the text before the line and the line.
LEMMA HeldMore ==
    ASSUME NEW b, NEW from \in Nat, NEW p \in Nat, NEW n \in Nat, NEW l \in Nat, from <= p,
           CharsIn(b, from, p), LineAt(b, p, l, n), NEW e, e = p + n
    PROVE  Consists(Held(b, from, e), Held(b, from, p), Line(l, n))
<1>0. /\ \A i \in from..(p - 1) : b[i] \in Glyph
      /\ \A j \in 0..(n - 1) : b[p + j] = <<l, j>>
  BY DEF CharsIn, LineAt
<1>. DEFINE s == Held(b, from, p)
            t == Line(l, n)
            u == Held(b, from, p + n)
            k == p - from
<1>1. s \in Seq(Glyph) /\ Len(s) = k /\ k \in Nat
  <2>1. s \in Seq(Glyph) /\ Len(s) = IF from <= p THEN p - from ELSE 0
    BY <1>0, HeldIs
  <2>. QED  BY <2>1
<1>2. t \in Seq(Glyph) /\ Len(t) = n
  BY LineIsSeq
<1>3. \A i \in from..((p + n) - 1) : b[i] \in Glyph
  <2>. SUFFICES ASSUME NEW i \in from..((p + n) - 1), i >= p  PROVE b[i] \in Glyph
    BY <1>0
  <2>1. i - p \in 0..(n - 1) /\ p + (i - p) = i
    OBVIOUS
  <2>2. b[i] = <<l, i - p>> /\ i - p \in Nat
    BY <1>0, <2>1
  <2>. QED  BY <2>2 DEF Glyph
<1>4. u \in Seq(Glyph) /\ Len(u) = k + n
  <2>1. p + n \in Nat /\ from <= p + n /\ (p + n) - from = k + n
    OBVIOUS
  <2>. QED  BY <1>3, <2>1, HeldIs
<1>5. \A i \in 1..(k + n) : u[i] = b[from + i - 1]
  <2>1. 1..((p + n) - from) = 1..(k + n)
    OBVIOUS
  <2>. QED  BY <2>1 DEF Held
<1>6. (\A i \in 1..k : s[i] = b[from + i - 1]) /\ (\A i \in 1..n : t[i] = <<l, i - 1>>)
  BY DEF Held, Line
<1>7. ASSUME NEW i \in 1..(k + n)  PROVE u[i] = (s \o t)[i]
  <2>1. CASE i \in 1..k
    <3>1. (s \o t)[i] = s[i]
      <4>. HIDE DEF s, t, k
      <4>. QED  BY <1>1, <1>2, <1>7, <2>1
    <3>. QED  BY <1>5, <1>6, <2>1, <3>1
  <2>2. CASE i \in (k + 1)..(k + n)
    <3>1. i - k \in 1..n /\ (s \o t)[i] = t[i - k]
      <4>. HIDE DEF s, t, k
      <4>. QED  BY <1>1, <1>2, <1>7, <2>2
    <3>2. (i - k) - 1 \in 0..(n - 1) /\ p + ((i - k) - 1) = from + i - 1
      BY <3>1
    <3>. QED  BY <1>0, <1>5, <1>6, <1>7, <3>1, <3>2
  <2>3. i \in 1..k \/ i \in (k + 1)..(k + n)
    <3>. HIDE DEF k
    <3>. QED  BY <1>1, <1>7
  <2>. QED  BY <2>1, <2>2, <2>3
<1>. HIDE DEF s, t, u, k
<1>8. s \o t \in Seq(Glyph) /\ Len(s \o t) = k + n
  <2>1. s \o t \in Seq(Glyph) /\ Len(s \o t) = Len(s) + Len(t)
    BY <1>1, <1>2, ConcatProperties
  <2>. QED  BY <1>1, <1>2, <2>1
<1>9. u = s \o t
  BY <1>4, <1>7, <1>8, SameSeq
<1>. QED  BY <1>9 DEF s, t, u, Consists

\* The text with the character at its end.
LEMMA HeldOne ==
    ASSUME NEW b, NEW from \in Nat, NEW p \in Nat, from <= p,
           \A i \in from..p : b[i] \in Glyph
    PROVE  Held(b, from, p + 1) = Append(Held(b, from, p), b[p])
<1>. DEFINE s == Held(b, from, p)
            u == Held(b, from, p + 1)
            k == p - from
            a == Append(s, b[p])
<1>1. s \in Seq(Glyph) /\ Len(s) = k /\ k \in Nat
  BY HeldIs
<1>2. u \in Seq(Glyph) /\ Len(u) = k + 1
  <2>1. p + 1 \in Nat /\ from <= p + 1 /\ (p + 1) - from = k + 1 /\ (p + 1) - 1 = p
    OBVIOUS
  <2>. QED  BY <2>1, HeldIs
<1>3. (\A i \in 1..k : s[i] = b[from + i - 1]) /\ (\A i \in 1..(k + 1) : u[i] = b[from + i - 1])
  <2>1. 1..((p + 1) - from) = 1..(k + 1)
    OBVIOUS
  <2>. QED  BY <2>1 DEF Held
<1>4. b[p] \in Glyph /\ from + (k + 1) - 1 = p
  OBVIOUS
<1>. HIDE DEF s, u, k
<1>5. /\ a \in Seq(Glyph) /\ Len(a) = k + 1 /\ a[k + 1] = b[p]
      /\ \A i \in 1..k : a[i] = s[i]
  BY <1>1, <1>4
<1>. HIDE DEF a
<1>6. ASSUME NEW i \in 1..(k + 1)  PROVE u[i] = a[i]
  <2>1. i = k + 1 \/ i \in 1..k
    BY <1>1
  <2>. QED  BY <1>3, <1>4, <1>5, <2>1
<1>7. u = a
  BY <1>2, <1>5, <1>6, SameSeq
<1>. QED  BY <1>7 DEF s, u, a

\* The text is its first character and the rest.
LEMMA HeldFirst ==
    ASSUME NEW b, NEW from \in Nat, NEW p \in Nat, from < p,
           CharsIn(b, from, p)
    PROVE  Consists(Held(b, from, p), <<b[from]>>, Held(b, from + 1, p))
<1>0. \A i \in from..(p - 1) : b[i] \in Glyph
  BY DEF CharsIn
<1>. DEFINE s == Held(b, from + 1, p)
            u == Held(b, from, p)
            k == p - from
            a == <<b[from]>> \o s
<1>1. s \in Seq(Glyph) /\ Len(s) = k - 1 /\ k \in Nat
  <2>1. from + 1 \in Nat /\ from + 1 <= p /\ p - (from + 1) = k - 1
        /\ \A i \in (from + 1)..(p - 1) : b[i] \in Glyph
    BY <1>0
  <2>2. s \in Seq(Glyph) /\ Len(s) = IF from + 1 <= p THEN p - (from + 1) ELSE 0
    BY <2>1, HeldIs
  <2>. QED  BY <2>1, <2>2
<1>2. u \in Seq(Glyph) /\ Len(u) = k
  BY <1>0, HeldIs
<1>3. (\A i \in 1..(k - 1) : s[i] = b[from + 1 + i - 1]) /\ (\A i \in 1..k : u[i] = b[from + i - 1])
  <2>1. 1..(p - (from + 1)) = 1..(k - 1)
    OBVIOUS
  <2>. QED  BY <2>1 DEF Held
<1>4. b[from] \in Glyph /\ from + 1 - 1 = from
  BY <1>0
<1>. HIDE DEF s, u, k
<1>5. /\ a \in Seq(Glyph) /\ Len(a) = k /\ a[1] = b[from]
      /\ \A i \in 1..(k - 1) : a[i + 1] = s[i]
  BY <1>1, <1>4
<1>. HIDE DEF a
<1>6. ASSUME NEW i \in 1..k  PROVE u[i] = a[i]
  <2>1. CASE i = 1
    BY <1>3, <1>4, <1>5, <1>6, <2>1
  <2>2. CASE i # 1
    <3>1. i - 1 \in 1..(k - 1) /\ (i - 1) + 1 = i /\ from + 1 + (i - 1) - 1 = from + i - 1
      BY <1>1, <2>2
    <3>. QED  BY <1>3, <1>5, <3>1
  <2>. QED  BY <2>1, <2>2
<1>7. u = a
  BY <1>2, <1>5, <1>6, SameSeq
<1>. QED  BY <1>7 DEF s, u, a, Consists

-----------------------------------------------------------------------------
(* The places of the log.                                                   *)

\* Nothing here depends on the interrupt keeping out of a line.
LogPlaces ==
    /\ logbuffer \in [0..(LogSize - 1) -> LogChar] /\ console \in Seq(LogChar)
    /\ extra \in Seq([at : Nat, char : LogChar])
    /\ lines \in Seq(Lengths) /\ Len(lines) <= MaxLines /\ lograced \in BOOLEAN
    /\ line \in 0..MaxLines /\ llen \in Lengths \cup {0}
    /\ logbufferptr \in Nat /\ dst \in Nat /\ lat \in Nat /\ lreg \in Nat

\* Where the main loop is with its line or in the buffer.
Doing ==
    \/ lpc \in {"loop", "reset"} /\ lat = 0
    \/ lpc \in {"char", "test", "tail"} /\ lat <= logbufferptr
    \/ lpc = "text" /\ line # 0 /\ lat <= llen /\ llen # 0
    \/ lpc \in {"load", "add"} /\ line # 0 /\ lat = llen + 1 /\ llen # 0
    \/ lpc \in {"put", "inc", "bump"} /\ line # 0 /\ lat < llen

\* What the line being logged has yet to add.
Rest == IF lpc \in {"text", "load", "add"} THEN llen
        ELSE IF lpc \in {"put", "inc", "bump"} THEN llen - lat ELSE 0

\* Wherever the interrupt falls, what is in the buffer and the rest of the line
\* fit into it.
LogRoom ==
    /\ logbufferptr < LogSize /\ dst < LogSize /\ lreg < LogSize /\ llen < LogSize
    /\ lpc \in {"text", "load", "put", "inc"} => logbufferptr + Rest < LogSize
    /\ lpc = "text" => dst + llen < LogSize
    /\ lpc \in {"add", "bump"} => lreg + Rest < LogSize

LogTypeInv == LogPlaces /\ Doing /\ LogRoom

\* The constants, and the numbers of the log.
LEMMA LogNumbers ==
    ASSUME LogPlaces
    PROVE  /\ LogSize \in Nat \ {0} /\ MaxLines \in Nat /\ Lengths \subseteq Nat \ {0}
           /\ Len(lines) \in 0..MaxLines /\ llen \in Nat
BY LoggerAssumption DEF LogPlaces

\* A line more.
LEMMA NewLine ==
    ASSUME LogPlaces, Len(lines) < MaxLines, NEW n \in Lengths, lines' = Append(lines, n)
    PROVE  /\ lines' \in Seq(Lengths) /\ Len(lines') <= MaxLines
           /\ n \in Nat \ {0} /\ Len(lines) + 1 \in 1..MaxLines
<1>1. /\ MaxLines \in Nat /\ n \in Nat \ {0} /\ Len(lines) \in 0..MaxLines
  BY LogNumbers
<1>2. lines \in Seq(Lengths)
  BY DEF LogPlaces
<1>3. lines' \in Seq(Lengths) /\ Len(lines') = Len(lines) + 1
  BY <1>2
<1>. QED  BY <1>1, <1>3

\* The characters of a line are characters of the buffer.
LEMMA LineChars ==
    /\ LogNul \in LogChar
    /\ \A l \in 1..MaxLines, i \in Nat : i < LogSize => <<l, i>> \in LogChar
<1>1. \A i \in Nat : i < LogSize => i \in 0..(LogSize - 1)
  BY LoggerAssumption
<1>. QED  BY <1>1 DEF LogChar

\* A line begins where the pointer is.
LEMMA LogTypeBegin ==
    ASSUME LogTypeInv, NEW next \in {"text", "put"}, LogBegin(next)
    PROVE  LogTypeInv'
<1>1. /\ LogPlaces /\ lpc = "loop" /\ lat = 0 /\ Len(lines) < MaxLines
      /\ line' = Len(lines) + 1 /\ dst' = logbufferptr /\ lpc' = next
      /\ UNCHANGED <<logbuffer, logbufferptr, lat, lreg, console, extra, lograced>>
  BY DEF LogTypeInv, Doing, LogBegin, buffer, sent
<1>2. PICK n \in Lengths :
        logbufferptr + llen + n < LogSize /\ lines' = Append(lines, n) /\ llen' = n
  BY DEF LogBegin, LogFits
<1>3. /\ lines' \in Seq(Lengths) /\ Len(lines') <= MaxLines
      /\ n \in Nat \ {0} /\ Len(lines) + 1 \in 1..MaxLines
  BY <1>1, <1>2, NewLine
<1>4. /\ logbufferptr \in Nat /\ lreg \in Nat /\ llen \in Nat /\ LogSize \in Nat
      /\ logbufferptr < LogSize /\ lreg < LogSize
  BY <1>1, LogNumbers DEF LogTypeInv, LogRoom, LogPlaces
<1>5. LogPlaces'
  <2>1. line' \in 0..MaxLines
    BY <1>1, <1>3
  <2>. QED  BY <1>1, <1>2, <1>3, <1>4, <2>1 DEF LogPlaces, LogChar, LogNul
<1>6. Doing'
  <2>1. line' # 0
    BY <1>1, <1>3
  <2>2. 0 < n /\ 0 <= n
    BY <1>3
  <2>. QED  BY <1>1, <1>2, <1>3, <2>1, <2>2 DEF Doing
<1>7. LogRoom'
  <2>1. Rest' = n
    <3>1. n - 0 = n
      BY <1>3
    <3>. QED  BY <1>1, <1>2, <3>1 DEF Rest
  <2>2. logbufferptr + n < LogSize /\ n < LogSize
    BY <1>2, <1>3, <1>4
  <2>. QED  BY <1>1, <1>2, <1>4, <2>1, <2>2 DEF LogRoom
<1>. QED  BY <1>5, <1>6, <1>7 DEF LogTypeInv

\* The interrupt's line.
LEMMA LogTypeEnet ==
    ASSUME LogTypeInv, EnetLog
    PROVE  LogTypeInv'
<1>1. /\ LogPlaces /\ Len(lines) < MaxLines /\ lograced' \in BOOLEAN
      /\ UNCHANGED <<lpc, line, llen, dst, lat, lreg, console, extra>>
  BY DEF LogTypeInv, EnetLog, local, sent
<1>2. PICK b, p, l : b = logbuffer /\ p = logbufferptr /\ l = Len(lines) + 1
  OBVIOUS
<1>3. PICK n \in Lengths :
        /\ lines' = Append(lines, n) /\ logbuffer' = Written(b, p, l, n) /\ logbufferptr' = p + n
        /\ p + llen + n < LogSize
  BY <1>2 DEF EnetLog, LogFits
<1>4. /\ lines' \in Seq(Lengths) /\ Len(lines') <= MaxLines
      /\ n \in Nat \ {0} /\ l \in 1..MaxLines
  BY <1>1, <1>2, <1>3, NewLine
<1>5. /\ llen \in Nat /\ LogSize \in Nat /\ p \in Nat /\ b \in [0..(LogSize - 1) -> LogChar]
      /\ LogRoom /\ Doing
  BY <1>1, <1>2, LogNumbers DEF LogTypeInv, LogPlaces
<1>6. p + n < LogSize
  BY <1>3, <1>4, <1>5
<1>7. logbuffer' \in [0..(LogSize - 1) -> LogChar]
  <2>1. logbuffer' = [i \in 0..(LogSize - 1) |-> IF i \in p..(p + n - 1) THEN <<l, i - p>>
                                                ELSE IF i = p + n THEN LogNul ELSE b[i]]
    BY <1>3, <1>5 DEF Written
  <2>2. ASSUME NEW i \in p..(p + n - 1)  PROVE <<l, i - p>> \in LogChar
    <3>1. i - p \in Nat /\ i - p < LogSize
      BY <1>4, <1>5, <1>6
    <3>. QED  BY <1>4, <3>1, LineChars
  <2>. QED  BY <1>5, <2>1, <2>2, LineChars
<1>8. p + n \in Nat /\ p <= p + n /\ n <= n + p
  BY <1>4, <1>5
<1>9. LogPlaces'
  BY <1>1, <1>3, <1>4, <1>7, <1>8 DEF LogPlaces, LogChar, LogNul
<1>10. Doing'
  <2>1. lat \in Nat /\ (lat <= p => lat <= p + n)
    BY <1>1, <1>4, <1>5 DEF LogPlaces
  <2>. QED  BY <1>1, <1>2, <1>3, <1>5, <2>1 DEF Doing
<1>11. LogRoom'
  <2>1. Rest' = Rest
    BY <1>1 DEF Rest
  <2>2. PICK r \in Nat : r = Rest /\ r <= llen
    <3>1. llen \in Nat /\ lat \in Nat
      BY <1>1, <1>5 DEF LogPlaces
    <3>2. Rest \in Nat /\ Rest <= llen
      BY <1>5, <3>1 DEF Rest, Doing
    <3>. QED  BY <3>2
  <2>3. (p + n) + r < LogSize
    BY <1>3, <1>4, <1>5, <2>2
  <2>. QED  BY <1>1, <1>2, <1>3, <1>5, <1>6, <2>1, <2>2, <2>3 DEF LogRoom
<1>. QED  BY <1>9, <1>10, <1>11 DEF LogTypeInv

\* logMessage after it began: vsprintf, the load and the addition.
LEMMA LogTypeMessage ==
    ASSUME LogTypeInv, LogText \/ LogLoad \/ LogAdd
    PROVE  LogTypeInv'
<1>2. /\ LogPlaces /\ Doing /\ LogRoom /\ LogSize \in Nat \ {0}
      /\ Lengths \subseteq Nat \ {0}
  BY LogNumbers DEF LogTypeInv
<1>3. llen \in Nat /\ lat \in Nat /\ logbufferptr \in Nat /\ dst \in Nat /\ lreg \in Nat
  BY <1>2 DEF LogPlaces
<1>4. CASE LogText
  <2>1. /\ lpc = "text" /\ lat' = lat + 1 /\ lpc' = (IF lat = llen THEN "load" ELSE "text")
        /\ UNCHANGED <<logbufferptr, line, llen, dst, lreg, sent, lines, lograced>>
    BY <1>4 DEF LogText
  <2>2. line # 0 /\ lat <= llen /\ llen # 0 /\ logbufferptr + llen < LogSize /\ dst + llen < LogSize
    BY <1>2, <2>1 DEF Doing, LogRoom, Rest
  <2>3. PICK e : /\ e = (IF lat = llen THEN LogNul ELSE <<line, lat>>)
                 /\ logbuffer' = [logbuffer EXCEPT ![dst + lat] = e]
    BY <1>4 DEF LogText
  <2>4. e \in LogChar
    <3>1. line \in 1..MaxLines
      BY <1>2, <2>2, LoggerAssumption DEF LogPlaces
    <3>2. lat < LogSize
      BY <1>2, <1>3, <2>2
    <3>. QED  BY <1>3, <2>3, <3>1, <3>2, LineChars
  <2>5. logbuffer' \in [0..(LogSize - 1) -> LogChar]
    BY <1>2, <2>3, <2>4 DEF LogPlaces
  <2>6. lat' \in Nat /\ (lat # llen => lat' <= llen)
    BY <1>3, <2>1, <2>2
  <2>7. LogPlaces'
    BY <1>2, <2>1, <2>5, <2>6 DEF LogPlaces, LogChar, LogNul, sent
  <2>8. Doing'
    BY <2>1, <2>2, <2>6 DEF Doing
  <2>9. LogRoom'
    BY <1>2, <2>1, <2>2 DEF LogRoom, Rest
  <2>. QED  BY <2>7, <2>8, <2>9 DEF LogTypeInv
<1>5. CASE LogLoad
  <2>1. /\ lpc = "load" /\ lreg' = logbufferptr /\ lpc' = "add"
        /\ UNCHANGED <<logbuffer, logbufferptr, line, llen, dst, lat, sent, lines, lograced>>
    BY <1>5 DEF LogLoad, buffer
  <2>2. line # 0 /\ lat = llen + 1 /\ llen # 0 /\ logbufferptr + llen < LogSize
    BY <1>2, <2>1 DEF Doing, LogRoom, Rest
  <2>3. LogPlaces'
    BY <1>2, <1>3, <2>1 DEF LogPlaces, LogChar, LogNul, sent
  <2>4. Doing'
    BY <2>1, <2>2 DEF Doing
  <2>5. LogRoom'
    BY <1>2, <2>1, <2>2 DEF LogRoom, Rest
  <2>. QED  BY <2>3, <2>4, <2>5 DEF LogTypeInv
<1>6. CASE LogAdd
  <2>1. /\ lpc = "add" /\ logbufferptr' = lreg + llen /\ lpc' = "loop"
        /\ line' = 0 /\ llen' = 0 /\ dst' = 0 /\ lat' = 0 /\ lreg' = 0
        /\ UNCHANGED <<logbuffer, sent, lines, lograced>>
    BY <1>6 DEF LogAdd, LogDone
  <2>2. lreg + llen < LogSize /\ lreg + llen \in Nat /\ 0 < LogSize
    BY <1>2, <1>3, <2>1 DEF LogRoom, Rest
  <2>3. LogPlaces'
    <3>1. 0 \in 0..MaxLines
      BY LoggerAssumption
    <3>. QED  BY <1>2, <2>1, <2>2, <3>1 DEF LogPlaces, LogChar, LogNul, sent
  <2>4. Doing'
    BY <2>1 DEF Doing
  <2>5. LogRoom'
    BY <2>1, <2>2 DEF LogRoom, Rest
  <2>. QED  BY <2>3, <2>4, <2>5 DEF LogTypeInv
<1>. QED  BY <1>4, <1>5, <1>6

\* logStringnl after it began.
LEMMA LogTypeString ==
    ASSUME LogTypeInv, StringPut \/ StringInc \/ StringBump
    PROVE  LogTypeInv'
<1>2. /\ LogPlaces /\ Doing /\ LogRoom /\ LogSize \in Nat \ {0}
      /\ Lengths \subseteq Nat \ {0}
  BY LogNumbers DEF LogTypeInv
<1>3. llen \in Nat /\ lat \in Nat /\ logbufferptr \in Nat /\ dst \in Nat /\ lreg \in Nat
  BY <1>2 DEF LogPlaces
<1>4. lpc \in {"put", "inc", "bump"} /\ line # 0 /\ lat < llen
  BY <1>2 DEF StringPut, StringInc, StringBump, Doing
<1>5. PICK r \in Nat : r = llen - lat /\ r >= 1
  BY <1>3, <1>4
<1>6. /\ logbufferptr < LogSize /\ dst < LogSize /\ lreg < LogSize /\ llen < LogSize
      /\ lpc \in {"put", "inc"} => logbufferptr + r < LogSize
      /\ lpc = "bump" => lreg + r < LogSize
  BY <1>2, <1>4, <1>5 DEF LogRoom, Rest
<1>7. CASE StringPut
  <2>1. /\ lpc = "put" /\ lpc' = "inc"
        /\ logbuffer' = [logbuffer EXCEPT ![logbufferptr] = <<line, lat>>]
        /\ UNCHANGED <<logbufferptr, line, llen, dst, lat, lreg, sent, lines, lograced>>
    BY <1>7 DEF StringPut, local
  <2>2. <<line, lat>> \in LogChar
    <3>1. line \in 1..MaxLines
      BY <1>2, <1>4, LoggerAssumption DEF LogPlaces
    <3>2. lat < LogSize
      BY <1>2, <1>3, <1>4, <1>6
    <3>. QED  BY <1>3, <3>1, <3>2, LineChars
  <2>3. logbuffer' \in [0..(LogSize - 1) -> LogChar]
    BY <1>2, <2>1, <2>2 DEF LogPlaces
  <2>4. LogPlaces'
    BY <1>2, <2>1, <2>3 DEF LogPlaces, LogChar, LogNul, sent
  <2>5. Doing'
    BY <1>4, <2>1 DEF Doing
  <2>6. LogRoom'
    BY <1>5, <1>6, <2>1 DEF LogRoom, Rest
  <2>. QED  BY <2>4, <2>5, <2>6 DEF LogTypeInv
<1>8. CASE StringInc
  <2>1. /\ lpc = "inc" /\ lreg' = logbufferptr /\ lpc' = "bump"
        /\ UNCHANGED <<logbuffer, logbufferptr, line, llen, dst, lat, sent, lines, lograced>>
    BY <1>8 DEF StringInc, buffer
  <2>2. LogPlaces'
    BY <1>2, <1>3, <2>1 DEF LogPlaces, LogChar, LogNul, sent
  <2>3. Doing'
    BY <1>4, <2>1 DEF Doing
  <2>4. LogRoom'
    BY <1>5, <1>6, <2>1 DEF LogRoom, Rest
  <2>. QED  BY <2>2, <2>3, <2>4 DEF LogTypeInv
<1>9. CASE StringBump
  <2>1. /\ lpc = "bump" /\ logbufferptr' = lreg + 1
        /\ UNCHANGED <<logbuffer, sent, lines, lograced>>
        /\ \/ /\ lat + 1 = llen /\ lpc' = "loop" /\ line' = 0 /\ llen' = 0 /\ dst' = 0
              /\ lat' = 0 /\ lreg' = 0
           \/ /\ lat + 1 # llen /\ lpc' = "put" /\ lat' = lat + 1
              /\ UNCHANGED <<line, llen, dst, lreg>>
    BY <1>9 DEF StringBump, LogDone
  <2>2. lreg + 1 \in Nat /\ lreg + 1 < LogSize /\ 0 < LogSize
    BY <1>2, <1>3, <1>5, <1>6, <2>1
  <2>3. CASE lat + 1 = llen
    <3>1. 0 \in 0..MaxLines
      BY LoggerAssumption
    <3>2. LogPlaces'
      BY <1>2, <2>1, <2>2, <2>3, <3>1 DEF LogPlaces, LogChar, LogNul, sent
    <3>3. Doing'
      BY <2>1, <2>3 DEF Doing
    <3>4. LogRoom'
      BY <1>6, <2>1, <2>2, <2>3 DEF LogRoom, Rest
    <3>. QED  BY <3>2, <3>3, <3>4 DEF LogTypeInv
  <2>4. CASE lat + 1 # llen
    <3>1. lat + 1 \in Nat /\ lat + 1 < llen /\ (lreg + 1) + (llen - (lat + 1)) < LogSize
      BY <1>2, <1>3, <1>4, <1>5, <1>6, <2>1, <2>4
    <3>2. LogPlaces'
      BY <1>2, <2>1, <2>2, <2>4, <3>1 DEF LogPlaces, LogChar, LogNul, sent
    <3>3. Doing'
      BY <1>4, <2>1, <2>4, <3>1 DEF Doing
    <3>4. LogRoom'
      BY <1>6, <2>1, <2>2, <2>4, <3>1 DEF LogRoom, Rest
    <3>. QED  BY <3>2, <3>3, <3>4 DEF LogTypeInv
  <2>. QED  BY <2>3, <2>4
<1>. QED  BY <1>7, <1>8, <1>9

\* printLog reads up to the pointer and starts the buffer over.
LEMMA LogTypePrint ==
    ASSUME LogTypeInv, PrintLog \/ PrintChar \/ PrintTest \/ PrintReset
    PROVE  LogTypeInv'
<1>2. /\ LogPlaces /\ Doing /\ LogRoom /\ LogSize \in Nat \ {0}
  BY LogNumbers DEF LogTypeInv
<1>3. /\ lat \in Nat /\ logbufferptr \in Nat /\ logbufferptr < LogSize
      /\ dst < LogSize /\ lreg < LogSize /\ llen < LogSize
  BY <1>2 DEF LogPlaces, LogRoom
<1>4. /\ UNCHANGED <<logbuffer, line, llen, dst, lreg, lines, lograced>>
      /\ logbufferptr' \in {logbufferptr, 0}
      /\ lpc' \in {"loop", "char", "test", "tail", "reset"}
  BY DEF PrintLog, PrintChar, PrintTest, PrintReset, buffer, local
<1>5. lat' \in Nat /\ Doing'
  <2>1. CASE PrintLog
    <3>1. lat = 0 /\ lat' = 0 /\ logbufferptr' = logbufferptr /\ 0 <= logbufferptr
      BY <1>2, <1>3, <2>1 DEF PrintLog, Doing, buffer, local
    <3>2. lpc' = "loop" \/ lpc' = "char"
      BY <2>1 DEF PrintLog
    <3>. QED  BY <3>1, <3>2 DEF Doing
  <2>2. CASE PrintChar
    <3>1. lat <= logbufferptr /\ lat' = lat /\ logbufferptr' = logbufferptr
      BY <1>2, <2>2 DEF PrintChar, Doing, buffer, local
    <3>2. lpc' = "test" \/ lpc' = "tail"
      BY <2>2 DEF PrintChar
    <3>. QED  BY <1>3, <3>1, <3>2 DEF Doing
  <2>3. CASE PrintTest
    <3>1. /\ logbufferptr' = logbufferptr
          /\ \/ lat < logbufferptr /\ lpc' = "char" /\ lat' = lat + 1
             \/ lpc' = "reset" /\ lat' = 0
      BY <2>3 DEF PrintTest, buffer
    <3>2. lat + 1 \in Nat /\ (lat < logbufferptr => lat + 1 <= logbufferptr)
      BY <1>3
    <3>. QED  BY <3>1, <3>2 DEF Doing
  <2>4. CASE PrintReset
    <3>1. lat = 0 /\ lat' = 0 /\ lpc' = "loop"
      BY <1>2, <2>4 DEF PrintReset, Doing, local
    <3>. QED  BY <3>1 DEF Doing
  <2>. QED  BY <2>1, <2>2, <2>3, <2>4
<1>6. console' \in Seq(LogChar) /\ extra' \in Seq([at : Nat, char : LogChar])
  <2>1. /\ console \in Seq(LogChar) /\ logbuffer \in [0..(LogSize - 1) -> LogChar]
        /\ extra \in Seq([at : Nat, char : LogChar])
    BY <1>2 DEF LogPlaces
  <2>2. CASE PrintChar /\ lat < logbufferptr
    <3>1. lat \in 0..(LogSize - 1)
      BY <1>2, <1>3, <2>2
    <3>2. PICK e \in LogChar : e = logbuffer[lat]
      BY <2>1, <3>1
    <3>3. console' = Append(console, e) /\ extra' = extra
      BY <1>3, <2>2, <3>2 DEF PrintChar
    <3>. QED  BY <2>1, <3>3
  <2>3. CASE PrintChar /\ ~(lat < logbufferptr)
    <3>1. lat <= logbufferptr
      BY <1>2, <2>3 DEF PrintChar, Doing
    <3>2. lat \in 0..(LogSize - 1)
      BY <1>2, <1>3, <3>1
    <3>3. PICK e \in LogChar : e = logbuffer[lat]
      BY <2>1, <3>2
    <3>4. PICK m \in [at : Nat, char : LogChar] : m = [at |-> Len(console), char |-> e]
      <4>1. PICK k \in Nat : k = Len(console)
        BY <2>1
      <4>2. [at |-> k, char |-> e] \in [at : Nat, char : LogChar]
        BY <3>3
      <4>. QED  BY <4>1, <4>2
    <3>5. extra' = Append(extra, m) /\ console' = console
      BY <2>3, <3>3, <3>4 DEF PrintChar
    <3>. QED  BY <2>1, <3>5
  <2>4. CASE ~PrintChar
    BY <2>1, <2>4 DEF PrintLog, PrintTest, PrintReset, sent
  <2>. QED  BY <2>2, <2>3, <2>4
<1>7. logbufferptr' \in Nat /\ logbufferptr' < LogSize
  BY <1>2, <1>3, <1>4
<1>8. LogPlaces'
  BY <1>2, <1>4, <1>5, <1>6, <1>7 DEF LogPlaces, LogChar, LogNul
<1>9. LogRoom'
  BY <1>3, <1>4, <1>7 DEF LogRoom
<1>. QED  BY <1>5, <1>8, <1>9 DEF LogTypeInv

\* LogTypeInv is inductive, whatever the interrupt does to the lines.
THEOREM LogTypeInvariant == LogSpec => []LogTypeInv
<1>1. ASSUME LogInit  PROVE LogTypeInv
  <2>1. /\ logbuffer = [i \in 0..(LogSize - 1) |-> LogNul] /\ logbufferptr = 0
        /\ lpc = "loop" /\ line = 0 /\ llen = 0 /\ dst = 0 /\ lat = 0 /\ lreg = 0
        /\ console = <<>> /\ extra = <<>> /\ lines = <<>> /\ lograced = FALSE
    BY <1>1 DEF LogInit
  <2>2. /\ console \in Seq(LogChar) /\ extra \in Seq([at : Nat, char : LogChar])
        /\ lines \in Seq(Lengths) /\ Len(lines) = 0
        /\ Len(lines) <= MaxLines /\ 0 \in 0..MaxLines
    BY <2>1, LoggerAssumption
  <2>3. LogPlaces
    BY <2>1, <2>2, LineChars DEF LogPlaces
  <2>4. Doing
    BY <2>1 DEF Doing
  <2>5. 0 < LogSize
    BY LoggerAssumption
  <2>6. LogRoom
    BY <2>1, <2>5 DEF LogRoom
  <2>. QED  BY <2>3, <2>4, <2>5, <2>6 DEF LogTypeInv
<1>2. ASSUME LogTypeInv, [LogNext]_logvars  PROVE LogTypeInv'
  <2>1. CASE LogMessage \/ LogStringnl
    BY <1>2, <2>1, LogTypeBegin DEF LogMessage, LogStringnl
  <2>2. CASE LogText \/ LogLoad \/ LogAdd
    BY <1>2, <2>2, LogTypeMessage
  <2>3. CASE StringPut \/ StringInc \/ StringBump
    BY <1>2, <2>3, LogTypeString
  <2>4. CASE PrintLog \/ PrintChar \/ PrintTest \/ PrintReset
    BY <1>2, <2>4, LogTypePrint
  <2>5. CASE EnetLog
    BY <1>2, <2>5, LogTypeEnet
  <2>6. CASE UNCHANGED logvars
    <3>1. /\ UNCHANGED <<logbuffer, logbufferptr, lpc, line, llen, dst, lat, lreg>>
          /\ UNCHANGED <<console, extra, lines, lograced>>
      BY <2>6 DEF logvars, buffer, local, sent
    <3>. QED  BY <1>2, <3>1 DEF LogTypeInv, LogPlaces, Doing, LogRoom, Rest, LogChar, LogNul
  <2>. QED  BY <1>2, <2>1, <2>2, <2>3, <2>4, <2>5, <2>6 DEF LogNext, LogMain
<1>. QED  BY <1>1, <1>2, PTL DEF LogSpec

\* The pointer and every access of logMessage, logStringnl and printLog stay
\* inside logbuffer wherever the interrupt falls, also where it spoils the
\* text, in the behaviours in which each line still has room when it is begun
\* (LogFits): the code itself does not check.
THEOREM LogTypeCorrect == LogSpec => []LogTypeOK
<1>1. ASSUME LogTypeInv  PROVE LogTypeOK
  <2>1. /\ LogPlaces /\ Doing /\ LogRoom /\ LogSize \in Nat \ {0}
    BY <1>1, LogNumbers DEF LogTypeInv
  <2>2. /\ logbufferptr \in Nat /\ dst \in Nat /\ lreg \in Nat /\ lat \in Nat /\ llen \in Nat
    BY <2>1, LogNumbers DEF LogPlaces
  <2>3. /\ logbufferptr \in 0..(LogSize - 1) /\ dst \in 0..(LogSize - 1)
        /\ lreg \in 0..(LogSize - 1) /\ llen < LogSize
    BY <2>1, <2>2 DEF LogRoom
  <2>4. lat \in 0..LogSize
    BY <2>1, <2>2, <2>3 DEF Doing
  <2>. QED  BY <2>1, <2>3, <2>4 DEF LogTypeOK, LogPlaces, Doing
<1>. QED  BY <1>1, LogTypeInvariant, PTL

-----------------------------------------------------------------------------
(* The invariant.                                                           *)

LogTypes ==
    /\ logbuffer \in [0..(LogSize - 1) -> Glyph] /\ logbufferptr \in Nat /\ lat \in Nat
    /\ console \in Seq(Glyph) /\ lines \in Seq(Nat) /\ Len(lines) <= MaxLines

\* Between the lines: what is shown and what waits are what was logged.
Between(from) ==
    /\ console \o Held(logbuffer, from, logbufferptr) = Flat(lines)
    /\ logbufferptr < LogSize

\* In the line that is logged behind the lines ls.
Inside(ls) ==
    /\ ls \in Seq(Nat) /\ llen \in Nat \ {0} /\ lines = Append(ls, llen) /\ line = Len(ls) + 1
    /\ lpc \in {"text", "load", "add"} =>
         /\ console \o Held(logbuffer, 0, logbufferptr) = Flat(ls)
         /\ logbufferptr + llen < LogSize
    /\ lpc = "text" =>
         /\ dst = logbufferptr /\ lat <= llen
         /\ \A j \in 0..(lat - 1) : logbuffer[logbufferptr + j] = <<line, j>>
    /\ lpc \in {"load", "add"} =>
         \A j \in 0..(llen - 1) : logbuffer[logbufferptr + j] = <<line, j>>
    /\ lpc \in {"put", "inc", "bump"} =>
         /\ console \o Held(logbuffer, 0, logbufferptr) = Flat(ls) \o Line(line, lat)
         /\ lat < llen /\ logbufferptr + (llen - lat) < LogSize
    /\ lpc \in {"inc", "bump"} => logbuffer[logbufferptr] = <<line, lat>>
    /\ lpc \in {"add", "bump"} => lreg = logbufferptr

LogSound ==
    /\ LogTypes
    /\ \/ lpc = "loop" /\ lat = 0 /\ Between(0)
       \/ lpc = "char" /\ lat <= logbufferptr /\ Between(lat)
       \/ lpc = "test" /\ lat < logbufferptr /\ Between(lat + 1)
       \/ lpc = "tail" /\ lat = logbufferptr /\ Between(lat + 1)
       \/ lpc = "reset" /\ lat = 0 /\ console = Flat(lines)
       \/ /\ lpc \in {"text", "load", "add", "put", "inc", "bump"}
          /\ \E ls \in Seq(Nat) : Inside(ls)
LogInv == ~lograced => LogSound

\* Texts may be joined in any order.
LEMMA Joined ==
    ASSUME NEW r \in Seq(Glyph), NEW s \in Seq(Glyph), NEW t \in Seq(Glyph)
    PROVE  (r \o s) \o t = r \o (s \o t)
BY ConcatAssociative

\* The laws of \o the log needs.
LEMMA Regroup ==
    ASSUME NEW r \in Seq(Glyph), NEW s \in Seq(Glyph), NEW t \in Seq(Glyph)
    PROVE  /\ (r \o s) \o t = r \o (s \o t) /\ r \o s \in Seq(Glyph)
           /\ r \o <<>> = r /\ <<>> \o r = r
           /\ \A e \in Glyph : Append(r, e) = r \o <<e>> /\ <<e>> \in Seq(Glyph)
<1>1. (r \o s) \o t = r \o (s \o t) /\ r \o s \in Seq(Glyph)
  BY ConcatAssociative, ConcatProperties
<1>2. r \o <<>> = r /\ <<>> \o r = r
  BY ConcatEmptySeq
<1>3. ASSUME NEW e \in Glyph  PROVE Append(r, e) = r \o <<e>> /\ <<e>> \in Seq(Glyph)
  BY AppendIsConcat
<1>. QED  BY <1>1, <1>2, <1>3

\* What is before the pointer are characters.
LEMMA InBuffer ==
    ASSUME LogTypes, logbufferptr < LogSize
    PROVE  /\ \A i \in 0..(LogSize - 1) : logbuffer[i] \in Glyph
           /\ \A i \in Nat : i < logbufferptr => logbuffer[i] \in Glyph
<1>1. LogSize \in Nat
  BY LoggerAssumption
<1>2. \A i \in 0..(LogSize - 1) : logbuffer[i] \in Glyph
  BY DEF LogTypes
<1>3. ASSUME NEW i \in Nat, i < logbufferptr  PROVE i \in 0..(LogSize - 1)
  BY <1>1, <1>3 DEF LogTypes
<1>. QED  BY <1>2, <1>3

\* One more line.
LEMMA OneMore ==
    ASSUME LogTypes, NEW n \in Lengths, Len(lines) < MaxLines
    PROVE  /\ n \in Nat \ {0} /\ Append(lines, n) \in Seq(Nat)
           /\ Len(Append(lines, n)) = Len(lines) + 1 /\ Len(lines) + 1 <= MaxLines
           /\ Flat(lines) \in Seq(Glyph)
           /\ Flat(Append(lines, n)) = Flat(lines) \o Line(Len(lines) + 1, n)
<1>1. n \in Nat \ {0} /\ MaxLines \in Nat
  BY LoggerAssumption
<1>2. lines \in Seq(Nat) /\ Len(lines) \in Nat
  BY DEF LogTypes
<1>3. /\ Flat(lines) \in Seq(Glyph)
      /\ Flat(Append(lines, n)) = Flat(lines) \o Line(Len(lines) + 1, n)
  BY <1>1, <1>2, FlatMore
<1>4. Append(lines, n) \in Seq(Nat) /\ Len(Append(lines, n)) = Len(lines) + 1
  BY <1>1, <1>2
<1>. QED  BY <1>1, <1>2, <1>3, <1>4

\* The interrupt between the lines.
LEMMA EnetBetween ==
    ASSUME LogTypes, llen \in Nat, NEW from \in Nat, from <= logbufferptr, Between(from),
           EnetLog
    PROVE  LogTypes' /\ Between(from)' /\ logbufferptr <= logbufferptr'
<1>0. PICK b, p, l, q : /\ b = logbuffer /\ p = logbufferptr /\ l = Len(lines) + 1
                             /\ q = console
  OBVIOUS
<1>1. PICK n \in Lengths :
        /\ lines' = Append(lines, n)
        /\ logbuffer' = Written(b, p, l, n)
        /\ logbufferptr' = p + n
        /\ p + llen + n < LogSize
  BY <1>0 DEF EnetLog, LogFits
<1>2. /\ Len(lines) < MaxLines /\ UNCHANGED <<lat, lpc, console>>
  BY DEF EnetLog, local, sent
<1>3. /\ n \in Nat \ {0} /\ lines' \in Seq(Nat) /\ Len(lines') = l /\ l <= MaxLines
      /\ Flat(lines) \in Seq(Glyph)
      /\ Flat(lines') = Flat(lines) \o Line(l, n)
  BY <1>0, <1>1, <1>2, OneMore
<1>4. /\ p \in Nat /\ l \in Nat /\ LogSize \in Nat
      /\ \A i \in 0..(LogSize - 1) : b[i] \in Glyph
      /\ DOMAIN b = 0..(LogSize - 1)
  BY <1>0, InBuffer, LoggerAssumption DEF LogTypes, Between
<1>5. p + n < LogSize
  BY <1>1, <1>3, <1>4
<1>6. logbuffer' = [i \in 0..(LogSize - 1) |-> IF i \in p..(p + n - 1) THEN <<l, i - p>>
                                              ELSE IF i = p + n THEN LogNul ELSE b[i]]
  BY <1>1, <1>4 DEF Written
<1>7. logbuffer' \in [0..(LogSize - 1) -> Glyph]
  <2>1. LogNul \in Glyph
    BY DEF LogNul, Glyph
  <2>2. ASSUME NEW i \in 0..(LogSize - 1), i \in p..(p + n - 1)  PROVE <<l, i - p>> \in Glyph
    <3>1. i - p \in Nat /\ l \in Nat
      BY <1>4, <2>2
    <3>. QED  BY <3>1 DEF Glyph
  <2>. QED  BY <1>4, <1>6, <2>1, <2>2
<1>8. PICK c : c = logbuffer'
  OBVIOUS
<1>9. ASSUME NEW i \in from..(p - 1)  PROVE c[i] = b[i]
  <2>1. i \in 0..(LogSize - 1) /\ i \notin p..(p + n - 1) /\ i # p + n
    <3>1. n \in Nat /\ p \in Nat /\ LogSize \in Nat /\ p + n < LogSize
      BY <1>3, <1>4, <1>5
    <3>. QED  BY <3>1, <1>9
  <2>. QED  BY <1>6, <1>8, <2>1
<1>10. \A j \in 0..(n - 1) : c[p + j] = <<l, j>>
  <2>. SUFFICES ASSUME NEW j \in 0..(n - 1)  PROVE c[p + j] = <<l, j>>
    OBVIOUS
  <2>1. p + j \in p..(p + n - 1) /\ (p + j) - p = j /\ p + j \in 0..(LogSize - 1)
    BY <1>3, <1>4, <1>5
  <2>. QED  BY <1>6, <1>8, <2>1
<1>. DEFINE s == Held(b, from, p)
<1>11. s \in Seq(Glyph) /\ Held(c, from, p + n) = s \o Line(l, n) /\ Line(l, n) \in Seq(Glyph)
  <2>1. \A i \in from..(p - 1) : i \in 0..(LogSize - 1)
    <3>1. n \in Nat /\ p \in Nat /\ LogSize \in Nat /\ p + n < LogSize
      BY <1>3, <1>4, <1>5
    <3>. QED  BY <3>1
  <2>2. ASSUME NEW i \in from..(p - 1)  PROVE b[i] \in Glyph /\ c[i] \in Glyph
    <3>1. i \in 0..(LogSize - 1) /\ c[i] = b[i]
      BY <1>9, <2>1, <2>2
    <3>. QED  BY <1>4, <3>1
  <2>3. Held(c, from, p) = s
    <3>1. p \in Nat
      BY <1>4
    <3>2. Held(c, from, p) = Held(b, from, p)
      BY <1>9, <3>1, HeldKept
    <3>. QED  BY <3>2
  <2>4. Held(c, from, p + n) = Held(c, from, p) \o Line(l, n)
    <3>1. n \in Nat /\ p \in Nat /\ l \in Nat
      BY <1>3, <1>4
    <3>2. from <= p /\ CharsIn(c, from, p) /\ LineAt(c, p, l, n)
      BY <1>0, <1>10, <2>2 DEF CharsIn, LineAt
    <3>3. Consists(Held(c, from, p + n), Held(c, from, p), Line(l, n))
      BY <3>1, <3>2, HeldMore
    <3>. QED  BY <3>3 DEF Consists
  <2>. QED  BY <1>3, <1>4, <2>2, <2>3, <2>4, HeldIs, LineIsSeq
<1>. HIDE DEF s
<1>12. q \in Seq(Glyph) /\ q \o s = Flat(lines)
  BY <1>0 DEF LogTypes, Between, s
<1>13. q \o (s \o Line(l, n)) = Flat(lines')
  <2>1. (q \o s) \o Line(l, n) = q \o (s \o Line(l, n))
    <3>1. PICK t : t = Line(l, n)
      OBVIOUS
    <3>2. q \in Seq(Glyph) /\ s \in Seq(Glyph) /\ t \in Seq(Glyph)
      BY <1>11, <1>12, <3>1
    <3>3. (q \o s) \o t = q \o (s \o t)
      BY <3>2, Joined
    <3>. QED  BY <3>1, <3>3
  <2>. QED  BY <1>3, <1>12, <2>1
<1>14. Between(from)'
  <2>1. Held(logbuffer, from, logbufferptr)' = s \o Line(l, n)
    BY <1>1, <1>8, <1>11 DEF Held
  <2>2. Flat(lines)' = Flat(lines')
    BY DEF Flat, Line
  <2>3. (logbufferptr < LogSize)'
    BY <1>1, <1>5
  <2>. QED  BY <1>0, <1>2, <1>13, <2>1, <2>2, <2>3 DEF Between
<1>15. LogTypes'
  <2>1. logbufferptr' \in Nat /\ Len(lines)' <= MaxLines
    BY <1>1, <1>3, <1>4
  <2>. QED  BY <1>2, <1>3, <1>7, <2>1 DEF LogTypes, Glyph
<1>16. logbufferptr <= logbufferptr'
  BY <1>0, <1>1, <1>3, <1>4
<1>. QED  BY <1>14, <1>15, <1>16

\* A line of one character more.
LEMMA LineMore ==
    ASSUME NEW l \in Nat, NEW k \in Nat
    PROVE  Line(l, k + 1) = Append(Line(l, k), <<l, k>>) /\ Line(l, 0) = <<>>
<1>. DEFINE s == Line(l, k)
            u == Line(l, k + 1)
            a == Append(s, <<l, k>>)
<1>1. s \in Seq(Glyph) /\ Len(s) = k /\ u \in Seq(Glyph) /\ Len(u) = k + 1 /\ <<l, k>> \in Glyph
  <2>1. s \in Seq(Glyph) /\ Len(s) = k
    BY LineIsSeq
  <2>2. k + 1 \in Nat
    OBVIOUS
  <2>3. u \in Seq(Glyph) /\ Len(u) = k + 1
    BY <2>2, LineIsSeq
  <2>. QED  BY <2>1, <2>3 DEF Glyph
<1>2. (\A i \in 1..k : s[i] = <<l, i - 1>>) /\ (\A i \in 1..(k + 1) : u[i] = <<l, i - 1>>)
  BY DEF Line
<1>. HIDE DEF s, u
<1>3. /\ a \in Seq(Glyph) /\ Len(a) = k + 1 /\ a[k + 1] = <<l, k>>
      /\ \A i \in 1..k : a[i] = s[i]
  BY <1>1
<1>. HIDE DEF a
<1>4. ASSUME NEW i \in 1..(k + 1)  PROVE u[i] = a[i]
  <2>1. i = k + 1 \/ i \in 1..k
    OBVIOUS
  <2>2. (k + 1) - 1 = k
    OBVIOUS
  <2>. QED  BY <1>2, <1>3, <2>1, <2>2
<1>5. u = a
  BY <1>1, <1>3, <1>4, SameSeq
<1>6. Line(l, 0) \in Seq(Glyph) /\ Len(Line(l, 0)) = 0
  BY LineIsSeq
<1>7. Line(l, 0) = <<>>
  BY <1>6, EmptySeq
<1>. QED  BY <1>5, <1>7 DEF s, u, a

\* A character more at the end.
LEMMA OneBehind ==
    ASSUME NEW q \in Seq(Glyph), NEW s \in Seq(Glyph), NEW e \in Glyph, NEW w,
           Consists(w, q, s)
    PROVE  Consists(Append(w, e), q, Append(s, e))
<1>1. PICK x \in Seq(Glyph) : x = <<e>>
  BY Regroup
<1>2. (q \o s) \o x = q \o (s \o x) /\ q \o s \in Seq(Glyph)
  BY Joined, ConcatProperties
<1>3. PICK v \in Seq(Glyph) : v = q \o s
  BY <1>2
<1>4. Append(v, e) = v \o <<e>> /\ Append(s, e) = s \o <<e>>
  BY Regroup
<1>. QED  BY <1>1, <1>2, <1>3, <1>4 DEF Consists

\* A character that is shown no longer waits.
LEMMA ShowOne ==
    ASSUME NEW q \in Seq(Glyph), NEW s \in Seq(Glyph), NEW e \in Glyph, NEW u,
           Consists(u, <<e>>, s)
    PROVE  Append(q, e) \o s = q \o u
<1>1. Append(q, e) = q \o <<e>> /\ <<e>> \in Seq(Glyph)
  BY Regroup
<1>2. PICK x \in Seq(Glyph) : x = <<e>>
  BY <1>1
<1>3. (q \o x) \o s = q \o (x \o s)
  BY Joined
<1>. QED  BY <1>1, <1>2, <1>3 DEF Consists

\* logMessage and logStringnl begin behind what was logged.
LEMMA LogBegins ==
    ASSUME LogSound, llen \in Nat, NEW next \in {"text", "put"}, LogBegin(next)
    PROVE  LogSound'
<1>0. /\ lpc = "loop" /\ lat = 0 /\ Between(0) /\ LogTypes /\ Len(lines) < MaxLines
  BY DEF LogBegin, LogSound, Inside
<1>1. PICK n \in Lengths :
        logbufferptr + llen + n < LogSize /\ lines' = Append(lines, n) /\ llen' = n
  BY DEF LogBegin, LogFits
<1>2. /\ line' = Len(lines) + 1 /\ dst' = logbufferptr /\ lpc' = next
      /\ UNCHANGED <<logbuffer, logbufferptr, lat, lreg, console, lograced>>
  BY DEF LogBegin, buffer, sent
<1>3. PICK ls : ls = lines
  OBVIOUS
<1>4. /\ n \in Nat \ {0} /\ lines' \in Seq(Nat) /\ Len(lines') = Len(ls) + 1
      /\ Len(ls) + 1 <= MaxLines /\ Flat(ls) \in Seq(Glyph)
  BY <1>0, <1>1, <1>3, OneMore
<1>5. LogTypes'
  BY <1>0, <1>2, <1>3, <1>4 DEF LogTypes, Glyph
<1>6. /\ logbufferptr \in Nat /\ ls \in Seq(Nat) /\ Len(ls) \in Nat
      /\ console \o Held(logbuffer, 0, logbufferptr) = Flat(ls)
      /\ logbufferptr < LogSize /\ LogSize \in Nat
  BY <1>0, <1>3, LoggerAssumption DEF Between, LogTypes
<1>7. logbufferptr + n < LogSize
  BY <1>1, <1>4, <1>6
<1>8. (console \o Held(logbuffer, 0, logbufferptr) = Flat(ls))'
  BY <1>2, <1>6 DEF Held, Flat, Line
<1>9. Flat(ls) \o Line(Len(ls) + 1, 0) = Flat(ls)
  <2>1. Line(Len(ls) + 1, 0) = <<>>
    BY <1>6, LineMore
  <2>. QED  BY <1>4, <2>1, Regroup
<1>10. Inside(ls)'
  <2>1. /\ llen' \in Nat \ {0} /\ lines' = Append(ls, llen') /\ line' = Len(ls) + 1
        /\ lat' = 0 /\ dst' = logbufferptr' /\ lpc' \in {"text", "put"}
    BY <1>0, <1>1, <1>2, <1>3, <1>4
  <2>2. logbufferptr' + llen' < LogSize
    BY <1>1, <1>2, <1>7
  <2>3. /\ (console \o Held(logbuffer, 0, logbufferptr))' = Flat(ls) \o Line(line, lat)'
        /\ lat' < llen' /\ logbufferptr' + (llen' - lat') < LogSize
    <3>1. Line(line, lat)' = Line(Len(ls) + 1, 0)
      BY <1>2, <2>1 DEF Line
    <3>2. llen' - lat' = llen' /\ lat' < llen'
      <4>1. PICK m \in Nat \ {0} : m = llen'
        BY <2>1
      <4>2. m - 0 = m /\ 0 < m
        OBVIOUS
      <4>3. lat' = 0
        BY <2>1
      <4>. QED  BY <4>1, <4>2, <4>3
    <3>3. Flat(ls)' = Flat(ls)
      BY DEF Flat, Line
    <3>. QED  BY <1>8, <1>9, <2>2, <3>1, <3>2, <3>3
  <2>4. (\A j \in 0..(lat - 1) : logbuffer[logbufferptr + j] = <<line, j>>)' /\ lat' <= llen'
    <3>1. \A j \in 0..(lat' - 1) : FALSE
      <4>1. lat' = 0
        BY <2>1
      <4>. QED  BY <4>1
    <3>. QED  BY <2>1, <3>1
  <2>5. (Flat(ls) \o Line(line, lat))' = Flat(ls) \o Line(line, lat)'
    BY DEF Flat, Line
  <2>. QED  BY <1>6, <1>8, <2>1, <2>2, <2>3, <2>4, <2>5 DEF Inside
<1>. QED  BY <1>2, <1>5, <1>6, <1>10 DEF LogSound

\* What a main loop inside a line may rely on.
LEMMA InLine ==
    ASSUME LogTypes, NEW ls, Inside(ls)
    PROVE  /\ ls \in Seq(Nat) /\ Len(ls) \in Nat /\ line = Len(ls) + 1 /\ line \in Nat
           /\ llen \in Nat \ {0} /\ lines = Append(ls, llen)
           /\ Flat(ls) \in Seq(Glyph) /\ Consists(Flat(lines), Flat(ls), Line(line, llen))
           /\ LogSize \in Nat /\ logbufferptr \in Nat /\ lat \in Nat
           /\ lpc \in {"text", "load", "add"} => logbufferptr + llen < LogSize
           /\ lpc \in {"put", "inc", "bump"} => logbufferptr + (llen - lat) < LogSize
<1>1. /\ ls \in Seq(Nat) /\ Len(ls) \in Nat /\ line = Len(ls) + 1 /\ line \in Nat
      /\ llen \in Nat \ {0} /\ lines = Append(ls, llen)
  <2>1. ls \in Seq(Nat) /\ line = Len(ls) + 1 /\ llen \in Nat \ {0} /\ lines = Append(ls, llen)
    BY DEF Inside
  <2>2. Len(ls) \in Nat
    BY <2>1
  <2>. QED  BY <2>1, <2>2
<1>2. Flat(ls) \in Seq(Glyph) /\ Consists(Flat(lines), Flat(ls), Line(line, llen))
  <2>1. PICK n \in Nat : n = llen
    BY <1>1
  <2>2. Flat(ls) \in Seq(Glyph) /\ Flat(Append(ls, n)) = Flat(ls) \o Line(Len(ls) + 1, n)
    BY <1>1, FlatMore
  <2>. QED  BY <1>1, <2>1, <2>2 DEF Consists
<1>3. LogSize \in Nat /\ logbufferptr \in Nat /\ lat \in Nat
  BY LoggerAssumption DEF LogTypes
<1>. QED  BY <1>1, <1>2, <1>3 DEF Inside

\* A character written at or behind the pointer leaves the text before it.
LEMMA WriteBehind ==
    ASSUME LogTypes, NEW at \in Nat, at < LogSize, logbufferptr <= at, NEW e \in Glyph,
           logbuffer' = [logbuffer EXCEPT ![at] = e], UNCHANGED logbufferptr
    PROVE  /\ logbuffer' \in [0..(LogSize - 1) -> Glyph]
           /\ Held(logbuffer, 0, logbufferptr)' = Held(logbuffer, 0, logbufferptr)
           /\ logbuffer'[at] = e
           /\ \A i \in Nat : i < at => logbuffer'[i] = logbuffer[i]
<1>1. PICK b, c, p : b = logbuffer /\ c = logbuffer' /\ p = logbufferptr
  OBVIOUS
<1>2. b \in [0..(LogSize - 1) -> Glyph] /\ LogSize \in Nat /\ c = [b EXCEPT ![at] = e] /\ p <= at
      /\ p \in Nat
  BY <1>1, LoggerAssumption DEF LogTypes
<1>3. at \in 0..(LogSize - 1)
  BY <1>2
<1>4. c \in [0..(LogSize - 1) -> Glyph] /\ c[at] = e
  BY <1>2, <1>3
<1>5. ASSUME NEW i \in Nat, i < at  PROVE c[i] = b[i]
  <2>1. i \in 0..(LogSize - 1) /\ i # at
    BY <1>2, <1>5
  <2>. QED  BY <1>2, <2>1
<1>6. Held(c, 0, p) = Held(b, 0, p)
  <2>1. PICK from \in Nat : from = 0
    OBVIOUS
  <2>2. \A i \in from..(p - 1) : c[i] = b[i]
    BY <1>2, <1>5, <2>1
  <2>3. Held(c, from, p) = Held(b, from, p)
    <3>1. p \in Nat
      BY <1>2
    <3>. QED  BY <2>2, <3>1, HeldKept
  <2>. QED  BY <2>1, <2>3
<1>7. Held(logbuffer, 0, logbufferptr)' = Held(logbuffer, 0, logbufferptr)
  BY <1>1, <1>6 DEF Held
<1>. QED  BY <1>1, <1>4, <1>5, <1>7 DEF Glyph

\* vsprintf writes behind the pointer.
LEMMA LogTexts ==
    ASSUME LogSound, LogText
    PROVE  LogSound'
<1>0. LogTypes /\ lpc = "text" /\ \E ls \in Seq(Nat) : Inside(ls)
  BY DEF LogText, LogSound
<1>1. PICK ls \in Seq(Nat) : Inside(ls)
  BY <1>0
<1>. DEFINE e == IF lat = llen THEN LogNul ELSE <<line, lat>>
<1>2. /\ logbuffer' = [logbuffer EXCEPT ![dst + lat] = e] /\ lat' = lat + 1
      /\ lpc' = (IF lat = llen THEN "load" ELSE "text")
      /\ UNCHANGED <<logbufferptr, line, llen, dst, lreg, console, lines>>
  BY DEF LogText, sent
<1>3. /\ Len(ls) \in Nat /\ line = Len(ls) + 1 /\ line \in Nat
      /\ llen \in Nat \ {0} /\ lines = Append(ls, llen)
      /\ LogSize \in Nat /\ logbufferptr \in Nat /\ lat \in Nat
      /\ logbufferptr + llen < LogSize
  BY <1>0, <1>1, InLine
<1>4. /\ dst = logbufferptr /\ lat <= llen
      /\ \A j \in 0..(lat - 1) : logbuffer[logbufferptr + j] = <<line, j>>
      /\ console \o Held(logbuffer, 0, logbufferptr) = Flat(ls)
      /\ logbufferptr + llen < LogSize
  BY <1>0, <1>1 DEF Inside
<1>5. e \in Glyph
  BY <1>3 DEF Glyph, LogNul
<1>. HIDE DEF e
<1>6. PICK at \in Nat : at = logbufferptr + lat /\ at < LogSize /\ logbufferptr <= at
  <2>1. /\ logbufferptr \in Nat /\ lat \in Nat /\ llen \in Nat /\ lat <= llen /\ LogSize \in Nat
        /\ logbufferptr + llen < LogSize
    BY <1>3, <1>4
  <2>2. logbufferptr + lat \in Nat /\ logbufferptr + lat < LogSize /\ logbufferptr <= logbufferptr + lat
    BY <2>1
  <2>. QED  BY <2>2
<1>7. /\ logbuffer' \in [0..(LogSize - 1) -> Glyph]
      /\ Held(logbuffer, 0, logbufferptr)' = Held(logbuffer, 0, logbufferptr)
      /\ logbuffer'[at] = e
      /\ \A i \in Nat : i < at => logbuffer'[i] = logbuffer[i]
  <2>1. logbuffer' = [logbuffer EXCEPT ![at] = e] /\ UNCHANGED logbufferptr
    BY <1>2, <1>4, <1>6
  <2>. QED  BY <1>0, <1>5, <1>6, <2>1, WriteBehind
<1>8. LogTypes'
  <2>1. lat' \in Nat
    BY <1>2, <1>3
  <2>. QED  BY <1>0, <1>2, <1>7, <2>1 DEF LogTypes, Glyph
<1>9. \A j \in 0..(lat - 1) : logbuffer'[logbufferptr + j] = <<line, j>>
  <2>. SUFFICES ASSUME NEW j \in 0..(lat - 1)
                PROVE  logbuffer'[logbufferptr + j] = <<line, j>>
    OBVIOUS
  <2>1. logbufferptr + j \in Nat /\ logbufferptr + j < at
    BY <1>3, <1>6
  <2>. QED  BY <1>4, <1>7, <2>1
<1>10. (console \o Held(logbuffer, 0, logbufferptr) = Flat(ls))'
  <2>1. Flat(ls)' = Flat(ls)
    BY DEF Flat, Line
  <2>. QED  BY <1>2, <1>4, <1>7, <2>1
<1>11. CASE lat = llen
  <2>1. lpc' = "load" /\ \A j \in 0..(llen - 1) : logbuffer'[logbufferptr + j] = <<line, j>>
    BY <1>2, <1>9, <1>11
  <2>2. Inside(ls)'
    BY <1>2, <1>3, <1>4, <1>10, <2>1 DEF Inside
  <2>. QED  BY <1>8, <2>1, <2>2 DEF LogSound
<1>12. CASE lat # llen
  <2>1. lpc' = "text" /\ lat' <= llen
    BY <1>2, <1>3, <1>4, <1>12
  <2>2. \A j \in 0..(lat' - 1) : logbuffer'[logbufferptr + j] = <<line, j>>
    <3>. SUFFICES ASSUME NEW j \in 0..(lat' - 1)
                  PROVE  logbuffer'[logbufferptr + j] = <<line, j>>
      OBVIOUS
    <3>1. j = lat \/ j \in 0..(lat - 1)
      BY <1>2, <1>3
    <3>2. logbuffer'[logbufferptr + lat] = <<line, lat>>
      BY <1>6, <1>7, <1>12 DEF e
    <3>. QED  BY <1>9, <3>1, <3>2
  <2>3. Inside(ls)'
    BY <1>2, <1>3, <1>4, <1>10, <2>1, <2>2 DEF Inside
  <2>. QED  BY <1>8, <2>1, <2>3 DEF LogSound
<1>. QED  BY <1>11, <1>12

\* Loading the pointer changes nothing else.
LEMMA LogLoads ==
    ASSUME LogSound, LogLoad \/ StringInc
    PROVE  LogSound'
<1>0. /\ LogTypes /\ lpc \in {"load", "inc"}
      /\ lpc' = IF lpc = "load" THEN "add" ELSE "bump"
      /\ lreg' = logbufferptr
      /\ UNCHANGED <<logbuffer, logbufferptr, line, llen, dst, lat, console, lines>>
  BY DEF LogLoad, StringInc, LogSound, buffer, sent
<1>1. PICK ls \in Seq(Nat) : Inside(ls)
  BY <1>0 DEF LogSound
<1>2. LogTypes'
  BY <1>0 DEF LogTypes, Glyph
<1>3. /\ Held(logbuffer, 0, logbufferptr)' = Held(logbuffer, 0, logbufferptr)
      /\ Flat(ls)' = Flat(ls) /\ (Flat(ls) \o Line(line, lat))' = Flat(ls) \o Line(line, lat)
  BY <1>0 DEF Held, Flat, Line
<1>4. Inside(ls)'
  <2>1. CASE lpc = "load"
    BY <1>0, <1>1, <1>3, <2>1 DEF Inside
  <2>2. CASE lpc = "inc"
    BY <1>0, <1>1, <1>3, <2>2 DEF Inside
  <2>. QED  BY <1>0, <2>1, <2>2
<1>5. lpc' \in {"add", "bump"}
  BY <1>0
<1>. QED  BY <1>2, <1>4, <1>5 DEF LogSound

\* logMessage ends: the line is behind the text that waited.
LEMMA LogAdds ==
    ASSUME LogSound, LogAdd
    PROVE  LogSound'
<1>0. /\ LogTypes /\ lpc = "add" /\ lpc' = "loop" /\ lat' = 0
      /\ logbufferptr' = lreg + llen /\ UNCHANGED <<logbuffer, console, lines>>
  BY DEF LogAdd, LogDone, LogSound, sent
<1>1. PICK ls \in Seq(Nat) : Inside(ls)
  BY <1>0 DEF LogSound
<1>2. PICK b, p, q, l, n : /\ b = logbuffer /\ p = logbufferptr /\ q = console
                           /\ l = line /\ n = llen
  OBVIOUS
<1>3. /\ l \in Nat /\ n \in Nat /\ p \in Nat /\ LogSize \in Nat /\ p + n < LogSize
      /\ Flat(ls) \in Seq(Glyph) /\ Consists(Flat(lines), Flat(ls), Line(l, n))
  BY <1>0, <1>1, <1>2, InLine
<1>4. /\ Consists(Flat(ls), q, Held(b, 0, p)) /\ logbufferptr' = p + n
      /\ LineAt(b, p, l, n)
  BY <1>0, <1>1, <1>2 DEF Inside, Consists, LineAt
<1>5. q \in Seq(Glyph) /\ b \in [0..(LogSize - 1) -> Glyph]
  BY <1>0, <1>2 DEF LogTypes
<1>6. PICK from \in Nat : from = 0
  OBVIOUS
<1>7. PICK s, t, e : s = Held(b, from, p) /\ t = Line(l, n) /\ e = p + n
  OBVIOUS
<1>8. from <= p /\ CharsIn(b, from, p)
  BY <1>3, <1>5, <1>6 DEF CharsIn
<1>9. Consists(Held(b, from, e), s, t)
  BY <1>3, <1>4, <1>7, <1>8, HeldMore
<1>10. s \in Seq(Glyph) /\ t \in Seq(Glyph)
  <2>1. s \in Seq(Glyph)
    BY <1>3, <1>7, <1>8, HeldIs DEF CharsIn
  <2>. QED  BY <1>3, <1>7, <2>1, LineIsSeq
<1>11. Consists(Flat(lines), q, Held(b, from, e))
  <2>1. (q \o s) \o t = q \o (s \o t)
    <3>1. q \in Seq(Glyph)
      BY <1>5
    <3>. QED  BY <1>10, <3>1, Joined
  <2>2. Flat(ls) = q \o s /\ Flat(lines) = Flat(ls) \o t
    BY <1>3, <1>4, <1>6, <1>7 DEF Consists
  <2>3. Held(b, from, e) = s \o t
    BY <1>9 DEF Consists
  <2>. QED  BY <2>1, <2>2, <2>3 DEF Consists
<1>12. Between(0)'
  <2>1. Held(logbuffer, 0, logbufferptr)' = Held(b, from, e) /\ Flat(lines)' = Flat(lines)
    BY <1>0, <1>2, <1>4, <1>6, <1>7 DEF Held, Flat, Line
  <2>. QED  BY <1>0, <1>2, <1>3, <1>4, <1>11, <2>1 DEF Between, Consists
<1>13. LogTypes'
  <2>1. logbufferptr' \in Nat /\ lat' \in Nat
    BY <1>0, <1>3, <1>4
  <2>. QED  BY <1>0, <2>1 DEF LogTypes, Glyph
<1>. QED  BY <1>0, <1>12, <1>13 DEF LogSound

\* logStringnl writes a character at the pointer.
LEMMA StringPuts ==
    ASSUME LogSound, StringPut
    PROVE  LogSound'
<1>0. /\ LogTypes /\ lpc = "put" /\ lpc' = "inc"
      /\ logbuffer' = [logbuffer EXCEPT ![logbufferptr] = <<line, lat>>]
      /\ UNCHANGED <<logbufferptr, line, llen, dst, lat, lreg, console, lines>>
  BY DEF StringPut, LogSound, local, sent
<1>1. PICK ls \in Seq(Nat) : Inside(ls)
  BY <1>0 DEF LogSound
<1>2. /\ line \in Nat /\ llen \in Nat /\ logbufferptr \in Nat /\ LogSize \in Nat /\ lat \in Nat
      /\ logbufferptr + (llen - lat) < LogSize
  BY <1>0, <1>1, InLine
<1>3. /\ console \o Held(logbuffer, 0, logbufferptr) = Flat(ls) \o Line(line, lat)
      /\ lat < llen
  BY <1>0, <1>1 DEF Inside
<1>4. PICK at \in Nat : at = logbufferptr /\ at < LogSize
  BY <1>2, <1>3
<1>5. PICK e \in Glyph : e = <<line, lat>>
  BY <1>2 DEF Glyph
<1>6. /\ logbuffer' \in [0..(LogSize - 1) -> Glyph]
      /\ Held(logbuffer, 0, logbufferptr)' = Held(logbuffer, 0, logbufferptr)
      /\ logbuffer'[at] = e
  <2>1. logbuffer' = [logbuffer EXCEPT ![at] = e] /\ UNCHANGED logbufferptr /\ logbufferptr <= at
    BY <1>0, <1>2, <1>4, <1>5
  <2>. QED  BY <1>0, <1>4, <2>1, WriteBehind
<1>7. (Flat(ls) \o Line(line, lat))' = Flat(ls) \o Line(line, lat) /\ Flat(ls)' = Flat(ls)
  BY <1>0 DEF Flat, Line
<1>8. Inside(ls)'
  <2>1. (console \o Held(logbuffer, 0, logbufferptr) = Flat(ls) \o Line(line, lat))'
    BY <1>0, <1>3, <1>6, <1>7
  <2>2. (logbuffer[logbufferptr] = <<line, lat>>)'
    BY <1>0, <1>4, <1>5, <1>6
  <2>. QED  BY <1>0, <1>1, <2>1, <2>2 DEF Inside
<1>9. LogTypes'
  BY <1>0, <1>6 DEF LogTypes, Glyph
<1>. QED  BY <1>0, <1>8, <1>9 DEF LogSound

\* It counts the character, and after the last one the line is whole.
LEMMA StringBumps ==
    ASSUME LogSound, StringBump
    PROVE  LogSound'
<1>0. /\ LogTypes /\ lpc = "bump" /\ logbufferptr' = lreg + 1
      /\ UNCHANGED <<logbuffer, console, lines>>
      /\ \/ lat + 1 = llen /\ lpc' = "loop" /\ lat' = 0
         \/ lat + 1 # llen /\ lpc' = "put" /\ lat' = lat + 1 /\ UNCHANGED <<line, llen, dst, lreg>>
  BY DEF StringBump, LogDone, LogSound, sent
<1>1. PICK ls \in Seq(Nat) : Inside(ls)
  BY <1>0 DEF LogSound
<1>2. PICK b, p, q, l, n, k, f :
        /\ b = logbuffer /\ p = logbufferptr /\ q = console
        /\ l = line /\ n = llen /\ k = lat /\ f = Flat(ls)
  OBVIOUS
<1>3. /\ l \in Nat /\ n \in Nat \ {0} /\ p \in Nat /\ k \in Nat /\ LogSize \in Nat
      /\ f \in Seq(Glyph) /\ Consists(Flat(lines), f, Line(l, n))
      /\ p + (n - k) < LogSize /\ lines = Append(ls, n) /\ l = Len(ls) + 1
  BY <1>0, <1>1, <1>2, InLine
<1>4. /\ q \o Held(b, 0, p) = f \o Line(l, k) /\ logbufferptr' = p + 1
      /\ k < n /\ b[p] = <<l, k>>
  BY <1>0, <1>1, <1>2 DEF Inside
<1>5. q \in Seq(Glyph) /\ b \in [0..(LogSize - 1) -> Glyph]
  BY <1>0, <1>2 DEF LogTypes
<1>6. PICK e \in Glyph : e = <<l, k>>
  BY <1>3 DEF Glyph
<1>7. PICK from \in Nat : from = 0
  OBVIOUS
<1>8. from <= p /\ (\A i \in from..(p - 1) : b[i] \in Glyph) /\ (\A i \in from..p : b[i] \in Glyph)
  BY <1>3, <1>4, <1>5, <1>7
<1>9. PICK s \in Seq(Glyph) : s = Held(b, from, p)
  BY <1>3, <1>8, HeldIs
<1>10. PICK t \in Seq(Glyph) : t = Line(l, k)
  BY <1>3, LineIsSeq
<1>11. Held(b, from, p + 1) = Append(s, e)
  <2>1. p \in Nat /\ b[p] = e
    BY <1>3, <1>4, <1>6
  <2>2. Held(b, from, p + 1) = Append(Held(b, from, p), b[p])
    BY <1>8, <2>1, HeldOne
  <2>. QED  BY <1>9, <2>1, <2>2
<1>12. Line(l, k + 1) = Append(t, e)
  BY <1>3, <1>6, <1>10, LineMore
<1>13. q \o Held(b, 0, p + 1) = f \o Line(l, k + 1)
  <2>1. PICK w : w = q \o s
    OBVIOUS
  <2>2. Consists(w, q, s) /\ Consists(w, f, t)
    BY <1>4, <1>7, <1>9, <1>10, <2>1 DEF Consists
  <2>3. Consists(Append(w, e), q, Append(s, e)) /\ Consists(Append(w, e), f, Append(t, e))
    BY <1>3, <1>5, <2>2, OneBehind
  <2>. QED  BY <1>7, <1>11, <1>12, <2>3 DEF Consists
<1>14. /\ p + 1 < LogSize
       /\ k + 1 # n => k + 1 < n /\ (p + 1) + (n - (k + 1)) < LogSize
  BY <1>3, <1>4
<1>15. /\ Held(logbuffer, 0, logbufferptr)' = Held(b, 0, p + 1)
       /\ Flat(lines)' = Flat(lines) /\ Flat(ls)' = f
  BY <1>0, <1>2, <1>4 DEF Held, Flat, Line
<1>16. CASE k + 1 = n
  <2>1. lpc' = "loop" /\ lat' = 0
    BY <1>0, <1>2, <1>16
  <2>2. logbufferptr' < LogSize /\ logbufferptr' \in Nat
    <3>1. p + 1 \in Nat
      BY <1>3
    <3>. QED  BY <1>4, <1>14, <3>1
  <2>3. Between(0)'
    BY <1>0, <1>2, <1>3, <1>13, <1>15, <1>16, <2>2 DEF Between, Consists
  <2>4. LogTypes'
    BY <1>0, <2>1, <2>2 DEF LogTypes, Glyph
  <2>. QED  BY <2>1, <2>3, <2>4 DEF LogSound
<1>17. CASE k + 1 # n
  <2>1. lpc' = "put" /\ lat' = k + 1 /\ UNCHANGED <<line, llen, dst, lreg>>
    BY <1>0, <1>2, <1>17
  <2>2. /\ logbufferptr' \in Nat /\ lat' \in Nat /\ lat' < n
        /\ logbufferptr' + (n - lat') < LogSize
    <3>1. (p + 1) + (n - (k + 1)) < LogSize /\ k + 1 < n
      BY <1>14, <1>17
    <3>2. p + 1 \in Nat /\ k + 1 \in Nat
      BY <1>3
    <3>. QED  BY <1>4, <2>1, <3>1, <3>2
  <2>3. (Flat(ls) \o Line(line, lat))' = f \o Line(l, k + 1)
    <3>1. Line(line, lat)' = Line(l, k + 1)
      BY <1>2, <2>1 DEF Line
    <3>. QED  BY <1>15, <3>1
  <2>4. (console \o Held(logbuffer, 0, logbufferptr))' = q \o Held(b, 0, p + 1)
    BY <1>0, <1>2, <1>15
  <2>5. Inside(ls)'
    BY <1>0, <1>2, <1>3, <1>13, <2>1, <2>2, <2>3, <2>4 DEF Inside
  <2>6. LogTypes'
    BY <1>0, <2>2 DEF LogTypes, Glyph
  <2>. QED  BY <2>1, <2>5, <2>6 DEF LogSound
<1>. QED  BY <1>16, <1>17

\* printLog starts when there is text.
LEMMA PrintLogs ==
    ASSUME LogSound, PrintLog
    PROVE  LogSound'
<1>1. /\ LogTypes /\ lpc = "loop" /\ lat = 0 /\ Between(0)
      /\ lpc' = IF logbufferptr > 0 THEN "char" ELSE "loop"
      /\ UNCHANGED <<logbuffer, logbufferptr, lat, console, lines>>
  BY DEF PrintLog, LogSound, buffer, local, sent
<1>2. LogTypes'
  BY <1>1 DEF LogTypes, Glyph
<1>3. Held(logbuffer, 0, logbufferptr)' = Held(logbuffer, 0, logbufferptr)
      /\ Flat(lines)' = Flat(lines)
  BY <1>1 DEF Held, Flat, Line
<1>4. Between(0)'
  BY <1>1, <1>3 DEF Between
<1>5. Between(lat)' /\ lat' <= logbufferptr'
  <2>1. Held(logbuffer, lat, logbufferptr)' = Held(logbuffer, 0, logbufferptr)'
    BY <1>1 DEF Held
  <2>2. 0 <= logbufferptr
    BY <1>1 DEF LogTypes
  <2>. QED  BY <1>1, <1>4, <2>1, <2>2 DEF Between
<1>. QED  BY <1>1, <1>2, <1>4, <1>5 DEF LogSound

\* It shows a character, or finds the pointer.
LEMMA PrintChars ==
    ASSUME LogSound, PrintChar
    PROVE  LogSound'
<1>1. /\ LogTypes /\ lpc = "char" /\ lat <= logbufferptr /\ Between(lat)
      /\ UNCHANGED <<logbuffer, logbufferptr, lat, lines>>
      /\ \/ lat < logbufferptr /\ console' = Append(console, logbuffer[lat]) /\ lpc' = "test"
         \/ ~(lat < logbufferptr) /\ UNCHANGED console /\ lpc' = "tail"
  <2>1. LogTypes /\ lpc = "char" /\ lat <= logbufferptr /\ Between(lat)
    BY DEF PrintChar, LogSound
  <2>2. lat \in Nat /\ logbufferptr \in Nat
    BY <2>1 DEF LogTypes
  <2>3. lat >= logbufferptr => ~(lat < logbufferptr)
    BY <2>2
  <2>. QED  BY <2>1, <2>3 DEF PrintChar, buffer, local
<1>2. PICK b, p, q, k : b = logbuffer /\ p = logbufferptr /\ q = console /\ k = lat
  OBVIOUS
<1>3. /\ p \in Nat /\ k \in Nat /\ k <= p /\ q \in Seq(Glyph) /\ LogSize \in Nat
      /\ b \in [0..(LogSize - 1) -> Glyph]
  BY <1>1, <1>2, LoggerAssumption DEF LogTypes
<1>4. q \o Held(b, k, p) = Flat(lines) /\ p < LogSize
  BY <1>1, <1>2 DEF Between
<1>5. (\A i \in k..(p - 1) : b[i] \in Glyph) /\ (\A i \in (k + 1)..(p - 1) : b[i] \in Glyph)
  <2>1. \A i \in Nat : i < p => i \in 0..(LogSize - 1)
    BY <1>3, <1>4
  <2>2. \A i \in Nat : i < p => b[i] \in Glyph
    BY <1>3, <2>1
  <2>. QED  BY <1>3, <2>2
<1>6. PICK s : s = Held(b, k + 1, p)
  OBVIOUS
<1>7. s \in Seq(Glyph) /\ (k >= p => s = <<>> /\ Held(b, k, p) = <<>>)
  <2>1. k + 1 \in Nat /\ (k >= p => k + 1 >= p)
    BY <1>3
  <2>2. Held(b, k + 1, p) \in Seq(Glyph) /\ (k + 1 >= p => Held(b, k + 1, p) = <<>>)
    BY <1>3, <1>5, <2>1, HeldIs
  <2>3. k >= p => Held(b, k, p) = <<>>
    BY <1>3, <1>5, HeldIs
  <2>. QED  BY <1>6, <2>1, <2>2, <2>3
<1>8. Held(logbuffer, lat + 1, logbufferptr)' = s /\ Flat(lines)' = Flat(lines)
  BY <1>1, <1>2, <1>6 DEF Held, Flat, Line
<1>9. CASE k < p
  <2>1. PICK e \in Glyph : e = b[k]
    BY <1>3, <1>5, <1>9
  <2>2. Consists(Held(b, k, p), <<e>>, s)
    <3>1. CharsIn(b, k, p)
      BY <1>5 DEF CharsIn
    <3>. QED  BY <1>3, <1>6, <1>9, <2>1, <3>1, HeldFirst
  <2>3. Append(q, e) \o s = q \o Held(b, k, p)
    <3>1. q \in Seq(Glyph) /\ s \in Seq(Glyph)
      BY <1>3, <1>7
    <3>. QED  BY <2>2, <3>1, ShowOne
  <2>4. console' = Append(q, e) /\ lpc' = "test" /\ console' \in Seq(Glyph)
    <3>1. Append(q, e) \in Seq(Glyph)
      BY <1>3
    <3>. QED  BY <1>1, <1>2, <1>9, <2>1, <3>1
  <2>5. Between(lat + 1)'
    BY <1>1, <1>4, <1>8, <2>3, <2>4 DEF Between
  <2>6. LogTypes'
    BY <1>1, <2>4 DEF LogTypes, Glyph
  <2>7. lat' < logbufferptr'
    BY <1>1, <1>2, <1>9
  <2>. QED  BY <2>4, <2>5, <2>6, <2>7 DEF LogSound
<1>10. CASE ~(k < p)
  <2>1. k = p /\ k >= p
    BY <1>3, <1>10
  <2>2. UNCHANGED console /\ lpc' = "tail" /\ lat' = logbufferptr'
    BY <1>1, <1>2, <1>10, <2>1
  <2>3. s = Held(b, k, p)
    BY <1>7, <2>1
  <2>4. Between(lat + 1)'
    BY <1>1, <1>2, <1>4, <1>8, <2>2, <2>3 DEF Between
  <2>5. LogTypes'
    BY <1>1, <2>2 DEF LogTypes, Glyph
  <2>. QED  BY <2>2, <2>4, <2>5 DEF LogSound
<1>. QED  BY <1>9, <1>10

\* It goes on to the next character, or has shown everything.
LEMMA PrintTests ==
    ASSUME LogSound, PrintTest
    PROVE  LogSound'
<1>1. /\ LogTypes /\ Between(lat + 1)
      /\ \/ lpc = "test" /\ lat < logbufferptr
         \/ lpc = "tail" /\ lat = logbufferptr
      /\ UNCHANGED <<logbuffer, logbufferptr, console, lines>>
      /\ \/ lat < logbufferptr /\ lpc' = "char" /\ lat' = lat + 1
         \/ ~(lat < logbufferptr) /\ lpc' = "reset" /\ lat' = 0
  BY DEF PrintTest, LogSound, buffer, sent
<1>2. PICK b, p, q, k : b = logbuffer /\ p = logbufferptr /\ q = console /\ k = lat
  OBVIOUS
<1>3. /\ p \in Nat /\ k \in Nat /\ q \in Seq(Glyph)
  BY <1>1, <1>2 DEF LogTypes
<1>4. q \o Held(b, k + 1, p) = Flat(lines)
  BY <1>1, <1>2 DEF Between
<1>5. Flat(lines)' = Flat(lines)
  BY <1>1 DEF Flat, Line
<1>6. LogTypes'
  <2>1. lat' \in Nat
    BY <1>1, <1>2, <1>3
  <2>. QED  BY <1>1, <2>1 DEF LogTypes, Glyph
<1>7. CASE k < p
  <2>1. lpc' = "char" /\ lat' = k + 1
    BY <1>1, <1>2, <1>7
  <2>2. lat' <= logbufferptr'
    BY <1>1, <1>2, <1>3, <1>7, <2>1
  <2>3. Held(logbuffer, lat, logbufferptr)' = Held(b, k + 1, p)
    BY <1>1, <1>2, <2>1 DEF Held
  <2>4. Between(lat)'
    BY <1>1, <1>2, <1>4, <1>5, <2>3 DEF Between
  <2>. QED  BY <1>6, <2>1, <2>2, <2>4 DEF LogSound
<1>8. CASE ~(k < p)
  <2>1. lpc' = "reset" /\ lat' = 0 /\ k = p
    BY <1>1, <1>2, <1>8
  <2>2. Held(b, k + 1, p) = <<>>
    <3>1. PICK f \in Nat : f = k + 1 /\ f >= p /\ f > p - 1
      BY <1>3, <2>1
    <3>2. \A i \in f..(p - 1) : b[i] \in Glyph
      BY <1>3, <3>1
    <3>3. Held(b, f, p) = <<>>
      BY <1>3, <3>1, <3>2, HeldIs
    <3>. QED  BY <3>1, <3>3
  <2>3. q = Flat(lines)
    BY <1>3, <1>4, <2>2, Regroup
  <2>. QED  BY <1>1, <1>2, <1>5, <1>6, <2>1, <2>3 DEF LogSound
<1>. QED  BY <1>7, <1>8

\* The buffer starts over.
LEMMA PrintResets ==
    ASSUME LogSound, PrintReset
    PROVE  LogSound'
<1>1. /\ LogTypes /\ lat = 0 /\ console = Flat(lines) /\ logbufferptr' = 0 /\ lpc' = "loop"
      /\ UNCHANGED <<logbuffer, lat, console, lines>>
  BY DEF PrintReset, LogSound, local, sent
<1>2. LogTypes'
  BY <1>1 DEF LogTypes, Glyph
<1>3. Held(logbuffer, 0, logbufferptr)' = <<>>
  <2>1. PICK f \in Nat : f = 0
    OBVIOUS
  <2>2. PICK c : c = logbuffer'
    OBVIOUS
  <2>3. f >= f /\ \A i \in f..(f - 1) : c[i] \in Glyph
    BY <2>1
  <2>4. Held(c, f, f) = <<>>
    BY <2>3, HeldIs
  <2>. QED  BY <1>1, <2>1, <2>2, <2>4 DEF Held
<1>4. console \o <<>> = console
  BY <1>1, Regroup DEF LogTypes
<1>5. Flat(lines)' = Flat(lines)
  BY <1>1 DEF Flat, Line
<1>6. logbufferptr' < LogSize
  BY <1>1, LoggerAssumption
<1>7. Between(0)'
  BY <1>1, <1>3, <1>4, <1>5, <1>6 DEF Between
<1>. QED  BY <1>1, <1>2, <1>7 DEF LogSound

\* The interrupt where it does no harm.
LEMMA EnetLogs ==
    ASSUME LogSound, llen \in Nat, EnetLog, ~lograced'
    PROVE  LogSound'
<1>1. LogTypes /\ lpc \in {"loop", "char", "test"} /\ UNCHANGED <<lpc, lat, console>>
  BY DEF EnetLog, Harmful, LogSound, local, sent
<1>2. logbufferptr \in Nat /\ lat \in Nat
  BY <1>1 DEF LogTypes
<1>3. CASE lpc = "loop"
  <2>1. lat = 0 /\ Between(0)
    BY <1>3 DEF LogSound
  <2>2. PICK from \in Nat : from = 0
    OBVIOUS
  <2>3. from <= logbufferptr /\ Between(from)
    BY <1>2, <2>1, <2>2 DEF Between
  <2>4. LogTypes' /\ Between(from)'
    BY <1>1, <2>3, EnetBetween
  <2>5. Between(0)'
    BY <2>2, <2>4 DEF Between
  <2>. QED  BY <1>1, <1>3, <2>1, <2>4, <2>5 DEF LogSound
<1>4. CASE lpc = "char"
  <2>1. lat <= logbufferptr /\ Between(lat)
    BY <1>4 DEF LogSound
  <2>2. PICK from \in Nat : from = lat
    BY <1>2
  <2>3. from <= logbufferptr /\ Between(from)
    BY <2>1, <2>2 DEF Between
  <2>4. LogTypes' /\ Between(from)' /\ logbufferptr <= logbufferptr'
    BY <1>1, <2>3, EnetBetween
  <2>5. Between(lat)'
    BY <1>1, <2>2, <2>4 DEF Between
  <2>6. lat' <= logbufferptr'
    BY <1>1, <1>2, <2>1, <2>4 DEF LogTypes
  <2>. QED  BY <1>1, <1>4, <2>4, <2>5, <2>6 DEF LogSound
<1>5. CASE lpc = "test"
  <2>1. lat < logbufferptr /\ Between(lat + 1)
    BY <1>5 DEF LogSound
  <2>2. PICK from \in Nat : from = lat + 1
    BY <1>2
  <2>3. from <= logbufferptr /\ Between(from)
    BY <1>2, <2>1, <2>2 DEF Between
  <2>4. LogTypes' /\ Between(from)' /\ logbufferptr <= logbufferptr'
    BY <1>1, <2>3, EnetBetween
  <2>5. Between(lat + 1)'
    BY <1>1, <2>2, <2>4 DEF Between
  <2>6. lat' < logbufferptr'
    BY <1>1, <1>2, <2>1, <2>4 DEF LogTypes
  <2>. QED  BY <1>1, <1>5, <2>4, <2>5, <2>6 DEF LogSound
<1>. QED  BY <1>1, <1>3, <1>4, <1>5

\* The log starts empty.
LEMMA LogStarts == ASSUME LogInit PROVE LogInv
<1>1. /\ logbuffer = [i \in 0..(LogSize - 1) |-> LogNul] /\ logbufferptr = 0
      /\ lpc = "loop" /\ lat = 0 /\ console = <<>> /\ lines = <<>>
  BY DEF LogInit
<1>2. LogNul \in Glyph
  BY DEF LogNul, Glyph
<1>3. LogTypes
  <2>1. console \in Seq(Glyph) /\ lines \in Seq(Nat) /\ Len(lines) = 0
    BY <1>1
  <2>2. Len(lines) <= MaxLines
    BY <2>1, LoggerAssumption
  <2>. QED  BY <1>1, <1>2, <2>1, <2>2 DEF LogTypes
<1>4. Held(logbuffer, 0, logbufferptr) = <<>>
  <2>1. PICK f \in Nat : f = 0
    OBVIOUS
  <2>2. f >= f /\ \A i \in f..(f - 1) : logbuffer[i] \in Glyph
    BY <2>1
  <2>3. Held(logbuffer, f, f) = <<>>
    BY <2>2, HeldIs
  <2>. QED  BY <1>1, <2>1, <2>3
<1>5. Flat(lines) = <<>>
  <2>1. PICK s : s = [l \in DOMAIN lines |-> Line(l, lines[l])]
    OBVIOUS
  <2>2. DOMAIN lines = {} /\ 1..0 = {}
    BY <1>1
  <2>3. s \in [1..0 -> Seq(Glyph)]
    BY <2>1, <2>2
  <2>4. s \in Seq(Seq(Glyph)) /\ Len(s) = 0
    BY <2>3, FunctionIsSeq
  <2>5. s = <<>>
    BY <2>4, EmptySeq
  <2>6. FlattenSeq(s) = s
    BY <2>4 DEF FlattenSeq
  <2>. QED  BY <2>1, <2>5, <2>6 DEF Flat
<1>6. <<>> \o <<>> = <<>>
  BY Regroup
<1>7. logbufferptr < LogSize
  BY <1>1, LoggerAssumption
<1>8. Between(0)
  BY <1>1, <1>4, <1>5, <1>6, <1>7 DEF Between
<1>. QED  BY <1>1, <1>3, <1>8 DEF LogInv, LogSound

\* A step of something else leaves the log as it is.
LEMMA LogStays ==
    ASSUME LogSound, UNCHANGED logvars
    PROVE  LogSound'
<1>1. /\ UNCHANGED <<logbuffer, logbufferptr, lpc, line, llen, dst, lat, lreg>>
      /\ UNCHANGED <<console, lines>>
  BY DEF logvars, buffer, local, sent
<1>2. LogTypes'
  BY <1>1 DEF LogTypes, LogSound, Glyph
<1>3. /\ Held(logbuffer, 0, logbufferptr)' = Held(logbuffer, 0, logbufferptr)
      /\ Held(logbuffer, lat, logbufferptr)' = Held(logbuffer, lat, logbufferptr)
      /\ Held(logbuffer, lat + 1, logbufferptr)' = Held(logbuffer, lat + 1, logbufferptr)
      /\ Flat(lines)' = Flat(lines)
  BY <1>1 DEF Held, Flat, Line
<1>4. /\ Between(0)' = Between(0) /\ Between(lat)' = Between(lat)
      /\ Between(lat + 1)' = Between(lat + 1)
  BY <1>1, <1>3 DEF Between
<1>5. ASSUME NEW ls \in Seq(Nat), Inside(ls)  PROVE Inside(ls)'
  <2>1. Flat(ls)' = Flat(ls) /\ (Flat(ls) \o Line(line, lat))' = Flat(ls) \o Line(line, lat)
    BY <1>1 DEF Flat, Line
  <2>. QED  BY <1>1, <1>3, <1>5, <2>1 DEF Inside
<1>. QED  BY <1>1, <1>2, <1>3, <1>4, <1>5 DEF LogSound

\* A step of the main loop or of the interrupt.
LEMMA LogStep ==
    ASSUME LogInv, LogPlaces, [LogNext]_logvars
    PROVE  LogInv'
<1>. SUFFICES ASSUME ~lograced'  PROVE LogSound'
  BY DEF LogInv
<1>1. ~lograced
  BY DEF LogNext, LogMain, LogMessage, LogBegin, LogText, LogLoad, LogAdd, LogStringnl,
         StringPut, StringInc, StringBump, PrintLog, PrintChar, PrintTest, PrintReset,
         EnetLog, logvars
<1>2. LogSound /\ llen \in Nat
  BY <1>1, LogNumbers DEF LogInv
<1>3. CASE LogMessage \/ LogStringnl
  BY <1>2, <1>3, LogBegins DEF LogMessage, LogStringnl
<1>4. CASE LogText \/ LogLoad \/ LogAdd
  BY <1>2, <1>4, LogTexts, LogLoads, LogAdds
<1>5. CASE StringPut \/ StringInc \/ StringBump
  BY <1>2, <1>5, StringPuts, LogLoads, StringBumps
<1>6. CASE PrintLog \/ PrintChar \/ PrintTest \/ PrintReset
  BY <1>2, <1>6, PrintLogs, PrintChars, PrintTests, PrintResets
<1>7. CASE EnetLog
  BY <1>2, <1>7, EnetLogs
<1>8. CASE UNCHANGED logvars
  BY <1>2, <1>8, LogStays
<1>. QED  BY <1>3, <1>4, <1>5, <1>6, <1>7, <1>8 DEF LogNext, LogMain

\* LogInv is inductive: as long as the interrupt did no harm, the lines logged
\* are what was shown, what waits and, inside a line, what of it was written.
THEOREM LogInvariant == LogSpec => []LogInv
<1>1. LogTypeInv => LogPlaces
  BY DEF LogTypeInv
<1>. QED  BY <1>1, LogStarts, LogStep, LogTypeInvariant, PTL DEF LogSpec

\* The text of the first lines does not change when more are logged.
LEMMA LoggedStays ==
    ASSUME lines \in Seq(Nat), UNCHANGED lines \/ \E n \in Nat : lines' = Append(lines, n),
           NEW k \in 0..Len(lines)
    PROVE  LoggedUpTo(k)' = LoggedUpTo(k) /\ k \in 0..Len(lines')
<1>1. Len(lines) \in Nat
  OBVIOUS
<1>2. k \in 0..Len(lines') /\ \A l \in 1..k : lines'[l] = lines[l]
  <2>1. CASE UNCHANGED lines
    BY <1>1, <2>1
  <2>2. CASE \E n \in Nat : lines' = Append(lines, n)
    <3>1. PICK n \in Nat : lines' = Append(lines, n)
      BY <2>2
    <3>2. Len(lines') = Len(lines) + 1 /\ \A l \in 1..Len(lines) : lines'[l] = lines[l]
      BY <3>1
    <3>. QED  BY <1>1, <3>2
  <2>. QED  BY <2>1, <2>2
<1>3. ASSUME NEW l \in 1..k  PROVE LineText(l)' = LineText(l)
  BY <1>2 DEF LineText
<1>4. [l \in 1..k |-> LineText(l)]' = [l \in 1..k |-> LineText(l)]
  BY <1>3
<1>. QED  BY <1>2, <1>4 DEF LoggedUpTo

\* The further characters stand between the lines.
Parted == \A i \in DOMAIN extra : \E k \in 0..Len(lines) : extra[i].at = Len(LoggedUpTo(k))

\* What was logged, in the two ways of writing it.
LEMMA LoggedIsFlat ==
    ASSUME lines \in Seq(Nat)
    PROVE  Logged = Flat(lines)
<1>1. DOMAIN lines = 1..Len(lines)
  OBVIOUS
<1>. QED  BY <1>1 DEF Logged, LoggedUpTo, LineText, Flat, Line

\* printLog sends the character at the pointer when all that was logged is sent.
LEMMA TailIsBehind ==
    ASSUME LogSound, PrintChar, lat >= logbufferptr
    PROVE  console = Logged
<1>1. LogTypes /\ lat = logbufferptr /\ Between(lat)
  <2>1. LogTypes /\ lat <= logbufferptr /\ Between(lat)
    BY DEF PrintChar, LogSound
  <2>2. lat \in Nat /\ logbufferptr \in Nat
    BY <2>1 DEF LogTypes
  <2>. QED  BY <2>1, <2>2
<1>2. PICK b, p : b = logbuffer /\ p = logbufferptr /\ p \in Nat
  BY <1>1 DEF LogTypes
<1>3. \A i \in p..(p - 1) : b[i] \in Glyph
  BY <1>2
<1>4. Held(b, p, p) = <<>>
  <2>1. p \in Nat /\ p >= p
    BY <1>2
  <2>. QED  BY <1>3, <2>1, HeldIs
<1>5. console \o <<>> = console
  BY <1>1, Regroup DEF LogTypes
<1>6. console = Flat(lines)
  BY <1>1, <1>2, <1>4, <1>5 DEF Between
<1>. QED  BY <1>1, <1>6, LoggedIsFlat DEF LogTypes

\* A step leaves them there.
LEMMA PartedStep ==
    ASSUME LogInv, LogTypeInv, LogPlaces', ~lograced => Parted, [LogNext]_logvars
    PROVE  ~lograced' => Parted'
<1>. SUFFICES ASSUME ~lograced'  PROVE Parted'
  OBVIOUS
<1>1. ~lograced
  BY DEF LogNext, LogMain, LogMessage, LogBegin, LogText, LogLoad, LogAdd, LogStringnl,
         StringPut, StringInc, StringBump, PrintLog, PrintChar, PrintTest, PrintReset,
         EnetLog, logvars
<1>2. /\ LogSound /\ Parted /\ lines \in Seq(Nat) /\ Len(lines) \in Nat
      /\ extra \in Seq([at : Nat, char : LogChar])
  BY <1>1, LogNumbers DEF LogInv, LogSound, LogTypes, LogTypeInv, LogPlaces
<1>3. UNCHANGED lines \/ \E n \in Nat : lines' = Append(lines, n)
  BY LogNumbers DEF LogTypeInv, LogNext, LogMain, LogMessage, LogBegin, LogText, LogLoad,
     LogAdd, LogStringnl, StringPut, StringInc, StringBump, PrintLog, PrintChar, PrintTest,
     PrintReset, EnetLog, logvars
<1>4. \A k \in 0..Len(lines) : LoggedUpTo(k)' = LoggedUpTo(k) /\ k \in 0..Len(lines')
  BY <1>2, <1>3, LoggedStays
<1>5. ASSUME NEW i \in DOMAIN extra
      PROVE  \E k \in 0..Len(lines') : extra[i].at = Len(LoggedUpTo(k)')
  BY <1>2, <1>4 DEF Parted
<1>6. CASE UNCHANGED extra
  BY <1>5, <1>6 DEF Parted
<1>7. CASE PrintChar /\ lat >= logbufferptr
  <2>1. PICK e : e = [at |-> Len(console), char |-> logbuffer[lat]]
    OBVIOUS
  <2>2. extra' = Append(extra, e) /\ e.at = Len(console)
    BY <1>2, <1>7, <2>1 DEF PrintChar, LogSound, LogTypes
  <2>3. e.at = Len(LoggedUpTo(Len(lines)))
    BY <1>2, <1>7, <2>2, TailIsBehind DEF Logged
  <2>4. /\ DOMAIN extra' = 1..(Len(extra) + 1) /\ extra'[Len(extra) + 1] = e
        /\ \A i \in 1..Len(extra) : extra'[i] = extra[i]
    <3>1. extra \in Seq([at : Nat, char : LogChar]) /\ extra' \in Seq([at : Nat, char : LogChar])
      BY <1>2 DEF LogPlaces
    <3>. QED  BY <2>2, <3>1
  <2>5. ASSUME NEW i \in DOMAIN extra'
        PROVE  \E k \in 0..Len(lines') : extra'[i].at = Len(LoggedUpTo(k)')
    <3>1. CASE i \in 1..Len(extra)
      <4>1. i \in DOMAIN extra /\ extra'[i] = extra[i]
        BY <1>2, <2>4, <3>1
      <4>. QED  BY <1>5, <4>1
    <3>2. CASE i = Len(extra) + 1
      <4>1. Len(lines) \in 0..Len(lines)
        BY <1>2
      <4>. QED  BY <1>4, <2>3, <2>4, <3>2, <4>1
    <3>. QED  BY <1>2, <2>4, <2>5, <3>1, <3>2, SMTT(30)
  <2>. QED  BY <2>5 DEF Parted
<1>8. UNCHANGED extra \/ (PrintChar /\ lat >= logbufferptr)
  BY DEF LogNext, LogMain, LogMessage, LogBegin, LogText, LogLoad, LogAdd, LogStringnl,
         StringPut, StringInc, StringBump, PrintLog, PrintChar, PrintTest, PrintReset,
         EnetLog, logvars, sent
<1>. QED  BY <1>6, <1>7, <1>8

\* What the console shows and what waits in the buffer are the lines logged, and
\* the further character that ends each printLog stands between two lines.
THEOREM LogIsWhole == LogSpec => []LogWhole
<1>1. LogInv /\ (~lograced => Parted) => LogWhole
  <2>. SUFFICES ASSUME LogSound, Parted, ~lograced  PROVE LogWhole
    BY DEF LogInv, LogWhole
  <2>1. Logged = Flat(lines)
    BY LoggedIsFlat DEF LogSound, LogTypes
  <2>2. \A from : Waiting(from) = Held(logbuffer, from, logbufferptr)
    BY DEF Waiting, Held
  <2>3. CASE lpc = "loop"
    <3>1. console \o Waiting(0) = Logged
      BY <2>1, <2>2, <2>3 DEF LogSound, Between
    <3>. QED  BY <2>3, <3>1 DEF LogWhole, Parted
  <2>4. CASE lpc = "char"
    <3>1. console \o Waiting(lat) = Logged
      BY <2>1, <2>2, <2>4 DEF LogSound, Between
    <3>. QED  BY <2>4, <3>1 DEF LogWhole, Parted
  <2>5. CASE lpc \in {"test", "tail"}
    <3>1. console \o Waiting(lat + 1) = Logged
      BY <2>1, <2>2, <2>5 DEF LogSound, Between
    <3>. QED  BY <2>5, <3>1 DEF LogWhole, Parted
  <2>6. CASE lpc = "reset"
    <3>1. console = Logged
      BY <2>1, <2>6 DEF LogSound
    <3>. QED  BY <2>6, <3>1 DEF LogWhole, Parted
  <2>7. CASE lpc \notin {"loop", "char", "test", "tail", "reset"}
    BY <2>7 DEF LogWhole, Parted
  <2>. QED  BY <2>3, <2>4, <2>5, <2>6, <2>7
<1>2. LogInit => (~lograced => Parted)
  BY DEF LogInit, Parted
<1>3. LogInv /\ LogTypeInv /\ LogTypeInv' /\ (~lograced => Parted) /\ [LogNext]_logvars
        => (~lograced => Parted)'
  <2>1. LogTypeInv' => LogPlaces'
    BY DEF LogTypeInv
  <2>. QED  BY <2>1, PartedStep
<1>. QED  BY <1>1, <1>2, <1>3, LogInvariant, LogTypeInvariant, PTL DEF LogSpec
=============================================================================
