------------------------------- MODULE Status ------------------------------
(***************************************************************************)
(* The status stream (storeMonitorSlot, storeMonitorFlag, initStatus and   *)
(* the callback request of ethergate, source/main.cpp; the layout is that  *)
(* of antares.h): numbers in slots of fixed width and flags of two         *)
(* characters, written by the main loop and by the PIT interrupt and       *)
(* copied to the host by the ENET interrupt.  ENET preempts the main loop, *)
(* PIT preempts both; its handler is one action.                           *)
(***************************************************************************)
EXTENDS Integers, FiniteSets, FiniteSetsExt

CONSTANTS
    Slots,      \* numbers in the stream: 10
    Flags,      \* flags before the terminator: 12
    Width,      \* characters of a slot: 11
    MainValues, \* the numbers the main loop stores
    PitValues,  \* the numbers the interrupt stores; only these have a sign
    PitItems    \* what the PIT interrupt stores, as <<"slot", n>>, <<"flag", n>>

Item == ({"slot"} \X (0..(Slots - 1))) \cup ({"flag"} \X (0..(Flags - 1)))

ASSUME StatusAssumption ==
    /\ Slots \in Nat \ {0} /\ Flags \in Nat \ {0} /\ Width \in Nat /\ Width > 2
    /\ MainValues \subseteq Nat /\ PitValues \subseteq Int
    /\ PitItems \subseteq Item

ValuesOf(item, numbers) == IF item[1] = "flag" THEN {0, 1} ELSE numbers

\* initStatus.
InitVal(item) == IF item[1] = "flag" THEN 1 ELSE item[2] * 80 + item[2] \div 3

-----------------------------------------------------------------------------
(* The layout.                                                              *)

Cells == 0..(Slots * Width + 2 * Flags - 1)
Comma == <<"comma">>
Sign  == <<"sign">>
Nul   == <<"nul">>
Digit(v, i) == <<"digit", v, i>>     \* character i of the number's ten
Bit(b) == <<"bit", b>>
Size(v) == IF v < 0 THEN -v ELSE v
Number == MainValues \cup PitValues \cup {InitVal(<<"slot", n>>) : n \in 0..(Slots - 1)}
Char == {Comma, Sign, Nul} \cup {Bit(b) : b \in {0, 1}}
          \cup {Digit(Size(v), i) : v \in Number, i \in 0..(Width - 2)}

\* Character i of what sprintf "%6.4E," makes of a number: a slot's width
\* with its comma, one more with a sign.
Text(v, i) ==
    LET d == IF v < 0 THEN i - 1 ELSE i IN
    IF d < 0 THEN Sign ELSE IF d < Width - 1 THEN Digit(Size(v), d) ELSE Comma

\* The characters a store puts into the stream, by their places.
MutSlotWrites(n, v) ==     \* mutant: as many as sprintf returned
    [c \in (n * Width)..(n * Width + Width - (IF v < 0 THEN 0 ELSE 1)) |->
        Text(v, c - n * Width)]
SlotWrites(n, v) ==        \* memcpy (slotptr, &buf[0], 11)
    [c \in (n * Width)..(n * Width + Width - 1) |-> Text(v, c - n * Width)]

FlagAt(n) == Slots * Width + 2 * n
FlagWrites(n, b) ==
    [c \in {FlagAt(n), FlagAt(n) + 1} |->
        IF c = FlagAt(n) THEN Bit(b) ELSE IF n = Flags - 1 THEN Nul ELSE Comma]

Writes(item, v) ==
    IF item[1] = "flag" THEN FlagWrites(item[2], v) ELSE SlotWrites(item[2], v)

-----------------------------------------------------------------------------

VARIABLES
    stored,      \* statusvals and statusflags
    stream,      \* status_stream
    storing,     \* the item the main loop is storing, or None
    todo,        \* the characters it has yet to write
    epc, pos,    \* the ENET interrupt and how far it has copied
    report,      \* the copy in the answer to the host
    clash,       \* not in the code: items both contexts stored at once
    touched      \* not in the code: items stored while the copy was made

vars == <<stored, stream, storing, todo, epc, pos, report, clash, touched>>

None == <<"none">>
Nothing == [c \in {} |-> Nul]
Over(w, s) == [c \in DOMAIN s |-> IF c \in DOMAIN w THEN w[c] ELSE s[c]]

ItemAt(c) == IF c < Slots * Width THEN <<"slot", c \div Width>>
                                  ELSE <<"flag", (c - Slots * Width) \div 2>>

Init ==
    /\ stored = [item \in Item |-> InitVal(item)]
    /\ stream = [c \in Cells |-> Writes(ItemAt(c), InitVal(ItemAt(c)))[c]]
    /\ storing = None /\ todo = Nothing
    /\ epc = "off" /\ pos = 0 /\ report = Nothing
    /\ clash = {} /\ touched = {}

-----------------------------------------------------------------------------
(* The main loop: a store tests and sets the value, then writes characters. *)

Store ==
    /\ epc = "off" /\ storing = None
    /\ \E item \in Item : \E v \in ValuesOf(item, MainValues) :
         /\ stored[item] # v
         /\ stored' = [stored EXCEPT ![item] = v]
         /\ storing' = item
         /\ todo' = Writes(item, v)
         /\ clash' = clash \ {item}
    /\ UNCHANGED <<stream, epc, pos, report, touched>>

WriteChar ==
    /\ epc = "off" /\ DOMAIN todo # {}
    /\ LET c == Min(DOMAIN todo) IN
       /\ stream' = [stream EXCEPT ![c] = todo[c]]
       /\ todo' = [x \in DOMAIN todo \ {c} |-> todo[x]]
       /\ storing' = IF DOMAIN todo = {c} THEN None ELSE storing
    /\ UNCHANGED <<stored, epc, pos, report, clash, touched>>

-----------------------------------------------------------------------------
(* The PIT interrupt: readSensors and the speed loop of the servo.          *)

\* Items whose value has changed are written, the others skipped.
Readings == {f \in [PitItems -> UNION {ValuesOf(i, PitValues) : i \in PitItems}] :
               \A i \in PitItems : f[i] \in ValuesOf(i, PitValues)}

PitStore ==
    \E new \in Readings :
        LET changed == {i \in PitItems : new[i] # stored[i]}
            w(i) == Writes(i, new[i])
            writes == [c \in UNION {DOMAIN w(i) : i \in changed} |->
                         w(CHOOSE i \in changed : c \in DOMAIN w(i))[c]]
        IN  /\ changed # {}
            /\ stored' = [i \in Item |-> IF i \in changed THEN new[i] ELSE stored[i]]
            /\ stream' = Over(writes, stream)
            /\ clash' = (clash \ changed) \cup (changed \cap {storing})
            /\ touched' = IF epc = "off" THEN touched ELSE touched \cup changed
            /\ UNCHANGED <<storing, todo, epc, pos, report>>

-----------------------------------------------------------------------------
(* The ENET interrupt: ethergate with a callback request.  message_out is   *)
(* never filled and status_updated never reset: the stream is sent.  The    *)
(* memcpy takes the whole stream.  The size the message announces, 127, is  *)
(* less than the 134 characters of the stream; it is not modelled, and the  *)
(* copy is what a host finds that reads up to the terminator.               *)

Request ==
    /\ epc = "off"
    /\ epc' = "copy"
    /\ touched' = clash \cup ({storing} \ {None})
    /\ UNCHANGED <<stored, stream, storing, todo, pos, report, clash>>

MutCopyChar ==             \* mutant: the last character is not copied
    /\ epc = "copy"
    /\ report' = [c \in 0..pos |-> IF c = pos THEN stream[c] ELSE report[c]]
    /\ pos' = pos + 1
    /\ epc' = IF pos + 2 \in Cells THEN "copy" ELSE "sent"
    /\ UNCHANGED <<stored, stream, storing, todo, clash, touched>>

CopyChar ==
    /\ epc = "copy"
    /\ report' = [c \in 0..pos |-> IF c = pos THEN stream[c] ELSE report[c]]
    /\ pos' = pos + 1
    /\ epc' = IF pos + 1 \in Cells THEN "copy" ELSE "sent"
    /\ UNCHANGED <<stored, stream, storing, todo, clash, touched>>

Return ==
    /\ epc = "sent"
    /\ epc' = "off" /\ pos' = 0 /\ report' = Nothing /\ touched' = {}
    /\ UNCHANGED <<stored, stream, storing, todo, clash>>

Next == Store \/ WriteChar \/ PitStore \/ Request \/ CopyChar \/ Return

Spec == Init /\ [][Next]_vars

-----------------------------------------------------------------------------
(* Properties.                                                              *)

\* Values, characters and the progress of the two copies have their types.
TypeOK ==
    /\ stored \in [Item -> Number \cup {0, 1}]
    /\ stream \in [Cells -> Char]
    /\ storing \in Item \cup {None}
    /\ DOMAIN todo \subseteq Cells /\ \A c \in DOMAIN todo : todo[c] \in Char
    /\ epc \in {"off", "copy", "sent"} /\ pos \in 0..Cardinality(Cells)
    /\ DOMAIN report = 0..(pos - 1) /\ \A c \in DOMAIN report : report[c] \in Char
    /\ clash \subseteq Item /\ touched \subseteq Item

\* Text s shows the stored value of an item, in the item's place: of a flag the
\* digit and what separates or ends it, of a number the characters memcpy takes,
\* as many as a slot has.  Those of a number without a sign end with the comma;
\* of a negative number, one character longer, the comma is cut off.
Ends(n) == IF n = Flags - 1 THEN Nul ELSE Comma
Shows(s, item) ==
    LET n == item[2]
        v == stored[item]
    IN  IF item[1] = "flag"
          THEN /\ {FlagAt(n), FlagAt(n) + 1} \subseteq DOMAIN s
               /\ s[FlagAt(n)] = Bit(v) /\ s[FlagAt(n) + 1] = Ends(n)
          ELSE \A i \in 0..(Width - 1) :
                 n * Width + i \in DOMAIN s /\ s[n * Width + i] = Text(v, i)

\* The stream shows (Shows) what is stored in every item, although a store of one
\* item is interrupted by stores of others and skipped when nothing changed:
\* except the item the main loop is at, and the ones both contexts stored at
\* once, until they are stored with another value.
StreamShows == \A item \in Item \ (clash \cup {storing}) : Shows(stream, item)

\* The copy in the answer to a callback request shows (Shows) the stored value
\* of every item that was not being stored while the interrupt made it.
ReportWhole == epc = "sent" => \A item \in Item \ touched : Shows(report, item)
=============================================================================
