--------------------------- MODULE ReceiveProofs ---------------------------
(***************************************************************************)
(* The receive interrupt for every size of the ring and of the pool: no    *)
(* frame reaches lwIP twice and each one is accounted for; and as long as  *)
(* ENET_ReadFrame, called for an empty descriptor, has discarded none, the *)
(* frames arrive in order and none is left in the ring.                    *)
(***************************************************************************)
EXTENDS Receive, TLAPS

(* The inductive invariant.  Its first parts hold whatever is discarded.    *)

Idx == 0..(RxBds - 1)
Frame == [n : Nat, kind : Kinds \cup {"none"}]
Filled(i) == rxbd[i] # NoFrame

RxTypeOK ==
    /\ rxbd \in [Idx -> Frame] /\ empty \in [Idx -> BOOLEAN] /\ inhand \in Frame
    /\ hw \in Idx /\ rxBdCurrent \in Idx /\ rxBdDirty \in Idx
    /\ dma \in BOOLEAN /\ eir \in BOOLEAN
    /\ rxpc \in {"out", "size", "read", "walk", "clear", "fill", "pass", "leave", "hung"}
    /\ status \in {"Success", "RxFrameError", "RxFrameEmpty"}
    /\ pool \in Nat /\ kept \in Nat /\ frames \in Nat
    /\ passed \in Seq(Nat) /\ taken \in Seq(Nat) /\ discarded \in SUBSET Nat

\* A frame of the ring is being read into a pbuf.
Reading == rxpc \in {"clear", "fill"} /\ status = "Success"

\* Where the interrupt is tells what it has found: dirty and current are equal but
\* in ENET_ReadFrame, and apart by one descriptor there when the ring was not empty.
AtPlace ==
    /\ rxpc \in {"out", "size", "read", "pass", "leave", "hung"} => rxBdDirty = rxBdCurrent
    /\ rxpc \in {"read", "pass"} => status = "Success"
    /\ rxpc = "walk" => status # "Success"
    /\ rxpc = "walk" /\ status = "RxFrameError" => rxBdDirty = rxBdCurrent
    /\ rxpc \in {"clear", "fill"} /\ status # "RxFrameEmpty" => rxBdCurrent = Succ(rxBdDirty)
    /\ rxpc = "read" => rxbd[rxBdDirty].kind \in {"ip", "other"} /\ ~empty[rxBdDirty]
    /\ rxpc \in {"walk", "clear"} /\ status = "RxFrameError" =>
         rxbd[rxBdDirty].kind = "error" /\ ~empty[rxBdDirty]
    /\ rxpc = "clear" /\ status = "Success" =>
         inhand = rxbd[rxBdDirty] /\ Filled(rxBdDirty) /\ ~empty[rxBdDirty]
    /\ rxpc = "fill" /\ status # "RxFrameEmpty" => ~Filled(rxBdDirty) /\ ~empty[rxBdDirty]
    /\ inhand # NoFrame => rxpc = "pass" \/ Reading

\* The MAC is filling an empty descriptor, or one the driver has cleared since; a
\* descriptor that is not empty holds a frame, or is being given back.
MacAtWork ==
    /\ dma => \/ empty[hw]
              \/ rxpc = "fill" /\ status = "RxFrameEmpty" /\ hw = rxBdDirty /\ ~Filled(hw)
    /\ \A i \in Idx : ~empty[i] => Filled(i) \/ (rxpc = "fill" /\ i = rxBdDirty)
    /\ \A i \in Idx : Filled(i) => rxbd[i].kind \in Kinds /\ rxbd[i].n \in 1..frames

\* Every frame has one place.
OnePlace ==
    /\ \A i, j \in Idx : Filled(i) /\ Filled(j) /\ rxbd[i].n = rxbd[j].n => i = j
    /\ \A i \in Idx : Filled(i) /\ rxbd[i].n \in discarded => empty[i]
    /\ \A i \in Idx : Filled(i) /\ rxbd[i].n = inhand.n => rxpc = "clear" /\ i = rxBdDirty
    /\ inhand # NoFrame => inhand.n \in 1..frames /\ inhand.n \notin discarded
    /\ \A f \in discarded : f <= frames
    /\ \A k \in 1..Len(passed) :
         /\ passed[k] \in 1..frames /\ passed[k] \notin discarded /\ passed[k] # inhand.n
         /\ \A i \in Idx : Filled(i) => rxbd[i].n # passed[k]
         /\ \A m \in 1..Len(passed) : passed[k] = passed[m] => k = m

\* IP frame f waits in descriptor i, or is in hand.
Held(f) == \/ inhand.kind = "ip" /\ inhand.n = f
           \/ \E i \in Idx : rxbd[i].kind = "ip" /\ ~empty[i] /\ rxbd[i].n = f

Accounted ==
    \A k \in 1..Len(taken) :
      \/ taken[k] \in discarded \/ Held(taken[k])
      \/ \E m \in 1..Len(passed) : passed[m] = taken[k]

PoolCounted ==
    pool + kept + (IF rxpc \in {"read", "pass"} \/ Reading THEN 1 ELSE 0) = PoolSize

\* The rest holds until a frame is discarded, or bound to be: the last descriptor
\* that ENET_ReadFrame is about to give back holds one.
Doomed ==
    /\ rxpc \in {"clear", "fill"} /\ status = "RxFrameEmpty"
    /\ \E i \in Idx : Succ(i) = rxBdCurrent /\ Filled(i)
Settled == discarded = {} /\ ~Doomed

\* The descriptor of the oldest frame: where the walk has begun, or the one that
\* has been read and is to be cleared.
Base == IF rxpc = "walk" \/ (rxpc = "clear" /\ status # "RxFrameEmpty") THEN rxBdDirty ELSE rxBdCurrent

\* How far descriptor i is ahead of descriptor b.
Ahead(b, i) == IF i < b THEN i + RxBds - b ELSE i - b

\* The filled descriptors are those from the oldest frame's to the MAC's.
RingShape ==
    /\ \A i \in Idx : Filled(i) => ~empty[i]
    /\ \/ hw = Base /\ \A i \in Idx : Filled(i)
       \/ \A i \in Idx : Filled(i) <=> Ahead(Base, i) < Ahead(Base, hw)

\* In the order of the ring the frames have rising numbers, the one in hand
\* being older than all of them.
Numbered ==
    /\ \A i \in Idx : Filled(i) => inhand.n < rxbd[i].n \/ (rxpc = "clear" /\ i = rxBdDirty)
    /\ \A i, j \in Idx : Filled(i) /\ Filled(j) /\ Ahead(Base, i) < Ahead(Base, j) => rxbd[i].n < rxbd[j].n

Rising ==
    /\ \A k \in 1..Len(taken) : taken[k] <= frames
    /\ \A k, m \in 1..Len(taken) : k < m => taken[k] < taken[m]

Prefix == Len(passed) <= Len(taken) /\ \A k \in 1..Len(passed) : passed[k] = taken[k]

Pending ==
    /\ \A k \in (Len(passed) + 1)..Len(taken) : Held(taken[k])
    /\ \A f \in Nat : Held(f) => \E k \in (Len(passed) + 1)..Len(taken) : taken[k] = f

\* From its last look at the ring on the interrupt relies on EIR.
Quiet ==
    /\ ~eir
    /\ \/ rxpc \in {"out", "leave"}
       \/ rxpc \in {"walk", "clear", "fill"} /\ status = "RxFrameEmpty"
    => \A i \in Idx : ~Filled(i)

Ordered == RingShape /\ Numbered /\ Pending /\ Quiet

Safe == RxTypeOK /\ AtPlace /\ MacAtWork /\ OnePlace /\ Accounted /\ PoolCounted /\ Rising

Inv == Safe /\ (discarded = {} => Prefix) /\ (Settled => Ordered)

-----------------------------------------------------------------------------
(* Distances in the ring.                                                   *)

LEMMA SuccInRing ==
    ASSUME NEW i \in Idx
    PROVE  Succ(i) \in Idx /\ Succ(i) = IF i = RxBds - 1 THEN 0 ELSE i + 1
<1>1. RxBds \in Nat /\ RxBds > 0 /\ i \in Nat /\ i < RxBds
  BY ReceiveAssumption DEF Idx
<1>2. CASE i = RxBds - 1
  <2>1. i + 1 = RxBds
    BY <1>1, <1>2
  <2>2. RxBds % RxBds = 0
    BY <1>1
  <2>. QED  BY <1>1, <1>2, <2>1, <2>2 DEF Succ, Idx
<1>3. CASE i # RxBds - 1
  <2>1. (i + 1) % RxBds = i + 1
    BY <1>1, <1>3
  <2>. QED  BY <1>1, <1>3, <2>1 DEF Succ, Idx
<1>. QED  BY <1>2, <1>3

\* No two descriptors have the same successor.
LEMMA SuccInjective ==
    ASSUME NEW i \in Idx, NEW j \in Idx, Succ(i) = Succ(j)
    PROVE  i = j
BY SuccInRing, ReceiveAssumption DEF Idx

\* Distances are below RxBds, 0 only for the descriptor itself, and no two
\* descriptors have the same.
LEMMA AheadInRing ==
    ASSUME NEW b \in Idx
    PROVE  /\ \A i \in Idx : Ahead(b, i) \in Idx
           /\ Ahead(b, b) = 0
           /\ \A i, j \in Idx : Ahead(b, i) = Ahead(b, j) => i = j
BY ReceiveAssumption DEF Idx, Ahead

\* The next descriptor is one further ahead, but for the last, which is followed
\* by the first.
LEMMA AheadOfNext ==
    ASSUME NEW b \in Idx, NEW i \in Idx
    PROVE  IF Ahead(b, i) = RxBds - 1 THEN Succ(i) = b ELSE Ahead(b, Succ(i)) = Ahead(b, i) + 1
BY SuccInRing, ReceiveAssumption DEF Idx, Ahead

\* When the oldest frame is given back, its descriptor becomes the last.
LEMMA BaseMoves ==
    ASSUME NEW b \in Idx, NEW i \in Idx
    PROVE  Ahead(Succ(b), i) = IF i = b THEN RxBds - 1 ELSE Ahead(b, i) - 1
BY SuccInRing, ReceiveAssumption DEF Idx, Ahead

LEMMA NoFrameType == NoFrame \in Frame /\ NoFrame.n = 0 /\ NoFrame.kind = "none"
BY DEF NoFrame, Frame

-----------------------------------------------------------------------------
(* Every step keeps the parts that hold whatever is discarded.              *)

LEMMA SafeInit == RxInit => Safe
<1>. SUFFICES ASSUME RxInit  PROVE Safe
  OBVIOUS
<1>. USE ReceiveAssumption, NoFrameType DEF RxInit
<1>1. RxTypeOK
  <2>1. rxbd \in [Idx -> Frame] /\ empty \in [Idx -> BOOLEAN] /\ inhand \in Frame
    BY Zenon DEF Idx
  <2>2. 0 \in Idx /\ PoolSize \in Nat
    BY DEF Idx
  <2>. QED  BY <2>1, <2>2 DEF RxTypeOK
<1>2. \A i \in Idx : ~Filled(i) /\ empty[i]
  BY DEF Filled, Idx
<1>3. AtPlace /\ PoolCounted
  BY DEF AtPlace, PoolCounted, Reading
<1>5. Rising
  BY DEF Rising
<1>4. MacAtWork /\ Accounted
  BY <1>2 DEF MacAtWork, Accounted
<1>6. OnePlace
  BY <1>2 DEF OnePlace
<1>. QED  BY <1>1, <1>3, <1>4, <1>5, <1>6 DEF Safe

\* A step of the interrupt that leaves the ring, the frame in hand and the
\* sequences alone.
LEMMA SafeElsewhere ==
    ASSUME Safe, UNCHANGED <<mac, ring, inhand, passed, discarded>>,
           rxpc \notin {"clear", "fill"}, rxpc' \notin {"clear", "fill"}
    PROVE  MacAtWork' /\ OnePlace' /\ Accounted' /\ Rising'
<1>. USE DEF mac, ring
<1>1. MacAtWork'
  BY DEF Safe, MacAtWork, Filled
<1>4. Rising'
  BY DEF Safe, Rising
<1>2. OnePlace'
  BY DEF Safe, OnePlace, Filled
<1>3. Accounted'
  BY DEF Safe, Accounted, Held
<1>. QED  BY <1>1, <1>2, <1>3, <1>4

LEMMA SafeSmall ==
    ASSUME Safe,
           \/ ENET_ReceiveIRQHandler \/ ENET_GetRxFrameSize \/ Release \/ RxLeave
    PROVE  Safe'
<1>. USE DEF mac, ring, pbufs
<1>0. /\ UNCHANGED <<mac, ring, inhand, passed, discarded>>
      /\ rxpc \notin {"clear", "fill"} /\ rxpc' \notin {"clear", "fill"}
  BY DEF ENET_ReceiveIRQHandler, ENET_GetRxFrameSize, Release, RxLeave
<1>1. MacAtWork' /\ OnePlace' /\ Accounted' /\ Rising'
  BY <1>0, SafeElsewhere
<1>2. RxTypeOK'
  <2>. USE <1>0 DEF Safe, RxTypeOK
  <2>1. CASE ENET_ReceiveIRQHandler
    BY <2>1 DEF ENET_ReceiveIRQHandler
  <2>2. CASE ENET_GetRxFrameSize
    BY <2>2 DEF ENET_GetRxFrameSize
  <2>3. CASE Release
    BY <2>3 DEF Release
  <2>4. CASE RxLeave
    BY <2>4 DEF RxLeave
  <2>. QED  BY <2>1, <2>2, <2>3, <2>4
<1>3. PoolCounted'
  <2>0. pool \in Nat /\ kept \in Nat
    BY DEF Safe, RxTypeOK
  <2>. USE <1>0, <2>0 DEF Safe, PoolCounted, Reading
  <2>1. CASE ENET_ReceiveIRQHandler
    BY <2>1 DEF ENET_ReceiveIRQHandler
  <2>2. CASE ENET_GetRxFrameSize
    BY <2>2 DEF ENET_GetRxFrameSize
  <2>3. CASE Release
    BY <2>3 DEF Release
  <2>4. CASE RxLeave
    BY <2>4 DEF RxLeave
  <2>. QED  BY <2>1, <2>2, <2>3, <2>4
<1>4. AtPlace'
  <2>1. CASE ENET_GetRxFrameSize
    <3>1. /\ rxpc = "size" /\ rxBdDirty = rxBdCurrent /\ rxBdDirty \in Idx
          /\ inhand = NoFrame
      BY <2>1 DEF ENET_GetRxFrameSize, Safe, AtPlace, RxTypeOK, Reading
    <3>2. ~empty[rxBdDirty] => rxbd[rxBdDirty].kind \in Kinds
      BY <3>1 DEF Safe, MacAtWork
    <3>. QED  BY <1>0, <2>1, <3>1, <3>2 DEF ENET_GetRxFrameSize, AtPlace, Reading, Kinds
  <2>2. CASE ENET_ReceiveIRQHandler
    BY <1>0, <2>2 DEF Safe, AtPlace, Reading, ENET_ReceiveIRQHandler
  <2>4. CASE RxLeave
    BY <1>0, <2>4 DEF Safe, AtPlace, Reading, RxLeave
  <2>3. CASE Release
    BY <1>0, <2>3 DEF Safe, AtPlace, Reading, Release
  <2>. QED  BY <2>1, <2>2, <2>3, <2>4
<1>. QED  BY <1>1, <1>2, <1>3, <1>4 DEF Safe
LEMMA SafeMacBegin ==
    ASSUME Safe, MacBegin
    PROVE  Safe'
<1>1. /\ UNCHANGED <<hw, frames, taken, rxbd, empty, rxBdCurrent, rxBdDirty, eir, rxpc, status>>
      /\ UNCHANGED <<inhand, pool, kept, passed, discarded>>
      /\ dma' = TRUE /\ empty[hw]
  BY DEF MacBegin, ring, pbufs
<1>2. RxTypeOK' /\ MacAtWork'
  BY <1>1 DEF Safe, RxTypeOK, MacAtWork, Filled
<1>3. AtPlace' /\ PoolCounted'
  BY <1>1 DEF Safe, AtPlace, PoolCounted, Reading, Filled
<1>4. OnePlace'
  BY <1>1 DEF Safe, OnePlace, Filled
<1>5. Accounted' /\ Rising'
  BY <1>1 DEF Safe, Accounted, Held, Rising
<1>. QED  BY <1>2, <1>3, <1>4, <1>5 DEF Safe

\* The frame the MAC stores has a number of its own.
LEMMA SafeMacEnd ==
    ASSUME Safe, NEW kind \in Kinds, MacEnd(kind)
    PROVE  Safe'
<1>. DEFINE new == [n |-> frames', kind |-> kind]
<1>1. /\ dma /\ dma' = FALSE /\ frames' = frames + 1 /\ eir' = TRUE /\ hw' = Succ(hw)
      /\ rxbd' = [rxbd EXCEPT ![hw] = new] /\ empty' = [empty EXCEPT ![hw] = FALSE]
      /\ taken' = IF kind = "ip" THEN Append(taken, frames') ELSE taken
      /\ UNCHANGED <<rxBdCurrent, rxBdDirty, rxpc, status, inhand, pool, kept, passed, discarded>>
  BY DEF MacEnd, pbufs
<1>2. RxTypeOK
  BY DEF Safe
<1>3. /\ hw \in Idx /\ frames \in Nat /\ rxbd \in [Idx -> Frame] /\ empty \in [Idx -> BOOLEAN]
      /\ taken \in Seq(Nat) /\ passed \in Seq(Nat) /\ inhand \in Frame /\ discarded \in SUBSET Nat
  BY <1>2 DEF RxTypeOK
<1>4. new \in Frame /\ new.n = frames + 1 /\ new.kind = kind /\ new # NoFrame
  BY <1>1, <1>3 DEF Frame, Kinds, NoFrame
<1>. HIDE DEF new
<1>5. /\ rxbd'[hw] = new /\ ~empty'[hw]
      /\ \A i \in Idx : i # hw => rxbd'[i] = rxbd[i] /\ empty'[i] = empty[i]
  BY <1>1, <1>3
<1>6. \A i \in Idx : Filled(i)' <=> (Filled(i) \/ i = hw)
  BY <1>4, <1>5 DEF Filled
<1>7. empty[hw] \/ (rxpc = "fill" /\ status = "RxFrameEmpty" /\ hw = rxBdDirty /\ ~Filled(hw))
  BY <1>1 DEF Safe, MacAtWork
<1>8. RxTypeOK'
  <2>1. rxbd' \in [Idx -> Frame] /\ empty' \in [Idx -> BOOLEAN]
    BY <1>1, <1>3, <1>4
  <2>2. taken' \in Seq(Nat) /\ frames' \in Nat /\ hw' \in Idx
    BY <1>1, <1>3, SuccInRing
  <2>. QED  BY <1>1, <1>2, <2>1, <2>2 DEF RxTypeOK
<1>9. AtPlace'
  <2>1. /\ rxpc \in {"read", "walk", "clear"} /\ status # "RxFrameEmpty" => hw # rxBdDirty
        /\ rxpc = "fill" /\ status # "RxFrameEmpty" => hw # rxBdDirty
    BY <1>2, <1>7 DEF Safe, AtPlace, RxTypeOK
  <2>2. rxBdDirty \in Idx
    BY <1>2 DEF RxTypeOK
  <2>. QED  BY <1>1, <1>5, <1>6, <2>1, <2>2 DEF Safe, AtPlace, Reading
<1>10. MacAtWork'
  <2>1. \A i \in Idx : Filled(i)' => rxbd'[i].kind \in Kinds /\ rxbd'[i].n \in 1..frames'
    BY <1>1, <1>3, <1>4, <1>5, <1>6 DEF Safe, MacAtWork
  <2>2. \A i \in Idx : ~empty'[i] => Filled(i)' \/ (rxpc' = "fill" /\ i = rxBdDirty')
    BY <1>1, <1>5, <1>6 DEF Safe, MacAtWork
  <2>. QED  BY <1>1, <2>1, <2>2 DEF MacAtWork
<1>11. OnePlace'
  <2>1. \A i \in Idx : Filled(i) => rxbd[i].n \in 1..frames
    BY DEF Safe, MacAtWork
  <2>2. inhand.n \in 0..frames
    BY <1>3, NoFrameType DEF Safe, OnePlace
  <2>3. \A f \in discarded : f \in Nat /\ f <= frames
    BY <1>3 DEF Safe, OnePlace
  <2>4. \A i, j \in Idx : Filled(i)' /\ Filled(j)' /\ rxbd'[i].n = rxbd'[j].n => i = j
    BY <1>3, <1>4, <1>5, <1>6, <2>1 DEF Safe, OnePlace
  <2>5. \A i \in Idx : Filled(i)' /\ rxbd'[i].n \in discarded' => empty'[i]
    BY <1>1, <1>3, <1>4, <1>5, <1>6, <2>3 DEF Safe, OnePlace
  <2>6. \A i \in Idx : Filled(i)' /\ rxbd'[i].n = inhand'.n => rxpc' = "clear" /\ i = rxBdDirty'
    BY <1>1, <1>3, <1>4, <1>5, <1>6, <2>2 DEF Safe, OnePlace
  <2>7. /\ inhand' # NoFrame => inhand'.n \in 1..frames' /\ inhand'.n \notin discarded'
        /\ \A f \in discarded' : f <= frames'
    BY <1>1, <1>3, <2>3 DEF Safe, OnePlace
  <2>8. ASSUME NEW k \in 1..Len(passed')
        PROVE  /\ passed'[k] \in 1..frames' /\ passed'[k] \notin discarded' /\ passed'[k] # inhand'.n
               /\ \A i \in Idx : Filled(i)' => rxbd'[i].n # passed'[k]
               /\ \A m \in 1..Len(passed') : passed'[k] = passed'[m] => k = m
    <3>1. /\ passed[k] \in 1..frames /\ passed[k] \notin discarded /\ passed[k] # inhand.n
          /\ \A i \in Idx : Filled(i) => rxbd[i].n # passed[k]
          /\ \A m \in 1..Len(passed) : passed[k] = passed[m] => k = m
      BY <1>1, <2>8 DEF Safe, OnePlace
    <3>2. \A i \in Idx : Filled(i)' => rxbd'[i].n # passed[k]
      <4>1. passed[k] # frames + 1
        BY <1>3, <3>1
      <4>. QED  BY <1>4, <1>5, <1>6, <3>1, <4>1
    <3>. QED  BY <1>1, <1>3, <3>1, <3>2
  <2>. QED  BY <2>4, <2>5, <2>6, <2>7, <2>8 DEF OnePlace
<1>12. Accounted'
  <2>1. ASSUME NEW f, Held(f)  PROVE Held(f)'
    <3>1. \A i \in Idx : rxbd[i].kind = "ip" /\ ~empty[i] => i # hw
      BY <1>7, NoFrameType DEF Filled
    <3>. QED  BY <1>1, <1>5, <2>1, <3>1 DEF Held
  <2>2. ASSUME kind = "ip", NEW f, f = frames + 1  PROVE Held(f)'
    BY <1>3, <1>4, <1>5, <2>2 DEF Held
  <2>3. ASSUME NEW k \in 1..Len(taken'), NEW f, f = taken'[k]
        PROVE  \/ f \in discarded' \/ Held(f)'
               \/ \E m \in 1..Len(passed') : passed'[m] = f
    <3>1. CASE k \in 1..Len(taken)
      <4>1. taken'[k] = taken[k]
        BY <1>1, <1>3, <3>1
      <4>2. \/ f \in discarded \/ Held(f)
            \/ \E m \in 1..Len(passed) : passed[m] = f
        BY <2>3, <3>1, <4>1 DEF Safe, Accounted
      <4>. QED  BY <1>1, <2>1, <4>2
    <3>2. CASE k \notin 1..Len(taken)
      <4>1. kind = "ip" /\ f = frames + 1
        BY <1>1, <1>3, <2>3, <3>2
      <4>. QED  BY <2>2, <4>1
    <3>. QED  BY <3>1, <3>2
  <2>. QED  BY <2>3 DEF Accounted
<1>13. PoolCounted'
  BY <1>1 DEF Safe, PoolCounted, Reading
<1>14. Rising'
  BY <1>1, <1>3 DEF Safe, Rising
<1>. QED  BY <1>8, <1>9, <1>10, <1>11, <1>12, <1>13, <1>14 DEF Safe
LEMMA SafeReadFrame ==
    ASSUME Safe, ReadFrame
    PROVE  Safe'
<1>1. /\ rxpc = "read" /\ rxpc' = "clear" /\ inhand' = rxbd[rxBdCurrent]
      /\ rxBdCurrent' = Succ(rxBdCurrent)
      /\ UNCHANGED <<hw, dma, frames, taken, rxbd, empty, rxBdDirty, eir, status, pool, kept>>
      /\ UNCHANGED <<passed, discarded>>
  BY DEF ReadFrame, mac, pbufs
<1>2. /\ rxBdDirty = rxBdCurrent /\ status = "Success" /\ inhand = NoFrame
      /\ rxbd[rxBdDirty].kind \in {"ip", "other"} /\ ~empty[rxBdDirty]
  BY <1>1 DEF Safe, AtPlace, Reading
<1>3. RxTypeOK
  BY DEF Safe
<1>4. Filled(rxBdDirty) /\ rxBdDirty \in Idx /\ rxbd[rxBdDirty] \in Frame
  BY <1>2, <1>3, NoFrameType DEF Filled, RxTypeOK
<1>5. RxTypeOK'
  BY <1>1, <1>2, <1>3, <1>4, SuccInRing DEF RxTypeOK
<1>6. AtPlace'
  BY <1>1, <1>2, <1>4 DEF AtPlace, Filled, Reading
<1>7. MacAtWork' /\ PoolCounted'
  BY <1>1, <1>2 DEF Safe, MacAtWork, PoolCounted, Reading, Filled
<1>8. OnePlace'
  <2>1. inhand'.n \in 1..frames /\ inhand'.n \notin discarded
    BY <1>1, <1>2, <1>4 DEF Safe, OnePlace, MacAtWork
  <2>2. \A i \in Idx : Filled(i)' <=> Filled(i)
    BY <1>1 DEF Filled
  <2>3. \A i \in Idx : Filled(i) /\ rxbd[i].n = inhand'.n => i = rxBdDirty
    BY <1>1, <1>2, <1>4 DEF Safe, OnePlace
  <2>4. \A k \in 1..Len(passed) : passed[k] # inhand'.n
    BY <1>1, <1>2, <1>4 DEF Safe, OnePlace
  <2>. QED  BY <1>1, <2>1, <2>2, <2>3, <2>4 DEF Safe, OnePlace
<1>9. Accounted'
  <2>1. ASSUME NEW f, Held(f)  PROVE Held(f)'
    BY <1>1, <1>2, <2>1, NoFrameType DEF Held
  <2>. QED  BY <1>1, <2>1 DEF Safe, Accounted
<1>10. Rising'
  BY <1>1 DEF Safe, Rising
<1>. QED  BY <1>5, <1>6, <1>7, <1>8, <1>9, <1>10 DEF Safe

LEMMA SafeSkipFrame ==
    ASSUME Safe, SkipFrame
    PROVE  Safe'
<1>1. /\ rxpc = "walk" /\ rxBdCurrent' = Succ(rxBdCurrent)
      /\ rxpc' = IF Filled(rxBdCurrent) \/ rxBdCurrent' = rxBdDirty THEN "clear" ELSE "walk"
      /\ UNCHANGED <<hw, dma, frames, taken, rxbd, empty, rxBdDirty, eir, status, pool, kept>>
      /\ UNCHANGED <<inhand, passed, discarded>>
  BY DEF SkipFrame, mac, pbufs, Filled
<1>2. /\ inhand = NoFrame /\ status # "Success"
      /\ status = "RxFrameError" =>
           rxBdDirty = rxBdCurrent /\ rxbd[rxBdDirty].kind = "error" /\ ~empty[rxBdDirty]
  BY <1>1 DEF Safe, AtPlace, Reading
<1>3. RxTypeOK
  BY DEF Safe
<1>4. RxTypeOK'
  BY <1>1, <1>3, SuccInRing DEF RxTypeOK
<1>5. AtPlace'
  <2>1. status = "RxFrameError" => rxpc' = "clear"
    BY <1>1, <1>2, NoFrameType DEF Filled
  <2>2. rxpc' \in {"clear", "walk"} /\ status \in {"RxFrameError", "RxFrameEmpty"}
    BY <1>1, <1>2, <1>3 DEF RxTypeOK
  <2>. QED  BY <1>1, <1>2, <2>1, <2>2 DEF AtPlace
<1>6. MacAtWork' /\ PoolCounted'
  BY <1>1, <1>2 DEF Safe, MacAtWork, PoolCounted, Reading, Filled
<1>7. OnePlace'
  BY <1>1, <1>2, NoFrameType DEF Safe, OnePlace, MacAtWork, Filled
<1>8. Accounted' /\ Rising'
  BY <1>1 DEF Safe, Accounted, Held, Rising
<1>. QED  BY <1>4, <1>5, <1>6, <1>7, <1>8 DEF Safe

\* What ClearFlags takes out of the ring is in hand, in error, or counted as
\* discarded.
LEMMA SafeClearFlags ==
    ASSUME Safe, ClearFlags
    PROVE  Safe'
<1>1. /\ rxpc = "clear" /\ rxpc' = "fill"
      /\ rxbd' = [rxbd EXCEPT ![rxBdDirty] = NoFrame]
      /\ empty' = [empty EXCEPT ![rxBdDirty] = FALSE]
      /\ discarded' = discarded \cup Unseen
      /\ UNCHANGED <<hw, dma, frames, taken, rxBdCurrent, rxBdDirty, eir, status, inhand, pool>>
      /\ UNCHANGED <<kept, passed>>
  BY DEF ClearFlags, mac, pbufs
<1>2. RxTypeOK
  BY DEF Safe
<1>3. /\ rxBdDirty \in Idx /\ rxbd \in [Idx -> Frame] /\ empty \in [Idx -> BOOLEAN]
      /\ discarded \in SUBSET Nat /\ status \in {"Success", "RxFrameError", "RxFrameEmpty"}
      /\ frames \in Nat
  BY <1>2 DEF RxTypeOK
<1>4. /\ rxbd'[rxBdDirty] = NoFrame /\ ~empty'[rxBdDirty]
      /\ \A i \in Idx : i # rxBdDirty => rxbd'[i] = rxbd[i] /\ empty'[i] = empty[i]
  BY <1>1, <1>3
<1>5. \A i \in Idx : Filled(i)' <=> (Filled(i) /\ i # rxBdDirty)
  BY <1>4 DEF Filled
<1>6. Unseen = IF Filled(rxBdDirty) /\ status = "RxFrameEmpty" THEN {rxbd[rxBdDirty].n} ELSE {}
  BY <1>1 DEF Unseen, Filled
<1>7. /\ status = "Success" => inhand = rxbd[rxBdDirty] /\ Filled(rxBdDirty) /\ ~empty[rxBdDirty]
      /\ status = "RxFrameError" => rxbd[rxBdDirty].kind = "error" /\ ~empty[rxBdDirty]
      /\ inhand # NoFrame => status = "Success"
  BY <1>1 DEF Safe, AtPlace, Reading
<1>8. RxTypeOK'
  <2>1. rxbd' \in [Idx -> Frame] /\ empty' \in [Idx -> BOOLEAN]
    BY <1>1, <1>3, NoFrameType
  <2>2. discarded' \in SUBSET Nat
    BY <1>1, <1>3, <1>6 DEF Frame
  <2>. QED  BY <1>1, <1>2, <2>1, <2>2 DEF RxTypeOK
<1>9. AtPlace' /\ PoolCounted'
  BY <1>1, <1>4, <1>5, <1>3, <1>7 DEF Safe, AtPlace, Reading, PoolCounted
<1>10. MacAtWork'
  <2>1. dma => empty[hw]
    BY <1>1 DEF Safe, MacAtWork
  <2>2. dma' => empty'[hw] \/ (status = "RxFrameEmpty" /\ hw = rxBdDirty /\ ~Filled(hw)')
    BY <1>1, <1>2, <1>3, <1>4, <1>5, <1>7, <2>1 DEF RxTypeOK
  <2>. QED  BY <1>1, <1>4, <1>5, <2>2 DEF Safe, MacAtWork
<1>11. OnePlace'
  <2>1. \A i \in Idx : Filled(i)' => rxbd'[i] = rxbd[i] /\ empty'[i] = empty[i] /\ Filled(i) /\ i # rxBdDirty
    BY <1>4, <1>5
  <2>2. ASSUME NEW i \in Idx, Filled(i)', rxbd'[i].n \in discarded'  PROVE empty'[i]
    <3>1. rxbd[i].n \in discarded
      BY <1>1, <1>3, <1>6, <2>1, <2>2 DEF Safe, OnePlace
    <3>. QED  BY <2>1, <2>2, <3>1 DEF Safe, OnePlace
  <2>3. ASSUME NEW f \in Unseen
        PROVE  f = rxbd[rxBdDirty].n /\ Filled(rxBdDirty) /\ inhand = NoFrame /\ f \in 1..frames
    BY <1>3, <1>6, <1>7 DEF Safe, MacAtWork
  <2>4. \A f \in discarded' : f <= frames
    BY <1>1, <1>3, <2>3 DEF Safe, OnePlace
  <2>5. inhand' # NoFrame => inhand'.n \in 1..frames' /\ inhand'.n \notin discarded'
    BY <1>1, <2>3 DEF Safe, OnePlace
  <2>6. \A k \in 1..Len(passed) : passed[k] \notin discarded'
    BY <1>1, <1>3, <2>3 DEF Safe, OnePlace
  <2>7. \A i \in Idx : Filled(i)' => rxbd'[i].n # inhand.n
    BY <2>1 DEF Safe, OnePlace
  <2>8. \A i, j \in Idx : Filled(i)' /\ Filled(j)' /\ rxbd'[i].n = rxbd'[j].n => i = j
    BY <2>1 DEF Safe, OnePlace
  <2>9. ASSUME NEW k \in 1..Len(passed')
        PROVE  /\ passed'[k] \in 1..frames' /\ passed'[k] \notin discarded' /\ passed'[k] # inhand'.n
               /\ \A i \in Idx : Filled(i)' => rxbd'[i].n # passed'[k]
               /\ \A m \in 1..Len(passed') : passed'[k] = passed'[m] => k = m
    BY <1>1, <2>1, <2>6, <2>9 DEF Safe, OnePlace
  <2>. QED  BY <1>1, <2>2, <2>4, <2>5, <2>7, <2>8, <2>9 DEF OnePlace
<1>12. Accounted'
  <2>1. ASSUME NEW f, Held(f)  PROVE Held(f)' \/ f \in discarded'
    <3>1. CASE inhand.kind = "ip" /\ inhand.n = f
      BY <1>1, <3>1 DEF Held
    <3>2. CASE \E i \in Idx : rxbd[i].kind = "ip" /\ ~empty[i] /\ rxbd[i].n = f
      <4>1. PICK i \in Idx : rxbd[i].kind = "ip" /\ ~empty[i] /\ rxbd[i].n = f
        BY <3>2
      <4>2. CASE i = rxBdDirty
        <5>1. Filled(rxBdDirty) /\ status # "RxFrameError"
          BY <1>7, <4>1, <4>2, NoFrameType DEF Filled
        <5>. QED  BY <1>1, <1>3, <1>6, <1>7, <4>1, <4>2, <5>1 DEF Held
      <4>3. CASE i # rxBdDirty
        BY <1>4, <4>1, <4>3 DEF Held
      <4>. QED  BY <4>2, <4>3
    <3>. QED  BY <2>1, <3>1, <3>2 DEF Held
  <2>. QED  BY <1>1, <2>1 DEF Safe, Accounted
<1>13. Rising'
  BY <1>1 DEF Safe, Rising
<1>. QED  BY <1>8, <1>9, <1>10, <1>11, <1>12, <1>13 DEF Safe
LEMMA SafeSetEmpty ==
    ASSUME Safe, SetEmpty
    PROVE  Safe'
<1>1. /\ rxpc = "fill" /\ empty' = [empty EXCEPT ![rxBdDirty] = TRUE]
      /\ rxBdDirty' = Succ(rxBdDirty) /\ discarded' = discarded \cup Unseen
      /\ rxpc' = IF rxBdDirty' # rxBdCurrent THEN "clear"
                 ELSE IF status = "Success" THEN "pass"
                 ELSE IF status = "RxFrameError" THEN "size" ELSE "leave"
      /\ UNCHANGED <<hw, dma, frames, taken, rxbd, rxBdCurrent, eir, status, inhand, pool, kept>>
      /\ passed' = passed
  BY DEF SetEmpty, mac, pbufs
<1>2. RxTypeOK
  BY DEF Safe
<1>3. /\ rxBdDirty \in Idx /\ rxbd \in [Idx -> Frame] /\ empty \in [Idx -> BOOLEAN]
      /\ discarded \in SUBSET Nat /\ status \in {"Success", "RxFrameError", "RxFrameEmpty"}
      /\ frames \in Nat
  BY <1>2 DEF RxTypeOK
<1>4. empty'[rxBdDirty] /\ \A i \in Idx : i # rxBdDirty => empty'[i] = empty[i]
  BY <1>1, <1>3
<1>5. \A i \in Idx : Filled(i)' <=> Filled(i)
  BY <1>1 DEF Filled
<1>6. Unseen = IF Filled(rxBdDirty) THEN {rxbd[rxBdDirty].n} ELSE {}
  BY <1>1 DEF Unseen, Filled
<1>7. /\ status # "RxFrameEmpty" => rxBdCurrent = rxBdDirty' /\ ~Filled(rxBdDirty)
      /\ inhand # NoFrame => status = "Success"
  BY <1>1 DEF Safe, AtPlace, Reading
<1>8. RxTypeOK'
  <2>1. empty' \in [Idx -> BOOLEAN] /\ rxBdDirty' \in Idx
    BY <1>1, <1>3, SuccInRing
  <2>2. discarded' \in SUBSET Nat
    BY <1>1, <1>3, <1>6 DEF Frame
  <2>. QED  BY <1>1, <1>2, <2>1, <2>2 DEF RxTypeOK
<1>9. AtPlace' /\ PoolCounted'
  BY <1>1, <1>3, <1>7 DEF Safe, AtPlace, Reading, PoolCounted
<1>10. MacAtWork'
  <2>1. dma => empty'[hw]
    BY <1>1, <1>2, <1>4 DEF Safe, MacAtWork, RxTypeOK
  <2>2. \A i \in Idx : ~empty'[i] => Filled(i)'
    BY <1>1, <1>4, <1>5 DEF Safe, MacAtWork
  <2>. QED  BY <1>1, <1>5, <2>1, <2>2 DEF Safe, MacAtWork
<1>11. OnePlace'
  <2>1. ASSUME NEW f \in Unseen
        PROVE  f = rxbd[rxBdDirty].n /\ Filled(rxBdDirty) /\ inhand = NoFrame /\ f \in 1..frames
    BY <1>3, <1>6, <1>7 DEF Safe, MacAtWork
  <2>2. ASSUME NEW i \in Idx, Filled(i)', rxbd'[i].n \in discarded'  PROVE empty'[i]
    <3>1. CASE rxbd[i].n \in discarded
      BY <1>4, <1>5, <2>2, <3>1 DEF Safe, OnePlace
    <3>2. CASE rxbd[i].n \in Unseen
      <4>1. i = rxBdDirty
        BY <1>3, <1>5, <2>1, <2>2, <3>2 DEF Safe, OnePlace
      <4>. QED  BY <1>4, <4>1
    <3>. QED  BY <1>1, <2>2, <3>1, <3>2
  <2>3. \A f \in discarded' : f <= frames
    BY <1>1, <1>3, <2>1 DEF Safe, OnePlace
  <2>4. inhand' # NoFrame => inhand'.n \in 1..frames' /\ inhand'.n \notin discarded'
    BY <1>1, <2>1 DEF Safe, OnePlace
  <2>5. \A k \in 1..Len(passed) : passed[k] \notin discarded'
    BY <1>1, <1>3, <2>1 DEF Safe, OnePlace
  <2>6. \A i \in Idx : Filled(i) => rxbd[i].n # inhand.n
    BY <1>1 DEF Safe, OnePlace
  <2>7. ASSUME NEW k \in 1..Len(passed')
        PROVE  /\ passed'[k] \in 1..frames' /\ passed'[k] \notin discarded' /\ passed'[k] # inhand'.n
               /\ \A i \in Idx : Filled(i)' => rxbd'[i].n # passed'[k]
               /\ \A m \in 1..Len(passed') : passed'[k] = passed'[m] => k = m
    BY <1>1, <1>5, <2>5, <2>7 DEF Safe, OnePlace
  <2>8. \A i, j \in Idx : Filled(i)' /\ Filled(j)' /\ rxbd'[i].n = rxbd'[j].n => i = j
    BY <1>1, <1>5 DEF Safe, OnePlace
  <2>. QED  BY <1>1, <1>5, <2>2, <2>3, <2>4, <2>6, <2>7, <2>8 DEF OnePlace
<1>12. Accounted'
  <2>1. ASSUME NEW f, Held(f)  PROVE Held(f)' \/ f \in discarded'
    <3>1. CASE inhand.kind = "ip" /\ inhand.n = f
      BY <1>1, <3>1 DEF Held
    <3>2. CASE \E i \in Idx : rxbd[i].kind = "ip" /\ ~empty[i] /\ rxbd[i].n = f
      <4>1. PICK i \in Idx : rxbd[i].kind = "ip" /\ ~empty[i] /\ rxbd[i].n = f
        BY <3>2
      <4>2. CASE i = rxBdDirty
        BY <1>1, <1>6, <4>1, <4>2, NoFrameType DEF Filled
      <4>3. CASE i # rxBdDirty
        BY <1>1, <1>4, <4>1, <4>3 DEF Held
      <4>. QED  BY <4>2, <4>3
    <3>. QED  BY <2>1, <3>1, <3>2 DEF Held
  <2>. QED  BY <1>1, <2>1 DEF Safe, Accounted
<1>13. Rising'
  BY <1>1 DEF Safe, Rising
<1>. QED  BY <1>8, <1>9, <1>10, <1>11, <1>12, <1>13 DEF Safe

LEMMA SafePassUp ==
    ASSUME Safe, NEW keep \in BOOLEAN, PassUp(keep)
    PROVE  Safe'
<1>1. /\ rxpc = "pass" /\ rxpc' = "size" /\ inhand' = NoFrame
      /\ passed' = IF inhand.kind = "ip" THEN Append(passed, inhand.n) ELSE passed
      /\ \/ kept' = kept + 1 /\ pool' = pool
         \/ pool' = pool + 1 /\ kept' = kept
      /\ UNCHANGED <<hw, dma, frames, taken, rxbd, empty, rxBdCurrent, rxBdDirty, eir, status>>
      /\ discarded' = discarded
  BY DEF PassUp, mac, ring
<1>2. RxTypeOK
  BY DEF Safe
<1>3. /\ inhand \in Frame /\ pool \in Nat /\ kept \in Nat /\ passed \in Seq(Nat) /\ inhand.n \in Nat
      /\ Len(passed) \in Nat
  BY <1>2 DEF RxTypeOK, Frame
<1>4. RxTypeOK'
  <2>1. passed' \in Seq(Nat) /\ pool' \in Nat /\ kept' \in Nat
    BY <1>1, <1>3
  <2>. QED  BY <1>1, <1>2, <2>1, NoFrameType DEF RxTypeOK
<1>5. AtPlace' /\ PoolCounted'
  BY <1>1, <1>3 DEF Safe, AtPlace, PoolCounted, Reading
<1>6. MacAtWork'
  BY <1>1 DEF Safe, MacAtWork, Filled
<1>7. \A i \in Idx : Filled(i)' <=> Filled(i)
  BY <1>1 DEF Filled
<1>8. OnePlace'
  <2>1. \A i \in Idx : Filled(i) => rxbd[i].n # 0 /\ rxbd[i].n # inhand.n
    BY <1>1 DEF Safe, OnePlace, MacAtWork
  <2>2. ASSUME NEW k \in 1..Len(passed)
        PROVE  /\ passed[k] \in 1..frames /\ passed[k] \notin discarded /\ passed[k] # 0
               /\ passed[k] # inhand.n
               /\ \A i \in Idx : Filled(i) => rxbd[i].n # passed[k]
               /\ \A m \in 1..Len(passed) : passed[k] = passed[m] => k = m
    BY DEF Safe, OnePlace
  <2>3. ASSUME NEW k \in 1..Len(passed')
        PROVE  /\ passed'[k] \in 1..frames' /\ passed'[k] \notin discarded' /\ passed'[k] # inhand'.n
               /\ \A i \in Idx : Filled(i)' => rxbd'[i].n # passed'[k]
               /\ \A m \in 1..Len(passed') : passed'[k] = passed'[m] => k = m
    <3>1. CASE inhand.kind # "ip"
      BY <1>1, <1>7, <2>2, <2>3, <3>1, NoFrameType
    <3>2. CASE inhand.kind = "ip"
      <4>1. /\ passed' = Append(passed, inhand.n) /\ Len(passed') = Len(passed) + 1
            /\ passed'[Len(passed) + 1] = inhand.n
            /\ \A m \in 1..Len(passed) : passed'[m] = passed[m]
        BY <1>1, <1>3, <3>2
      <4>2. inhand.n \in 1..frames /\ inhand.n \notin discarded /\ inhand.n # 0
        BY <3>2, NoFrameType DEF Safe, OnePlace
      <4>3. CASE k = Len(passed) + 1
        BY <1>1, <1>3, <1>7, <2>1, <2>2, <2>3, <4>1, <4>2, <4>3, NoFrameType
      <4>4. CASE k # Len(passed) + 1
        <5>1. k \in 1..Len(passed)
          BY <1>3, <2>3, <4>1, <4>4
        <5>2. \A m \in 1..Len(passed') : m \in 1..Len(passed) \/ m = Len(passed) + 1
          BY <1>3, <4>1
        <5>. QED  BY <1>1, <1>7, <2>2, <4>1, <4>2, <5>1, <5>2, NoFrameType
      <4>. QED  BY <4>3, <4>4
    <3>. QED  BY <3>1, <3>2
  <2>. QED  BY <1>1, <1>7, <2>1, <2>3, NoFrameType DEF Safe, OnePlace
<1>9. Accounted'
  <2>1. ASSUME NEW f, Held(f)  PROVE Held(f)' \/ \E m \in 1..Len(passed') : passed'[m] = f
    <3>1. CASE inhand.kind = "ip" /\ inhand.n = f
      <4>1. Len(passed) + 1 \in 1..Len(passed') /\ passed'[Len(passed) + 1] = f
        BY <1>1, <1>3, <3>1
      <4>. QED  BY <4>1
    <3>. QED  BY <1>1, <2>1, <3>1 DEF Held
  <2>2. ASSUME NEW m \in 1..Len(passed)  PROVE m \in 1..Len(passed') /\ passed'[m] = passed[m]
    BY <1>1, <1>3
  <2>3. ASSUME NEW k \in 1..Len(taken), NEW f, f = taken[k]
        PROVE  f \in discarded' \/ Held(f)' \/ \E m \in 1..Len(passed') : passed'[m] = f
    <3>1. f \in discarded \/ Held(f) \/ \E m \in 1..Len(passed) : passed[m] = f
      BY <2>3 DEF Safe, Accounted
    <3>. QED  BY <1>1, <2>1, <2>2, <3>1
  <2>. QED  BY <1>1, <2>3 DEF Accounted
<1>10. Rising'
  BY <1>1 DEF Safe, Rising
<1>. QED  BY <1>4, <1>5, <1>6, <1>8, <1>9, <1>10 DEF Safe
-----------------------------------------------------------------------------
(* Every step keeps the order until a frame is discarded.                   *)

\* A step that moves no frame and leaves the filled descriptors alone.
LEMMA OrderedKept ==
    ASSUME Ordered, RxTypeOK,
           UNCHANGED <<rxbd, hw, Base, inhand, taken, passed>>,
           \A i \in Idx : Filled(i) => empty'[i] = empty[i],
           \A i \in Idx : Filled(i) /\ rxpc = "clear" /\ i = rxBdDirty =>
                            rxpc' = "clear" /\ rxBdDirty' = i
    PROVE  RingShape' /\ Numbered' /\ Pending'
<1>1. \A i \in Idx : Filled(i)' <=> Filled(i)
  BY DEF Filled
<1>2. \A i \in Idx : Ahead(Base, i)' = Ahead(Base, i)
  BY DEF Ahead
<1>3. Ahead(Base, hw)' = Ahead(Base, hw)
  BY DEF Ahead
<1>4. RingShape'
  BY <1>1, <1>2, <1>3 DEF Ordered, RingShape
<1>5. Numbered'
  BY <1>1, <1>2 DEF Ordered, Numbered
<1>6. ASSUME NEW f  PROVE Held(f)' <=> Held(f)
  <2>1. \A i \in Idx : rxbd[i].kind = "ip" => Filled(i)
    BY NoFrameType DEF Filled
  <2>. QED  BY <2>1 DEF Held
<1>7. Pending'
  BY <1>6 DEF Ordered, Pending
<1>. QED  BY <1>4, <1>5, <1>7

LEMMA OrderSmall ==
    ASSUME Inv,
           \/ MacBegin \/ ENET_ReceiveIRQHandler \/ ENET_GetRxFrameSize \/ Release \/ RxLeave
    PROVE  (discarded = {} => Prefix)' /\ (Settled => Ordered)'
<1>1. UNCHANGED <<hw, frames, taken, rxbd, empty, rxBdCurrent, rxBdDirty, inhand, passed, discarded>>
  BY DEF MacBegin, ENET_ReceiveIRQHandler, ENET_GetRxFrameSize, Release, RxLeave, mac, ring
<1>2. RxTypeOK /\ AtPlace
  BY DEF Inv, Safe
<1>3. (discarded = {} => Prefix)'
  BY <1>1 DEF Inv, Prefix
<1>4. Settled' => Settled
  <2>1. CASE MacBegin
    BY <1>1, <2>1 DEF MacBegin, Settled, Doomed, Filled
  <2>2. CASE ~MacBegin
    BY <1>1, <2>2 DEF ENET_ReceiveIRQHandler, ENET_GetRxFrameSize, Release, RxLeave, Settled, Doomed
  <2>. QED  BY <2>1, <2>2
<1>5. ASSUME Settled'  PROVE Ordered'
  <2>1. Ordered
    BY <1>4, <1>5 DEF Inv
  <2>2. CASE MacBegin
    <3>1. rxpc' = rxpc /\ status' = status /\ eir' = eir
      BY <2>2 DEF MacBegin
    <3>2. Base' = Base
      BY <1>1, <3>1 DEF Base
    <3>3. RingShape' /\ Numbered' /\ Pending'
      BY <1>1, <1>2, <2>1, <3>1, <3>2, OrderedKept
    <3>4. Quiet'
      BY <1>1, <2>1, <3>1 DEF Ordered, Quiet, Filled
    <3>. QED  BY <3>3, <3>4 DEF Ordered
  <2>3. CASE ENET_ReceiveIRQHandler \/ Release \/ RxLeave
    <3>1. /\ rxpc \notin {"walk", "clear", "fill"} /\ rxpc' \notin {"walk", "clear", "fill"}
          /\ rxpc' \in {"out", "leave"} => rxpc \in {"out", "leave"} /\ eir' = eir
      BY <2>3 DEF ENET_ReceiveIRQHandler, Release, RxLeave
    <3>2. Base' = Base
      BY <1>1, <3>1 DEF Base
    <3>3. RingShape' /\ Numbered' /\ Pending'
      BY <1>1, <1>2, <2>1, <3>1, <3>2, OrderedKept
    <3>4. Quiet'
      BY <1>1, <2>1, <3>1 DEF Ordered, Quiet, Filled
    <3>. QED  BY <3>3, <3>4 DEF Ordered
  <2>4. CASE ENET_GetRxFrameSize
    <3>1. /\ rxpc = "size" /\ rxpc' \in {"walk", "hung", "read"} /\ rxBdDirty = rxBdCurrent
          /\ status' = "RxFrameEmpty" => empty[rxBdCurrent]
      BY <1>2, <2>4 DEF ENET_GetRxFrameSize, AtPlace
    <3>2. Base' = Base /\ Base = rxBdCurrent
      BY <1>1, <3>1 DEF Base
    <3>3. RingShape' /\ Numbered' /\ Pending'
      BY <1>1, <1>2, <2>1, <3>1, <3>2, OrderedKept
    <3>4. ASSUME empty[rxBdCurrent]  PROVE \A i \in Idx : ~Filled(i)
      <4>1. rxBdCurrent \in Idx /\ hw \in Idx
        BY <1>2 DEF RxTypeOK
      <4>2. ~Filled(rxBdCurrent)
        BY <2>1, <3>4, <4>1 DEF Ordered, RingShape
      <4>3. /\ \A i \in Idx : Filled(i) <=> Ahead(rxBdCurrent, i) < Ahead(rxBdCurrent, hw)
        BY <2>1, <3>2, <4>1, <4>2 DEF Ordered, RingShape
      <4>4. /\ \A i \in Idx : Ahead(rxBdCurrent, i) \in Nat
            /\ Ahead(rxBdCurrent, rxBdCurrent) = 0
        BY <4>1, AheadInRing DEF Idx
      <4>5. Ahead(rxBdCurrent, hw) = 0
        BY <4>1, <4>2, <4>3, <4>4
      <4>. QED  BY <4>3, <4>4, <4>5
    <3>5. Quiet'
      BY <1>1, <3>1, <3>4 DEF Quiet, Filled
    <3>. QED  BY <3>3, <3>5 DEF Ordered
  <2>. QED  BY <2>2, <2>3, <2>4
<1>. QED  BY <1>3, <1>5

LEMMA OrderReadFrame ==
    ASSUME Inv, ReadFrame
    PROVE  (discarded = {} => Prefix)' /\ (Settled => Ordered)'
<1>1. /\ rxpc = "read" /\ rxpc' = "clear" /\ inhand' = rxbd[rxBdCurrent]
      /\ UNCHANGED <<hw, frames, taken, rxbd, empty, rxBdDirty, eir, status, passed, discarded>>
  BY DEF ReadFrame, mac, pbufs
<1>2. /\ rxBdDirty = rxBdCurrent /\ status = "Success" /\ inhand = NoFrame
      /\ rxbd[rxBdDirty].kind \in {"ip", "other"} /\ ~empty[rxBdDirty]
  BY <1>1 DEF Inv, Safe, AtPlace, Reading
<1>3. rxBdDirty \in Idx /\ Filled(rxBdDirty)
  BY <1>2, NoFrameType DEF Inv, Safe, RxTypeOK, Filled
<1>4. (discarded = {} => Prefix)'
  BY <1>1 DEF Inv, Prefix
<1>5. ASSUME Settled'  PROVE Ordered'
  <2>1. Ordered
    BY <1>1, <1>5 DEF Settled, Doomed, Inv
  <2>2. Base = rxBdDirty /\ Base' = rxBdDirty
    BY <1>1, <1>2 DEF Base
  <2>3. \A i \in Idx : Filled(i)' <=> Filled(i)
    BY <1>1 DEF Filled
  <2>4. /\ \A i \in Idx : Ahead(Base, i)' = Ahead(Base, i)
        /\ Ahead(Base, hw)' = Ahead(Base, hw)
    BY <1>1, <2>2 DEF Ahead
  <2>5. RingShape'
    BY <1>1, <2>1, <2>2, <2>3, <2>4 DEF Ordered, RingShape
  <2>6. Numbered'
    <3>1. ASSUME NEW i \in Idx, Filled(i), i # rxBdDirty
          PROVE  inhand'.n < rxbd[i].n
      <4>1. Ahead(Base, rxBdDirty) = 0 /\ Ahead(Base, i) # 0 /\ Ahead(Base, i) \in Nat
        BY <1>3, <2>2, <3>1, AheadInRing DEF Idx
      <4>. QED  BY <1>1, <1>2, <1>3, <2>1, <3>1, <4>1 DEF Ordered, Numbered
    <3>. QED  BY <1>1, <2>1, <2>3, <2>4, <3>1 DEF Ordered, Numbered
  <2>7. Pending'
    <3>1. ASSUME NEW f  PROVE Held(f)' <=> Held(f)
      BY <1>1, <1>2, <1>3, NoFrameType DEF Held
    <3>. QED  BY <1>1, <2>1, <3>1 DEF Ordered, Pending
  <2>8. Quiet'
    BY <1>1, <1>2 DEF Quiet
  <2>. QED  BY <2>5, <2>6, <2>7, <2>8 DEF Ordered
<1>. QED  BY <1>4, <1>5

\* The walk that is to discard nothing has gone round the whole ring.
LEMMA OrderSkipFrame ==
    ASSUME Inv, SkipFrame
    PROVE  (discarded = {} => Prefix)' /\ (Settled => Ordered)'
<1>1. /\ rxpc = "walk" /\ rxBdCurrent' = Succ(rxBdCurrent)
      /\ rxpc' = IF Filled(rxBdCurrent) \/ rxBdCurrent' = rxBdDirty THEN "clear" ELSE "walk"
      /\ UNCHANGED <<hw, taken, rxbd, empty, rxBdDirty, eir, status, inhand, passed, discarded>>
  BY DEF SkipFrame, mac, pbufs, Filled
<1>2. RxTypeOK
  BY DEF Inv, Safe
<1>3. (discarded = {} => Prefix)'
  BY <1>1 DEF Inv, Prefix
<1>4. ASSUME Settled'  PROVE Ordered'
  <2>1. Ordered
    BY <1>1, <1>4 DEF Settled, Doomed, Inv
  <2>2. Base' = Base
    <3>1. CASE rxpc' = "clear" /\ status = "RxFrameEmpty"
      <4>1. rxBdCurrent \in Idx
        BY <1>2 DEF RxTypeOK
      <4>2. ~Filled(rxBdCurrent)
        <5>1. SUFFICES ASSUME Filled(rxBdCurrent)  PROVE Doomed'
          BY <1>4 DEF Settled
        <5>2. \E i \in Idx : Succ(i) = rxBdCurrent' /\ rxbd'[i] # NoFrame
          BY <1>1, <4>1, <5>1 DEF Filled
        <5>. QED  BY <1>1, <3>1, <5>2 DEF Doomed, Filled, Succ
      <4>. QED  BY <1>1, <3>1, <4>2 DEF Base
    <3>2. CASE ~(rxpc' = "clear" /\ status = "RxFrameEmpty")
      BY <1>1, <3>2 DEF Base
    <3>. QED  BY <3>1, <3>2
  <2>3. RingShape' /\ Numbered' /\ Pending'
    BY <1>1, <1>2, <2>1, <2>2, OrderedKept
  <2>4. Quiet'
    BY <1>1, <2>1 DEF Ordered, Quiet, Filled
  <2>. QED  BY <2>3, <2>4 DEF Ordered
<1>. QED  BY <1>3, <1>4

\* The MAC fills the descriptor behind the youngest frame.
LEMMA OrderMacEnd ==
    ASSUME Inv, NEW kind \in Kinds, MacEnd(kind)
    PROVE  (discarded = {} => Prefix)' /\ (Settled => Ordered)'
<1>. DEFINE new == [n |-> frames', kind |-> kind]
<1>1. /\ dma /\ frames' = frames + 1 /\ eir' = TRUE /\ hw' = Succ(hw)
      /\ rxbd' = [rxbd EXCEPT ![hw] = new] /\ empty' = [empty EXCEPT ![hw] = FALSE]
      /\ taken' = IF kind = "ip" THEN Append(taken, frames') ELSE taken
      /\ UNCHANGED <<rxBdCurrent, rxBdDirty, rxpc, status, inhand, passed, discarded>>
  BY DEF MacEnd
<1>2. RxTypeOK /\ MacAtWork /\ AtPlace /\ OnePlace
  BY DEF Inv, Safe
<1>3. /\ hw \in Idx /\ frames \in Nat /\ rxbd \in [Idx -> Frame] /\ empty \in [Idx -> BOOLEAN]
      /\ taken \in Seq(Nat) /\ passed \in Seq(Nat) /\ inhand \in Frame
      /\ rxBdCurrent \in Idx /\ rxBdDirty \in Idx /\ Len(taken) \in Nat /\ Len(passed) \in Nat
  BY <1>2 DEF RxTypeOK
<1>4. new.n = frames + 1 /\ new.kind = kind /\ new # NoFrame
  BY <1>1 DEF Kinds, NoFrame
<1>. HIDE DEF new
<1>5. /\ rxbd'[hw] = new /\ ~empty'[hw]
      /\ \A i \in Idx : i # hw => rxbd'[i] = rxbd[i] /\ empty'[i] = empty[i]
  BY <1>1, <1>3
<1>6. \A i \in Idx : Filled(i)' <=> (Filled(i) \/ i = hw)
  BY <1>4, <1>5 DEF Filled
<1>7. /\ Len(taken') >= Len(taken) /\ Len(taken') \in Nat
      /\ \A k \in 1..Len(taken) : taken'[k] = taken[k]
  BY <1>1, <1>3
<1>8. (discarded = {} => Prefix)'
  BY <1>1, <1>3, <1>7 DEF Inv, Prefix
<1>9. ASSUME Settled'  PROVE Ordered'
  <2>1. Ordered /\ Prefix
    <3>1. Doomed => Doomed'
      BY <1>1, <1>6 DEF Doomed, Succ
    <3>. QED  BY <1>1, <1>9, <3>1 DEF Inv, Settled
  <2>2. Base' = Base /\ Base \in Idx
    BY <1>1, <1>3 DEF Base
  <2>3. ~Filled(hw)
    BY <1>1, <1>2, <1>3, <2>1 DEF MacAtWork, Ordered, RingShape
  <2>4. /\ \A i \in Idx : Ahead(Base, i)' = Ahead(Base, i) /\ Ahead(Base, i) \in Idx
        /\ \A i, j \in Idx : Ahead(Base, i) = Ahead(Base, j) => i = j
    BY <2>2, AheadInRing DEF Ahead
  <2>5. \A i \in Idx : Filled(i) <=> Ahead(Base, i) < Ahead(Base, hw)
    BY <1>3, <2>1, <2>3 DEF Ordered, RingShape
  <2>6. RingShape'
    <3>1. \A i \in Idx : Filled(i)' => ~empty'[i]
      BY <1>5, <1>6, <2>1 DEF Ordered, RingShape
    <3>2. CASE Ahead(Base, hw) = RxBds - 1
      <4>1. hw' = Base'
        BY <1>1, <1>3, <2>2, <3>2, AheadOfNext
      <4>2. \A i \in Idx : i # hw => Ahead(Base, i) < Ahead(Base, hw)
        BY <1>3, <2>4, <3>2 DEF Idx
      <4>. QED  BY <1>6, <2>5, <3>1, <4>1, <4>2 DEF RingShape
    <3>3. CASE Ahead(Base, hw) # RxBds - 1
      <4>1. Ahead(Base, hw)' = Ahead(Base, hw) + 1
        <5>1. Ahead(Base, Succ(hw)) = Ahead(Base, hw) + 1
          BY <1>3, <2>2, <3>3, AheadOfNext
        <5>. QED  BY <1>1, <2>2, <5>1 DEF Ahead
      <4>2. ASSUME NEW i \in Idx
            PROVE  (Ahead(Base, i) < Ahead(Base, hw) \/ i = hw) <=> Ahead(Base, i) < Ahead(Base, hw) + 1
        <5>1. Ahead(Base, i) \in Nat /\ Ahead(Base, hw) \in Nat
          BY <1>3, <2>4 DEF Idx
        <5>2. Ahead(Base, i) = Ahead(Base, hw) <=> i = hw
          BY <1>3, <2>4
        <5>. HIDE DEF Ahead, Base
        <5>. QED  BY <5>1, <5>2
      <4>. QED  BY <1>6, <2>4, <2>5, <3>1, <4>1, <4>2 DEF RingShape
    <3>. QED  BY <3>2, <3>3
  <2>7. Numbered'
    <3>0. /\ inhand.n \in 0..frames
          /\ \A i \in Idx : Filled(i) => rxbd[i].n \in 1..frames
      BY <1>2, <1>3, NoFrameType DEF OnePlace, MacAtWork
    <3>1. ASSUME NEW i \in Idx, Filled(i)'
          PROVE  inhand'.n < rxbd'[i].n \/ (rxpc' = "clear" /\ i = rxBdDirty')
      BY <1>1, <1>3, <1>4, <1>5, <1>6, <2>1, <3>0, <3>1 DEF Ordered, Numbered
    <3>2. ASSUME NEW i \in Idx, NEW j \in Idx, Filled(i)', Filled(j)', Ahead(Base, i) < Ahead(Base, j)
          PROVE  rxbd'[i].n < rxbd'[j].n
      <4>1. Ahead(Base, i) \in Nat /\ Ahead(Base, j) \in Nat /\ Ahead(Base, hw) \in Nat
        BY <1>3, <2>4 DEF Idx
      <4>2. i # hw /\ Filled(i)
        BY <1>6, <2>5, <3>2, <4>1
      <4>3. CASE j = hw
        BY <1>3, <1>4, <1>5, <3>0, <4>2, <4>3
      <4>4. CASE j # hw
        BY <1>5, <1>6, <2>1, <3>2, <4>2, <4>4 DEF Ordered, Numbered
      <4>. QED  BY <4>3, <4>4
    <3>. QED  BY <2>4, <3>1, <3>2 DEF Numbered
  <2>8. Pending'
    <3>1. ASSUME NEW f  PROVE Held(f)' <=> (Held(f) \/ (kind = "ip" /\ f = frames + 1))
      <4>1. \A i \in Idx : rxbd[i].kind = "ip" => i # hw
        BY <2>3, NoFrameType DEF Filled
      <4>2. Held(f)' => Held(f) \/ (kind = "ip" /\ f = frames + 1)
        BY <1>1, <1>3, <1>4, <1>5 DEF Held
      <4>3. Held(f) => Held(f)'
        BY <1>1, <1>5, <4>1 DEF Held
      <4>4. kind = "ip" /\ f = frames + 1 => Held(f)'
        BY <1>3, <1>4, <1>5 DEF Held
      <4>. QED  BY <4>2, <4>3, <4>4
    <3>2. /\ Len(passed) <= Len(taken) /\ passed' = passed
          /\ \A k \in (Len(passed) + 1)..Len(taken) : Held(taken[k])
          /\ \A f \in Nat : Held(f) => \E k \in (Len(passed) + 1)..Len(taken) : taken[k] = f
      BY <1>1, <2>1 DEF Prefix, Ordered, Pending
    <3>3. /\ kind # "ip" => taken' = taken
          /\ kind = "ip" => Len(taken') = Len(taken) + 1 /\ taken'[Len(taken) + 1] = frames + 1
      BY <1>1, <1>3
    <3>4. ASSUME NEW k \in (Len(passed') + 1)..Len(taken'), NEW f, f = taken'[k]  PROVE Held(f)'
      <4>1. CASE k <= Len(taken)
        <5>1. k \in (Len(passed) + 1)..Len(taken) /\ k \in 1..Len(taken)
          BY <1>3, <1>7, <3>2, <3>4, <4>1
        <5>. QED  BY <1>7, <3>1, <3>2, <3>4, <5>1
      <4>2. CASE ~(k <= Len(taken))
        <5>1. kind = "ip" /\ k = Len(taken) + 1
          BY <1>3, <1>7, <3>2, <3>3, <3>4, <4>2
        <5>. QED  BY <3>1, <3>3, <3>4, <5>1
      <4>. QED  BY <4>1, <4>2
    <3>5. ASSUME NEW f \in Nat, Held(f)'
          PROVE  \E k \in (Len(passed') + 1)..Len(taken') : taken'[k] = f
      <4>1. CASE Held(f)
        <5>1. PICK k \in (Len(passed) + 1)..Len(taken) : taken[k] = f
          BY <3>2, <4>1
        <5>2. k \in (Len(passed') + 1)..Len(taken') /\ k \in 1..Len(taken)
          BY <1>3, <1>7, <3>2
        <5>. QED  BY <1>7, <5>1, <5>2
      <4>2. CASE kind = "ip" /\ f = frames + 1
        <5>1. Len(taken) + 1 \in (Len(passed') + 1)..Len(taken')
          BY <1>3, <3>2, <3>3, <4>2
        <5>. QED  BY <3>3, <4>2, <5>1
      <4>. QED  BY <3>1, <3>5, <4>1, <4>2
    <3>. QED  BY <3>4, <3>5 DEF Pending
  <2>9. Quiet'
    BY <1>1 DEF Quiet
  <2>. QED  BY <2>6, <2>7, <2>8, <2>9 DEF Ordered
<1>. QED  BY <1>8, <1>9
\* A frame that has been read, or is in error, leaves the ring; once around the
\* ring nothing does.
LEMMA OrderClearFlags ==
    ASSUME Inv, ClearFlags
    PROVE  (discarded = {} => Prefix)' /\ (Settled => Ordered)'
<1>1. /\ rxpc = "clear" /\ rxpc' = "fill"
      /\ rxbd' = [rxbd EXCEPT ![rxBdDirty] = NoFrame]
      /\ empty' = [empty EXCEPT ![rxBdDirty] = FALSE]
      /\ discarded' = discarded \cup Unseen
      /\ UNCHANGED <<hw, taken, rxBdCurrent, rxBdDirty, eir, status, inhand, passed>>
  BY DEF ClearFlags, mac, pbufs
<1>2. RxTypeOK /\ AtPlace
  BY DEF Inv, Safe
<1>3. /\ rxBdDirty \in Idx /\ rxBdCurrent \in Idx /\ hw \in Idx /\ rxbd \in [Idx -> Frame]
      /\ empty \in [Idx -> BOOLEAN] /\ inhand \in Frame
  BY <1>2 DEF RxTypeOK
<1>4. /\ rxbd'[rxBdDirty] = NoFrame
      /\ \A i \in Idx : i # rxBdDirty => rxbd'[i] = rxbd[i] /\ empty'[i] = empty[i]
  BY <1>1, <1>3
<1>5. \A i \in Idx : Filled(i)' <=> (Filled(i) /\ i # rxBdDirty)
  BY <1>4 DEF Filled
<1>6. (discarded = {} => Prefix)'
  BY <1>1 DEF Inv, Prefix
<1>7. CASE status = "RxFrameEmpty"
  <2>1. SUFFICES ASSUME Settled'  PROVE Ordered'
    BY <1>6
  <2>2. ~Filled(rxBdDirty)
    BY <1>1, <1>7, <2>1 DEF Settled, Unseen, Filled
  <2>3. rxbd' = rxbd
    BY <1>1, <1>3, <2>2 DEF Filled
  <2>4. Ordered
    <3>1. Doomed => Doomed'
      BY <1>1, <1>7, <2>3 DEF Doomed, Succ, Filled
    <3>. QED  BY <1>1, <2>1, <3>1 DEF Inv, Settled
  <2>5. Base' = Base
    BY <1>1, <1>7 DEF Base
  <2>6. RingShape' /\ Numbered' /\ Pending'
    BY <1>1, <1>2, <1>4, <2>2, <2>3, <2>4, <2>5, OrderedKept
  <2>7. Quiet'
    BY <1>1, <1>7, <2>3, <2>4 DEF Ordered, Quiet, Filled
  <2>. QED  BY <2>6, <2>7 DEF Ordered
<1>8. CASE status # "RxFrameEmpty"
  <2>1. SUFFICES ASSUME Settled'  PROVE Ordered'
    BY <1>6
  <2>2. Ordered
    BY <1>1, <1>8, <2>1 DEF Inv, Settled, Doomed
  <2>3. /\ Base = rxBdDirty /\ Base' = Succ(rxBdDirty) /\ Filled(rxBdDirty)
    BY <1>1, <1>2, <1>3, <1>8, NoFrameType DEF Base, AtPlace, Filled, RxTypeOK
  <2>4. \A i \in Idx : Ahead(Base, i)' = IF i = rxBdDirty THEN RxBds - 1 ELSE Ahead(Base, i) - 1
    <3>1. \A i \in Idx : Ahead(Succ(rxBdDirty), i) =
                            IF i = rxBdDirty THEN RxBds - 1 ELSE Ahead(rxBdDirty, i) - 1
      BY <1>3, BaseMoves
    <3>. QED  BY <2>3, <3>1 DEF Ahead
  <2>5. Ahead(Base, hw)' = IF hw = rxBdDirty THEN RxBds - 1 ELSE Ahead(Base, hw) - 1
    <3>1. Ahead(Succ(rxBdDirty), hw) = IF hw = rxBdDirty THEN RxBds - 1 ELSE Ahead(rxBdDirty, hw) - 1
      BY <1>3, BaseMoves
    <3>. QED  BY <1>1, <2>3, <3>1 DEF Ahead
  <2>6. /\ \A i \in Idx : Ahead(Base, i) \in 0..(RxBds - 1)
        /\ Ahead(Base, rxBdDirty) = 0
        /\ \A i, j \in Idx : Ahead(Base, i) = Ahead(Base, j) => i = j
    BY <1>3, <2>3, AheadInRing DEF Idx
  <2>7. RingShape'
    <3>1. \A i \in Idx : Filled(i)' => ~empty'[i]
      BY <1>4, <1>5, <2>2 DEF Ordered, RingShape
    <3>2. CASE hw = Base /\ \A i \in Idx : Filled(i)
      <4>1. \A i \in Idx : i # rxBdDirty <=> Ahead(Base, i)' < Ahead(Base, hw)'
        <5>1. SUFFICES ASSUME NEW i \in Idx
                       PROVE  i # rxBdDirty <=> Ahead(Base, i)' < Ahead(Base, hw)'
          OBVIOUS
        <5>2. Ahead(Base, hw)' = RxBds - 1 /\ RxBds \in Nat
          BY <2>3, <2>5, <3>2, ReceiveAssumption
        <5>3. Ahead(Base, i) \in 0..(RxBds - 1)
          BY <2>6
        <5>. QED  BY <2>4, <5>2, <5>3
      <4>. QED  BY <1>5, <3>1, <3>2, <4>1 DEF RingShape
    <3>3. CASE \A i \in Idx : Filled(i) <=> Ahead(Base, i) < Ahead(Base, hw)
      <4>1. hw # rxBdDirty
        BY <1>3, <2>3, <2>6, <3>3
      <4>2. ASSUME NEW i \in Idx
            PROVE  (Filled(i) /\ i # rxBdDirty) <=> Ahead(Base, i)' < Ahead(Base, hw)'
        <5>1. /\ Ahead(Base, i) \in 0..(RxBds - 1) /\ Ahead(Base, hw) \in 0..(RxBds - 1)
              /\ RxBds \in Nat
          BY <1>3, <2>6, ReceiveAssumption
        <5>2. Ahead(Base, hw)' = Ahead(Base, hw) - 1
          BY <2>5, <4>1
        <5>3. CASE i = rxBdDirty
          BY <2>4, <5>1, <5>2, <5>3
        <5>4. CASE i # rxBdDirty
          BY <2>4, <3>3, <5>1, <5>2, <5>4
        <5>. QED  BY <5>3, <5>4
      <4>. QED  BY <1>5, <3>1, <4>2 DEF RingShape
    <3>. QED  BY <2>2, <3>2, <3>3 DEF Ordered, RingShape
  <2>8. Numbered'
    <3>1. ASSUME NEW i \in Idx, Filled(i)'  PROVE inhand'.n < rxbd'[i].n
      BY <1>1, <1>4, <1>5, <2>2, <3>1 DEF Ordered, Numbered
    <3>2. ASSUME NEW i \in Idx, NEW j \in Idx, Filled(i)', Filled(j)', Ahead(Base, i)' < Ahead(Base, j)'
          PROVE  rxbd'[i].n < rxbd'[j].n
      <4>1. /\ i # rxBdDirty /\ Filled(i) /\ rxbd'[i] = rxbd[i]
            /\ j # rxBdDirty /\ Filled(j) /\ rxbd'[j] = rxbd[j]
        BY <1>4, <1>5, <3>2
      <4>2. Ahead(Base, i) < Ahead(Base, j)
        <5>1. Ahead(Base, i) \in 0..(RxBds - 1) /\ Ahead(Base, j) \in 0..(RxBds - 1)
          BY <2>6
        <5>2. Ahead(Base, i) - 1 < Ahead(Base, j) - 1
          BY <2>4, <3>2, <4>1
        <5>. QED  BY <5>1, <5>2, ReceiveAssumption
      <4>. QED  BY <2>2, <4>1, <4>2 DEF Ordered, Numbered
    <3>. QED  BY <3>1, <3>2 DEF Numbered
  <2>9. Pending'
    <3>1. ASSUME NEW f  PROVE Held(f)' <=> Held(f)
      <4>1. CASE status = "Success"
        <5>1. inhand = rxbd[rxBdDirty] /\ ~empty[rxBdDirty]
          BY <1>1, <1>2, <4>1 DEF AtPlace
        <5>. QED  BY <1>1, <1>3, <1>4, <5>1, NoFrameType DEF Held
      <4>2. CASE status = "RxFrameError"
        <5>1. rxbd[rxBdDirty].kind = "error"
          BY <1>1, <1>2, <4>2 DEF AtPlace
        <5>. QED  BY <1>1, <1>3, <1>4, <5>1, NoFrameType DEF Held
      <4>. QED  BY <1>2, <1>8, <4>1, <4>2 DEF RxTypeOK
    <3>. QED  BY <1>1, <2>2, <3>1 DEF Ordered, Pending
  <2>10. Quiet'
    BY <1>1, <1>8 DEF Quiet
  <2>. QED  BY <2>7, <2>8, <2>9, <2>10 DEF Ordered
<1>. QED  BY <1>7, <1>8

LEMMA OrderSetEmpty ==
    ASSUME Inv, SetEmpty
    PROVE  (discarded = {} => Prefix)' /\ (Settled => Ordered)'
<1>1. /\ rxpc = "fill" /\ empty' = [empty EXCEPT ![rxBdDirty] = TRUE]
      /\ rxBdDirty' = Succ(rxBdDirty) /\ discarded' = discarded \cup Unseen
      /\ rxpc' = IF rxBdDirty' # rxBdCurrent THEN "clear"
                 ELSE IF status = "Success" THEN "pass"
                 ELSE IF status = "RxFrameError" THEN "size" ELSE "leave"
      /\ UNCHANGED <<hw, taken, rxbd, rxBdCurrent, eir, status, inhand, passed>>
  BY DEF SetEmpty, mac, pbufs
<1>2. RxTypeOK /\ AtPlace
  BY DEF Inv, Safe
<1>3. rxBdDirty \in Idx /\ rxBdCurrent \in Idx /\ empty \in [Idx -> BOOLEAN]
  BY <1>2 DEF RxTypeOK
<1>4. (discarded = {} => Prefix)'
  BY <1>1 DEF Inv, Prefix
<1>5. status # "RxFrameEmpty" => rxBdDirty' = rxBdCurrent
  BY <1>1, <1>2 DEF AtPlace
<1>6. ASSUME Settled'  PROVE Ordered'
  <2>1. ~Filled(rxBdDirty) /\ discarded = {}
    BY <1>1, <1>6 DEF Settled, Unseen, Filled
  <2>2. ~Doomed
    <3>1. SUFFICES ASSUME Doomed  PROVE FALSE
      OBVIOUS
    <3>2. PICK i \in Idx : Succ(i) = rxBdCurrent /\ Filled(i)
      BY <3>1 DEF Doomed
    <3>3. Succ(rxBdDirty) # rxBdCurrent
      BY <1>3, <2>1, <3>2, SuccInjective
    <3>4. Doomed'
      <4>1. rxpc' = "clear" /\ status' = "RxFrameEmpty"
        BY <1>1, <3>1, <3>3 DEF Doomed
      <4>2. \E j \in Idx : Succ(j) = rxBdCurrent' /\ rxbd'[j] # NoFrame
        BY <1>1, <3>2 DEF Filled
      <4>. QED  BY <4>1, <4>2 DEF Doomed, Filled, Succ
    <3>. QED  BY <1>6, <3>4 DEF Settled
  <2>3. Ordered
    BY <2>1, <2>2 DEF Inv, Settled
  <2>4. Base' = Base
    BY <1>1, <1>5 DEF Base
  <2>5. \A i \in Idx : Filled(i) => empty'[i] = empty[i]
    BY <1>1, <1>3, <2>1
  <2>6. RingShape' /\ Numbered' /\ Pending'
    BY <1>1, <1>2, <2>3, <2>4, <2>5, OrderedKept
  <2>7. Quiet'
    BY <1>1, <1>2, <1>5, <2>3 DEF Ordered, Quiet, Filled, RxTypeOK
  <2>. QED  BY <2>6, <2>7 DEF Ordered
<1>. QED  BY <1>4, <1>6
\* netif->input takes the frame in hand: of the frames not yet passed it is the
\* one the MAC took first.
LEMMA OrderPassUp ==
    ASSUME Inv, NEW keep \in BOOLEAN, PassUp(keep)
    PROVE  (discarded = {} => Prefix)' /\ (Settled => Ordered)'
<1>1. /\ rxpc = "pass" /\ rxpc' = "size" /\ inhand' = NoFrame
      /\ passed' = IF inhand.kind = "ip" THEN Append(passed, inhand.n) ELSE passed
      /\ UNCHANGED <<hw, taken, rxbd, empty, rxBdCurrent, rxBdDirty, eir, discarded>>
  BY DEF PassUp, mac, ring
<1>2. RxTypeOK /\ OnePlace /\ MacAtWork /\ Rising
  BY DEF Inv, Safe
<1>3. /\ rxbd \in [Idx -> Frame] /\ inhand \in Frame /\ inhand.n \in Nat
      /\ passed \in Seq(Nat) /\ taken \in Seq(Nat) /\ Len(passed) \in Nat /\ Len(taken) \in Nat
  BY <1>2 DEF RxTypeOK, Frame
<1>4. SUFFICES ASSUME discarded = {}  PROVE Prefix' /\ Ordered'
  BY <1>1 DEF Settled
<1>5. Prefix /\ Ordered
  BY <1>1, <1>4 DEF Inv, Settled, Doomed
<1>6. Base' = Base
  BY <1>1 DEF Base
<1>7. \A i \in Idx : Filled(i)' <=> Filled(i)
  BY <1>1 DEF Filled
<1>8. \A i \in Idx : Ahead(Base, i)' = Ahead(Base, i)
  BY <1>6 DEF Ahead
<1>9. Ahead(Base, hw)' = Ahead(Base, hw)
  BY <1>1, <1>6 DEF Ahead
<1>10. RingShape'
  BY <1>1, <1>5, <1>6, <1>7, <1>8, <1>9 DEF Ordered, RingShape
<1>11. Numbered'
  <2>1. \A i \in Idx : Filled(i) => 0 < rxbd[i].n
    BY <1>2 DEF MacAtWork
  <2>. QED  BY <1>1, <1>5, <1>7, <1>8, <2>1, NoFrameType DEF Ordered, Numbered
<1>12. Quiet'
  BY <1>1 DEF Quiet
<1>13. Prefix' /\ Pending'
  <2>1. CASE inhand.kind # "ip"
    <3>1. ASSUME NEW f  PROVE Held(f)' <=> Held(f)
      BY <1>1, <2>1, NoFrameType DEF Held
    <3>2. passed' = passed /\ taken' = taken
      BY <1>1, <2>1
    <3>. QED  BY <1>5, <3>1, <3>2 DEF Prefix, Ordered, Pending
  <2>2. CASE inhand.kind = "ip"
    <3>. DEFINE m == Len(passed) + 1
    <3>1. /\ \A k, l \in 1..Len(taken) : k < l => taken[k] < taken[l]
          /\ \A k \in 1..Len(passed) : passed[k] = taken[k]
          /\ \A k \in m..Len(taken) : Held(taken[k])
          /\ \A f \in Nat : Held(f) => \E k \in m..Len(taken) : taken[k] = f
          /\ \A k \in 1..Len(taken) : taken[k] \in Nat
          /\ Len(passed) <= Len(taken)
      BY <1>2, <1>3, <1>5 DEF Rising, Prefix, Ordered, Pending
    <3>2. PICK k \in m..Len(taken) : taken[k] = inhand.n
      BY <1>3, <2>2, <3>1 DEF Held
    <3>3. ASSUME NEW i \in Idx, rxbd[i].kind = "ip"  PROVE inhand.n < rxbd[i].n /\ rxbd[i].n \in Nat
      <4>1. Filled(i)
        BY <3>3, NoFrameType DEF Filled
      <4>. QED  BY <1>1, <1>3, <1>5, <4>1 DEF Ordered, Numbered, Frame
    <3>4. m \in 1..Len(taken) /\ m \in m..Len(taken) /\ k \in 1..Len(taken) /\ m <= k
      BY <1>3, <3>2
    <3>5. taken[m] = inhand.n
      <4>1. taken[m] <= inhand.n /\ taken[m] \in Nat
        <5>1. CASE m = k
          BY <1>3, <3>2, <5>1
        <5>2. CASE m # k
          <6>1. taken[m] < taken[k]
            BY <3>1, <3>4, <5>2
          <6>. QED  BY <1>3, <3>1, <3>2, <3>4, <6>1
        <5>. QED  BY <5>1, <5>2
      <4>2. Held(taken[m])
        BY <3>1, <3>4
      <4>3. ASSUME NEW i \in Idx, rxbd[i].kind = "ip"  PROVE rxbd[i].n # taken[m]
        BY <1>3, <3>3, <4>1, <4>3
      <4>. QED  BY <4>2, <4>3 DEF Held
    <3>6. /\ passed' = Append(passed, inhand.n) /\ Len(passed') = m /\ m \in Nat
          /\ passed'[m] = inhand.n /\ \A j \in 1..Len(passed) : passed'[j] = passed[j]
      BY <1>1, <1>3, <2>2
    <3>7. ASSUME NEW f  PROVE Held(f)' <=> (Held(f) /\ f # inhand.n)
      <4>1. ASSUME NEW i \in Idx, rxbd[i].kind = "ip"  PROVE rxbd[i].n # inhand.n
        BY <1>3, <3>3, <4>1
      <4>. QED  BY <1>1, <4>1, NoFrameType DEF Held
    <3>8. \A j \in 1..Len(passed') : passed'[j] = taken'[j]
      BY <1>1, <1>3, <3>1, <3>5, <3>6
    <3>9. ASSUME NEW j \in (Len(passed') + 1)..Len(taken'), NEW f, f = taken'[j]
          PROVE  Held(f)'
      <4>1. f = taken[j] /\ j \in m..Len(taken) /\ j \in 1..Len(taken) /\ m < j
        BY <1>1, <1>3, <3>6, <3>9
      <4>2. taken[m] < taken[j]
        BY <3>1, <3>4, <4>1
      <4>3. f # inhand.n /\ Held(f)
        BY <1>3, <3>1, <3>5, <4>1, <4>2
      <4>. QED  BY <3>7, <4>3
    <3>10. ASSUME NEW f \in Nat, Held(f)'
           PROVE  \E j \in (Len(passed') + 1)..Len(taken') : taken'[j] = f
      <4>1. Held(f) /\ f # inhand.n
        BY <3>7, <3>10
      <4>2. PICK j \in m..Len(taken) : taken[j] = f
        BY <3>1, <4>1
      <4>3. j # m
        BY <3>5, <4>1, <4>2
      <4>4. j \in (Len(passed') + 1)..Len(taken') /\ taken'[j] = f
        BY <1>1, <1>3, <3>6, <4>2, <4>3
      <4>. QED  BY <4>4
    <3>11. Len(passed') <= Len(taken')
      BY <1>1, <1>3, <3>4, <3>6
    <3>. QED  BY <3>8, <3>9, <3>10, <3>11 DEF Prefix, Pending
  <2>. QED  BY <2>1, <2>2
<1>. QED  BY <1>10, <1>11, <1>12, <1>13 DEF Ordered

-----------------------------------------------------------------------------
(* The results.                                                             *)

LEMMA InitInv == RxInit => Inv
<1>. SUFFICES ASSUME RxInit  PROVE Inv
  OBVIOUS
<1>1. \A i \in Idx : ~Filled(i) /\ empty[i]
  BY DEF RxInit, Filled, Idx
<1>2. Base = 0 /\ 0 \in Idx
  BY ReceiveAssumption DEF RxInit, Base, Idx
<1>3. RingShape
  <2>1. \A i \in Idx : Ahead(Base, i) >= 0 /\ Ahead(Base, hw) = 0
    BY <1>2 DEF RxInit, Ahead, Idx
  <2>2. \A i \in Idx : ~(Ahead(Base, i) < Ahead(Base, hw))
    <3>1. \A i \in Idx : Ahead(Base, i) \in Nat
      BY <1>2 DEF RxInit, Ahead, Idx
    <3>. QED  BY <2>1, <3>1
  <2>. QED  BY <1>1, <2>2 DEF RingShape
<1>4. Numbered /\ Quiet
  BY <1>1 DEF Numbered, Quiet
<1>5. Pending /\ Prefix
  <2>1. ASSUME NEW f  PROVE ~Held(f)
    BY <1>1, NoFrameType DEF Held, RxInit
  <2>. QED  BY <2>1 DEF RxInit, Pending, Prefix
<1>. QED  BY <1>3, <1>4, <1>5, SafeInit DEF Inv, Ordered

LEMMA InvStep ==
    ASSUME Inv, [RxNext]_rxvars
    PROVE  Inv'
<1>0. Safe
  BY DEF Inv
<1>1. CASE MacBegin
  BY <1>0, <1>1, SafeMacBegin, OrderSmall DEF Inv
<1>2. ASSUME NEW kind \in Kinds, MacEnd(kind)  PROVE Inv'
  BY <1>0, <1>2, SafeMacEnd, OrderMacEnd DEF Inv
<1>3. CASE ENET_ReceiveIRQHandler \/ ENET_GetRxFrameSize \/ Release \/ RxLeave
  BY <1>0, <1>3, SafeSmall, OrderSmall DEF Inv
<1>4. CASE ReadFrame
  BY <1>0, <1>4, SafeReadFrame, OrderReadFrame DEF Inv
<1>5. CASE SkipFrame
  BY <1>0, <1>5, SafeSkipFrame, OrderSkipFrame DEF Inv
<1>6. CASE ClearFlags
  BY <1>0, <1>6, SafeClearFlags, OrderClearFlags DEF Inv
<1>7. CASE SetEmpty
  BY <1>0, <1>7, SafeSetEmpty, OrderSetEmpty DEF Inv
<1>8. ASSUME NEW keep \in BOOLEAN, PassUp(keep)  PROVE Inv'
  BY <1>0, <1>8, SafePassUp, OrderPassUp DEF Inv
<1>9. CASE UNCHANGED rxvars
  <2>0. /\ UNCHANGED <<hw, dma, frames, taken, rxbd, empty, rxBdCurrent, rxBdDirty, eir, rxpc, status>>
        /\ UNCHANGED <<inhand, pool, kept, passed, discarded>>
    BY <1>9 DEF rxvars, mac, ring, pbufs
  <2>1. RxTypeOK' /\ AtPlace'
    BY <1>0, <2>0 DEF Safe, RxTypeOK, AtPlace, Filled, Reading
  <2>2. MacAtWork' /\ OnePlace'
    BY <1>0, <2>0 DEF Safe, MacAtWork, OnePlace, Filled
  <2>3. Accounted' /\ PoolCounted' /\ Rising'
    BY <1>0, <2>0 DEF Safe, Accounted, Held, PoolCounted, Reading, Rising
  <2>4. (discarded = {} => Prefix)'
    BY <2>0 DEF Inv, Prefix
  <2>5. ASSUME Settled'  PROVE Ordered'
    <3>1. Ordered
      BY <2>0, <2>5 DEF Inv, Settled, Doomed, Filled
    <3>2. Base' = Base
      BY <2>0 DEF Base
    <3>3. RingShape' /\ Numbered' /\ Pending'
      BY <1>0, <2>0, <3>1, <3>2, OrderedKept DEF Safe
    <3>4. Quiet'
      BY <2>0, <3>1 DEF Ordered, Quiet, Filled
    <3>. QED  BY <3>3, <3>4 DEF Ordered
  <2>. QED  BY <2>1, <2>2, <2>3, <2>4, <2>5 DEF Inv, Safe
<1>. QED  BY <1>1, <1>2, <1>3, <1>4, <1>5, <1>6, <1>7, <1>8, <1>9 DEF RxNext

\* Inv is an invariant of the receive path.
THEOREM ReceiveInvariant == RxSpec => []Inv
<1>. QED  BY InitInv, InvStep, PTL DEF RxSpec

\* Whatever ENET_ReadFrame, called with no buffer, discards, and however often the
\* driver and the MAC part in the ring for it: no frame reaches lwIP twice, every
\* IP frame of the ring is passed, on its way or one of the discarded, and every
\* pbuf of the pool is free, kept by lwIP or in hand.
THEOREM AllFramesAccounted == RxSpec => []FramesAccounted
<1>1. ASSUME Inv  PROVE FramesAccounted
  <2>1. /\ rxbd \in [Idx -> Frame] /\ DOMAIN rxbd = Idx /\ passed \in Seq(Nat) /\ taken \in Seq(Nat)
        /\ DOMAIN passed = 1..Len(passed) /\ DOMAIN taken = 1..Len(taken)
    BY <1>1 DEF Inv, Safe, RxTypeOK
  <2>2. OnePlace /\ Accounted /\ PoolCounted
    BY <1>1 DEF Inv, Safe
  <2>3. ASSUME NEW f  PROVE Held(f) <=> f \in InHand \cup InRing
    BY <2>1 DEF Held, InHand, InRing
  <2>4. ASSUME NEW k \in DOMAIN passed  PROVE passed[k] \notin InHand \cup InRing \cup discarded
    <3>1. /\ passed[k] \notin discarded /\ passed[k] # inhand.n
          /\ \A i \in Idx : Filled(i) => rxbd[i].n # passed[k]
      BY <2>1, <2>2 DEF OnePlace
    <3>2. ~Held(passed[k])
      BY <3>1, NoFrameType DEF Held, Filled
    <3>. QED  BY <2>3, <3>1, <3>2
  <2>5. ASSUME NEW k \in DOMAIN taken
        PROVE  taken[k] \in Passed \cup InHand \cup InRing \cup discarded
    <3>1. \/ taken[k] \in discarded \/ Held(taken[k])
          \/ \E m \in 1..Len(passed) : passed[m] = taken[k]
      BY <2>1, <2>2 DEF Accounted
    <3>. QED  BY <2>1, <2>3, <3>1 DEF Passed
  <2>6. \A i, j \in DOMAIN passed : i # j => passed[i] # passed[j]
    BY <2>1, <2>2 DEF OnePlace
  <2>7. pool + kept + (IF rxpc \in {"read", "pass"} \/ (rxpc \in {"clear", "fill"} /\ status = "Success")
                         THEN 1 ELSE 0) = PoolSize
    BY <2>2 DEF PoolCounted, Reading
  <2>. QED  BY <2>4, <2>5, <2>6, <2>7 DEF FramesAccounted, Passed
<1>. QED  BY <1>1, ReceiveInvariant, PTL

\* Until a frame is discarded ethernetif_input gives lwIP the IP frames in the
\* order in which the MAC took them, and when ENET_ReceiveIRQHandler has returned
\* with no receive event pending, none waits in the ring, however many descriptors
\* it has: clearing EIR before the ring is read loses none that comes in between.
THEOREM FramesInOrderUntilDiscard == RxSpec => []OrderedUntilDiscard
<1>1. ASSUME Inv  PROVE OrderedUntilDiscard
  <2>1. SUFFICES ASSUME discarded = {}  PROVE /\ passed = SubSeq(taken, 1, Len(passed))
                                              /\ rxpc = "out" /\ ~eir => InRing = {}
    BY DEF OrderedUntilDiscard
  <2>2. /\ passed \in Seq(Nat) /\ taken \in Seq(Nat) /\ Len(passed) <= Len(taken)
        /\ \A k \in 1..Len(passed) : passed[k] = taken[k]
        /\ rxbd \in [Idx -> Frame]
    BY <1>1, <2>1 DEF Inv, Safe, RxTypeOK, Prefix
  <2>3. passed = SubSeq(taken, 1, Len(passed))
    BY <2>2
  <2>4. ASSUME rxpc = "out", ~eir  PROVE InRing = {}
    <3>1. \A i \in Idx : ~Filled(i)
      BY <1>1, <2>1, <2>4 DEF Inv, Settled, Doomed, Ordered, Quiet
    <3>. QED  BY <2>2, <3>1, NoFrameType DEF InRing, Filled
  <2>. QED  BY <2>3, <2>4
<1>. QED  BY <1>1, ReceiveInvariant, PTL
=============================================================================
