---------------------------- MODULE CommonProofs ---------------------------
(***************************************************************************)
(* Facts that several proofs rest on: what a push may leave behind, for    *)
(* queues over any set of events (the facts about PushOutcomes that the    *)
(* contexts sharing a queue need), and induction over the naturals, with a *)
(* set in the place of the predicate.                                      *)
(***************************************************************************)
EXTENDS EventQueue, WellFoundedInduction, TLAPS

\* A push that was not overtaken appends its event and does nothing else.
LEMMA QuietPush ==
    ASSUME NEW q, NEW e, NEW stale
    PROVE  PushOutcomes(q, Len(q), e, stale) = {Append(q, e)}
BY DEF PushOutcomes

\* The words of two events make up an event.
LEMMA TornIsEvent ==
    ASSUME NEW T, NEW P, NEW x \in [evtype : T, payload : P],
           NEW y \in [evtype : T, payload : P]
    PROVE  Torn(x, y) \subseteq [evtype : T, payload : P]
BY DEF Torn

\* The overtaken push changes at most one slot, and never the length.
LEMMA KeptIsQueue ==
    ASSUME NEW E, \A x, y \in E : Torn(x, y) \subseteq E,
           NEW q \in Seq(E), NEW at \in Nat, NEW e \in E,
           NEW n \in at..Len(q), NEW b \in Kept(q, at, e, n)
    PROVE  b \in Seq(E) /\ Len(b) = Len(q)
<1>1. CASE n = at
  BY <1>1 DEF Kept
<1>2. CASE n # at
  <2>1. PICK x \in Torn(e, q[at + 1]) : b = [q EXCEPT ![at + 1] = x]
    BY <1>2 DEF Kept
  <2>2. q[at + 1] \in E
    BY <1>2
  <2>3. x \in E
    BY <2>1, <2>2
  <2>. QED  BY <1>2, <2>1, <2>3
<1>. QED  BY <1>1, <1>2

\* Whatever overtook it, a push leaves a queue of events, and not an empty one.
LEMMA PushKeepsQueue ==
    ASSUME NEW E, \A x, y \in E : Torn(x, y) \subseteq E,
           NEW q \in Seq(E), NEW at \in Nat, at <= Len(q), NEW e \in E,
           NEW stale \in SUBSET E, NEW r \in PushOutcomes(q, at, e, stale)
    PROVE  r \in Seq(E) /\ r # <<>>
<1>1. CASE Len(q) = at
  BY <1>1 DEF PushOutcomes
<1>2. CASE r \in CutOff(q, at, e)
  <2>1. PICK n \in at..(Len(q) - 1) :
          r \in {SubSeq(b, 1, n + 1) : b \in Kept(q, at, e, n)}
    BY <1>2 DEF CutOff
  <2>2. PICK b \in Kept(q, at, e, n) : r = SubSeq(b, 1, n + 1)
    BY <2>1
  <2>3. b \in Seq(E) /\ Len(b) = Len(q)
    BY <2>1, KeptIsQueue
  <2>. QED  BY <2>2, <2>3
<1>3. CASE r \in Padded(q, at, e, stale)
  <2>1. PICK b \in Kept(q, at, e, Len(q)), g \in stale : r = Append(b, g)
    BY <1>3 DEF Padded
  <2>2. b \in Seq(E)
    BY KeptIsQueue
  <2>. QED  BY <2>1, <2>2
<1>. QED  BY <1>1, <1>2, <1>3 DEF PushOutcomes

-----------------------------------------------------------------------------
\* Induction, with a set for the predicate.
LEMMA NatSetInduction ==
    ASSUME NEW S, 0 \in S, \A n \in Nat : n \in S => n + 1 \in S
    PROVE  Nat \subseteq S
<1>. SUFFICES ASSUME Nat \ S # {} PROVE FALSE
  OBVIOUS
<1>1. IsWellFoundedOn(OpToRel(<, Nat), Nat)
  BY NatLessThanWellFounded
<1>2. PICK x \in Nat \ S : \A y \in Nat \ S : <<y, x>> \notin OpToRel(<, Nat)
  BY <1>1, WFMin
<1>3. \A y \in Nat \ S : ~(y < x)
  BY <1>2 DEF OpToRel
<1>4. x # 0 /\ x - 1 \in Nat /\ x - 1 < x
  OBVIOUS
<1>5. x - 1 \in S
  BY <1>3, <1>4
<1>6. (x - 1) + 1 \in S
  BY <1>4, <1>5
<1>. QED  BY <1>6
=============================================================================
