---------------------------- MODULE SweepProofs ----------------------------
(***************************************************************************)
(* Theorems about Sweep for a map of any size, any byte width and any set  *)
(* of commands.                                                            *)
(***************************************************************************)
EXTENDS Sweep, CommonProofs, FiniteSetTheorems

\* A stored speed is a byte, whatever integer the host sent.
LEMMA Uint8IsByte == ASSUME NEW n \in Int PROVE Uint8(n) \in Byte
BY SweepAssumption DEF Uint8, Byte

\* The fields of a message and the events built from messages.
LEMMA MessageFields ==
    ASSUME NEW e \in Event
    PROVE  /\ e.payload.x \in Int /\ e.payload.y \in Int /\ e.payload.z \in Int
           /\ e.payload.arg \in {0, 1}
<1>1. e.payload \in Message \/ e.payload = NoMsg
  BY SweepAssumption DEF Event
<1>. QED  BY <1>1 DEF Message, NoMsg

LEMMA EventKinds ==
    /\ TickEvt \in Event /\ JobEvt \in Event
    /\ TickEvt \in Sent /\ JobEvt \in Sent
    /\ \A m \in Commands : EthEvt(m) \in Sent
BY DEF Event, Sent, TickEvt, JobEvt

\* What is pushed is an event, and no two of them tear into anything else.
LEMMA SentAndTorn ==
    /\ Sent \subseteq Event
    /\ \A x, y \in Event : Torn(x, y) \subseteq Event
<1>1. \A m \in Commands : EthEvt(m) \in Event
  BY DEF EthEvt, Event
<1>2. \A x, y \in Event : Torn(x, y) \subseteq Event
  BY TornIsEvent, Zenon DEF Event
<1>. QED  BY <1>1, <1>2, EventKinds DEF Sent

\* A push leaves a queue behind whatever overtakes it.
LEMMA PushOnto ==
    ASSUME TypeQueue, FrontHeld, EndPush
    PROVE  events' \in Seq(Event) /\ events' # <<>>
<1>1. /\ events \in Seq(Event) /\ at \in Nat /\ at <= Len(events) /\ pushed \in Event
      /\ events' \in PushOutcomes(events, at, pushed, Event)
  BY SentAndTorn DEF TypeQueue, FrontHeld, EndPush
<1>. QED  BY <1>1, SentAndTorn, PushKeepsQueue

\* A handler runs with its event at the front, and popping leaves a queue.
LEMMA PopIsQueue ==
    ASSUME events \in Seq(Event), events # <<>>
    PROVE  Front \in Event /\ Tail(events) \in Seq(Event)
BY DEF Front

-----------------------------------------------------------------------------
(* The inductive invariant: types, the served event stays in the queue,     *)
(* Park's memset is not undone, and pointer and position agree.             *)

Inv == TypeOK /\ FrontHeld /\ ClearedStaysClear /\ PosTracksPtr

\* The state start() leaves satisfies the invariant.
LEMMA InitInv == Init => Inv
<1>. SUFFICES ASSUME Init PROVE Inv
  OBVIOUS
<1>. USE SweepAssumption DEF Init
<1>1. TypeBoard
  BY DEF TypeBoard, Byte
<1>4. TypeFlags
  BY DEF TypeFlags
<1>5. TypeMain
  BY DEF TypeMain, Place, FsmState
<1>2. TypeQueue
  BY EventKinds DEF TypeQueue
<1>3. FrontHeld /\ ClearedStaysClear /\ PosTracksPtr
  BY DEF FrontHeld, ClearedStaysClear, PosTracksPtr
<1>. QED  BY <1>1, <1>2, <1>3, <1>4, <1>5 DEF Inv, TypeOK

\* Every step of the interrupt and of the main loop keeps the types.
LEMMA TypeStep == TypeOK /\ FrontHeld /\ [Next]_vars => TypeOK'
<1>. SUFFICES ASSUME TypeOK, FrontHeld, [Next]_vars PROVE TypeOK'
  OBVIOUS
<1>. USE SweepAssumption, EventKinds DEF TypeOK
<1>0. 0 \in Byte /\ Empty \in Byte
  BY DEF Byte
<1>1. CASE TickIdle
  <2>1. TypeBoard'  BY <1>0, <1>1 DEF TickIdle, TypeBoard
  <2>2. TypeFlags'  BY <1>1 DEF TickIdle, TypeFlags, job, slide, ghosts
  <2>3. TypeQueue'  BY <1>1 DEF TickIdle, IsrPush, TypeQueue, pushing
  <2>4. TypeMain'  BY <1>1 DEF TickIdle, TypeMain, job, slide, ghosts
  <2>. QED  BY <2>1, <2>2, <2>3, <2>4
<1>2. CASE TickPulse
  <2>1. TypeBoard'
    <3>. DEFINE cell == sweepmap[sweepmapptr]
                gap == IF pulsegap = 0 THEN cell ELSE pulsegap
    <3>1. cell \in Byte /\ gap \in Byte
      BY <1>2 DEF TypeBoard, TickPulse
    <3>2. cell > 0 => cell - 1 \in Byte
      BY <3>1 DEF Byte
    <3>3. sweepmap' \in [Cells -> Byte] /\ pulsegap' \in Byte
      BY <1>0, <1>2, <3>1, <3>2 DEF TickPulse, TypeBoard
    <3>4. sweepmapptr' \in Int /\ sweeppos' \in Int
      BY <1>2 DEF TickPulse, Step, TypeBoard
    <3>. QED  BY <3>3, <3>4 DEF TypeBoard
  <2>2. TypeFlags'  BY <1>2 DEF TickPulse, TypeFlags, job, slide, ghosts
  <2>3. TypeQueue'  BY <1>2 DEF TickPulse, TypeQueue, pushing
  <2>4. TypeMain'  BY <1>2 DEF TickPulse, TypeMain, job, slide, ghosts
  <2>. QED  BY <2>1, <2>2, <2>3, <2>4
<1>3. CASE TickStray
  BY <1>3 DEF TickStray, TypeBoard, TypeFlags, TypeQueue, TypeMain, board, job,
     slide, pushing
<1>4. CASE EnterService \/ LeaveService
  BY <1>4, SMTT(30) DEF EnterService, LeaveService, TypeBoard, TypeFlags, TypeQueue, TypeMain,
     board, job, slide, pushing, ghosts, Place
<1>5. CASE Deliver
  BY <1>5 DEF Deliver, BeginPush, TypeBoard, TypeFlags, TypeQueue, TypeMain, board,
     job, slide, ghosts, Place
<1>6. CASE EndPush
  <2>1. TypeBoard'  BY <1>6 DEF EndPush, TypeBoard, board
  <2>2. TypeFlags'  BY <1>6 DEF EndPush, TypeFlags, board, job, slide
  <2>3. TypeQueue'  BY <1>6, PushOnto DEF EndPush, TypeQueue
  <2>4. TypeMain'  BY <1>6 DEF EndPush, TypeMain, TypeQueue, job, slide, Place
  <2>. QED  BY <2>1, <2>2, <2>3, <2>4
<1>7. CASE PopAfterPush
  <2>1. Tail(events) \in Seq(Event)
    BY <1>7, PopIsQueue DEF PopAfterPush, FrontHeld, TypeQueue
  <2>. QED  BY <1>7, <2>1 DEF PopAfterPush, Pop, TypeBoard, TypeFlags, TypeQueue,
     TypeMain, board, job, slide, pushing, ghosts, Place
<1>8. CASE FsmTick
  <2>1. Tail(events) \in Seq(Event)
    BY <1>8, PopIsQueue DEF FsmTick, Serving, TypeQueue
  <2>. QED  BY <1>8, <2>1 DEF FsmTick, Pop, Terminate, TypeBoard, TypeFlags, TypeQueue,
     TypeMain, board, job, slide, pushing, ghosts, Place, FsmState
<1>9. CASE FsmPark
  BY <1>9 DEF FsmPark, Terminate, TypeBoard, TypeFlags, TypeQueue, TypeMain, board,
     job, slide, pushing, ghosts, Place
<1>10. CASE IsParked
  BY <1>10 DEF IsParked, TypeBoard, TypeFlags, TypeQueue, TypeMain, board, job,
     pushing, ghosts, Place, FsmState
<1>11. CASE IsInside
  <2>1. TypeBoard'  BY <1>11 DEF IsInside, TypeBoard, board
  <2>2. TypeFlags'  BY <1>11 DEF IsInside, BeginSlide, TypeFlags, board, job
  <2>3. TypeQueue'  BY <1>11 DEF IsInside, TypeQueue, pushing
  <2>4. TypeMain'  BY <1>11 DEF IsInside, BeginSlide, Goal, TypeMain, TypeBoard, job,
                      Place, FsmState
  <2>. QED  BY <2>1, <2>2, <2>3, <2>4
<1>12. CASE IsOutside
  <2>1. TypeBoard'  BY <1>12 DEF IsOutside, TypeBoard, board
  <2>2. TypeFlags'  BY <1>12 DEF IsOutside, BeginSlide, TypeFlags, board, job
  <2>3. TypeQueue'  BY <1>12 DEF IsOutside, Terminate, TypeQueue, pushing
  <2>4. TypeMain'  BY <1>12 DEF IsOutside, BeginSlide, Terminate, Goal, TypeMain,
                      TypeBoard, job, Place, FsmState
  <2>. QED  BY <2>1, <2>2, <2>3, <2>4
<1>13. CASE ClearCell
  <2>1. TypeBoard'  BY <1>0, <1>13 DEF ClearCell, TypeBoard
  <2>2. TypeFlags'  BY <1>13 DEF ClearCell, TypeFlags, job, ghosts
  <2>3. TypeQueue'  BY <1>13 DEF ClearCell, TypeQueue, pushing
  <2>4. TypeMain'  BY <1>13 DEF ClearCell, TypeMain, job, ghosts, Place
  <2>. QED  BY <2>1, <2>2, <2>3, <2>4
<1>14. CASE ParkPtr
  BY <1>14 DEF ParkPtr, TypeBoard, TypeFlags, TypeQueue, TypeMain, job, slide,
     pushing, ghosts, Place
<1>15. CASE ParkPos
  BY <1>15 DEF ParkPos, BeginPush, Goal, TypeBoard, TypeFlags, TypeQueue, TypeMain,
     job, slide, Place
<1>16. CASE CmdGoto
  <2>0. Front \in Event /\ Tail(events) \in Seq(Event)
    BY <1>16, PopIsQueue DEF CmdGoto, Command, Serving, TypeQueue
  <2>1. TypeBoard'  BY <1>16 DEF CmdGoto, TypeBoard, board
  <2>2. TypeFlags'  BY <1>16 DEF CmdGoto, Goto, BeginSlide, TypeFlags, board
  <2>3. TypeQueue'  BY <1>16, <2>0 DEF CmdGoto, Goto, Pop, TypeQueue, pushing
  <2>4. TypeMain'  BY <1>16, <2>0, MessageFields DEF CmdGoto, Goto, BeginSlide, Goal,
                      Pop, TypeMain, TypeBoard, Place
  <2>. QED  BY <2>1, <2>2, <2>3, <2>4
<1>17. CASE SlidePtr
  BY <1>17 DEF SlidePtr, TypeBoard, TypeFlags, TypeQueue, TypeMain, board, job,
     pushing, ghosts, Place
<1>18. CASE SlideDir
  <2>1. TypeBoard'  BY <1>18 DEF SlideDir, TypeBoard, board
  <2>2. TypeFlags'  BY <1>18 DEF SlideDir, TypeFlags, board, job, ghosts
  <2>3. TypeQueue'  BY <1>18 DEF SlideDir, TypeQueue, pushing
  <2>4. TypeMain'  BY <1>18 DEF SlideDir, TypeMain, job, ghosts, Place
  <2>. QED  BY <2>1, <2>2, <2>3, <2>4
<1>19. CASE SlideFill
  <2>0. Uint8(speed) \in Byte
    BY Uint8IsByte DEF TypeMain
  <2>1. TypeBoard'  BY <1>19, <2>0 DEF SlideFill, TypeBoard
  <2>2. TypeFlags'  BY <1>19 DEF SlideFill, TypeFlags, job
  <2>3. TypeQueue'  BY <1>19 DEF SlideFill, TypeQueue, pushing
  <2>4. TypeMain'  BY <1>19 DEF SlideFill, TypeMain, job
  <2>. QED  BY <2>1, <2>2, <2>3, <2>4
<1>20. CASE SlideEnable
  <2>0. Tail(events) \in Seq(Event)
    BY <1>20, PopIsQueue DEF SlideEnable, FrontHeld, TypeQueue
  <2>1. TypeBoard'  BY <1>20 DEF SlideEnable, TypeBoard, board
  <2>2. TypeFlags'  BY <1>20 DEF SlideEnable, TypeFlags, board, ghosts
  <2>3. TypeQueue'  BY <1>20, <2>0 DEF SlideEnable, Pop, TypeQueue, pushing
  <2>4. TypeMain'  BY <1>20 DEF SlideEnable, Pop, TypeMain, ghosts, Place
  <2>. QED  BY <2>1, <2>2, <2>3, <2>4
<1>21. CASE SweepJob
  <2>0. Tail(events) \in Seq(Event)
    BY <1>21, PopIsQueue DEF SweepJob, Serving, TypeQueue
  <2>1. TypeBoard'  BY <1>21 DEF SweepJob, TypeBoard, board
  <2>2. TypeFlags'  BY <1>21 DEF SweepJob, Goto, BeginSlide, TypeFlags, board
  <2>3. TypeQueue'  BY <1>21, <2>0 DEF SweepJob, Goto, Pop, TypeQueue, pushing
  <2>4. TypeMain'  BY <1>21 DEF SweepJob, Goto, BeginSlide, Goal, Pop, TypeMain,
                      TypeBoard, Place
  <2>. QED  BY <2>1, <2>2, <2>3, <2>4
<1>22. CASE CmdScan
  <2>0. Front \in Event
    BY <1>22, PopIsQueue DEF CmdScan, Command, Serving, TypeQueue
  <2>1. TypeBoard'  BY <1>22 DEF CmdScan, TypeBoard, board
  <2>2. TypeFlags'  BY <1>22 DEF CmdScan, TypeFlags, board, slide, ghosts
  <2>3. TypeQueue'  BY <1>22 DEF CmdScan, BeginPush, TypeQueue
  <2>4. TypeMain'  BY <1>22, <2>0, MessageFields DEF CmdScan, BeginPush, TypeMain,
                      slide, ghosts, Place
  <2>. QED  BY <2>1, <2>2, <2>3, <2>4
<1>25. CASE CmdTorn
  BY <1>25 DEF CmdTorn, TypeBoard, TypeFlags, TypeQueue, TypeMain, board, job, slide,
     pushing
<1>23. CASE CmdScanAbort \/ CmdEnable \/ CmdDir \/ CmdOther
  <2>. USE <1>23 DEF CmdScanAbort, CmdEnable, CmdDir, CmdOther
  <2>0. Tail(events) \in Seq(Event)
    BY PopIsQueue DEF Command, Serving, TypeQueue
  <2>1. TypeBoard'  BY DEF TypeBoard, board
  <2>2. TypeFlags'  BY DEF TypeFlags, board, job, slide, ghosts
  <2>3. TypeQueue'  BY <2>0 DEF Pop, TypeQueue, pushing
  <2>4. TypeMain'  BY DEF Pop, TypeMain, job, slide, ghosts, Place
  <2>. QED  BY <2>1, <2>2, <2>3, <2>4
<1>24. CASE UNCHANGED vars
  BY <1>24 DEF vars, TypeBoard, TypeFlags, TypeQueue, TypeMain, board, job, slide,
     pushing, ghosts
<1>. QED
  BY <1>1, <1>2, <1>3, <1>4, <1>5, <1>6, <1>7, <1>8, <1>9, <1>10, <1>11, <1>12,
     <1>13, <1>14, <1>15, <1>16, <1>17, <1>18, <1>19, <1>20, <1>21, <1>22, <1>23,
     <1>24, <1>25 DEF Next, Tick, Main

\* No step takes the served event out of the queue before its handler ends.
LEMMA FrontHeldStep == TypeOK /\ FrontHeld /\ [Next]_vars => FrontHeld'
<1>. SUFFICES ASSUME TypeOK, FrontHeld, [Next]_vars PROVE FrontHeld'
  OBVIOUS
<1>0. TypeQueue
  BY DEF TypeOK
<1>. USE <1>0 DEF FrontHeld, TypeQueue
<1>1. CASE Tick
  BY <1>1 DEF Tick, TickIdle, TickPulse, TickStray, IsrPush, pushing
<1>2. CASE EnterService \/ LeaveService \/ Deliver
  BY <1>2 DEF EnterService, LeaveService, Deliver, BeginPush, pushing
<1>3. CASE EndPush
  <2>1. events' # <<>>
    BY <1>3, PushOnto
  <2>. QED  BY <1>3, <2>1 DEF EndPush
<1>4. CASE PopAfterPush \/ FsmTick \/ FsmPark
  BY <1>4 DEF PopAfterPush, FsmTick, FsmPark, Pop, Terminate, Command, Serving
<1>5. CASE IsParked \/ IsInside \/ IsOutside \/ ClearCell \/ ParkPtr
  BY <1>5 DEF IsParked, IsInside, IsOutside, ClearCell, ParkPtr, BeginSlide, Terminate
<1>6. CASE ParkPos
  BY <1>6 DEF ParkPos, BeginPush
<1>7. CASE CmdGoto \/ SweepJob
  BY <1>7 DEF CmdGoto, SweepJob, Goto, BeginSlide, Pop, Command, Serving
<1>8. CASE SlidePtr \/ SlideDir \/ SlideFill \/ SlideEnable
  BY <1>8 DEF SlidePtr, SlideDir, SlideFill, SlideEnable, Pop
<1>9. CASE CmdScan
  BY <1>9 DEF CmdScan, BeginPush, Command, Serving
<1>10. CASE CmdScanAbort \/ CmdEnable \/ CmdDir \/ CmdOther \/ CmdTorn
  BY <1>10 DEF CmdScanAbort, CmdEnable, CmdDir, CmdOther, CmdTorn, Pop, pushing
<1>11. CASE UNCHANGED vars
  BY <1>11 DEF vars, pushing
<1>. QED
  BY <1>1, <1>2, <1>3, <1>4, <1>5, <1>6, <1>7, <1>8, <1>9, <1>10, <1>11
     DEF Next, Main

\* A tick rewrites only a cell that is not Empty, so what Park has cleared
\* stays cleared until Park has finished.
LEMMA ClearedStep == TypeOK /\ ClearedStaysClear /\ [Next]_vars => ClearedStaysClear'
<1>. SUFFICES ASSUME TypeOK, ClearedStaysClear, [Next]_vars
              PROVE  ClearedStaysClear'
  OBVIOUS
<1>0. TypeBoard /\ TypeMain /\ TypeQueue
  BY DEF TypeOK
<1>. USE <1>0, SweepAssumption DEF ClearedStaysClear
<1>1. CASE TickIdle \/ TickStray
  BY <1>1 DEF TickIdle, TickStray, board, slide
<1>2. CASE TickPulse
  <2>1. \A i \in Cells : sweepmap[i] = Empty => sweepmap'[i] = Empty
    BY <1>2 DEF TickPulse, TypeBoard
  <2>. QED  BY <1>2, <2>1 DEF TickPulse, slide
<1>3. CASE EnterService \/ LeaveService \/ Deliver \/ EndPush \/ PopAfterPush
  BY <1>3 DEF EnterService, LeaveService, Deliver, BeginPush, EndPush, PopAfterPush,
     Pop, TypeQueue
<1>4. CASE FsmTick \/ FsmPark
  BY <1>4 DEF FsmTick, FsmPark, Pop, Terminate
<1>5. CASE IsParked
  BY <1>5 DEF IsParked, Cells
<1>6. CASE IsInside \/ IsOutside
  BY <1>6 DEF IsInside, IsOutside, BeginSlide, Terminate
<1>7. CASE ClearCell
  <2>1. sweepmap' = [sweepmap EXCEPT ![tptr] = Empty]
    BY <1>7 DEF ClearCell
  <2>2. \A i \in Cells : i < tptr + 1 => sweepmap'[i] = Empty
    BY <1>7, <2>1 DEF ClearCell, TypeBoard, TypeMain, Cells
  <2>3. tptr = 2 * Home - 1 => \A i \in Cells : sweepmap'[i] = Empty
    BY <2>2 DEF Cells
  <2>. QED  BY <1>7, <2>2, <2>3 DEF ClearCell
<1>8. CASE ParkPtr \/ ParkPos
  BY <1>8 DEF ParkPtr, ParkPos, BeginPush
<1>9. CASE CmdGoto \/ SweepJob
  BY <1>9 DEF CmdGoto, SweepJob, Goto, BeginSlide, Pop
<1>10. CASE SlidePtr \/ SlideDir \/ SlideFill \/ SlideEnable
  BY <1>10 DEF SlidePtr, SlideDir, SlideFill, SlideEnable, Pop
<1>11. CASE CmdScan \/ CmdScanAbort \/ CmdEnable \/ CmdDir \/ CmdOther \/ CmdTorn
  BY <1>11 DEF CmdScan, CmdScanAbort, CmdEnable, CmdDir, CmdOther, CmdTorn, BeginPush, Pop,
     board, slide
<1>12. CASE UNCHANGED vars
  BY <1>12 DEF vars, board, slide
<1>. QED
  BY <1>1, <1>2, <1>3, <1>4, <1>5, <1>6, <1>7, <1>8, <1>9, <1>10, <1>11, <1>12
     DEF Next, Tick, Main

\* Between Park's two stores the map is empty, so no tick moves the arm there;
\* everywhere else pointer and position move together.
LEMMA PosStep ==
    TypeOK /\ ClearedStaysClear /\ PosTracksPtr /\ [Next]_vars => PosTracksPtr'
<1>. SUFFICES ASSUME TypeOK, ClearedStaysClear, PosTracksPtr, [Next]_vars
              PROVE  PosTracksPtr'
  OBVIOUS
<1>0. TypeBoard /\ TypeQueue
  BY DEF TypeOK
<1>. USE <1>0, SweepAssumption DEF PosTracksPtr
<1>1. CASE TickIdle \/ TickStray
  BY <1>1 DEF TickIdle, TickStray, board
<1>2. CASE TickPulse
  <2>1. pc # "homePos"
    BY <1>2 DEF TickPulse, ClearedStaysClear
  <2>. QED  BY <1>2, <2>1 DEF TickPulse, Step, TypeBoard
<1>3. CASE EnterService \/ LeaveService \/ Deliver \/ EndPush \/ PopAfterPush
  BY <1>3 DEF EnterService, LeaveService, Deliver, BeginPush, EndPush, PopAfterPush,
     Pop, TypeQueue, board
<1>4. CASE FsmTick \/ FsmPark \/ IsParked \/ IsInside \/ IsOutside
  BY <1>4 DEF FsmTick, FsmPark, IsParked, IsInside, IsOutside, BeginSlide, Pop,
     Terminate, Command, Serving, board
<1>5. CASE ClearCell \/ ParkPtr \/ ParkPos
  BY <1>5 DEF ClearCell, ParkPtr, ParkPos, BeginPush
<1>6. CASE CmdGoto \/ SweepJob
  BY <1>6 DEF CmdGoto, SweepJob, Goto, BeginSlide, Pop, Command, Serving, board
<1>7. CASE SlidePtr \/ SlideDir \/ SlideFill \/ SlideEnable
  BY <1>7 DEF SlidePtr, SlideDir, SlideFill, SlideEnable, Pop, board
<1>8. CASE CmdScan \/ CmdScanAbort \/ CmdEnable \/ CmdDir \/ CmdOther \/ CmdTorn
  BY <1>8 DEF CmdScan, CmdScanAbort, CmdEnable, CmdDir, CmdOther, CmdTorn, BeginPush, Pop,
     Command, Serving, board
<1>9. CASE UNCHANGED vars
  BY <1>9 DEF vars, board
<1>. QED
  BY <1>1, <1>2, <1>3, <1>4, <1>5, <1>6, <1>7, <1>8, <1>9 DEF Next, Tick, Main

\* The invariant holds in every reachable state of the driver.
THEOREM Invariance == Spec => []Inv
<1>1. Inv /\ [Next]_vars => Inv'
  BY TypeStep, FrontHeldStep, ClearedStep, PosStep DEF Inv
<1>. QED  BY InitInv, <1>1, PTL DEF Spec

\* Type correctness: in particular every planned gap is a byte, whatever speed
\* the host sends, and the queue holds events only, also after a lost race.
THEOREM TypeCorrect == Spec => []TypeOK
<1>1. Inv => TypeOK
  BY DEF Inv
<1>. QED  BY Invariance, <1>1, PTL

\* The position the driver reports always agrees with its place in the map,
\* wherever the timer interrupt falls, for a map of any size.
THEOREM PositionTracked == Spec => []PosTracksPtr
<1>1. Inv => PosTracksPtr
  BY DEF Inv
<1>. QED  BY Invariance, <1>1, PTL

\* A tick never undoes Park's clearMap, in whatever order they interleave.
THEOREM ParkClears == Spec => []ClearedStaysClear
<1>1. Inv => ClearedStaysClear
  BY DEF Inv
<1>. QED  BY Invariance, <1>1, PTL

\* The event a handler of serviceEvents works on is at the front of the queue
\* until the handler pops it, although TickCallback and the interrupt push.
THEOREM ServedEventHeld == Spec => []FrontHeld
<1>1. Inv => FrontHeld
  BY DEF Inv
<1>. QED  BY Invariance, <1>1, PTL

-----------------------------------------------------------------------------
(* The tick of Park.  Without a race every push appends, so that a TICK in  *)
(* the queue can be followed: there is at most one, and the event a handler *)
(* works on, which it pops at the end, is never a TICK.                     *)

Handling == {"isParked", "isInside", "isOutside", "clear", "homePtr", "homePos",
             "slide", "dir", "fill", "pop"}

\* The state machine's state while its Park transition is in progress.
FsmAtPlace ==
    /\ pc \in {"isParked", "isInside", "isOutside"} => fsm = "Idle"
    /\ pc \in {"clear", "homePtr", "homePos"} => fsm = "setParked"

ServesNoTick ==
    pc \in Handling \/ (pc = "push" /\ ret = "pop") => Head(events).evtype # "TICK"

\* The state machine waits for a TICK, and it is in the queue already.
Waits == fsm \in {"ColdStart", "setParked"} /\ pc \notin {"clear", "homePtr", "homePos"}
TickQueued == Waits /\ ~(pc = "push" /\ pushed = TickEvt)

\* In queue q there is no TICK, there is exactly one.
NoTick(q) == \A i \in 1..Len(q) : q[i].evtype # "TICK"
OneTick(q) == \E i \in 1..Len(q) : \A j \in 1..Len(q) : q[j].evtype = "TICK" <=> j = i

Token ==
    /\ pc = "push" /\ pushed = TickEvt => Waits
    /\ IF TickQueued THEN OneTick(events) ELSE NoTick(events)

TickInv == FsmAtPlace /\ (~raced => ServesNoTick /\ Token)

LEMMA OnlyTickEvt ==
    ASSUME NEW e \in Sent
    PROVE  e \in Event /\ (e.evtype = "TICK" <=> e = TickEvt)
BY SentAndTorn DEF Sent, TickEvt, JobEvt, EthEvt

LEMMA TickAppended ==
    ASSUME NEW q \in Seq(Event), NEW e \in Event
    PROVE  /\ e.evtype # "TICK" /\ NoTick(q) => NoTick(Append(q, e))
           /\ e.evtype # "TICK" /\ OneTick(q) => OneTick(Append(q, e))
           /\ e.evtype = "TICK" /\ NoTick(q) => OneTick(Append(q, e))
<1>. DEFINE r == Append(q, e)
<1>1. /\ Len(r) = Len(q) + 1 /\ r[Len(q) + 1] = e /\ Len(q) \in Nat
      /\ \A i \in 1..Len(q) : r[i] = q[i]
  OBVIOUS
<1>. HIDE DEF r
<1>2. e.evtype # "TICK" /\ NoTick(q) => NoTick(r)
  BY <1>1 DEF NoTick
<1>3. ASSUME e.evtype # "TICK", OneTick(q)  PROVE OneTick(r)
  <2>1. PICK i \in 1..Len(q) : \A j \in 1..Len(q) : q[j].evtype = "TICK" <=> j = i
    BY <1>3 DEF OneTick
  <2>2. i \in 1..Len(r) /\ \A j \in 1..Len(r) : r[j].evtype = "TICK" <=> j = i
    BY <1>1, <1>3, <2>1
  <2>. QED  BY <2>2 DEF OneTick
<1>4. ASSUME e.evtype = "TICK", NoTick(q)  PROVE OneTick(r)
  <2>1. Len(r) \in 1..Len(r) /\ \A j \in 1..Len(r) : r[j].evtype = "TICK" <=> j = Len(r)
    BY <1>1, <1>4 DEF NoTick
  <2>. QED  BY <2>1 DEF OneTick
<1>. QED  BY <1>2, <1>3, <1>4 DEF r

LEMMA TickPopped ==
    ASSUME NEW q \in Seq(Event), q # <<>>
    PROVE  /\ NoTick(q) => Head(q).evtype # "TICK"
           /\ Head(q).evtype # "TICK" /\ NoTick(q) => NoTick(Tail(q))
           /\ Head(q).evtype # "TICK" /\ OneTick(q) => OneTick(Tail(q))
           /\ Head(q).evtype = "TICK" /\ OneTick(q) => NoTick(Tail(q))
<1>. DEFINE r == Tail(q)
<1>1. /\ Len(r) = Len(q) - 1 /\ Len(q) \in Nat /\ Len(q) > 0 /\ Head(q) = q[1]
      /\ \A i \in 1..Len(r) : r[i] = q[i + 1]
  OBVIOUS
<1>. HIDE DEF r
<1>2. NoTick(q) => Head(q).evtype # "TICK" /\ NoTick(r)
  BY <1>1 DEF NoTick
<1>3. ASSUME OneTick(q)
      PROVE  /\ Head(q).evtype # "TICK" => OneTick(r)
             /\ Head(q).evtype = "TICK" => NoTick(r)
  <2>1. PICK i \in 1..Len(q) : \A j \in 1..Len(q) : q[j].evtype = "TICK" <=> j = i
    BY <1>3 DEF OneTick
  <2>2. \A j \in 1..Len(r) : r[j].evtype = "TICK" <=> j + 1 = i
    <3>1. SUFFICES ASSUME NEW j \in 1..Len(r)  PROVE r[j].evtype = "TICK" <=> j + 1 = i
      OBVIOUS
    <3>2. j + 1 \in 1..Len(q) /\ r[j] = q[j + 1]
      BY <1>1
    <3>. QED  BY <2>1, <3>2
  <2>3. 1 \in 1..Len(q) /\ (Head(q).evtype = "TICK" <=> 1 = i)
    BY <1>1, <2>1
  <2>4. CASE i = 1
    BY <1>1, <2>2, <2>3, <2>4 DEF NoTick
  <2>5. CASE i # 1
    <3>1. i - 1 \in 1..Len(r) /\ \A j \in 1..Len(r) : r[j].evtype = "TICK" <=> j = i - 1
      BY <1>1, <2>2, <2>5
    <3>. QED  BY <2>3, <2>5, <3>1 DEF OneTick
  <2>. QED  BY <2>4, <2>5
<1>. QED  BY <1>2, <1>3 DEF r

LEMMA FsmStep == TypeOK /\ FsmAtPlace /\ [Next]_vars => FsmAtPlace'
<1>. SUFFICES ASSUME TypeOK, FsmAtPlace, [Next]_vars PROVE FsmAtPlace'
  OBVIOUS
<1>0. TypeQueue
  BY DEF TypeOK
<1>. USE <1>0 DEF FsmAtPlace
<1>1. CASE Tick
  BY <1>1 DEF Tick, TickIdle, TickPulse, TickStray
<1>2. CASE EnterService \/ LeaveService \/ Deliver \/ EndPush \/ PopAfterPush
  BY <1>2 DEF EnterService, LeaveService, Deliver, BeginPush, EndPush, PopAfterPush, Pop,
     TypeQueue
<1>3. CASE FsmTick \/ FsmPark \/ IsParked \/ IsInside \/ IsOutside
  BY <1>3 DEF FsmTick, FsmPark, IsParked, IsInside, IsOutside, BeginSlide, Pop, Terminate
<1>4. CASE ClearCell \/ ParkPtr \/ ParkPos
  BY <1>4 DEF ClearCell, ParkPtr, ParkPos, BeginPush
<1>5. CASE CmdGoto \/ SweepJob
  BY <1>5 DEF CmdGoto, SweepJob, Goto, BeginSlide, Pop
<1>6. CASE SlidePtr \/ SlideDir \/ SlideFill \/ SlideEnable
  BY <1>6 DEF SlidePtr, SlideDir, SlideFill, SlideEnable, Pop
<1>7. CASE CmdScan \/ CmdScanAbort \/ CmdEnable \/ CmdDir \/ CmdOther \/ CmdTorn
  BY <1>7 DEF CmdScan, CmdScanAbort, CmdEnable, CmdDir, CmdOther, CmdTorn, BeginPush, Pop
<1>8. CASE UNCHANGED vars
  BY <1>8 DEF vars
<1>. QED  BY <1>1, <1>2, <1>3, <1>4, <1>5, <1>6, <1>7, <1>8 DEF Next, Main

\* Steps that leave the queue alone, the push and the state machine's waiting.
LEMMA TickKept ==
    ASSUME Token, ServesNoTick, events' = events, Waits' = Waits,
           (pc = "push" /\ pushed = TickEvt)' = (pc = "push" /\ pushed = TickEvt),
           pc' \in Handling \/ (pc' = "push" /\ ret' = "pop") =>
             pc \in Handling \/ (pc = "push" /\ ret = "pop") \/ Front.evtype # "TICK"
    PROVE  Token' /\ ServesNoTick'
<1>1. TickQueued' = TickQueued
  BY DEF TickQueued
<1>2. Token'
  BY <1>1 DEF Token
<1>. QED  BY <1>2 DEF ServesNoTick, Front

\* A handler is over: what it pops is no TICK.
LEMMA TickAfterPop ==
    ASSUME Token, TypeQueue, events # <<>>, Front.evtype # "TICK", Pop, fsm' = fsm,
           pc \notin {"push", "clear", "homePtr", "homePos"}
    PROVE  Token' /\ ServesNoTick'
<1>1. pc' = "service" /\ events' = Tail(events)
  BY DEF Pop
<1>2. Waits' = Waits /\ TickQueued' = TickQueued
  BY <1>1 DEF Waits, TickQueued
<1>3. IF TickQueued THEN OneTick(events') ELSE NoTick(events')
  BY <1>1, TickPopped DEF Token, TypeQueue, Front
<1>4. Token'
  BY <1>1, <1>2, <1>3 DEF Token
<1>5. ServesNoTick'
  BY <1>1 DEF ServesNoTick, Handling
<1>. QED  BY <1>4, <1>5

\* Without a race, every step moves the one TICK along or leaves it alone.
LEMMA TokenStep ==
    ASSUME TypeOK, FrontHeld, FsmAtPlace, ServesNoTick, Token, Next, ~raced'
    PROVE  ServesNoTick' /\ Token'
<1>0. TypeQueue
  BY DEF TypeOK
<1>. USE <1>0
<1>1. CASE TickIdle
  <2>1. CASE ~sweepjob_enabled
    <3>1. events' = events
      BY <1>1, <2>1 DEF TickIdle, IsrPush
    <3>. QED  BY <1>1, <3>1, TickKept DEF TickIdle, Waits, pushing
  <2>2. CASE sweepjob_enabled
    <3>1. events' = Append(events, JobEvt) /\ JobEvt \in Event /\ JobEvt.evtype # "TICK"
      BY <1>1, <2>2, EventKinds DEF TickIdle, IsrPush, JobEvt
    <3>2. Waits' = Waits /\ TickQueued' = TickQueued
      BY <1>1 DEF TickIdle, Waits, TickQueued, pushing
    <3>3. IF TickQueued THEN OneTick(events') ELSE NoTick(events')
      BY <3>1, TickAppended DEF Token, TypeQueue
    <3>4. Token'
      BY <1>1, <3>2, <3>3 DEF Token, TickIdle, pushing
    <3>5. ServesNoTick'
      <4>1. events # <<>> => Head(events') = Head(events)
        BY <3>1 DEF TypeQueue
      <4>2. pc \in Handling \/ (pc = "push" /\ ret = "pop") => events # <<>>
        BY DEF FrontHeld, Handling, TypeQueue
      <4>. QED  BY <1>1, <4>1, <4>2 DEF ServesNoTick, TickIdle, pushing
    <3>. QED  BY <3>4, <3>5
  <2>. QED  BY <2>1, <2>2
<1>2. CASE TickPulse \/ TickStray
  BY <1>2, TickKept DEF TickPulse, TickStray, Waits, pushing
<1>3. CASE EnterService \/ LeaveService
  BY <1>3, TickKept DEF EnterService, LeaveService, Waits, Handling
<1>4. CASE Deliver
  <2>1. pushed' # TickEvt
    BY <1>4 DEF Deliver, BeginPush, TickEvt, EthEvt
  <2>. QED  BY <1>4, <2>1, TickKept DEF Deliver, BeginPush, Waits, Handling
<1>5. CASE EndPush
  <2>1. at = Len(events)
    <3>1. ~Overtaken(events, at)
      BY <1>5 DEF EndPush
    <3>. QED  BY <1>5, <3>1 DEF EndPush, Overtaken, FrontHeld, TypeQueue
  <2>2. events' = Append(events, pushed)
    BY <1>5, <2>1, QuietPush DEF EndPush
  <2>3. pc' = ret /\ pc' # "push" /\ pc = "push" /\ fsm' = fsm /\ ret \in {"mail", "pop"}
    BY <1>5 DEF EndPush, TypeQueue
  <2>4. Waits' = Waits
    BY <2>3 DEF Waits
  <2>5. TickQueued' <=> Waits
    BY <2>3, <2>4 DEF TickQueued
  <2>6. IF Waits THEN OneTick(events') ELSE NoTick(events')
    <3>1. CASE pushed = TickEvt
      BY <2>2, <2>3, <3>1, TickAppended, OnlyTickEvt DEF Token, TickQueued, TypeQueue
    <3>2. CASE pushed # TickEvt
      BY <2>2, <2>3, <3>2, TickAppended, OnlyTickEvt DEF Token, TickQueued, TypeQueue
    <3>. QED  BY <3>1, <3>2
  <2>7. Token'
    BY <2>3, <2>5, <2>6 DEF Token
  <2>8. ServesNoTick'
    <3>1. ret = "pop" => events # <<>>
      BY <2>1, <2>3 DEF FrontHeld
    <3>2. events # <<>> => Head(events') = Head(events)
      BY <2>2 DEF TypeQueue
    <3>. QED  BY <2>3, <3>1, <3>2 DEF ServesNoTick, Handling
  <2>. QED  BY <2>7, <2>8
<1>6. CASE PopAfterPush
  <2>1. events # <<>> /\ Front.evtype # "TICK"
    BY <1>6 DEF PopAfterPush, FrontHeld, ServesNoTick, Handling, Front
  <2>. QED  BY <1>6, <2>1, TickAfterPop DEF PopAfterPush
<1>7. CASE FsmTick
  <2>1. TickQueued /\ OneTick(events) /\ fsm \in {"ColdStart", "setParked"}
    BY <1>7, TickPopped DEF FsmTick, Serving, Front, Token, TypeQueue, TickQueued, Waits
  <2>2. fsm' = "Idle" /\ events' = Tail(events) /\ pc' = "service"
    BY <1>7, <2>1 DEF FsmTick, Pop
  <2>3. NoTick(events')
    BY <1>7, <2>1, <2>2, TickPopped DEF FsmTick, Serving, Front, TypeQueue
  <2>. QED  BY <2>2, <2>3 DEF Token, TickQueued, Waits, ServesNoTick, Handling
<1>8. CASE FsmPark
  BY <1>8, TickKept DEF FsmPark, Terminate, Command, Serving, Waits, Handling, pushing
<1>9. CASE IsParked \/ IsInside \/ IsOutside
  BY <1>9, TickKept DEF IsParked, IsInside, IsOutside, BeginSlide, Terminate, FsmAtPlace,
     Waits, Handling, pushing
<1>10. CASE ClearCell \/ ParkPtr
  BY <1>10, TickKept DEF ClearCell, ParkPtr, Waits, Handling, pushing
<1>11. CASE ParkPos
  <2>1. pc = "homePos" /\ fsm = "setParked" /\ NoTick(events)
    BY <1>11 DEF ParkPos, FsmAtPlace, Token, TickQueued, Waits
  <2>2. pc' = "push" /\ pushed' = TickEvt /\ fsm' = fsm /\ events' = events
    BY <1>11 DEF ParkPos, BeginPush
  <2>. QED  BY <2>1, <2>2 DEF Token, TickQueued, Waits, ServesNoTick, Handling
<1>12. CASE CmdGoto \/ SweepJob
  <2>1. Front.evtype # "TICK" /\ events # <<>> /\ pc = "service" /\ fsm' = fsm
    BY <1>12 DEF CmdGoto, SweepJob, Command, Serving
  <2>2. Pop \/ (events' = events /\ pc' = "slide")
    BY <1>12 DEF CmdGoto, SweepJob, Goto, BeginSlide
  <2>3. CASE Pop
    BY <2>1, <2>3, TickAfterPop
  <2>4. CASE events' = events /\ pc' = "slide"
    BY <2>1, <2>4, TickKept DEF Waits, Handling
  <2>. QED  BY <2>2, <2>3, <2>4
<1>13. CASE SlidePtr \/ SlideDir \/ SlideFill
  BY <1>13, TickKept DEF SlidePtr, SlideDir, SlideFill, Waits, Handling, pushing
<1>14. CASE SlideEnable
  <2>1. events # <<>> /\ Front.evtype # "TICK"
    BY <1>14 DEF SlideEnable, FrontHeld, ServesNoTick, Handling, Front
  <2>. QED  BY <1>14, <2>1, TickAfterPop DEF SlideEnable
<1>15. CASE CmdScan
  <2>1. pushed' # TickEvt
    BY <1>15 DEF CmdScan, BeginPush, TickEvt, JobEvt
  <2>. QED  BY <1>15, <2>1, TickKept DEF CmdScan, BeginPush, Command, Serving, Waits
<1>16. CASE CmdScanAbort \/ CmdEnable \/ CmdDir \/ CmdOther
  <2>1. Front.evtype # "TICK" /\ events # <<>> /\ pc = "service" /\ fsm' = fsm /\ Pop
    BY <1>16 DEF CmdScanAbort, CmdEnable, CmdDir, CmdOther, Command, Serving
  <2>. QED  BY <2>1, TickAfterPop
<1>17. CASE CmdTorn
  BY <1>17, TickKept DEF CmdTorn, Command, Serving, Waits, Handling, pushing
<1>. QED
  BY <1>1, <1>2, <1>3, <1>4, <1>5, <1>6, <1>7, <1>8, <1>9, <1>10, <1>11, <1>12,
     <1>13, <1>14, <1>15, <1>16, <1>17 DEF Next, Tick, Main

\* A race, once it has happened, is not forgotten.
LEMMA RacedStays == [Next]_vars /\ ~raced' => ~raced
<1>1. [Next]_vars => EndPush \/ raced' = raced
  BY DEF Next, Tick, Main, TickIdle, TickPulse, TickStray, EnterService, LeaveService,
     Deliver, PopAfterPush, FsmTick, FsmPark, IsParked, IsInside, IsOutside, ClearCell,
     ParkPtr, ParkPos, CmdGoto, SlidePtr, SlideDir, SlideFill, SlideEnable, SweepJob,
     CmdScan, CmdScanAbort, CmdEnable, CmdDir, CmdOther, CmdTorn, vars, ghosts
<1>2. EndPush /\ ~raced' => ~raced
  BY DEF EndPush
<1>. QED  BY <1>1, <1>2

LEMMA TickStep == TypeOK /\ FrontHeld /\ TickInv /\ [Next]_vars => TickInv'
<1>. SUFFICES ASSUME TypeOK, FrontHeld, TickInv, [Next]_vars PROVE TickInv'
  OBVIOUS
<1>1. FsmAtPlace'
  BY FsmStep DEF TickInv
<1>2. ASSUME ~raced'  PROVE ServesNoTick' /\ Token'
  <2>1. FsmAtPlace /\ ServesNoTick /\ Token
    BY <1>2, RacedStays DEF TickInv
  <2>2. CASE Next
    BY <1>2, <2>1, <2>2, TokenStep
  <2>3. CASE UNCHANGED vars
    BY <2>1, <2>3, TickKept DEF vars, pushing, Waits
  <2>. QED  BY <2>2, <2>3
<1>. QED  BY <1>1, <1>2 DEF TickInv

LEMMA InitTick == Init => TickInv
<1>. SUFFICES ASSUME Init PROVE TickInv
  OBVIOUS
<1>1. events = <<TickEvt>> /\ fsm = "ColdStart" /\ pc = "mail"
  BY DEF Init
<1>2. OneTick(events)
  <2>1. Len(events) = 1 /\ events[1].evtype = "TICK"
    BY <1>1 DEF TickEvt
  <2>. QED  BY <2>1 DEF OneTick
<1>. QED  BY <1>1, <1>2 DEF TickInv, FsmAtPlace, ServesNoTick, Token, TickQueued, Waits,
     Handling

\* The invariant as a count: the TICKs of the queue form a set of none or one.
LEMMA TokenCounted == TypeOK /\ TickInv => TickToken
<1>. SUFFICES ASSUME TypeOK, TickInv, ~raced
              PROVE  Cardinality(TickAt)
                       + (IF pc = "push" /\ pushed = TickEvt THEN 1 ELSE 0)
                     = IF Waits THEN 1 ELSE 0
  BY DEF TickToken, Waits
<1>1. Token
  BY DEF TickInv
<1>2. CASE TickQueued
  <2>1. PICK i \in 1..Len(events) :
          \A j \in 1..Len(events) : events[j].evtype = "TICK" <=> j = i
    BY <1>1, <1>2 DEF Token, OneTick
  <2>2. TickAt = {i}
    BY <2>1 DEF TickAt
  <2>3. Cardinality(TickAt) = 1
    BY <2>2, FS_Singleton
  <2>. QED  BY <1>2, <2>3 DEF TickQueued
<1>3. CASE ~TickQueued
  <2>1. TickAt = {}
    BY <1>1, <1>3 DEF Token, NoTick, TickAt
  <2>2. Cardinality(TickAt) = 0
    BY <2>1, FS_EmptySet
  <2>. QED  BY <1>1, <1>3, <2>2 DEF TickQueued, Token
<1>. QED  BY <1>2, <1>3

\* Park's TickCallback reaches the state machine exactly once: whatever the
\* interrupt and the host push meanwhile, unless a push was overtaken.
THEOREM TickNeitherLostNorDoubled == Spec => []TickToken
<1>1. Inv /\ TickInv /\ [Next]_vars => TickInv'
  BY TickStep DEF Inv
<1>2. Inv /\ TickInv => TickToken
  BY TokenCounted DEF Inv
<1>. QED  BY InitTick, Invariance, <1>1, <1>2, PTL DEF Spec

-----------------------------------------------------------------------------
(* The plan of a host that waits.  The pointer stands where the last plan   *)
(* starts, the cells from there to the goal are planned and no others: this *)
(* is what makes the arm stop at the goal and keeps every index in the map. *)

\* The host keeps its targets off the two ends of the map and starts no scan.
PatientHost ==
    HostWaits => /\ Home > 1
                 /\ \A m \in Commands : /\ m.cmd = "GOTO" => m.x \in 2..(2 * Home - 1)
                                        /\ m.cmd = "SCAN" => m.arg # 1

\* One command at a time, and no push is ever overtaken.
QueueShort ==
    /\ pc \in {"mail", "service"} => Len(events) <= 1
    /\ pc \in Handling \ {"pop"} => Len(events) = 1
    /\ pc = "pop" => Len(events) = 2
    /\ pc = "push" => at = Len(events) /\ Len(events) = IF ret = "mail" THEN 0 ELSE 1

\* No two events have been torn into a third.
Whole == events \in Seq(Sent)

\* A search starts from a goal off the ends and goes one step: to an end at most.
Bounds ==
    /\ ~stray /\ ~sweepjob_enabled /\ pulsegap < Empty
    /\ sweepmapptr \in Cells
    /\ goal \in 1..(2 * Home)
    /\ fsm \notin {"searchOut", "searchIn"} => goal \in 2..(2 * Home - 1)

\* Where the pointer will stand when the plan is used up.
GoalPtr == 2 * Home - goal

AllEmpty == \A i \in Cells : sweepmap[i] = Empty
\* The cells from lo to hi - 1 are planned, all others empty.
Planned(lo, hi) == \A i \in Cells : sweepmap[i] # Empty <=> lo <= i /\ i < hi

\* The plan leads from the pointer to cell e, in the direction that is set.
Heading(e) ==
    IF outdir THEN sweepmapptr <= e /\ Planned(sweepmapptr, e)
              ELSE e <= sweepmapptr /\ Planned(e + 1, sweepmapptr + 1)
Resting == AllEmpty /\ sweepmapptr = GoalPtr

\* The arm moves only while no event waits to be served, or during the planning.
Idling == pc \in {"mail", "service"} /\ events = <<>>
Still == ~Idling /\ pc \notin {"homePos", "slide", "dir", "fill"}

\* Slide has its distance: the goal is already the new one, unless the speed
\* is the one that plans nothing.
Asked ==
    /\ AllEmpty /\ sweeppos + dif \in 1..(2 * Home)
    /\ goal = IF Uint8(speed) # Empty THEN sweeppos + dif ELSE sweeppos

\* Slide's loop: the interrupt may consume the plan while it is written.
FillEnd == IF outdir THEN tptr + left ELSE tptr - left
Filling ==
    /\ tptr \in Cells /\ FillEnd \in Cells
    /\ IF Uint8(speed) = Empty THEN Resting ELSE FillEnd = GoalPtr /\ Heading(tptr)

Phases ==
    /\ Idling => Heading(GoalPtr)
    /\ Still => Resting
    /\ pc = "homePos" => AllEmpty
    /\ pc \in {"slide", "dir"} => Asked
    /\ pc = "dir" => tptr = sweepmapptr
    /\ pc = "fill" => Filling

Plan == HostWaits => FsmAtPlace /\ QueueShort /\ Whole /\ Bounds /\ Phases

\* Only the host's messages are served as commands.
LEMMA FromHost ==
    ASSUME NEW e \in Sent, e.evtype = "ETH"
    PROVE  e.payload \in Commands
BY DEF Sent, TickEvt, JobEvt, EthEvt

\* What a patient host never asks for: a scan, or a target at an end.
LEMMA PatientCommand ==
    ASSUME PatientHost, HostWaits, Whole
    PROVE  /\ ~CmdScan /\ ~CmdTorn
           /\ Command("GOTO") => Front.payload.x \in 2..(2 * Home - 1)
<1>1. ASSUME NEW c, Command(c)  PROVE Front.payload \in Commands /\ Front.payload.cmd = c
  <2>1. Front \in Sent
    BY <1>1 DEF Command, Serving, Front, Whole
  <2>. QED  BY <1>1, <2>1, FromHost DEF Command, Serving
<1>2. ~CmdTorn
  <2>1. \A m \in Commands : m.cmd # "NONE"
    BY SweepAssumption DEF Message, CmdCode
  <2>. QED  BY <1>1, <2>1 DEF CmdTorn
<1>. QED  BY <1>1, <1>2 DEF PatientHost, CmdScan

\* The queue of a patient host is pushed to and popped from, and nothing else.
LEMMA WholeStep ==
    ASSUME HostWaits, TypeOK, FrontHeld, QueueShort, Whole, Bounds, Next
    PROVE  Whole'
<1>0. /\ TypeQueue /\ ~sweepjob_enabled
      /\ pc \in {"pop", "fill"} => events # <<>>
  BY DEF TypeOK, Bounds, FrontHeld
<1>1. CASE EndPush
  <2>1. events' = Append(events, pushed)
    BY <1>1, QuietPush DEF EndPush, QueueShort
  <2>. QED  BY <1>0, <2>1 DEF Whole, TypeQueue
<1>2. ASSUME events' = events \/ (events # <<>> /\ events' = Tail(events))  PROVE Whole'
  BY <1>2 DEF Whole
<1>3. CASE Tick \/ EnterService \/ LeaveService \/ Deliver
  BY <1>0, <1>2, <1>3 DEF Tick, TickIdle, TickPulse, TickStray, IsrPush, EnterService,
     LeaveService, Deliver
<1>4. CASE PopAfterPush \/ FsmTick \/ FsmPark \/ CmdGoto \/ SweepJob
  BY <1>0, <1>2, <1>4 DEF PopAfterPush, FsmTick, FsmPark, CmdGoto, SweepJob, Goto,
     BeginSlide, Pop, Terminate, Command, Serving
<1>5. CASE IsParked \/ IsInside \/ IsOutside \/ ClearCell \/ ParkPtr \/ ParkPos
  BY <1>2, <1>5 DEF IsParked, IsInside, IsOutside, ClearCell, ParkPtr, ParkPos, BeginSlide,
     Terminate
<1>6. CASE SlidePtr \/ SlideDir \/ SlideFill \/ SlideEnable
  BY <1>0, <1>2, <1>6 DEF SlidePtr, SlideDir, SlideFill, SlideEnable, Pop
<1>7. CASE CmdScan \/ CmdScanAbort \/ CmdEnable \/ CmdDir \/ CmdOther \/ CmdTorn
  BY <1>2, <1>7 DEF CmdScan, CmdScanAbort, CmdEnable, CmdDir, CmdOther, CmdTorn, Pop,
     Command, Serving
<1>. QED  BY <1>1, <1>3, <1>4, <1>5, <1>6, <1>7 DEF Next, Main

LEMMA QueueStep ==
    ASSUME PatientHost, HostWaits, TypeOK, FrontHeld, QueueShort, Whole, Bounds, Next
    PROVE  QueueShort'
<1>0. /\ TypeQueue /\ ~sweepjob_enabled /\ Len(events) \in Nat
      /\ events # <<>> => Len(events) > 0
  BY DEF TypeOK, Bounds, TypeQueue
<1>. USE <1>0 DEF QueueShort, Handling
<1>1. CASE Tick
  BY <1>1 DEF Tick, TickIdle, TickPulse, TickStray, IsrPush, pushing
<1>2. CASE EnterService \/ LeaveService
  BY <1>2 DEF EnterService, LeaveService, pushing
<1>3. CASE Deliver
  BY <1>3 DEF Deliver, BeginPush
<1>4. CASE EndPush
  <2>1. events' = Append(events, pushed) /\ pc' = ret /\ pc = "push"
    BY <1>4, QuietPush DEF EndPush
  <2>2. Len(events') = Len(events) + 1 /\ ret \in {"mail", "pop"}
    BY <2>1 DEF TypeQueue
  <2>. QED  BY <2>1, <2>2
<1>5. CASE CmdScan \/ CmdTorn
  BY <1>5, PatientCommand
<1>6. CASE events' = events /\ pc \in Handling \ {"homePos", "pop"} /\ pc' \in Handling \ {"pop"}
  BY <1>6
<1>7. CASE IsParked \/ IsInside \/ ClearCell \/ ParkPtr \/ SlidePtr \/ SlideDir \/ SlideFill
  BY <1>6, <1>7 DEF IsParked, IsInside, ClearCell, ParkPtr, SlidePtr, SlideDir,
     SlideFill, BeginSlide
<1>8. CASE IsOutside
  BY <1>8 DEF IsOutside, BeginSlide, Terminate
<1>9. CASE ParkPos
  BY <1>9 DEF ParkPos, BeginPush
<1>10. ASSUME Pop, events # <<>>, Len(events) <= 1 \/ pc = "pop"  PROVE QueueShort'
  <2>1. pc' = "service" /\ Len(events') = Len(events) - 1
    BY <1>10 DEF Pop, TypeQueue
  <2>. QED  BY <1>10, <2>1
<1>11. CASE PopAfterPush \/ SlideEnable
  <2>1. Pop /\ pc \in {"pop", "fill"}
    BY <1>11 DEF PopAfterPush, SlideEnable
  <2>2. events # <<>> /\ (Len(events) <= 1 \/ pc = "pop")
    BY <2>1 DEF FrontHeld
  <2>. QED  BY <1>10, <2>1, <2>2
<1>12. CASE FsmTick \/ FsmPark
  <2>1. pc = "service" /\ events # <<>>
    BY <1>12 DEF FsmTick, FsmPark, Command, Serving
  <2>2. Pop \/ (events' = events /\ pc' \in {"isParked", "dead"})
    BY <1>12 DEF FsmTick, FsmPark, Terminate
  <2>3. CASE Pop
    BY <1>10, <2>1, <2>3
  <2>4. CASE events' = events /\ pc' = "isParked"
    BY <2>1, <2>4
  <2>5. CASE pc' = "dead"
    BY <2>5
  <2>. QED  BY <2>2, <2>3, <2>4, <2>5
<1>13. CASE CmdGoto \/ SweepJob
  <2>1. pc = "service" /\ events # <<>>
    BY <1>13 DEF CmdGoto, SweepJob, Command, Serving
  <2>2. Pop \/ (events' = events /\ pc' = "slide")
    BY <1>13 DEF CmdGoto, SweepJob, Goto, BeginSlide
  <2>3. CASE Pop
    BY <1>10, <2>1, <2>3
  <2>4. CASE events' = events /\ pc' = "slide"
    <3>1. Len(events) = 1
      BY <2>1
    <3>2. Len(events') = 1
      BY <2>4, <3>1, Zenon
    <3>. QED  BY <2>4, <3>2
  <2>. QED  BY <2>2, <2>3, <2>4
<1>14. CASE CmdScanAbort \/ CmdEnable \/ CmdDir \/ CmdOther
  BY <1>10, <1>14 DEF CmdScanAbort, CmdEnable, CmdDir, CmdOther, Command, Serving
<1>. QED
  BY <1>1, <1>2, <1>3, <1>4, <1>5, <1>7, <1>8, <1>9, <1>11, <1>12, <1>13, <1>14
     DEF Next, Main

\* A pulse uses up the plan from the pointer's end and nowhere else.
LEMMA PulseShrinksPlan ==
    ASSUME TypeOK, Bounds, TickPulse, NEW e \in Cells, Heading(e)
    PROVE  /\ pulsegap' < Empty /\ sweepmapptr' \in Cells
           /\ IF outdir
                THEN /\ sweepmapptr' <= e
                     /\ \A i \in Cells : sweepmap'[i] # Empty <=> sweepmapptr' <= i /\ i < e
                ELSE /\ e <= sweepmapptr'
                     /\ \A i \in Cells : sweepmap'[i] # Empty
                                           <=> e + 1 <= i /\ i < sweepmapptr' + 1
<1>. DEFINE cell == sweepmap[sweepmapptr]
            gap == IF pulsegap = 0 THEN cell ELSE pulsegap
<1>0. TypeBoard /\ Home \in Nat /\ Empty \in Nat \ {0}
  BY SweepAssumption DEF TypeOK
<1>1. cell \in Byte /\ cell # Empty /\ sweepmapptr \in Cells
  BY <1>0 DEF TickPulse, TypeBoard
<1>2. gap \in Byte /\ gap < Empty /\ cell < Empty /\ cell \in Nat
  BY <1>0, <1>1 DEF TypeBoard, Bounds, Byte
<1>3. CASE /\ sweepmapptr' = sweepmapptr /\ pulsegap' = gap
           /\ \E b \in Byte \ {Empty} : sweepmap' = [sweepmap EXCEPT ![sweepmapptr] = b]
  <2>1. \A i \in Cells : sweepmap'[i] # Empty <=> sweepmap[i] # Empty
    BY <1>0, <1>1, <1>3 DEF TypeBoard
  <2>. QED  BY <1>1, <1>2, <1>3, <2>1 DEF Heading, Planned
<1>4. CASE /\ sweepmap' = [sweepmap EXCEPT ![sweepmapptr] = Empty]
           /\ pulsegap' = 0 /\ Step
  <2>1. \A i \in Cells : sweepmap'[i] # Empty <=> sweepmap[i] # Empty /\ i # sweepmapptr
    BY <1>0, <1>1, <1>4 DEF TypeBoard
  <2>2. CASE outdir
    <3>1. sweepmapptr < e /\ sweepmapptr' = sweepmapptr + 1
      BY <1>1, <1>4, <2>2 DEF Heading, Planned, Step
    <3>2. \A i \in Cells : sweepmap'[i] # Empty <=> sweepmapptr' <= i /\ i < e
      BY <1>1, <2>1, <2>2, <3>1 DEF Heading, Planned, Cells
    <3>. QED  BY <1>0, <1>1, <1>4, <2>2, <3>1, <3>2 DEF Cells
  <2>3. CASE ~outdir
    <3>1. e < sweepmapptr /\ sweepmapptr' = sweepmapptr - 1
      BY <1>1, <1>4, <2>3 DEF Heading, Planned, Step, Cells
    <3>2. \A i \in Cells : sweepmap'[i] # Empty <=> e + 1 <= i /\ i < sweepmapptr' + 1
      BY <1>1, <2>1, <2>3, <3>1 DEF Heading, Planned, Cells
    <3>. QED  BY <1>0, <1>1, <1>4, <2>3, <3>1, <3>2 DEF Cells
  <2>. QED  BY <2>2, <2>3
<1>5. cell > 0 => cell - 1 \in Byte \ {Empty}
  BY <1>0, <1>2 DEF Byte
<1>6. CASE cell > 0
  BY <1>3, <1>5, <1>6 DEF TickPulse
<1>7. CASE cell = 0 /\ pulse
  <2>1. gap \in Byte \ {Empty}
    BY <1>0, <1>2
  <2>2. sweepmapptr' = sweepmapptr /\ pulsegap' = gap
        /\ sweepmap' = [sweepmap EXCEPT ![sweepmapptr] = gap]
    BY <1>7 DEF TickPulse
  <2>. QED  BY <1>3, <2>1, <2>2
<1>8. CASE cell = 0 /\ ~pulse
  BY <1>4, <1>8 DEF TickPulse
<1>. QED  BY <1>2, <1>6, <1>7, <1>8

\* A plan that is used up where the pointer stands is used up altogether.
LEMMA RestAtEnd ==
    ASSUME Home \in Nat, sweepmapptr \in Cells, NEW e \in Cells, Heading(e),
           sweepmap[sweepmapptr] = Empty
    PROVE  AllEmpty /\ sweepmapptr = e
<1>1. sweepmapptr = e
  BY DEF Heading, Planned, Cells
<1>. QED  BY <1>1 DEF Heading, Planned, AllEmpty, Cells

LEMMA EmptyHeads ==
    ASSUME Home \in Nat, sweepmapptr \in Cells, AllEmpty
    PROVE  Heading(sweepmapptr)
BY DEF Heading, Planned, AllEmpty, Cells

\* A step that ends with the pointer at the goal and nothing planned.
LEMMA RestReached ==
    ASSUME Home \in Nat, Resting', sweepmapptr' \in Cells,
           pc' \notin {"homePos", "slide", "dir", "fill"}
    PROVE  Phases'
<1>1. sweepmapptr' \in Int /\ sweepmapptr' = 2 * Home - goal' /\ AllEmpty'
  BY DEF Resting, GoalPtr, Cells
<1>2. Planned(sweepmapptr, GoalPtr)' /\ Planned(GoalPtr + 1, sweepmapptr + 1)'
  BY <1>1 DEF Planned, AllEmpty, GoalPtr, Cells
<1>3. Heading(GoalPtr)'
  BY <1>1, <1>2 DEF Heading, GoalPtr
<1>. QED  BY <1>3 DEF Phases

\* A step of the main loop that leaves a resting arm at rest.
LEMMA RestKept ==
    ASSUME Home \in Nat, Bounds, Resting, sweepmap' = sweepmap,
           sweepmapptr' = sweepmapptr, goal' = goal, pulsegap' = pulsegap,
           stray' = stray, ~sweepjob_enabled',
           fsm \in {"searchOut", "searchIn"} => fsm' = fsm,
           pc' \notin {"homePos", "slide", "dir", "fill"}
    PROVE  Bounds' /\ Phases'
<1>1. Resting' /\ sweepmapptr' \in Cells
  BY DEF Resting, AllEmpty, GoalPtr, Bounds
<1>2. Phases'
  BY <1>1, RestReached
<1>3. Bounds'
  BY DEF Bounds
<1>. QED  BY <1>2, <1>3

\* The interrupt: it idles on an empty cell or uses up the plan by one step.
LEMMA PlanTick ==
    ASSUME TypeOK, Bounds, Phases, Tick
    PROVE  Bounds' /\ Phases'
<1>0. Home \in Nat \ {0} /\ Empty \in Nat \ {0} /\ TypeBoard
  BY SweepAssumption DEF TypeOK
<1>1. CASE TickIdle
  <2>1. Bounds'
    BY <1>0, <1>1 DEF Bounds, TickIdle, ghosts
  <2>2. events' = events
    BY <1>1 DEF TickIdle, IsrPush, Bounds
  <2>3. Phases'
    BY <1>1, <2>2 DEF TickIdle, Phases, Idling, Still, Resting, Asked, Filling, FillEnd,
       Heading, Planned, AllEmpty, GoalPtr, slide, ghosts
  <2>. QED  BY <2>1, <2>3
<1>2. CASE TickPulse
  <2>0. /\ sweepmapptr \in Cells /\ sweepmap[sweepmapptr] # Empty
        /\ UNCHANGED <<pc, events, goal, outdir, fsm, sweepjob_enabled, stray, slide>>
    BY <1>2 DEF TickPulse, ghosts
  <2>1. Idling \/ (pc = "fill" /\ Uint8(speed) # Empty)
    BY <2>0 DEF Phases, Still, Resting, Asked, AllEmpty, Filling
  <2>. DEFINE e == IF Idling THEN GoalPtr ELSE tptr
  <2>2. e \in Cells /\ Heading(e)
    <3>1. CASE Idling
      <4>1. GoalPtr \in Cells /\ Heading(GoalPtr)
        BY <1>0, <3>1 DEF Phases, GoalPtr, Bounds, Cells
      <4>. QED  BY <3>1, <4>1
    <3>2. CASE ~Idling
      <4>1. tptr \in Cells /\ Heading(tptr)
        BY <2>1, <3>2 DEF Phases, Filling
      <4>. QED  BY <3>2, <4>1
    <3>. QED  BY <3>1, <3>2
  <2>. HIDE DEF e
  <2>3. /\ pulsegap' < Empty /\ sweepmapptr' \in Cells
        /\ IF outdir
             THEN /\ sweepmapptr' <= e
                  /\ \A i \in Cells : sweepmap'[i] # Empty <=> sweepmapptr' <= i /\ i < e
             ELSE /\ e <= sweepmapptr'
                  /\ \A i \in Cells : sweepmap'[i] # Empty
                                        <=> e + 1 <= i /\ i < sweepmapptr' + 1
    BY <1>2, <2>2, PulseShrinksPlan
  <2>4. Bounds'
    BY <2>0, <2>3 DEF Bounds
  <2>5. CASE Idling
    <3>1. Heading(GoalPtr)'
      BY <2>0, <2>3, <2>5 DEF e, Heading, Planned, GoalPtr
    <3>2. Idling' /\ pc' \in {"mail", "service"}
      BY <2>0, <2>5 DEF Idling
    <3>. QED  BY <2>4, <3>1, <3>2 DEF Phases, Still
  <2>6. CASE ~Idling
    <3>1. pc = "fill" /\ pc' = "fill" /\ e = tptr /\ Uint8(speed) # Empty
      BY <2>0, <2>1, <2>6 DEF e
    <3>2. Heading(tptr)'
      BY <2>0, <2>3, <3>1 DEF Heading, Planned, slide
    <3>3. Filling'
      BY <2>0, <3>1, <3>2 DEF Phases, Filling, FillEnd, GoalPtr, slide
    <3>. QED  BY <2>4, <3>1, <3>3 DEF Phases, Still, Idling
  <2>. QED  BY <2>5, <2>6
<1>3. CASE TickStray
  BY <1>3 DEF TickStray, Bounds
<1>. QED  BY <1>1, <1>2, <1>3 DEF Tick

\* Slide: the planning of a move, from its distance to the last cell.
LEMMA PlanSlide ==
    ASSUME TypeOK, FrontHeld, PosTracksPtr, QueueShort, Bounds, Phases,
           SlidePtr \/ SlideDir \/ SlideFill \/ SlideEnable
    PROVE  Bounds' /\ Phases'
<1>0. /\ Home \in Nat \ {0} /\ Empty \in Nat \ {0} /\ TypeBoard
      /\ tptr \in Int /\ left \in Nat /\ dif \in Int /\ speed \in Int /\ goal \in Int
      /\ sweepmapptr \in Int /\ sweeppos \in Int /\ outdir \in BOOLEAN
  BY SweepAssumption DEF TypeOK, TypeBoard, TypeMain, TypeFlags
<1>1. CASE SlidePtr
  <2>1. Bounds'
    BY <1>1 DEF Bounds, SlidePtr, board, ghosts
  <2>2. Asked' /\ pc' = "dir" /\ tptr' = sweepmapptr'
    BY <1>1 DEF SlidePtr, Phases, Asked, AllEmpty, board, ghosts
  <2>. QED  BY <2>1, <2>2 DEF Phases, Idling, Still
<1>2. CASE SlideDir
  <2>1. Bounds'
    BY <1>2 DEF Bounds, SlideDir, board, ghosts
  <2>2. /\ pc' = "fill" /\ outdir' = ~(dif > 0) /\ left' = (IF dif < 0 THEN -dif ELSE dif)
        /\ UNCHANGED <<sweepmap, sweepmapptr, goal, tptr, speed>>
    BY <1>2 DEF SlideDir, board, ghosts
  <2>3. Asked /\ tptr = sweepmapptr /\ sweepmapptr + sweeppos = 2 * Home
    BY <1>2 DEF SlideDir, Phases, PosTracksPtr
  <2>4. FillEnd' = 2 * Home - (sweeppos + dif)
    <3>1. CASE dif > 0
      <4>1. ~outdir'
        BY <2>2, <3>1, Zenon
      <4>2. left' = dif /\ tptr' = tptr
        BY <1>0, <2>2, <3>1
      <4>. QED  BY <1>0, <2>3, <4>1, <4>2 DEF FillEnd
    <3>2. CASE ~(dif > 0)
      <4>1. outdir'
        BY <2>2, <3>2, Zenon
      <4>2. left' = -dif /\ tptr' = tptr
        BY <1>0, <2>2, <3>2
      <4>. QED  BY <1>0, <2>3, <4>1, <4>2 DEF FillEnd
    <3>. QED  BY <3>1, <3>2
  <2>5. FillEnd' \in Cells /\ tptr' \in Cells
    BY <1>0, <2>2, <2>3, <2>4 DEF Asked, Cells, Bounds
  <2>6. AllEmpty' /\ Heading(tptr)'
    BY <1>0, <2>2, <2>3, <2>5 DEF Asked, AllEmpty, Heading, Planned, Cells
  <2>7. CASE Uint8(speed) = Empty
    <3>1. sweepmapptr' = GoalPtr'
      BY <1>0, <2>2, <2>3, <2>7 DEF Asked, GoalPtr
    <3>. QED  BY <2>1, <2>2, <2>5, <2>6, <2>7, <3>1 DEF Phases, Filling, Resting, Idling, Still
  <2>8. CASE Uint8(speed) # Empty
    <3>1. FillEnd' = GoalPtr'
      BY <1>0, <2>2, <2>3, <2>4, <2>8 DEF Asked, GoalPtr
    <3>. QED  BY <2>1, <2>2, <2>5, <2>6, <2>8, <3>1 DEF Phases, Filling, Idling, Still
  <2>. QED  BY <2>7, <2>8
<1>3. CASE SlideFill
  <2>0. Filling /\ pc = "fill" /\ pc' = "fill" /\ left > 0
    BY <1>3 DEF SlideFill, Phases
  <2>1. /\ sweepmap' = [sweepmap EXCEPT ![tptr] = Uint8(speed)] /\ stray' = stray
        /\ UNCHANGED <<sweepmapptr, goal, outdir, speed, pulsegap, sweepjob_enabled, fsm>>
        /\ tptr' = (IF outdir THEN tptr + 1 ELSE tptr - 1) /\ left' = left - 1
    BY <1>3, <2>0 DEF SlideFill, Filling
  <2>2. Bounds'
    BY <2>1 DEF Bounds
  <2>3. FillEnd' = FillEnd /\ FillEnd \in Cells
    BY <1>0, <2>0, <2>1 DEF FillEnd, Filling
  <2>4. tptr' \in Cells
    BY <1>0, <2>0, <2>1, <2>3 DEF FillEnd, Filling, Cells
  <2>5. \A i \in Cells : sweepmap'[i] = IF i = tptr THEN Uint8(speed) ELSE sweepmap[i]
    BY <1>0, <2>1 DEF TypeBoard
  <2>6. CASE Uint8(speed) = Empty
    <3>1. Resting'
      BY <2>0, <2>1, <2>5, <2>6 DEF Filling, Resting, AllEmpty, GoalPtr
    <3>. QED  BY <2>0, <2>1, <2>2, <2>3, <2>4, <2>6, <3>1 DEF Phases, Filling, Idling, Still
  <2>7. CASE Uint8(speed) # Empty
    <3>1. FillEnd' = GoalPtr'
      BY <2>0, <2>1, <2>3, <2>7 DEF Filling, GoalPtr
    <3>2. Heading(tptr) /\ tptr \in Cells
      BY <2>0, <2>7 DEF Filling
    <3>3. Heading(tptr)'
      BY <1>0, <2>1, <2>5, <2>7, <3>2 DEF Heading, Planned, Cells
    <3>. QED  BY <2>0, <2>1, <2>2, <2>3, <2>4, <2>7, <3>1, <3>3 DEF Phases, Filling, Idling, Still
  <2>. QED  BY <2>6, <2>7
<1>4. CASE SlideEnable
  <2>0. Filling /\ left = 0 /\ Len(events) = 1
    BY <1>4 DEF SlideEnable, Phases, QueueShort, Handling
  <2>1. /\ UNCHANGED <<sweepmap, sweepmapptr, goal, outdir, pulsegap, sweepjob_enabled, fsm,
                       stray>>
        /\ pc' = "service" /\ events' = Tail(events)
    BY <1>4 DEF SlideEnable, Pop, board, ghosts
  <2>2. events' = <<>>
    BY <2>0, <2>1 DEF TypeOK, TypeQueue
  <2>3. Bounds'
    BY <2>1 DEF Bounds
  <2>4. CASE Uint8(speed) = Empty
    <3>1. Resting /\ ~sweepjob_enabled'
      BY <2>0, <2>3, <2>4 DEF Filling, Bounds
    <3>. QED  BY <1>0, <2>1, <3>1, RestKept
  <2>5. CASE Uint8(speed) # Empty
    <3>1. tptr = GoalPtr /\ Heading(tptr)
      BY <1>0, <2>0, <2>5 DEF Filling, FillEnd
    <3>2. Heading(GoalPtr)'
      BY <2>1, <3>1 DEF Heading, Planned, GoalPtr
    <3>. QED  BY <2>1, <2>2, <2>3, <3>2 DEF Phases, Idling, Still
  <2>. QED  BY <2>4, <2>5
<1>. QED  BY <1>1, <1>2, <1>3, <1>4

\* A distance from where the arm rests to a goal inside the map.
LEMMA MoveAsked ==
    ASSUME HostWaits, TypeOK, PosTracksPtr, Bounds, Resting, pc # "homePos",
           NEW p \in 1..(2 * Home), NEW v \in Int, NEW byjob,
           BeginSlide(p - sweeppos, v, byjob),
           UNCHANGED <<board, sweepjob_enabled, stray>>,
           fsm' \notin {"searchOut", "searchIn"} =>
             p \in 2..(2 * Home - 1) /\ fsm \notin {"searchOut", "searchIn"}
    PROVE  Bounds' /\ Phases'
<1>0. /\ Home \in Nat \ {0} /\ sweeppos \in Int /\ sweepmapptr \in Int /\ goal \in Int
      /\ sweepmapptr + sweeppos = 2 * Home /\ sweeppos = goal
  BY SweepAssumption DEF TypeOK, TypeBoard, TypeMain, PosTracksPtr, Resting, GoalPtr
<1>1. /\ pc' = "slide" /\ dif' = p - sweeppos /\ speed' = v
      /\ goal' = IF Uint8(v) # Empty THEN p ELSE goal
  BY <1>0 DEF BeginSlide, Goal
<1>2. UNCHANGED <<sweepmap, sweepmapptr, sweeppos, pulsegap, sweepjob_enabled, stray>>
  BY DEF board
<1>3. goal' \in 1..(2 * Home)
  BY <1>1 DEF Bounds
<1>4. fsm' \notin {"searchOut", "searchIn"} => goal' \in 2..(2 * Home - 1)
  BY <1>0, <1>1 DEF Bounds
<1>5. Bounds'
  BY <1>2, <1>3, <1>4 DEF Bounds
<1>6. sweeppos' + dif' = p
  BY <1>0, <1>1, <1>2
<1>7. Asked'
  BY <1>0, <1>1, <1>2, <1>6 DEF Asked, Resting, AllEmpty
<1>. QED  BY <1>1, <1>5, <1>7 DEF Phases, Idling, Still

LEMMA PlanMain ==
    ASSUME PatientHost, HostWaits, TypeOK, FrontHeld, PosTracksPtr, FsmAtPlace,
           Whole, Bounds, Phases, Deliver \/ Main,
           ~(SlidePtr \/ SlideDir \/ SlideFill \/ SlideEnable)
    PROVE  Bounds' /\ Phases'
<1>0. /\ Home \in Nat \ {0} /\ Empty \in Nat \ {0} /\ TypeBoard /\ TypeQueue
      /\ goal \in Int /\ sweepmapptr \in Int /\ sweeppos \in Int
      /\ ~sweepjob_enabled /\ sweepmapptr \in Cells
  BY SweepAssumption DEF TypeOK, TypeBoard, TypeMain, Bounds
<1>. USE <1>0
<1>1. CASE LeaveService
  <2>1. Idling /\ UNCHANGED <<sweepmap, sweepmapptr, goal, outdir, events>> /\ pc' = "mail"
    BY <1>1 DEF LeaveService, Idling, board, ghosts
  <2>2. Bounds'
    BY <1>1 DEF LeaveService, Bounds, board, ghosts
  <2>. QED  BY <2>1, <2>2 DEF Phases, Idling, Still, Heading, Planned, GoalPtr
<1>2. CASE EnterService
  <2>1. /\ pc = "mail" /\ pc' = "service"
        /\ UNCHANGED <<sweepmap, sweepmapptr, goal, outdir, events>>
    BY <1>2 DEF EnterService, board, ghosts
  <2>2. Bounds'
    BY <1>2 DEF EnterService, Bounds, board, ghosts
  <2>3. Idling' <=> Idling
    BY <2>1 DEF Idling
  <2>4. Idling => Heading(GoalPtr)'
    BY <2>1 DEF Phases, Heading, Planned, GoalPtr
  <2>5. ~Idling => Resting'
    BY <2>1 DEF Phases, Still, Resting, AllEmpty, GoalPtr
  <2>. QED  BY <2>1, <2>2, <2>3, <2>4, <2>5 DEF Phases, Still
<1>3. ASSUME Resting, board' = board, goal' = goal, stray' = stray, ~sweepjob_enabled',
             fsm \in {"searchOut", "searchIn"} => fsm' = fsm,
             pc' \notin {"homePos", "slide", "dir", "fill"}
      PROVE  Bounds' /\ Phases'
  BY <1>3, RestKept DEF board
<1>4. CASE Deliver
  <2>1. Idling /\ AtRest
    BY <1>4 DEF Deliver, Idling
  <2>2. GoalPtr \in Cells /\ Heading(GoalPtr) /\ sweepmap[sweepmapptr] = Empty
    BY <2>1 DEF Phases, GoalPtr, Bounds, Cells, AtRest
  <2>3. Resting
    BY <2>2, RestAtEnd DEF Resting
  <2>. QED  BY <1>3, <1>4, <2>3 DEF Deliver, BeginPush, ghosts
<1>5. Still => Resting
  BY DEF Phases
<1>6. CASE EndPush \/ PopAfterPush
  <2>1. Resting
    BY <1>5, <1>6 DEF EndPush, PopAfterPush, Still, Idling
  <2>2. pc' \in {"mail", "pop", "service"}
    BY <1>6 DEF EndPush, PopAfterPush, Pop, TypeQueue
  <2>. QED  BY <1>3, <1>6, <2>1, <2>2 DEF EndPush, PopAfterPush, ghosts
<1>7. ASSUME NEW c, Serving(c)  PROVE Resting /\ pc = "service"
  BY <1>5, <1>7 DEF Serving, Still, Idling
<1>8. CASE FsmTick
  <2>1. Resting
    BY <1>7, <1>8 DEF FsmTick
  <2>. QED  BY <1>3, <1>8, <2>1 DEF FsmTick, Pop, Terminate, ghosts
<1>9. CASE FsmPark
  <2>1. Resting
    BY <1>7, <1>9 DEF FsmPark, Command
  <2>. QED  BY <1>3, <1>9, <2>1 DEF FsmPark, Terminate, ghosts
<1>10. CASE IsParked
  <2>1. Resting /\ fsm = "Idle"
    BY <1>5, <1>10 DEF IsParked, Still, Idling, FsmAtPlace
  <2>. QED  BY <1>3, <1>10, <2>1 DEF IsParked, ghosts
<1>11. CASE IsInside
  <2>1. Resting /\ fsm = "Idle" /\ goal \in 2..(2 * Home - 1) /\ pc = "isInside"
    BY <1>5, <1>11 DEF IsInside, Still, Idling, FsmAtPlace, Bounds
  <2>2. CASE fsm' = "searchOut" /\ BeginSlide(1, SearchGap, FALSE)
    <3>1. sweeppos = goal
      BY <2>1 DEF PosTracksPtr, Resting, GoalPtr
    <3>2. sweeppos + 1 \in 1..(2 * Home) /\ (sweeppos + 1) - sweeppos = 1
          /\ SearchGap \in Int
      BY <2>1, <3>1, SweepAssumption
    <3>. QED  BY <1>11, <2>1, <2>2, <3>2, MoveAsked DEF IsInside
  <2>3. CASE pc' = "isOutside" /\ UNCHANGED <<fsm, dif, speed, injob, goal>>
    BY <1>3, <1>11, <2>1, <2>3 DEF IsInside
  <2>. QED  BY <1>11, <2>2, <2>3 DEF IsInside
<1>12. CASE IsOutside
  <2>1. Resting /\ fsm = "Idle" /\ goal \in 2..(2 * Home - 1) /\ pc = "isOutside"
    BY <1>5, <1>12 DEF IsOutside, Still, Idling, FsmAtPlace, Bounds
  <2>2. CASE fsm' = "searchIn" /\ BeginSlide(-1, SearchGap, FALSE)
    <3>1. sweeppos = goal
      BY <2>1 DEF PosTracksPtr, Resting, GoalPtr
    <3>2. sweeppos - 1 \in 1..(2 * Home) /\ (sweeppos - 1) - sweeppos = -1
          /\ SearchGap \in Int
      BY <2>1, <3>1, SweepAssumption
    <3>. QED  BY <1>12, <2>1, <2>2, <3>2, MoveAsked DEF IsOutside
  <2>3. CASE Terminate /\ UNCHANGED <<dif, speed, injob, goal>>
    BY <1>3, <1>12, <2>1, <2>3 DEF IsOutside, Terminate
  <2>. QED  BY <1>12, <2>2, <2>3 DEF IsOutside
<1>13. CASE ClearCell
  <2>1. Resting
    BY <1>5, <1>13 DEF ClearCell, Still, Idling
  <2>2. sweepmap' = sweepmap
    BY <1>13, <2>1 DEF ClearCell, Resting, AllEmpty, TypeBoard
  <2>. QED  BY <1>3, <1>13, <2>1, <2>2 DEF ClearCell, board, ghosts
<1>14. CASE ParkPtr
  <2>1. Resting
    BY <1>5, <1>14 DEF ParkPtr, Still, Idling
  <2>2. Bounds'
    BY <1>14 DEF ParkPtr, Bounds, Cells, ghosts
  <2>. QED  BY <1>14, <2>1, <2>2 DEF ParkPtr, Phases, Idling, Still, Resting, AllEmpty
<1>15. CASE ParkPos
  <2>1. AllEmpty /\ sweepmapptr = Home /\ fsm = "setParked"
    BY <1>15 DEF ParkPos, Phases, PosTracksPtr, FsmAtPlace
  <2>2. goal' = Home
    BY <1>15 DEF ParkPos, Goal, Uint8
  <2>3. Home \in 2..(2 * Home - 1)
    BY DEF PatientHost
  <2>4. Bounds'
    BY <1>15, <2>2, <2>3 DEF ParkPos, Bounds
  <2>5. Resting' /\ sweepmapptr' \in Cells /\ pc' = "push"
    BY <1>15, <2>1, <2>2 DEF ParkPos, BeginPush, Resting, AllEmpty, GoalPtr
  <2>. QED  BY <2>4, <2>5, RestReached
<1>16. CASE CmdGoto
  <2>1. Resting /\ pc = "service"
    BY <1>7, <1>16 DEF CmdGoto, Command
  <2>2. Front.payload.x \in 2..(2 * Home - 1)
    BY <1>16, PatientCommand DEF CmdGoto
  <2>3. Front.payload.y \in Int
    BY <1>16, PopIsQueue, MessageFields DEF CmdGoto, Command, Serving, TypeQueue
  <2>4. CASE BeginSlide(Front.payload.x - sweeppos, Front.payload.y, FALSE)
    <3>1. Front.payload.x \in 1..(2 * Home) /\ fsm' = fsm
          /\ UNCHANGED <<board, sweepjob_enabled, stray>>
      BY <1>16, <2>2 DEF CmdGoto
    <3>. QED  BY <2>1, <2>2, <2>3, <2>4, <3>1, MoveAsked
  <2>5. CASE Pop /\ goal' = goal
    BY <1>3, <1>16, <2>1, <2>5 DEF CmdGoto, Pop
  <2>. QED  BY <1>16, <2>4, <2>5 DEF CmdGoto, Goto
<1>17. CASE SweepJob
  <2>1. Resting
    BY <1>7, <1>17 DEF SweepJob
  <2>. QED  BY <1>3, <1>17, <2>1 DEF SweepJob, Pop
<1>18. CASE CmdScan \/ CmdTorn
  BY <1>18, PatientCommand
<1>19. CASE CmdScanAbort \/ CmdEnable \/ CmdDir \/ CmdOther
  <2>1. Resting
    BY <1>7, <1>19 DEF CmdScanAbort, CmdEnable, CmdDir, CmdOther, Command
  <2>2. /\ board' = board /\ goal' = goal /\ stray' = stray /\ ~sweepjob_enabled'
        /\ fsm' = fsm /\ pc' = "service"
    BY <1>19 DEF CmdScanAbort, CmdEnable, CmdDir, CmdOther, Pop, ghosts
  <2>. QED  BY <1>3, <2>1, <2>2
<1>. QED
  BY <1>1, <1>2, <1>4, <1>6, <1>8, <1>9, <1>10, <1>11, <1>12, <1>13, <1>14, <1>15,
     <1>16, <1>17, <1>18, <1>19 DEF Main

LEMMA PlanStep ==
    ASSUME PatientHost
    PROVE  Inv /\ Plan /\ [Next]_vars => Plan'
<1>. SUFFICES ASSUME HostWaits, Inv, Plan, [Next]_vars
              PROVE  (FsmAtPlace /\ QueueShort /\ Whole /\ Bounds /\ Phases)'
  BY DEF Plan
<1>1. /\ FsmAtPlace /\ QueueShort /\ Whole /\ Bounds /\ Phases
      /\ TypeOK /\ FrontHeld /\ PosTracksPtr
  BY DEF Inv, Plan
<1>2. FsmAtPlace'
  BY <1>1, FsmStep
<1>3. CASE Next
  <2>1. QueueShort' /\ Whole'
    BY <1>1, <1>3, QueueStep, WholeStep
  <2>2. CASE Tick
    BY <1>1, <1>2, <2>1, <2>2, PlanTick
  <2>3. CASE SlidePtr \/ SlideDir \/ SlideFill \/ SlideEnable
    BY <1>1, <1>2, <2>1, <2>3, PlanSlide
  <2>4. CASE (Deliver \/ Main) /\ ~(SlidePtr \/ SlideDir \/ SlideFill \/ SlideEnable)
    BY <1>1, <1>2, <2>1, <2>4, PlanMain
  <2>. QED  BY <1>3, <2>2, <2>3, <2>4 DEF Next
<1>4. CASE UNCHANGED vars
  <2>1. QueueShort' /\ Whole'
    BY <1>1, <1>4 DEF vars, QueueShort, Whole, pushing
  <2>2. Bounds'
    BY <1>1, <1>4 DEF vars, Bounds, board, ghosts
  <2>3. Phases'
    BY <1>1, <1>4 DEF vars, Phases, Idling, Still, Resting, Asked, Filling, FillEnd,
       Heading, Planned, AllEmpty, GoalPtr, board, slide, ghosts
  <2>. QED  BY <1>2, <2>1, <2>2, <2>3
<1>. QED  BY <1>3, <1>4

LEMMA InitPlan ==
    ASSUME PatientHost
    PROVE  Init => Plan
<1>. SUFFICES ASSUME HostWaits, Init
              PROVE  FsmAtPlace /\ QueueShort /\ Whole /\ Bounds /\ Phases
  BY DEF Plan
<1>. USE SweepAssumption DEF Init
<1>1. Len(events) = 1 /\ events # <<>> /\ pc = "mail"
  OBVIOUS
<1>2. FsmAtPlace /\ QueueShort /\ Whole
  BY <1>1, EventKinds DEF FsmAtPlace, QueueShort, Whole, Handling
<1>3. Bounds
  BY DEF Bounds, PatientHost, Cells
<1>4. Phases
  BY <1>1 DEF Phases, Idling, Still, Resting, AllEmpty, GoalPtr
<1>. QED  BY <1>2, <1>3, <1>4

\* At a standstill the plan ends where the pointer stands.
LEMMA PlanExact == Inv /\ Plan => ExactStop /\ InsideMap
<1>. SUFFICES ASSUME Inv, Plan, HostWaits
              PROVE  ~stray /\ (Standstill => sweeppos = goal /\ AllEmpty)
  BY DEF ExactStop, InsideMap, AllEmpty
<1>0. /\ Home \in Nat \ {0} /\ goal \in Int /\ sweepmapptr \in Int /\ sweeppos \in Int
      /\ Bounds /\ Phases /\ PosTracksPtr
  BY SweepAssumption DEF Inv, TypeOK, TypeBoard, TypeMain, Plan
<1>1. ASSUME Standstill  PROVE sweeppos = goal /\ AllEmpty
  <2>1. GoalPtr \in Cells /\ Heading(GoalPtr) /\ sweepmapptr \in Cells
    BY <1>0, <1>1 DEF Standstill, Phases, Idling, GoalPtr, Bounds, Cells
  <2>2. sweepmap[sweepmapptr] = Empty
    BY <1>1, <2>1 DEF Standstill, AtRest
  <2>3. AllEmpty /\ sweepmapptr = GoalPtr
    BY <1>0, <2>1, <2>2, RestAtEnd
  <2>. QED  BY <1>0, <1>1, <2>3 DEF PosTracksPtr, Standstill, GoalPtr
<1>. QED  BY <1>0, <1>1 DEF Bounds

\* The arm of a host that waits stops exactly where the last Goto, search or
\* Park wanted it, with the whole plan of Slide used up by serviceBoard,
\* wherever the ticks fall into Slide's loop and however long the map is.
THEOREM MovesAreExact ==
    ASSUME PatientHost
    PROVE  Spec => []ExactStop
<1>1. Init => Plan
  BY InitPlan
<1>2. Inv /\ Plan /\ [Next]_vars => Plan'
  BY PlanStep
<1>3. Inv /\ Plan => ExactStop
  BY PlanExact
<1>. QED  BY Invariance, <1>1, <1>2, <1>3, PTL DEF Spec

\* With the same host neither Slide's loop nor the pulse pointer of
\* serviceBoard leaves sweepmap, although neither of them checks its index.
THEOREM MovesStayInside ==
    ASSUME PatientHost
    PROVE  Spec => []InsideMap
<1>1. Init => Plan
  BY InitPlan
<1>2. Inv /\ Plan /\ [Next]_vars => Plan'
  BY PlanStep
<1>3. Inv /\ Plan => InsideMap
  BY PlanExact
<1>. QED  BY Invariance, <1>1, <1>2, <1>3, PTL DEF Spec
=============================================================================
