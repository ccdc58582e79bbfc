------------------------------- MODULE Sweep -------------------------------
(***************************************************************************)
(* The step-motor driver of the sweep arm (Sweep/sweep.cpp, sweep_sm.cpp). *)
(*                                                                         *)
(* Two contexts share one Sweep object and nothing masks interrupts:       *)
(*   - the main loop, which takes events from the driver's queue and plans *)
(*     a move by writing one pulse gap per step into sweepmap;             *)
(*   - the PIT interrupt (serviceBoard, every 200 us), which consumes the  *)
(*     plan cell by cell, and which runs to completion between any two     *)
(*     instructions of the main loop.                                      *)
(* A tick is therefore one action; the main loop advances one access to    *)
(* shared state at a time, its place in the code being `pc'.               *)
(*                                                                         *)
(* An address &sweepmap[i] is the index i.  Status flags, logging and the  *)
(* GPIO pins that only mirror `enable', `outdir' and `pulse' are left out. *)
(***************************************************************************)
EXTENDS EventQueue, FiniteSets

CONSTANTS
    Home,          \* index and position set by Park: 2000; the map has 2 * Home cells
    Empty,         \* the value of a consumed cell: 255, the largest uint8_t
    SearchGap,     \* the speed of the search moves of the state machine: 4
    StepsPerUnit,  \* steps per unit of a scan command: 40
    Commands,      \* the messages a host sends to the driver
    MaxEvents,     \* bound of the model: events queued at once
    HostWaits      \* TRUE: the host sends a command only while the arm stands still

CmdCode == {"PARK", "GOTO", "SCAN", "ENABLE", "DIR", "PULSE", "UNKNOWN"}

\* A message: command, its argument byte (1 or not), and the three integers
\* that sscanf finds in its text (what is missing there is any value at all).
Message == [cmd : CmdCode, arg : {0, 1}, x : Int, y : Int, z : Int]

ASSUME SweepAssumption ==
    /\ Home \in Nat \ {0}
    /\ Empty \in Nat \ {0}
    /\ SearchGap \in 0..(Empty - 1)
    /\ StepsPerUnit \in Nat \ {0}
    /\ Commands \subseteq Message
    /\ MaxEvents \in Nat \ {0}
    /\ HostWaits \in BOOLEAN

Cells == 0..(2 * Home - 1)
Byte  == 0..Empty
MutUint8(n) == n                     \* mutant: no conversion
Uint8(n) == n % (Empty + 1)          \* the conversion of *tptr = speed

\* The payload of the driver's own events points into sweepmap: no message.
NoMsg == [cmd |-> "NONE", arg |-> 0, x |-> 0, y |-> 0, z |-> 0]

\* What is pushed into std::queue<event_t> events, and what may be found there
\* when one push has been torn by another.
TickEvt  == [evtype |-> "TICK", payload |-> NoMsg]
JobEvt   == [evtype |-> "SWEEPJOB", payload |-> NoMsg]
EthEvt(m) == [evtype |-> "ETH", payload |-> m]
Sent     == {TickEvt, JobEvt} \cup {EthEvt(m) : m \in Commands}
Event    == [evtype : {"TICK", "SWEEPJOB", "ETH"}, payload : Commands \cup {NoMsg}]

FsmState == {"ColdStart", "Idle", "setParked", "searchOut", "searchIn"}
Place == {"mail", "service", "isParked", "isInside", "isOutside", "clear",
          "homePtr", "homePos", "slide", "dir", "fill", "push", "pop", "dead"}

VARIABLES
    \* shared by both contexts
    sweepmap, sweepmapptr, sweeppos, pulsegap, enable, outdir, pulse,
    sweepjob_enabled, events,
    \* used by the main loop only
    fsm, sweepjob_in, sweepjob_out, sweepjob_speed, sweepjob_outdir,
    pc,            \* where the main loop is
    dif,           \* Slide's step
    speed,         \* Slide's speed
    tptr,          \* Slide's and memset's running pointer
    left,          \* cells Slide has still to write
    injob,         \* this Slide was called by SweepJob
    pushed,        \* the event a push of the main loop is about to store
    at,            \* the slot it stores it in
    ret,           \* where the push returns to
    \* not in the code
    stray,         \* memory of someone else has been accessed
    raced,         \* a push of the main loop has been overtaken by the interrupt
    goal           \* the position the last command asked for (only if HostWaits)

board   == <<sweepmap, sweepmapptr, sweeppos, pulsegap, pulse>>
job     == <<sweepjob_in, sweepjob_out, sweepjob_speed, sweepjob_outdir>>
slide   == <<dif, speed, tptr, left, injob>>
pushing == <<pushed, at, ret>>
ghosts  == <<stray, raced, goal>>
vars == <<board, enable, outdir, sweepjob_enabled, events, fsm, job, pc,
          slide, pushing, ghosts>>

-----------------------------------------------------------------------------
(* The state start() leaves: the PIT is not running yet.                    *)

Init ==
    /\ sweepmap = [i \in Cells |-> Empty]
    /\ sweepmapptr = Home /\ sweeppos = Home
    /\ pulsegap = 0 /\ pulse = TRUE
    /\ enable = FALSE /\ outdir = FALSE
    /\ sweepjob_enabled = FALSE
    /\ sweepjob_in = 0 /\ sweepjob_out = 0
    /\ sweepjob_speed = 0 /\ sweepjob_outdir = FALSE
    /\ fsm = "ColdStart" /\ events = <<TickEvt>>
    /\ pc = "mail"
    /\ dif = 0 /\ speed = 0 /\ tptr = 0 /\ left = 0 /\ injob = FALSE
    /\ pushed = TickEvt /\ at = 0 /\ ret = "mail"
    /\ stray = FALSE /\ raced = FALSE /\ goal = Home

AtRest == sweepmapptr \in Cells => sweepmap[sweepmapptr] = Empty

-----------------------------------------------------------------------------
(* serviceBoard, the interrupt.  A tick with the driver disabled only       *)
(* reads the sensors, which the model keeps as inputs: no action.           *)

\* The queue entry the interrupt stores is complete when it returns.
IsrPush == IF sweepjob_enabled
             THEN Len(events) < MaxEvents /\ events' = Append(events, JobEvt)
             ELSE UNCHANGED events

TickIdle ==
    /\ enable /\ ~stray
    /\ sweepmapptr \in Cells /\ sweepmap[sweepmapptr] = Empty
    /\ pulse' = TRUE /\ pulsegap' = 0
    /\ IsrPush
    /\ UNCHANGED <<sweepmap, sweepmapptr, sweeppos, enable, outdir,
                   sweepjob_enabled, fsm, job, pc, slide, pushing, ghosts>>

Step == IF outdir THEN /\ sweepmapptr' = sweepmapptr + 1
                       /\ sweeppos' = sweeppos - 1
                  ELSE /\ sweepmapptr' = sweepmapptr - 1
                       /\ sweeppos' = sweeppos + 1

\* mutant: the pulse is never dropped
MutTickPulse ==
    /\ enable /\ ~stray
    /\ sweepmapptr \in Cells /\ sweepmap[sweepmapptr] # Empty
    /\ LET cell == sweepmap[sweepmapptr]
           gap  == IF pulsegap = 0 THEN cell ELSE pulsegap
       IN  \/ /\ cell > 0
              /\ sweepmap' = [sweepmap EXCEPT ![sweepmapptr] = cell - 1]
              /\ pulsegap' = gap
              /\ UNCHANGED <<pulse, sweepmapptr, sweeppos>>
           \/ /\ cell = 0 /\ pulse
              /\ sweepmap' = [sweepmap EXCEPT ![sweepmapptr] = gap]
              /\ pulsegap' = gap
              /\ UNCHANGED <<pulse, sweepmapptr, sweeppos>>
           \/ /\ cell = 0 /\ ~pulse
              /\ sweepmap' = [sweepmap EXCEPT ![sweepmapptr] = Empty]
              /\ pulse' = TRUE /\ pulsegap' = 0
              /\ Step
    /\ UNCHANGED <<enable, outdir, sweepjob_enabled, events, fsm, job, pc,
                   slide, pushing, ghosts>>

TickPulse ==
    /\ enable /\ ~stray
    /\ sweepmapptr \in Cells /\ sweepmap[sweepmapptr] # Empty
    /\ LET cell == sweepmap[sweepmapptr]
           gap  == IF pulsegap = 0 THEN cell ELSE pulsegap
       IN  \/ /\ cell > 0
              /\ sweepmap' = [sweepmap EXCEPT ![sweepmapptr] = cell - 1]
              /\ pulsegap' = gap
              /\ UNCHANGED <<pulse, sweepmapptr, sweeppos>>
           \/ /\ cell = 0 /\ pulse
              /\ sweepmap' = [sweepmap EXCEPT ![sweepmapptr] = gap]
              /\ pulse' = FALSE /\ pulsegap' = gap
              /\ UNCHANGED <<sweepmapptr, sweeppos>>
           \/ /\ cell = 0 /\ ~pulse
              /\ sweepmap' = [sweepmap EXCEPT ![sweepmapptr] = Empty]
              /\ pulse' = TRUE /\ pulsegap' = 0
              /\ Step
    /\ UNCHANGED <<enable, outdir, sweepjob_enabled, events, fsm, job, pc,
                   slide, pushing, ghosts>>

\* The pointer has left the map: the interrupt reads, and unless it finds
\* 255 writes, whatever memory is there.  The model stops here.
TickStray ==
    /\ enable /\ ~stray
    /\ sweepmapptr \notin Cells
    /\ stray' = TRUE
    /\ UNCHANGED <<board, enable, outdir, sweepjob_enabled, events, fsm, job,
                   pc, slide, pushing, raced, goal>>

Tick == TickIdle \/ TickPulse \/ TickStray

-----------------------------------------------------------------------------
(* The main loop outside serviceEvents.                                     *)

EnterService ==
    /\ pc = "mail" /\ ~stray
    /\ pc' = "service"
    /\ UNCHANGED <<board, enable, outdir, sweepjob_enabled, events, fsm, job,
                   slide, pushing, ghosts>>

LeaveService ==
    /\ pc = "service" /\ ~stray
    /\ events = <<>>
    /\ pc' = "mail"
    /\ UNCHANGED <<board, enable, outdir, sweepjob_enabled, events, fsm, job,
                   slide, pushing, ghosts>>

\* Start of events.push(e) by the main loop: it has the address of the next
\* free slot, and the interrupt may push before the queue has moved on.
BeginPush(e, back) ==
    /\ pushed' = e
    /\ at' = Len(events)
    /\ ret' = back
    /\ pc' = "push"

\* pushEvent, called by verifymail for a message of the host.
Deliver ==
    /\ pc = "mail" /\ ~stray
    /\ Len(events) < MaxEvents
    /\ HostWaits => events = <<>> /\ AtRest
    /\ \E m \in Commands : BeginPush(EthEvt(m), "mail")
    /\ UNCHANGED <<board, enable, outdir, sweepjob_enabled, events, fsm, job,
                   slide, ghosts>>

EndPush ==
    /\ pc = "push" /\ ~stray
    /\ pc' = ret
    /\ events' \in PushOutcomes(events, at, pushed, Event)
    /\ raced' = (raced \/ Overtaken(events, at))
    /\ pushed' = TickEvt /\ at' = 0 /\ ret' = "mail"     \* out of scope
    /\ UNCHANGED <<board, enable, outdir, sweepjob_enabled, fsm, job, slide,
                   stray, goal>>

-----------------------------------------------------------------------------
(* serviceEvents: one handler per kind of event.  The event is popped at    *)
(* the end; pop moves the front of the queue, which the interrupt leaves    *)
(* alone, so it joins the handler's last step.                              *)

Front == Head(events)
Pop   == events' = Tail(events) /\ pc' = "service"
Serving(s) == pc = "service" /\ ~stray /\ events # <<>> /\ Front.evtype = s
Command(c) == Serving("ETH") /\ Front.payload.cmd = c

\* An undefined transition throws, nothing catches it: std::terminate.  The
\* interrupts go on.
Terminate == pc' = "dead" /\ UNCHANGED <<fsm, events>>

FsmTick ==
    /\ Serving("TICK")
    /\ \/ /\ fsm \in {"ColdStart", "setParked", "Idle"}
          /\ fsm' = "Idle"
          /\ Pop
       \/ /\ fsm \in {"searchOut", "searchIn"}
          /\ Terminate
    /\ UNCHANGED <<board, enable, outdir, sweepjob_enabled, job, slide,
                   pushing, ghosts>>

\* mutant: Park is accepted in every state
MutFsmPark ==
    /\ Command("PARK")
    /\ pc' = "isParked"
    /\ UNCHANGED <<board, enable, outdir, sweepjob_enabled, events, fsm, job,
                   slide, pushing, ghosts>>

\* mutant: the event is popped before its handler has ended
MutFsmParkPops ==
    /\ Command("PARK")
    /\ IF fsm = "Idle" THEN pc' = "isParked" /\ events' = Tail(events)
                            /\ UNCHANGED fsm
                       ELSE Terminate
    /\ UNCHANGED <<board, enable, outdir, sweepjob_enabled, job, slide,
                   pushing, ghosts>>

\* Park in state Idle tests three guards, each of which reads the sensors
\* anew; the arm can pass one, or be moved by hand, at any time.  In every other state, and if no guard holds, it is undefined.
FsmPark ==
    /\ Command("PARK")
    /\ IF fsm = "Idle" THEN pc' = "isParked" /\ UNCHANGED <<fsm, events>>
                       ELSE Terminate
    /\ UNCHANGED <<board, enable, outdir, sweepjob_enabled, job, slide,
                   pushing, ghosts>>

\* A speed of 255 writes cells that count as consumed: it moves nothing.
Goal(p, gap) == goal' = IF HostWaits /\ Uint8(gap) # Empty THEN p ELSE goal

BeginSlide(step, gap, byjob) ==
    /\ dif' = step
    /\ speed' = gap
    /\ injob' = byjob
    /\ pc' = "slide"
    /\ Goal(sweeppos + step, gap)

\* mutant: Park without clearMap
MutIsParked ==
    /\ pc = "isParked" /\ ~stray
    /\ \E intap, outtap \in {0, 1} :
         IF intap = 0 /\ outtap = 0
           THEN fsm' = "setParked" /\ pc' = "homePtr"
           ELSE pc' = "isInside" /\ UNCHANGED fsm
    /\ UNCHANGED <<board, enable, outdir, sweepjob_enabled, events, job, slide,
                   pushing, ghosts>>

IsParked ==
    /\ pc = "isParked" /\ ~stray
    /\ \E intap, outtap \in {0, 1} :
         IF intap = 0 /\ outtap = 0
           THEN fsm' = "setParked" /\ pc' = "clear" /\ tptr' = 0
           ELSE pc' = "isInside" /\ UNCHANGED <<fsm, tptr>>
    /\ UNCHANGED <<board, enable, outdir, sweepjob_enabled, events, job, dif,
                   speed, left, injob, pushing, ghosts>>

IsInside ==
    /\ pc = "isInside" /\ ~stray
    /\ \E intap \in {0, 1} :
         IF intap = 1
           THEN fsm' = "searchOut" /\ BeginSlide(1, SearchGap, FALSE)
           ELSE pc' = "isOutside" /\ UNCHANGED <<fsm, dif, speed, injob, goal>>
    /\ UNCHANGED <<board, enable, outdir, sweepjob_enabled, events, job, tptr,
                   left, pushing, stray, raced>>

IsOutside ==
    /\ pc = "isOutside" /\ ~stray
    /\ \E outtap \in {0, 1} :
         IF outtap = 1
           THEN /\ fsm' = "searchIn"
                /\ BeginSlide(-1, SearchGap, FALSE)
                /\ UNCHANGED events
           ELSE Terminate /\ UNCHANGED <<dif, speed, injob, goal>>
    /\ UNCHANGED <<board, enable, outdir, sweepjob_enabled, job, tptr,
                   left, pushing, stray, raced>>

\* mutant: the last cell is not cleared
MutClearCell ==
    /\ pc = "clear" /\ ~stray
    /\ sweepmap' = [sweepmap EXCEPT ![tptr] = Empty]
    /\ IF tptr = 2 * Home - 2 THEN pc' = "homePtr" /\ tptr' = 0
                              ELSE tptr' = tptr + 1 /\ UNCHANGED pc
    /\ UNCHANGED <<sweepmapptr, sweeppos, pulsegap, pulse, enable, outdir,
                   sweepjob_enabled, events, fsm, job, dif, speed, left, injob,
                   pushing, ghosts>>

\* Park: clearMap, then the pointer, then the position, then TickCallback.
ClearCell ==
    /\ pc = "clear" /\ ~stray
    /\ sweepmap' = [sweepmap EXCEPT ![tptr] = Empty]
    /\ IF tptr = 2 * Home - 1 THEN pc' = "homePtr" /\ tptr' = 0
                              ELSE tptr' = tptr + 1 /\ UNCHANGED pc
    /\ UNCHANGED <<sweepmapptr, sweeppos, pulsegap, pulse, enable, outdir,
                   sweepjob_enabled, events, fsm, job, dif, speed, left, injob,
                   pushing, ghosts>>

ParkPtr ==
    /\ pc = "homePtr" /\ ~stray
    /\ sweepmapptr' = Home
    /\ pc' = "homePos"
    /\ UNCHANGED <<sweepmap, sweeppos, pulsegap, pulse, enable, outdir,
                   sweepjob_enabled, events, fsm, job, slide, pushing, ghosts>>

\* The event being served leaves the queue after TickCallback's push: the
\* push goes first into the model's queue as well, EndPush returning to "pop".
ParkPos ==
    /\ pc = "homePos" /\ ~stray
    /\ sweeppos' = Home
    /\ Goal(Home, 0)
    /\ BeginPush(TickEvt, "pop")
    /\ UNCHANGED <<sweepmap, sweepmapptr, pulsegap, pulse, enable, outdir,
                   sweepjob_enabled, events, fsm, job, slide, stray,
                   raced>>

PopAfterPush ==
    /\ pc = "pop" /\ ~stray
    /\ Pop
    /\ UNCHANGED <<board, enable, outdir, sweepjob_enabled, fsm, job, slide,
                   pushing, ghosts>>

-----------------------------------------------------------------------------
(* Goto(p, v) and Slide(step, speed).                                       *)

\* mutant: the target taken for the distance
MutGoto(p, v, byjob) ==
    /\ BeginSlide(p, v, byjob)
    /\ UNCHANGED <<events, sweepjob_outdir>>

Goto(p, v, byjob) ==
    IF p # sweeppos
      THEN /\ BeginSlide(p - sweeppos, v, byjob)
           /\ UNCHANGED <<events, sweepjob_outdir>>
      ELSE /\ Pop
           /\ sweepjob_outdir' = IF byjob THEN ~sweepjob_outdir
                                          ELSE sweepjob_outdir
           /\ UNCHANGED <<dif, speed, injob, goal>>

CmdGoto ==
    /\ Command("GOTO")
    /\ Goto(Front.payload.x, Front.payload.y, FALSE)
    /\ UNCHANGED <<board, enable, outdir, sweepjob_enabled, fsm, sweepjob_in,
                   sweepjob_out, sweepjob_speed, tptr, left, pushing, stray, raced>>

SlidePtr ==
    /\ pc = "slide" /\ ~stray
    /\ tptr' = sweepmapptr
    /\ pc' = "dir"
    /\ UNCHANGED <<board, enable, outdir, sweepjob_enabled, events, fsm, job,
                   dif, speed, left, injob, pushing, ghosts>>

\* mutant: one cell too many, i <= astep
MutSlideDir ==
    /\ pc = "dir" /\ ~stray
    /\ outdir' = ~(dif > 0)
    /\ left' = (IF dif < 0 THEN -dif ELSE dif) + 1
    /\ pc' = "fill"
    /\ UNCHANGED <<board, enable, sweepjob_enabled, events, fsm, job, dif,
                   speed, tptr, injob, pushing, ghosts>>

SlideDir ==
    /\ pc = "dir" /\ ~stray
    /\ outdir' = ~(dif > 0)
    /\ left' = IF dif < 0 THEN -dif ELSE dif
    /\ pc' = "fill"
    /\ UNCHANGED <<board, enable, sweepjob_enabled, events, fsm, job, dif,
                   speed, tptr, injob, pushing, ghosts>>

SlideFill ==
    /\ pc = "fill" /\ ~stray
    /\ left > 0
    /\ IF tptr \in Cells
         THEN /\ sweepmap' = [sweepmap EXCEPT ![tptr] = Uint8(speed)]
              /\ UNCHANGED stray
         ELSE stray' = TRUE /\ UNCHANGED sweepmap
    /\ tptr' = IF outdir THEN tptr + 1 ELSE tptr - 1
    /\ left' = left - 1
    /\ UNCHANGED <<sweepmapptr, sweeppos, pulsegap, pulse, enable, outdir,
                   sweepjob_enabled, events, fsm, job, pc, dif, speed, injob,
                   pushing, raced, goal>>

\* mutant: the driver is not enabled
MutSlideEnable ==
    /\ pc = "fill" /\ ~stray
    /\ left = 0
    /\ sweepjob_outdir' = IF injob THEN ~sweepjob_outdir ELSE sweepjob_outdir
    /\ Pop
    /\ dif' = 0 /\ speed' = 0 /\ tptr' = 0 /\ injob' = FALSE
    /\ UNCHANGED <<board, enable, outdir, sweepjob_enabled, fsm, sweepjob_in,
                   sweepjob_out, sweepjob_speed, left, pushing, ghosts>>

\* setEnable(true); a SweepJob then turns its direction; the event is popped.
SlideEnable ==
    /\ pc = "fill" /\ ~stray
    /\ left = 0
    /\ enable' = TRUE
    /\ sweepjob_outdir' = IF injob THEN ~sweepjob_outdir ELSE sweepjob_outdir
    /\ Pop
    /\ dif' = 0 /\ speed' = 0 /\ tptr' = 0 /\ injob' = FALSE  \* out of scope
    /\ UNCHANGED <<board, outdir, sweepjob_enabled, fsm, sweepjob_in,
                   sweepjob_out, sweepjob_speed, left, pushing, ghosts>>

SweepJob ==
    /\ Serving("SWEEPJOB")
    /\ IF sweepjob_enabled
         THEN Goto(IF sweepjob_outdir THEN sweepjob_out ELSE sweepjob_in,
                   sweepjob_speed, TRUE)
         ELSE Pop /\ UNCHANGED <<dif, speed, injob, sweepjob_outdir, goal>>
    /\ UNCHANGED <<board, enable, outdir, sweepjob_enabled, fsm, sweepjob_in,
                   sweepjob_out, sweepjob_speed, tptr, left, pushing, stray, raced>>

-----------------------------------------------------------------------------
(* The other commands.                                                      *)

CmdScan ==
    /\ Command("SCAN")
    /\ Front.payload.arg = 1
    /\ sweepjob_in' = Front.payload.x * StepsPerUnit
    /\ sweepjob_out' = Front.payload.y * StepsPerUnit
    /\ sweepjob_speed' = Front.payload.z
    /\ sweepjob_outdir' = TRUE
    /\ sweepjob_enabled' = TRUE
    /\ BeginPush(JobEvt, "pop")
    /\ UNCHANGED <<board, enable, outdir, events, fsm, slide, ghosts>>

CmdScanAbort ==
    /\ Command("SCAN")
    /\ Front.payload.arg # 1
    /\ sweepjob_enabled' = FALSE
    /\ Pop
    /\ UNCHANGED <<board, enable, outdir, fsm, job, slide, pushing, ghosts>>

CmdEnable ==
    /\ Command("ENABLE")
    /\ enable' = (Front.payload.arg = 1)
    /\ Pop
    /\ UNCHANGED <<board, outdir, sweepjob_enabled, fsm, job, slide, pushing,
                   ghosts>>

CmdDir ==
    /\ Command("DIR")
    /\ outdir' = (Front.payload.arg = 1)
    /\ Pop
    /\ UNCHANGED <<board, enable, sweepjob_enabled, fsm, job, slide, pushing,
                   ghosts>>

\* PulseBurst toggles the pulse pin an even number of times and an unknown
\* command is only logged: neither changes the driver's state.
CmdOther ==
    /\ Command("PULSE") \/ Command("UNKNOWN")
    /\ Pop
    /\ UNCHANGED <<board, enable, outdir, sweepjob_enabled, fsm, job, slide,
                   pushing, ghosts>>

\* A torn entry: a pointer into sweepmap is taken for a message, read, and in
\* the end deleted.  The model stops here.
CmdTorn ==
    /\ Command("NONE")
    /\ stray' = TRUE
    /\ UNCHANGED <<board, enable, outdir, sweepjob_enabled, events, fsm, job,
                   pc, slide, pushing, raced, goal>>

Main ==
    \/ EnterService \/ LeaveService \/ EndPush \/ PopAfterPush
    \/ FsmTick \/ FsmPark \/ IsParked \/ IsInside \/ IsOutside
    \/ ClearCell \/ ParkPtr \/ ParkPos
    \/ CmdGoto \/ SlidePtr \/ SlideDir \/ SlideFill \/ SlideEnable \/ SweepJob
    \/ CmdScan \/ CmdScanAbort \/ CmdEnable \/ CmdDir \/ CmdOther \/ CmdTorn

Next == Tick \/ Main \/ Deliver

Spec == Init /\ [][Next]_vars

\* The timer never stops and the main loop is never left.
FairSpec == Spec /\ WF_vars(Tick) /\ WF_vars(Main)
-----------------------------------------------------------------------------
(* Properties.                                                              *)

TypeBoard ==
    /\ sweepmap \in [Cells -> Byte]
    /\ sweepmapptr \in Int /\ sweeppos \in Int
    /\ pulsegap \in Byte
TypeFlags ==
    /\ pulse \in BOOLEAN /\ enable \in BOOLEAN /\ outdir \in BOOLEAN
    /\ sweepjob_enabled \in BOOLEAN /\ sweepjob_outdir \in BOOLEAN
    /\ injob \in BOOLEAN /\ stray \in BOOLEAN /\ raced \in BOOLEAN
TypeQueue ==
    /\ events \in Seq(Event)
    /\ pushed \in Sent /\ at \in Nat /\ ret \in {"mail", "pop"}
TypeMain ==
    /\ sweepjob_in \in Int /\ sweepjob_out \in Int /\ sweepjob_speed \in Int
    /\ fsm \in FsmState /\ pc \in Place
    /\ dif \in Int /\ speed \in Int /\ tptr \in Int /\ left \in Nat
    /\ goal \in Int

\* Every variable of the driver and of the main loop has its type.
TypeOK == TypeBoard /\ TypeFlags /\ TypeQueue /\ TypeMain

\* serviceEvents keeps a pointer to the front of the queue while it handles
\* the event: the queue is not empty until the handler pops it, and a push of
\* the main loop has its slot at or before the end of the queue.
FrontHeld ==
    /\ pc \notin {"mail", "service", "push", "dead"} => events # <<>>
    /\ pc = "push" => at <= Len(events) /\ (ret = "pop" => at > 0)

\* serviceBoard moves the map pointer and the position in opposite directions
\* and Park resets them in two stores.  However the interrupt falls between
\* the steps of the main loop, the two agree, and between Park's stores the
\* pointer is still where Park has put it.
PosTracksPtr ==
    IF pc = "homePos" THEN sweepmapptr = Home
                      ELSE sweepmapptr + sweeppos = 2 * Home

\* Once Park has cleared the map no tick can put anything back into it, so
\* the interrupt cannot move the arm between the two stores.
ClearedStaysClear ==
    /\ pc = "clear" => \A i \in Cells : i < tptr => sweepmap[i] = Empty
    /\ pc \in {"homePtr", "homePos"} => \A i \in Cells : sweepmap[i] = Empty

Standstill == pc = "mail" /\ events = <<>> /\ AtRest

\* A host that waits for the arm gets every Goto, search and Park exactly:
\* when the arm has stopped it is where the last command wanted it and the
\* whole plan has been consumed, although ticks fall into the planning loop.
ExactStop ==
    HostWaits /\ Standstill => /\ sweeppos = goal
                               /\ \A i \in Cells : sweepmap[i] = Empty

\* The same host, keeping its targets off the two ends, never makes planner
\* or interrupt touch memory outside sweepmap, which neither of them checks.
InsideMap == HostWaits => ~stray

TickAt == {i \in 1..Len(events) : events[i].evtype = "TICK"}

\* Unless a push was overtaken, a TICK is on its way exactly while the state
\* machine waits for one: Park's TickCallback is neither lost nor doubled.
TickToken ==
    ~raced =>
      Cardinality(TickAt) + (IF pc = "push" /\ pushed = TickEvt THEN 1 ELSE 0)
        = IF /\ fsm \in {"ColdStart", "setParked"}
             /\ pc \notin {"clear", "homePtr", "homePos"} THEN 1 ELSE 0

\* With no command arriving and no scan running the motor comes to rest: each
\* pulse uses up a cell, stale cells of an overridden move included.
MotionEnds ==
    <>[](pc # "push" /\ ~sweepjob_enabled) => <>[](AtRest \/ ~enable \/ stray)

\* With a host that waits, a target once planned is reached.
GotoArrives ==
    \A p \in 0..(2 * Home) : (goal = p) ~> (sweeppos = p \/ goal # p \/ stray)

\* sweep.sm gives setParked a TickCallback on entry and `Tick Idle' as its way
\* out: once the queue has been served, the driver no longer waits in it.
ParkSettles == pc = "mail" /\ events = <<>> => fsm # "setParked"

\* sweep.sm leaves searchOut by JobDone, to setParked or searching on.
SearchGoesOn == fsm = "searchOut" ~> (fsm # "searchOut" \/ pc = "dead" \/ stray)
=============================================================================
