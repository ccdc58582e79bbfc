# A TLA+ verification project for the LGT8 firmware

LGT8 is the firmware of a lapping and polishing machine: a Kinetis K64F drives a
plate motor (servo), a swinging arm (sweep), a few auxiliary outputs (monitor) and
talks to a tablet over Ethernet.  There is no operating system.  One endless loop
in `main()` is interrupted by timer, tachometer, A/D and Ethernet handlers that
work on the same objects, and **nothing in the program masks interrupts**.  What is
hard about this code is therefore almost always the same question: what happens if
a handler runs between these two statements?  The modules here ask it.

## 1. Inventory

### Contexts

| context | priority | runs |
|---|---|---|
| main loop (`main.cpp:583-647`) | lowest | `serviceEthernet` (lwIP's timers, which never expire as built), `verifymail`, `serviceEvents` of the objects, `ctrl_state` |
| ENET interrupt (`ethernetif.c:372`, 6) | middle | lwIP input, TCP callbacks of `httpd.c`, `ethergate` |
| PIT (200 us), tachometer, ADC interrupts | 0, highest | `serviceBoard` of the objects, alarms, `serviceTach`, the ADC flag |

The priority 0 handlers do not preempt each other: each is one action in every
module.  ENET and the main loop advance one access to shared state at a time.

### Components

| component | state | operations | interacts with | hard about it | correct if |
|---|---|---|---|---|---|
| Sweep (`Sweep/`) | `sweepmap` (one pulse gap per step), `sweepmapptr`, `sweeppos`, flags, scan parameters, event queue, SMC state | PARK, GOTO, SCAN, ENABLE, DIR, PULSE; `serviceBoard` | PIT consumes the map while the main loop writes it | interleaving; undefined SMC transitions; no bounds check | moves end at their target, pointer and position agree, Park clears, parking settles |
| Kernel (`main.cpp`) | `postoffice`, `mainevents`, alarms, `ctrl_state`, ADC flag | `verifymail`, `setAlarm`, the control states, `ethergate` dispatch | every object; ENET and PIT push into the post office, PIT and the main loop into Sweep's queue | colliding pushes, payload ownership, counter overflow | messages are neither lost nor doubled, sampling goes on, alarms fire |
| Event queues (`std::queue`) | cursors and slots of a deque | push, front, pop | all contexts | push is not atomic | (abstract specification below) |
| Servo (`Servo/`) | `request_pwm0`, `present_pwm0`, `servo_setpoint`, `tachbuffer` and index, PID state, queue | SERVO_ENABLE, SETPWM, SETSPEED; speed loop; tach pulses | PIT and tachometer against the main loop | order of two stores, an index that is one late | motor capped, a command is not overridden |
| Status stream (`main.cpp`, `antares.h`) | `statusvals`, `statusflags`, `status_stream` | `storeMonitorSlot/Flag`, `initStatus`, callback request | stored by main loop and PIT, copied by ENET | test-then-write, fixed-width text | the stream shows what is stored |
| Monitor (`Monitor/`) | drum, vacuum, WG20 direction and speed | five commands | main loop only; stores status items | `setDrum` toggles its pin; MON_RESET leaves the reported speed | the reports say what the outputs do |
| Logger (`main.cpp:237-312`) | `logbuffer`, `logbufferptr` | `logMessage`, `logStringnl`, `printLog` | written in the main loop and in ENET | no bound, no mutual exclusion | every line is shown whole, once, in order |
| Command server (`httpd.c:1198-1446`) | `echo_state` per connection, pbuf chain | accept, recv, sent, poll, error, close | lwIP callbacks, `ethergate` | reference counts, deferred sends, timers that do not run | each chunk answered once, in order; commands executed; buffers returned |
| HTTP server (`httpd.c:351-1196`) | `http_state`, file position, retries | request assembly, send, poll, close | lwIP callbacks | short writes, retries, partial requests | pages arrive whole |
| lwIP TCP (`lwip/src/core/tcp*.c`) | a pcb: state, sequence numbers, windows, queues | input, output, timers, the calls of a server | the servers' callbacks | lost, repeated, reordered segments; memory; closing from inside a callback | (what the servers rely on) |
| Ethernet port (`lwip/port`, `fsl_enet.c`) | descriptor ring, pbuf pool, time base | receive interrupt, `sys_now` | MAC and lwIP | the MAC fills the ring while it is drained | no frame is lost or left behind, none out of order |

Not considered further: the rest of lwIP, Kinetis drivers, CMSIS, debug console and
startup code, the SMC runtime (`statemap.h`; its effect is inside Sweep and Servo),
pin and clock set-up, the board design files.

## 2. Modules

| module | models | run by |
|---|---|---|
| `EventQueue` | operators: what a queue push leaves behind if another context pushes in the middle of it | |
| `RaceQueue` | abstract specification: a queue shared by two priorities | |
| `DequeRace` | loads and stores of libstdc++'s deque; implements `RaceQueue` | `MCParts` |
| `Sweep` | `sweep.cpp`, `sweep_sm.cpp` | `MCSweep` |
| `Kernel` | `main.cpp` without status and log | `MCKernel` |
| `Servo` | `Servo.cpp`, `servo_sm.cpp`, `setPWM` of `board.c` | `MCServo` |
| `Status` | the status stream | `MCParts` |
| `Logger` | log buffer and console | `MCParts` |
| `Monitor` | `Monitor.cpp` | `MCParts` |
| `Receive` | the Ethernet receive interrupt and its descriptor ring | `MCEthernet` |
| `Connection` | one TCP connection of lwIP, the host and the wire | |
| `EchoServer` | the command server on a `Connection` | `MCEthernet`, `MCNetwork` |
| `HttpServer` | the page server on a `Connection` | `MCEthernet`, `MCNetwork` |
| `CommonProofs` | lemmas about `EventQueue`; induction over the naturals | |
| `SweepProofs`, `ServoProofs`, `KernelProofs`, `DequeProofs`, `ReceiveProofs` | theorems about the module of that name | |
| `ReportProofs` | theorems about `Status`, `Monitor` and `Logger` | |
| `NetworkProofs` | theorems about `EchoServer` and `HttpServer`, with lemmas about `Connection` | |

`MCParts` puts four components that share nothing into one state space: the initial
state chooses one and the others stand still, so that it is their sum and not their
product.  `MCNetwork` does the same with the two servers (a connection keeps its port),
and `MCEthernet` with the servers and the receive interrupt.

Variables keep the names of the C++ members.  Variables marked *not in the code*
record history for a property (what was asked for, whether two pushes collided);
no guard of a modelled handler depends on them, with one exception: `stray` in
Sweep, below.  Definitions whose names begin with `Mut` are deliberately wrong
versions of the definition that follows them; they are used to confirm that each
property notices such a mistake.

### How state and actions correspond to the code

**Sweep.** `TickIdle`, `TickPulse` and `TickStray` are `serviceBoard`.  The main
loop's `pc` names the place in the handler: `slide`, `dir` and `fill` are the
loop of `Slide`, `clear`, `homePtr` and `homePos` the three statements of `Park`
and the entry of setParked, `isParked`, `isInside` and `isOutside` the guards of
the SMC transitions, each of which reads the sensors anew, `push` a push that an
interrupt may overtake.  Addresses are indices.  Once an index has left the map
the program works on memory that is not the driver's, so the model records
`stray` and the ticks stop; the properties say where they depend on that.  An event
of the queue is a type and a payload, the two fields that are read; `CmdTorn` is a
torn entry whose payload is no message, and again `stray`.

**Kernel.** `Pit` is the whole timer handler as far as the kernel is concerned:
the SWEEPJOB that `sweep->serviceBoard()` may push into Sweep's queue
(`BoardPush`), counter and alarm 0 (the other alarms are never armed).  `Ethergate`
and `EthergatePush` are a message that is not a callback request; `epc` is the ENET
context.  `MailFront`, `SweepPush`, `MailPop` and `MailEmpty` are `verifymail`: a
message for Sweep is appended in two steps, because the timer pushes into that
queue as well.  `Serve` is the objects' loops; a handler of Sweep may push a TICK or a
SWEEPJOB into its own queue (`HandlerPush`, `HandlerPushed`, `HandlerReturns`), and
its state machine may meet an undefined transition, whose exception nobody catches:
the main loop is over (`Undefined`, `pc` = "dead") and the interrupts go on.  When
the timer or a handler pushes, and when a transition is undefined, is decided in
Sweep; here each is possible whenever the code at that place can do it.  `Ctrl...` are
the cases of the switch.  The payloads in `live` are those allocated and not deleted.

**Servo.** `PitCount` and `PitLoop` are the two branches of `serviceBoard`, both
starting with the PWM copy.  Handlers that store twice have two actions, so that
a tick may fall in between.  `ServiceTach` contains the store of the fifth
pulse, which lands in the word that holds the index itself: both orders in which
a compiler may emit the two stores are allowed.  The result of the PID and its
polynomial is any number, clamped as in the code.

**Status.** A store sets the value and then writes characters (`todo`) one by
one; the PIT stores all its items at once; `CopyChar` is the copy into the answer.
Numbers are texts of `Width - 1` characters and a comma, with a sign in front if
negative, of which `Width` characters are copied.  The size that the answer
announces (127, `main.cpp:408`) is less than the stream's 134 characters and less than
the 150 that are copied; it is not modelled, and the report is what a host finds that
reads up to the terminator.

**EventQueue, RaceQueue, DequeRace.** The library is not part of the repository.
`DequeRace` spells out a push: the address of the slot, the stores of the event's
members in whatever order the compiler copies them, the load and the store of
`finish.cur`, interrupted anywhere by complete pushes.  An event may so be torn
between two pushes.  `RaceQueue` has two actions and takes its outcomes from
`EventQueue`, whose operators Sweep and Kernel use as well.  The refinement is what
makes them trustworthy: a list of outcomes written down by hand first missed the case
in which one overtaking push comes before the store and another after the load.  The
mapping (`Abstract` in `DequeRace`, `INSTANCE RaceQueue WITH`) reads the abstract
queue out of the memory (`Content`), but for the one slot that an overtaken push is
still working on: that belongs to what overtook it (`held`) until the push is over.

The slots are those of one node of the deque.  At every 42nd event (512 bytes of
twelve) a push starts another node: it allocates, and stores more than one cursor.
That step, and the heap it shares with `ethergate`'s `new` and the handlers' `delete`
without any lock, are not modelled: the outcomes of `EventQueue` are those inside a
node and are not claimed for a collision at its end.

**Logger.** `lpc` is the place in `logMessage` (text, load, add), `logStringnl` (put,
inc, bump) or `printLog` (char, test, tail, reset).  `logbufferptr += printed` and
`logbufferptr++` are a load and a store, as the build (-O0) makes them.  `EnetLog` is
a whole `logMessage`, since the main loop cannot run inside the interrupt.  A line is
a number with a length.  The do-while of `printLog` also sends the character at the
pointer itself: the terminator behind `logMessage`, a character of some earlier line
behind `logStringnl`, which writes no terminator.  `console` has what is sent from
before the pointer and `extra` those further characters with their places.  Nothing in
the code keeps the log inside its buffer; the model has the behaviours in which each
line fits behind the pointer and behind a line already begun (`LogFits`).

**Monitor.** One action per command.  `pin` and `wgduty` are what the hardware has,
`flag` and `speed` what the status stream reports.  `sscanf` leaves the number as it
was if there is none, and the low byte of one that does not fit.

**Receive.** `MacBegin` and `MacEnd` are the MAC's DMA, which runs at any time: it
reads a descriptor's flag when a frame begins and stores flags at its end, one
descriptor to a frame.  The interrupt advances by single accesses to the ring.
`SkipFrame` is `ENET_ReadFrame` without a buffer, which follows an error and, in this
code, an empty descriptor as well (`ethernetif.c:319-328`): it walks to the end of a
frame or once around.  `ClearFlags` and `SetEmpty` are the two stores with which
`ENET_UpdateReadBuffers` gives a descriptor back.  The kinds of frame are IP or
ARP, other types, and frames with a receive error.  `PassUp` leaves open whether lwIP
frees the pbuf or keeps it; `discarded` records frames given back unread.

**Connection.** `conn` is the pcb.  A segment is one step with all its callbacks: it
is handled in the ENET interrupt, and lwIP's timers, which are called from the main
loop (`httpd.c:1563-1566`) without any lock (`SYS_LIGHTWEIGHT_PROT` is 0,
`lwipopts.h:44`), cannot interrupt it.  They could be interrupted themselves, but in
the firmware as it is built they never expire.  With `ClockRuns` TRUE the model lets
them expire, each in one step: more behaviours than the built firmware has, so what is
an invariant there is one of the firmware, but not all behaviours that a repaired clock
would bring, since a segment inside a timer is not among them.  The operators named `tcp_...`
map a pcb to a pcb; the servers' callbacks do the same and are passed to `Arrive`
and `SlowTimer` as operators.  A chunk is the data of one segment in one pbuf, so
that `TCP_WND` and `TCP_SND_BUF` are 2 as in `lwipopts.h:132,139` (out-of-order
segments are dropped: `TCP_QUEUE_OOSEQ` is 0).  Segments towards the device are never
used up: whatever the host has sent may arrive again, late or in any order, with any
acknowledgement the host can have given.  Segments of the device are in `down` until
they arrive or are lost; a busy transmitter (`ENET_SendFrame`) is a lost segment.
`room` is how many allocations the handler at work still gets.  `ClockRuns` says
whether `sys_now()` advances.

**EchoServer, HttpServer.** One operator per callback, named as in `httpd.c`;
`echo_recv` and `http_recv` with a null pbuf are `echo_closed` and `http_closed`.
`Chop` is the reference counting of `pbuf_ref` and the loop of `pbuf_free` in
`echo_send`.  A request is the number of chunks it takes and what it asks for.

## 3. Runs

| run | instance | shows |
|---|---|---|
| `sweep_patient` | 6 cells, bytes 0..3, any target off the ends | `ExactStop`, `InsideMap`, `GotoArrives`: with a host that waits for standstill every move, search step and Park ends exactly where it should |
| `sweep_free` | 4 cells, bytes 0..2, impatient host | `ClearedStaysClear`, `MotionEnds` |
| `sweep_scan` | 4 cells, scans and Park, colliding pushes | `PosTracksPtr`, `FrontHeld`, `TickToken` |
| `sweep_search` (violation) | Park away from home | `SearchGoesOn` fails: the JobDone push is commented out |
| `sweep_park_lost` (violation) | as `sweep_scan` | `ParkSettles` fails: a SWEEPJOB pushed inside `TickCallback`'s push destroys the TICK |
| `kernel_mail` | counter modulo 6, interval 2, two messages to nobody, MAIN or SWEEP, one SWEEPJOB of the timer in a pass, with fairness; explored until a push is overtaken | `Conservation`, `InOrder`, `NoDangling`; `EveryMessageServed` |
| `kernel_live` | one message to MAIN, with fairness, overtaken pushes included | `OneConversion`, `AlarmNear`, `SamplingGoesOn`, `ArmedAlarmFires` |
| `servo` | bytes 0..6, cap 4, buffer of 2, period 1, with fairness | `DutyCapped`, `RequestHolds`, `DisableHolds`, `RequestApplied`, and in `TypeOK` that pulses stay inside the index word |
| `parts` | two numbers of three characters, two flags; four log lines in five characters; four deque slots, events of two types and two payloads; bytes 0..7 | `StreamShows`, `ReportWhole`; `LogWhole`, `EveryLineShown`; `ImplementsRaceQueue`; `OutputsAsReported` |
| `network` | three descriptors, a pool of two, five frames; window of 3, send buffer of 2, four chunks, one lost segment, two failed handlers, pages of 3 chunks, timers that expire | `FramesAccounted`, `OrderedUntilDiscard`; `EchoInOrder`, `BuffersHeld`, `CommandsExecuted`, `OrderlyClose`; `HttpWhole` |
| `clock_dead` (violation) | window of 2, three chunks, fairness, and `ClockRuns` false, as the firmware is built | `EchoReturns` fails: `sys_now()` never advances, so what was deferred to poll or lost is not sent again |
| `http_close` (violation) | the same instance | `PcbStays` fails: `tcp_close` frees the pcb inside a callback if the end of the request carried the FIN |

**Bounds.** `MaxEvents`, `MaxMsgs` and `MaxPost` bound queue lengths; two events
are enough for a push to be overtaken, for an event to be stale and for an order
to be wrong.  `MaxPost` delays a tick that would add another alarm: the real
timer does not wait, but the loop serves events far faster than the 20 ms an
alarm takes.  `MaxJobs` bounds the SWEEPJOBs the timer pushes in one pass of the main
loop; one may fall anywhere into a push of the loop.  After a collision the
properties about messages say nothing, so `kernel_mail` explores no further
(`Unraced`); `kernel_live` does, and the theorems are about all behaviours.  Map, bytes, counter and slots are scaled down so that every edge
(first and last cell, the wrap of a byte and of the counter, the last slot of the
buffer) is a few steps away; the theorems hold for the real sizes.  In Sweep a
deadlock is the end of the program (the uncaught exception of an undefined
transition) or of the model (`stray`), and in DequeRace the end of the slots;
these runs do not check for deadlock.  Neither do the kernel's, where the program may
end and the timer is bounded, nor `parts` and `network`, where the bounded
host or MAC falls silent, the pool runs dry and a connection ends for good.  `servo`
checks for deadlock.  In the network run two failing handlers and one lost segment are
enough for each retry to be needed, and to fail, once; four chunks let one be answered
while two wait and one arrives.  The page is longer than the send buffer.

**Fairness.** The timer runs, conversions end, interrupts return and the main loop
never blocks, so weak fairness of the interrupts and of the main loop's steps is
what the hardware gives.  Hosts owe nothing: no fairness on their messages.
On the network, fairness matters to `clock_dead` only: what the host has sent and
acknowledged arrives in the end (the host repeats it), what the device sends again and
again arrives in the end, a handler that is tried again and again is not out of memory
for ever, and the timers tick if the clock runs - which it does not.  No liveness of a
connection is claimed of the firmware: every retry of lwIP and of both servers hangs on
those timers.

**What the properties do not say.** `ExactStop` and `InsideMap` are for the
patient host; without it the end of a move is off by the steps made between the
two reads of the position (`sweep.cpp:301,328`), an interleaving that no property
catches, and stale cells of an abandoned move are walked through.  `Conservation`,
`InOrder`, `NoDangling`, `EveryMessageServed` and `TickToken` hold until two pushes
collide (`raced`), in the post office or in Sweep's queue; after a collision events may
be lost, torn, doubled or stale, and `ImplementsRaceQueue` says how, inside a node of the
deque.  `EveryMessageServed` and `ArmedAlarmFires` exempt the end of the program by an
undefined transition.  `AlarmNear` and `ArmedAlarmFires` are about armed alarms: an alarm
that is computed as 0xffffffff, once in 2^32 ticks, counts as switched off, and
`SamplingGoesOn` has two exemptions, that alarm (`AlarmLost`: sampling then stops for
good) and the end of the program.  `TypeOK` of Servo accepts the store of the fifth
pulse over the index word and excludes stores beyond it.  `DisableHolds` exempts a
run of the speed loop between the two stores of SERVO_ENABLE 0
(`Servo.cpp:84-85`), after which the disabled motor keeps its PWM.  `RequestApplied`
exempts the value 1, which the constructor puts into both bytes without setting the
hardware.  `StreamShows` is about the characters `memcpy` takes and exempts an item both
contexts stored at once: it may show the older text until its value changes again.  `LogWhole` exempts an interrupt inside another line and between the last
character and the reset, and says of the character sent from the pointer itself where
it comes, not what it is.  `OutputsAsReported` exempts the time after MON_RESET, which
leaves the reported speed, and the speeds over 100.  `OrderedUntilDiscard` ends with the first frame discarded,
`FramesAccounted` does not.  `CommandsExecuted` promises execution only to a host that
waits for its answers (and never of the first chunk, which opens the dialogue);
`BuffersHeld` exempts the chain `echo_error` leaves behind.

**Where the code departs from its comments and logs.**  The four violations of the table
are such places.  Five more are in the models as the code has them, and the properties
are worded around them:

* `ethernetif.c:319-328` takes the branch "Update the received buffer when error happened"
  also for an empty descriptor: `ENET_ReadFrame` with no buffer walks the ring to the end of
  a frame, or once around, and gives every descriptor on the way back to the MAC.  A frame
  the MAC has stored since the look is discarded, although `:268` says "Read all data from
  ring buffer".
* When that walk meets a frame, the driver stops behind it while the MAC goes on
  elsewhere: a later frame can wait in the ring with no event pending.
* `antares.h:202` lays the stream out with a comma behind every number.  A negative one is
  twelve characters long, `storeMonitorSlot` copies eleven (`main.cpp:450`): the comma is
  cut off and the number runs into the next one.
* `Monitor.cpp:91` logs "Drum activated", but `setDrum` toggles the pin whatever it was
  asked for (`:168`); the lines that would set it (`:170-175`) are commented out.  From the
  start, and after two equal commands, report and drum disagree.
* `Monitor.cpp:117,149` log and report a WG20 speed over 100 as it is, and 100 is applied
  (`fsl_ftm.h:437`).

## 4. Proofs

Every safety property a passing run checks is also a theorem: TLAPS proves it for all
values of the constants that satisfy the named assumptions, and with it the refinement
`DequeRace => RaceQueue`.

* `CommonProofs`.  `PushKeepsQueue`: an overtaken push leaves a non-empty queue of
  events whatever happened, torn ones among them.  `NatSetInduction`: a set that contains 0 and with n also
  n + 1 contains every natural number.  It is what the two inductions over data in
  this project use: along a chain of pbufs, and along the sequences that `FlattenSeq`
  puts together.
* `SweepProofs`: `TypeCorrect` (`TypeOK`), `PositionTracked` (`PosTracksPtr`),
  `ParkClears` (`ClearedStaysClear`), `ServedEventHeld` (`FrontHeld`).  Assumptions:
  `SweepAssumption` (positive sizes, commands are messages).  The inductive invariant is
  `TypeOK /\ FrontHeld /\ ClearedStaysClear /\ PosTracksPtr`.  Pointer and position
  are updated together by the interrupt but one after the other by Park, so the
  second needs the first: between Park's two stores a tick must not move the arm,
  which holds because the map is clear from the moment the loop has passed.
  `FrontHeld` is needed for the types: a handler reads the front of a queue that
  the interrupt pushes into.
  `TickNeitherLostNorDoubled` (`TickToken`) adds an invariant that counts the TICKs:
  in the queue, about to be pushed, or being served.
  `MovesAreExact` (`ExactStop`) and `MovesStayInside` (`InsideMap`) have a hypothesis,
  `PatientHost`: if the host waits, home is not the first cell, the targets of GOTO are
  off the two ends of the map and no scan is started.  `SweepPatient.cfg` is such an
  instance; Section 3 says what happens without it.  The invariant `Plan` says that the
  cells between pointer and goal are planned and no others, in each phase of `Slide`:
  the interrupt consumes one end of the plan while the loop still writes the other.
* `ServoProofs`: `TypeCorrect` (`TypeOK`, with the containment of the
  tachometer's stores), `MotorCapped` (`DutyCapped`), `ManualHolds`
  (`RequestHolds`), `DisabledStaysOff` (`DisableHolds`).  Assumptions:
  `ServoAssumption` (cap and ceiling fit the byte, the byte exceeds the buffer
  length, an unreadable text is not a number).  `RequestHolds` is not inductive:
  it needs `LoopIsOff` (the setpoint is 0 while and after a command that switches
  the loop off), `Midway` (a handler between its stores still has its event) and
  `Left` (what such a handler has already stored).
* `KernelProofs`: `TypeCorrect`, `ConversionsDoNotOverlap` (`OneConversion`),
  `AlarmStaysNear` (`AlarmNear`), `MessagesConserved` (`Conservation`), `ServedInOrder`
  (`InOrder`), `NothingDangles` (`NoDangling`), all from `KernelInvariant`.  Assumptions:
  `KernelAssumption` (the interval is positive and smaller than the counter's last
  value).  One part of the invariant holds always, the other (`Calm`) until two pushes
  collide.  Order is the strongest: messages are numbered as they arrive, numbers rise
  along each queue, and everything handed over is older than what is still in the post
  office (`Flow`, `Older`).  Sweep's queue holds its own events between the messages, and
  its entries come from two contexts, so order and counting go by the entries with a
  payload.  Each step of the kernel is one of a few moves of a message (`Move`: posted,
  handed over, served, ...), and what a move does to the queues is shown once for all
  steps that make it.  That a message is in exactly one place follows from counting
  its occurrences, that none dangles from `Alive`.
* `DequeProofs`: `DequeImplementsRaceQueue` (`ImplementsRaceQueue`), for any number of
  slots, event types and payloads.  The invariant `Memory` says what the slot of a push
  on its way holds: word by word the pushed event or what overtook it.  From it every
  outcome in `PushOutcomes`, and no other, comes.
* `ReceiveProofs`: `AllFramesAccounted` (`FramesAccounted`) and
  `FramesInOrderUntilDiscard` (`OrderedUntilDiscard`), for every length of ring, pool
  and traffic.  The first part of the invariant holds whatever is discarded: each frame
  is in one place (`OnePlace`, `Accounted`) and each pbuf is counted, although driver and
  MAC may have parted in the ring.  The second holds until a frame is discarded or bound
  to be (`Doomed`: the walk has met one).  `RingShape`: the filled descriptors are those
  from the oldest frame's to the MAC's, going round.  `Quiet`: from its last look at the
  ring on, the interrupt relies on EIR.
* `ReportProofs`.  Status: `StreamIsRight` (`StreamShows`), `ReportIsWhole`
  (`ReportWhole`), `StatusTypeCorrect`, for every layout and width; the spans of two
  items never share a character, so a store and a copy can be followed item by item
  (`Progress`, `Copying`).  Monitor: `OutputsReported`
  (`OutputsAsReported`); with the types it is inductive.  Logger: `LogIsWhole`
  (`LogWhole`) and `LogTypeCorrect` (`LogTypeOK`).  The first needs to know what a line
  that is being logged has already left in the buffer (`Inside`) and that the further
  character of each `printLog` has whole lines before it (`Parted`).  The second holds
  wherever the interrupt falls, because each line had room behind the pointer and behind
  a line begun when it was logged (`LogRoom`, from `LogFits`); nothing bounds the sum of
  all lines.
* `NetworkProofs`: `EchoesAreInOrder`, `BuffersAreHeld`, `CommandsAreExecuted`,
  `ClosesAreOrderly` from `EchoInvariant`; `PagesAreWhole` from `HttpInvariant`.  For
  every window, send buffer, number of chunks, losses and failing allocations, with and
  without a clock (`ConnectionAssumption`, `HttpAssumption`).  A callback is an operator
  on pcbs: each has a lemma that says what it keeps, and a segment or a tick is put
  together from them.  For the command server chain, reference counts, window and send
  buffer have to be kept together: `echo_send` gives back to the window exactly what it
  frees, so at the close the whole window is free and `tcp_close` sends a FIN.

Only model-checked: the liveness properties `GotoArrives`, `MotionEnds`,
`EveryMessageServed`, `SamplingGoesOn`, `ArmedAlarmFires`, `RequestApplied` and
`EveryLineShown` - fairness and `ENABLED` are out of the prover's reach - and the four
violations, which are counterexamples and need no proof.

## 5. Not modelled

* Congestion control and the host's window: output is never limited by either.  With
  less window than send buffer, LAST_ACK may end before everything is sent
  (`tcp_in.c:781` compares with what was sent, not with what is queued).
* IP, ARP, fragments, other protocols of lwIP; a frame is IP or not.  Frames longer
  than a pool buffer of 600 bytes (`ethernetif.c:289` copies them into the first
  buffer of a chain) are outside the model.
* Two connections at once, except as the loss of one to the other's priority; what
  ethergate does with a command is in Kernel and Status, not in EchoServer.
* Kinetis drivers other than the receive path, CMSIS, debug console, startup: register
  accesses.  The SMC runtime, as far as it has an effect, is inside Sweep and Servo.
* The end of a node in the deques under the event queues, and the heap: `operator new`
  and `delete` run in ENET and in the main loop, and at the end of a node in every
  context that pushes, without a lock.
* A segment that arrives inside one of lwIP's timers, which as built never expire.
* The CGI handlers of the page server (`httpd.c:1448,1464,1510`): they switch outputs
  and name the page to send.
* The size an answer to a callback request announces (`main.cpp:408`).
* Stores past an object: `logbuffer` without a bound (`main.cpp:253`; the model has the
  behaviours in which each line fits), `sscanf` of an int into a byte
  (`Monitor.cpp:115`; the model keeps the low byte).
* Buffers the page server forgets (data during a page, `httpd.c:1069`, and half a request
  at the close): counted as `leaked`, no property excludes them.
* Boot: all modules start when `main()` has set up its objects.

Measured against the whole repository the code that is modelled is a small part,
because vendored libraries make up nearly all of it.

## 6. Plan

The planned models and proofs are done.  What may still be added:

1. The steps behind the liveness properties that are safety facts themselves, such as
   that a handler's remaining work never grows (`Slide`, `printLog`, `verifymail`).
2. What holds of Kernel and Sweep after two pushes have collided.
