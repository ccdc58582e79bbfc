------------------------------- MODULE Kernel ------------------------------
(***************************************************************************)
(* The kernel of the firmware (source/main.cpp): the post office, the      *)
(* alarm timers, the A/D sampling and the main loop, run by                *)
(*   - the main loop, preempted by                                         *)
(*   - the ENET interrupt (priority 6), which ends in ethergate, and by    *)
(*   - the PIT and ADC interrupts (priority 0), which also preempt it.     *)
(* The two priority 0 handlers are one action each; ethergate and the main *)
(* loop advance step by step.  What the objects do with a message belongs  *)
(* to their own modules; here it is served, and its payload freed.  Sweep  *)
(* alone pushes into its own queue, in its handlers and from the PIT       *)
(* interrupt, and its state machine may end the program: when it does is   *)
(* decided in Sweep, here it always may.                                   *)
(***************************************************************************)
EXTENDS EventQueue, FiniteSets

CONSTANTS
    Wrap,        \* 2^32, the range of bspcounter
    Interval,    \* setAlarm's interval and reload: 100
    Dests,       \* the destination bytes hosts use; 1 to 4 name an object
    MaxMsgs,     \* bound of the model: messages a host sends
    MaxPost,     \* bound of the model: events waiting while another alarm fires
    MaxJobs      \* bound of the model: SWEEPJOBs the PIT pushes in one pass

ASSUME KernelAssumption ==
    /\ Wrap \in Nat /\ Interval \in Nat
    /\ 0 < Interval /\ Interval < Wrap - 1
    /\ Dests \subseteq 0..255
    /\ MaxMsgs \in Nat /\ MaxPost \in Nat /\ MaxJobs \in Nat

Never == Wrap - 1                      \* 0xffffffff, an alarm that is off
Obj == {"MAIN", "SWEEP", "SERVO", "MONITOR"}
MsgId == 1..MaxMsgs

\* Events carry the number of the message they point to, 0 for none (what the
\* sweep's own events point to is never used).  A push that is overtaken may
\* put any type and any payload together.
EthSig == <<"CTRL_ETH_SIG", "SWEEP_ETH_SIG", "SERVO_ETH_SIG", "MONITOR_ETH_SIG">>
EthSigs == {"CTRL_ETH_SIG", "SWEEP_ETH_SIG", "SERVO_ETH_SIG", "MONITOR_ETH_SIG"}
SweepSigs == {"SWEEP_ETH_SIG", "SWEEP_TICK_SIG", "SWEEP_SWEEPJOB_SIG"}
Event == [evtype : {"ALARM_SIG"} \cup EthSigs \cup SweepSigs, payload : 0..MaxMsgs]
AlarmEvt == [evtype |-> "ALARM_SIG", payload |-> 0]
TickEvt == [evtype |-> "SWEEP_TICK_SIG", payload |-> 0]
JobEvt == [evtype |-> "SWEEP_SWEEPJOB_SIG", payload |-> 0]

\* The calls of subscribe in main(), in their order.
subscriptions == << <<"MAIN", "CTRL_ETH_SIG">>, <<"MAIN", "ALARM_SIG">>,
                    <<"SWEEP", "SWEEP_ETH_SIG">>, <<"SERVO", "SERVO_ETH_SIG">>,
                    <<"MONITOR", "MONITOR_ETH_SIG">> >>

VARIABLES
    bspcounter, alarm, reload,     \* alarms[0] and reload[0]; 1..3 stay off
    postoffice,                    \* shared by all contexts
    inbox,                         \* mainevents and the objects' queues
    ctrl_state, event_temp,
    pc,                            \* the main loop
    mpushed, mat, jobs,            \* its push into Sweep's queue; SWEEPJOBs in a pass
    epc, epushed, eat,             \* the ENET interrupt and its push
    adcflag,                       \* g_Adc16ConversionDoneFlag
    adcbusy,                       \* a conversion is running
    sent,                          \* not in the code: messages received so far
    live,                          \* payloads allocated and not deleted
    served,                        \* not in the code: message events, as served
    unaddressed,                   \* not in the code: messages to no object
    raced                          \* not in the code: a push was overtaken

timers == <<bspcounter, alarm, reload>>
enet   == <<epc, epushed, eat, sent>>
sweep  == <<mpushed, mat, jobs>>
adc    == <<adcflag, adcbusy>>
ghosts == <<served, unaddressed, raced>>
vars == <<timers, postoffice, inbox, ctrl_state, event_temp, pc, sweep,
          enet, adc, live, ghosts>>

\* main() up to its loop: the interrupts have just been enabled, and Sweep's
\* start() has left the TICK of ColdStart's entry.
Init ==
    /\ bspcounter = 0 /\ alarm = Never /\ reload = 0
    /\ postoffice = <<>>
    /\ inbox = [o \in Obj |-> IF o = "SWEEP" THEN <<TickEvt>> ELSE <<>>]
    /\ ctrl_state = "INIT" /\ event_temp = AlarmEvt
    /\ pc = "mail" /\ mpushed = AlarmEvt /\ mat = 0 /\ jobs = 0
    /\ epc = "off" /\ epushed = AlarmEvt /\ eat = 0 /\ sent = 0
    /\ adcflag = TRUE /\ adcbusy = FALSE
    /\ live = {} /\ served = <<>> /\ unaddressed = {} /\ raced = FALSE

-----------------------------------------------------------------------------
(* The PIT interrupt.                                                       *)

MutDue == alarm + 1 < bspcounter'      \* mutant: off by one
Due == alarm < bspcounter'

\* sweep->serviceBoard(): while the arm rests and a scan is on, a SWEEPJOB.
BoardPush ==
    \/ UNCHANGED <<inbox, jobs>>
    \/ /\ jobs < MaxJobs
       /\ jobs' = jobs + 1
       /\ inbox' = [inbox EXCEPT !["SWEEP"] = Append(@, JobEvt)]

MutPit ==                              \* mutant: the alarm is not set again
    /\ BoardPush
    /\ bspcounter' = (bspcounter + 1) % Wrap
    /\ IF Due THEN /\ pc # "reload"
                   /\ Len(postoffice) + Len(inbox["MAIN"]) < MaxPost
                   /\ postoffice' = Append(postoffice, AlarmEvt)
              ELSE UNCHANGED postoffice
    /\ UNCHANGED <<alarm, reload, ctrl_state, event_temp, pc, mpushed, mat, enet,
                   adc, live, ghosts>>

\* setAlarm stores the alarm and then its reload; the interval does not
\* elapse between the two instructions.
Pit ==
    /\ BoardPush
    /\ bspcounter' = (bspcounter + 1) % Wrap
    /\ IF Due THEN /\ pc # "reload"
                   /\ Len(postoffice) + Len(inbox["MAIN"]) < MaxPost
                   /\ postoffice' = Append(postoffice, AlarmEvt)
                   /\ alarm' = IF reload # 0 THEN (bspcounter' + reload) % Wrap
                                             ELSE Never
              ELSE UNCHANGED <<postoffice, alarm>>
    /\ UNCHANGED <<reload, ctrl_state, event_temp, pc, mpushed, mat, enet, adc,
                   live, ghosts>>

\* The ADC interrupt: only a running conversion raises it.
AdcDone ==
    /\ adcbusy
    /\ adcflag' = TRUE /\ adcbusy' = FALSE
    /\ UNCHANGED <<timers, postoffice, inbox, ctrl_state, event_temp, pc, sweep,
                   enet, live, ghosts>>

-----------------------------------------------------------------------------
(* The ENET interrupt: ethergate with a message that is not a callback      *)
(* request (Status models those).  The main loop stands still meanwhile.    *)

Ethergate ==
    /\ epc = "off"
    /\ sent < MaxMsgs
    /\ sent' = sent + 1
    /\ live' = live \cup {sent + 1}                 \* new antares_msg_struct_t
    /\ \E dest \in Dests :
         IF dest \in 1..4
           THEN /\ epushed' = [evtype |-> EthSig[dest], payload |-> sent + 1]
                /\ eat' = Len(postoffice)
                /\ epc' = "push"
                /\ UNCHANGED unaddressed
           ELSE /\ unaddressed' = unaddressed \cup {sent + 1}
                /\ UNCHANGED <<epc, epushed, eat>>   \* and nobody is told of it
    /\ UNCHANGED <<timers, postoffice, inbox, ctrl_state, event_temp, pc, sweep,
                   adc, served, raced>>

\* The types of the events that go through the post office.
PostSigs == {"ALARM_SIG"} \cup {EthSig[d] : d \in Dests \cap 1..4}

\* An unwritten slot holds an event of earlier: its payload may be deleted.
Stale(sigs) == [evtype : sigs, payload : 0..sent]

EthergatePush ==
    /\ epc = "push"
    /\ postoffice' \in PushOutcomes(postoffice, eat, epushed, Stale(PostSigs))
    /\ raced' = (raced \/ Overtaken(postoffice, eat))
    /\ epc' = "off" /\ epushed' = AlarmEvt /\ eat' = 0
    /\ UNCHANGED <<timers, inbox, ctrl_state, event_temp, pc, sweep, sent, adc,
                   live, served, unaddressed>>

-----------------------------------------------------------------------------
(* The main loop.                                                           *)

Running(p) == pc = p /\ epc = "off"

\* verifymail copies the front, hands it to every subscriber, then pops.
Subscribers(sig) ==
    {subscriptions[i][1] : i \in {j \in 1..Len(subscriptions) :
                                    subscriptions[j][2] = sig}}

MailFront ==
    /\ Running("mail")
    /\ postoffice # <<>>
    /\ LET evt == Head(postoffice) IN
       IF "SWEEP" \in Subscribers(evt.evtype)
         THEN /\ mpushed' = evt /\ mat' = Len(inbox["SWEEP"])
              /\ pc' = "spush"
              /\ UNCHANGED inbox
         ELSE /\ inbox' = [o \in Obj |-> IF o \in Subscribers(evt.evtype)
                                          THEN Append(inbox[o], evt) ELSE inbox[o]]
              /\ pc' = "popmail"
              /\ UNCHANGED <<mpushed, mat>>
    /\ UNCHANGED <<timers, postoffice, ctrl_state, event_temp, jobs, enet, adc,
                   live, ghosts>>

\* The main loop's push into Sweep's queue, which the PIT interrupt may overtake.
EndPush ==
    /\ \E q \in PushOutcomes(inbox["SWEEP"], mat, mpushed, Stale(SweepSigs)) :
         inbox' = [inbox EXCEPT !["SWEEP"] = q]
    /\ raced' = (raced \/ Overtaken(inbox["SWEEP"], mat))
    /\ mpushed' = AlarmEvt /\ mat' = 0

SweepPush ==
    /\ Running("spush")
    /\ EndPush
    /\ pc' = "popmail"
    /\ UNCHANGED <<timers, postoffice, ctrl_state, event_temp, jobs, enet, adc,
                   live, served, unaddressed>>

MutMailPopFree ==      \* mutant: the post office deletes what it delivered
    /\ Running("popmail")
    /\ postoffice' = Tail(postoffice)
    /\ live' = live \ {Head(postoffice).payload}
    /\ pc' = "mail"
    /\ UNCHANGED <<timers, inbox, ctrl_state, event_temp, sweep, enet, adc, ghosts>>

MutMailPop ==          \* mutant: the post office is emptied, not popped
    /\ Running("popmail")
    /\ postoffice' = <<>>
    /\ pc' = "mail"
    /\ UNCHANGED <<timers, inbox, ctrl_state, event_temp, sweep, enet, adc, live,
                   ghosts>>

MailPop ==
    /\ Running("popmail")
    /\ postoffice' = Tail(postoffice)
    /\ pc' = "mail"
    /\ UNCHANGED <<timers, inbox, ctrl_state, event_temp, sweep, enet, adc, live,
                   ghosts>>

MailEmpty ==
    /\ Running("mail")
    /\ postoffice = <<>>
    /\ pc' = "SWEEP" /\ jobs' = 0
    /\ UNCHANGED <<timers, postoffice, inbox, ctrl_state, event_temp, mpushed, mat,
                   enet, adc, live, ghosts>>

After(p) == CASE p = "SWEEP" -> "SERVO" [] p = "SERVO" -> "MONITOR"
              [] p = "MONITOR" -> "ctrl"

\* A message's payload is deleted when it has been served; Sweep's own events
\* have none to delete.
Serves(evt) ==
    IF evt.evtype \in EthSigs
      THEN /\ served' = Append(served, evt)
           /\ live' = live \ {evt.payload}
      ELSE UNCHANGED <<served, live>>

MutServe ==            \* mutant: the newest event first
    /\ pc \in Obj /\ epc = "off"
    /\ IF inbox[pc] # <<>>
         THEN LET n == Len(inbox[pc]) IN
              /\ inbox' = [inbox EXCEPT ![pc] = SubSeq(@, 1, n - 1)]
              /\ Serves(inbox[pc][n])
              /\ UNCHANGED pc
         ELSE pc' = After(pc) /\ UNCHANGED <<inbox, served, live>>
    /\ UNCHANGED <<timers, postoffice, ctrl_state, event_temp, sweep, enet, adc,
                   unaddressed, raced>>

\* serviceEvents of an object: serve and pop until the queue is empty.
Serve ==
    /\ pc \in Obj /\ epc = "off"
    /\ IF inbox[pc] # <<>>
         THEN /\ inbox' = [inbox EXCEPT ![pc] = Tail(@)]
              /\ Serves(Head(inbox[pc]))
              /\ UNCHANGED pc
         ELSE pc' = After(pc) /\ UNCHANGED <<inbox, served, live>>
    /\ UNCHANGED <<timers, postoffice, ctrl_state, event_temp, sweep, enet, adc,
                   unaddressed, raced>>

\* Or a message makes Sweep push the TICK that leaves setParked, or the SWEEPJOB
\* that begins a scan, while the message itself still stands at the front.
HandlerPush ==
    /\ Running("SWEEP")
    /\ inbox["SWEEP"] # <<>> /\ Head(inbox["SWEEP"]).evtype = "SWEEP_ETH_SIG"
    /\ mpushed' \in {TickEvt, JobEvt} /\ mat' = Len(inbox["SWEEP"])
    /\ pc' = "own"
    /\ UNCHANGED <<timers, postoffice, inbox, ctrl_state, event_temp, jobs, enet,
                   adc, live, ghosts>>

HandlerPushed ==
    /\ Running("own")
    /\ EndPush
    /\ pc' = "handled"
    /\ UNCHANGED <<timers, postoffice, ctrl_state, event_temp, jobs, enet, adc,
                   live, served, unaddressed>>

HandlerReturns ==
    /\ Running("handled")
    /\ inbox' = [inbox EXCEPT !["SWEEP"] = Tail(@)]
    /\ Serves(Head(inbox["SWEEP"]))
    /\ pc' = "SWEEP"
    /\ UNCHANGED <<timers, postoffice, ctrl_state, event_temp, sweep, enet, adc,
                   unaddressed, raced>>

\* Or Sweep's state machine has no transition for a PARK or a TICK: nobody
\* catches TransitionUndefinedException, and the main loop is over.
Undefined ==
    /\ Running("SWEEP")
    /\ inbox["SWEEP"] # <<>>
    /\ Head(inbox["SWEEP"]).evtype \in {"SWEEP_ETH_SIG", "SWEEP_TICK_SIG"}
    /\ pc' = "dead"
    /\ UNCHANGED <<timers, postoffice, inbox, ctrl_state, event_temp, sweep, enet,
                   adc, live, ghosts>>

CtrlInit ==            \* setAlarm (0, 100, 100)
    /\ Running("ctrl") /\ ctrl_state = "INIT"
    /\ alarm' = (bspcounter + Interval) % Wrap
    /\ pc' = "reload"
    /\ UNCHANGED <<bspcounter, reload, postoffice, inbox, ctrl_state, event_temp,
                   sweep, enet, adc, live, ghosts>>

CtrlReload ==
    /\ Running("reload")
    /\ reload' = Interval
    /\ ctrl_state' = "IDLE"
    /\ pc' = "mail"
    /\ UNCHANGED <<bspcounter, alarm, postoffice, inbox, event_temp, sweep, enet,
                   adc, live, ghosts>>

MutCtrlIdle ==         \* mutant: a CTRL event is taken and forgotten
    /\ Running("ctrl") /\ ctrl_state = "IDLE"
    /\ IF inbox["MAIN"] # <<>>
         THEN LET evt == Head(inbox["MAIN"]) IN
              /\ event_temp' = evt
              /\ ctrl_state' = IF evt.evtype = "ALARM_SIG" THEN "ALARM" ELSE "IDLE"
              /\ inbox' = [inbox EXCEPT !["MAIN"] = Tail(@)]
         ELSE UNCHANGED <<event_temp, ctrl_state, inbox>>
    /\ pc' = "mail"
    /\ UNCHANGED <<timers, postoffice, sweep, enet, adc, live, ghosts>>

CtrlIdle ==            \* one event per pass, then printLog
    /\ Running("ctrl") /\ ctrl_state = "IDLE"
    /\ IF inbox["MAIN"] # <<>>
         THEN LET evt == Head(inbox["MAIN"]) IN
              /\ event_temp' = evt
              /\ ctrl_state' = CASE evt.evtype = "ALARM_SIG" -> "ALARM"
                               [] evt.evtype = "CTRL_ETH_SIG" -> "RECVU"
                               [] OTHER -> "IDLE"
              /\ inbox' = [inbox EXCEPT !["MAIN"] = Tail(@)]
         ELSE UNCHANGED <<event_temp, ctrl_state, inbox>>
    /\ pc' = "mail"
    /\ UNCHANGED <<timers, postoffice, sweep, enet, adc, live, ghosts>>

\* mutant: the flag is cleared after the conversion has been started
MutCtrlAlarm ==
    \/ /\ Running("ctrl") /\ ctrl_state = "ALARM" /\ adcflag
       /\ adcbusy' = TRUE
       /\ pc' = "convert"
       /\ UNCHANGED <<adcflag, ctrl_state>>
       /\ UNCHANGED <<timers, postoffice, inbox, event_temp, sweep, enet, live, ghosts>>
    \/ /\ Running("ctrl") /\ ctrl_state = "ALARM" /\ ~adcflag
       /\ ctrl_state' = "IDLE" /\ pc' = "mail"
       /\ UNCHANGED <<timers, postoffice, inbox, event_temp, sweep, enet, adc, live,
                      ghosts>>
    \/ /\ Running("convert")
       /\ adcflag' = FALSE
       /\ ctrl_state' = "IDLE" /\ pc' = "mail"
       /\ UNCHANGED <<timers, postoffice, inbox, event_temp, sweep, enet, adcbusy, live,
                      ghosts>>

\* The flag is cleared, the value stored, and only then is the conversion
\* started again (ADC16_SetChannelConfig).
CtrlAlarm ==
    \/ /\ Running("ctrl") /\ ctrl_state = "ALARM" /\ adcflag
       /\ adcflag' = FALSE
       /\ pc' = "convert"
       /\ UNCHANGED <<adcbusy, ctrl_state>>
       /\ UNCHANGED <<timers, postoffice, inbox, event_temp, sweep, enet, live, ghosts>>
    \/ /\ Running("ctrl") /\ ctrl_state = "ALARM" /\ ~adcflag
       /\ ctrl_state' = "IDLE" /\ pc' = "mail"
       /\ UNCHANGED <<timers, postoffice, inbox, event_temp, sweep, enet, adc, live,
                      ghosts>>
    \/ /\ Running("convert")
       /\ adcbusy' = TRUE
       /\ ctrl_state' = "IDLE" /\ pc' = "mail"
       /\ UNCHANGED <<timers, postoffice, inbox, event_temp, sweep, enet, adcflag, live,
                      ghosts>>

\* The message is announced and dropped: its payload is never deleted.
CtrlRecvu ==
    /\ Running("ctrl") /\ ctrl_state = "RECVU"
    /\ served' = Append(served, event_temp)
    /\ event_temp' = AlarmEvt                                 \* dead from here on
    /\ ctrl_state' = "IDLE"
    /\ pc' = "mail"
    /\ UNCHANGED <<timers, postoffice, inbox, sweep, enet, adc, live, unaddressed,
                   raced>>

Main == \/ MailFront \/ SweepPush \/ MailPop \/ MailEmpty
        \/ Serve \/ HandlerPush \/ HandlerPushed \/ HandlerReturns \/ Undefined
        \/ CtrlInit \/ CtrlReload \/ CtrlIdle \/ CtrlAlarm \/ CtrlRecvu

Next == Pit \/ AdcDone \/ Ethergate \/ EthergatePush \/ Main

Spec == Init /\ [][Next]_vars

\* The timer runs, a conversion ends, interrupts return, the loop loops.
FairSpec == /\ Spec
            /\ WF_vars(Pit) /\ WF_vars(AdcDone)
            /\ WF_vars(EthergatePush) /\ WF_vars(Main)

-----------------------------------------------------------------------------
(* Properties.                                                              *)

\* Every variable of the kernel has its type.
TypeOK ==
    /\ bspcounter \in 0..(Wrap - 1) /\ alarm \in 0..(Wrap - 1)
    /\ reload \in {0, Interval}
    /\ postoffice \in Seq(Event)
    /\ inbox \in [Obj -> Seq(Event)]
    /\ ctrl_state \in {"INIT", "IDLE", "ALARM", "RECVU"} /\ event_temp \in Event
    /\ pc \in {"mail", "spush", "popmail", "SWEEP", "own", "handled", "dead",
               "SERVO", "MONITOR", "ctrl", "reload", "convert"}
    /\ mpushed \in Event /\ mat \in Nat /\ jobs \in Nat
    /\ epc \in {"off", "push"} /\ epushed \in Event /\ eat \in Nat
    /\ sent \in 0..MaxMsgs /\ live \subseteq MsgId /\ unaddressed \subseteq MsgId
    /\ adcflag \in BOOLEAN /\ adcbusy \in BOOLEAN
    /\ served \in Seq(Event) /\ raced \in BOOLEAN

Occurrences(q, id) == Cardinality({i \in 1..Len(q) : q[i].payload = id})

\* What is still in the post office once the front has been handed out.
Unread == IF pc = "popmail" THEN Tail(postoffice) ELSE postoffice

\* A message for one of the objects is in exactly one place from ethergate to
\* the end of its handler: neither the interrupts' pushes between front and pop
\* nor the fan-out lose or double it, unless a push into the post office or
\* into Sweep's queue was overtaken.
Conservation ==
    ~raced => \A id \in 1..sent \ unaddressed :
        /\ Occurrences(Unread, id) + Occurrences(served, id)
             + Occurrences(inbox["MAIN"] \o inbox["SWEEP"], id)
             + Occurrences(inbox["SERVO"] \o inbox["MONITOR"], id)
             + (IF epushed.payload = id THEN 1 ELSE 0)
             + (IF ctrl_state = "RECVU" /\ event_temp.payload = id THEN 1 ELSE 0) = 1

\* The commands of a host reach an object in the order they arrived in.
InOrder ==
    ~raced => \A i, j \in 1..Len(served) :
        i < j /\ served[i].evtype = served[j].evtype => served[i].payload < served[j].payload

\* No queued event points to a payload that a handler has deleted.
NoDangling ==
    ~raced => \A q \in {Unread} \cup {inbox[o] : o \in Obj} :
        \A i \in 1..Len(q) : q[i].payload # 0 => q[i].payload \in live

\* Every message for an object is eventually served, unless a push was overtaken
\* or an undefined transition has ended the program.
EveryMessageServed ==
    \A id \in MsgId :
        (id <= sent) ~> (\/ id \in unaddressed \/ Occurrences(served, id) > 0
                         \/ raced \/ pc = "dead")

\* The done flag is never up while a conversion runs: the sample stored for
\* an alarm is complete, and no conversion is started over a running one.
OneConversion == adcflag => ~adcbusy

\* setAlarm or a reload has put the alarm on 0xffffffff, which means off.
AlarmLost == reload # 0 /\ alarm = Never

\* Sampling goes on: the interrupt's flag is not lost between the main loop's
\* test and its restart of the converter.  Two things do stop it for good: an
\* alarm that lands on 0xffffffff, and the end of the program.
SamplingGoesOn == []<>adcbusy \/ <>[]AlarmLost \/ <>[](pc = "dead")

\* Also when bspcounter overflows an armed alarm is due within one interval,
\* on the circle of counter values.
AlarmNear == alarm # Never => (alarm - bspcounter) % Wrap <= Interval

\* An armed alarm fires, across the counter's overflow too, while the main loop
\* goes on.  An alarm that lands on 0xffffffff counts as off, not as armed.
ArmedAlarmFires ==
    \A a \in 0..(Wrap - 2) : (alarm = a) ~> (alarm # a \/ pc = "dead")
=============================================================================
