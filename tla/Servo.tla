------------------------------- MODULE Servo -------------------------------
(***************************************************************************)
(* The plate motor (Servo/Servo.cpp, servo_sm.cpp, setPWM of board.c):     *)
(* commands served by the main loop, preempted by the PIT interrupt, which *)
(* copies the requested PWM to the timer and runs the speed loop, and by   *)
(* the tachometer interrupt.  The interrupts are one action each.          *)
(* The PID arithmetic is abstracted to its result, the buffered intervals  *)
(* to whether one of them is not zero, and the speed to whether it is zero.*)
(***************************************************************************)
EXTENDS Integers, Sequences

CONSTANTS
    Width,       \* values of a uint8_t: 256
    Cap,         \* the safety trap of setPWM and of the speed loop: 80
    Full,        \* the ceiling of calculatePWM: 100
    Period,      \* UPDATETACH_PERIOD: 2000
    Slots,       \* entries of tachbuffer: 5
    Gaps,        \* ticks between two edges, as clamped to at most 2000
    Outputs,     \* results of the polynomial of calculatePWM
    Commands,    \* messages of the host
    Bad,         \* a text without a number
    MaxEvents    \* bound of the model: messages waiting

Message == [cmd : {"SERVO_ENABLE", "SERVO_SETPWM", "SERVO_SETSPEED", "unknown"},
            arg : {0, 1}, val : Int \cup {Bad}]

ASSUME ServoAssumption ==
    /\ Slots \in Nat \ {0}
    /\ Width \in Nat /\ Width > Slots
    /\ Cap \in 0..(Width - 1) /\ Full \in Cap..(Width - 1)
    /\ Period \in Nat
    /\ Gaps \subseteq Nat
    /\ Outputs \subseteq Int /\ Outputs # {}
    /\ Bad \notin Int
    /\ Commands \subseteq Message
    /\ MaxEvents \in Nat \ {0}

Byte == 0..(Width - 1)

VARIABLES
    request_pwm0, present_pwm0,
    duty,            \* channel 0 of FTM2
    servo_setpoint,
    tachbufferptr,
    seen,            \* some entry of tachbuffer is not zero
    updatetach_flag,
    turning,         \* speed is not zero
    servo_state,     \* the STATE pin; "off" enables the drive
    events, fsm,
    pc,              \* the main loop, between the stores an interrupt can see
    mode,            \* not in the code: the last completed command
    asked,           \* not in the code: the PWM that command left
    lateupdate       \* not in the code: the loop ran inside SERVO_ENABLE 0

pwm    == <<request_pwm0, present_pwm0, duty>>
tach   == <<tachbufferptr, seen, updatetach_flag, turning>>
ghosts == <<mode, asked, lateupdate>>
vars == <<pwm, tach, servo_setpoint, servo_state, events, fsm, pc, ghosts>>

TickEvt == [cmd |-> "SERVO_TICK_SIG", arg |-> 0, val |-> Bad]

\* The constructor and start(): ColdStart's entry pushes a TICK.
Init ==
    /\ request_pwm0 = 1 /\ present_pwm0 = 1 /\ duty = 0
    /\ servo_setpoint = 0
    /\ tachbufferptr = 0 /\ seen = FALSE /\ updatetach_flag = 0 /\ turning = FALSE
    /\ servo_state = "off"
    /\ events = <<TickEvt>> /\ fsm = "ColdStart"
    /\ pc = "rest"
    /\ mode = "none" /\ asked = 0 /\ lateupdate = FALSE

-----------------------------------------------------------------------------
(* The PIT interrupt: serviceBoard.                                         *)

Least(a, b) == IF a < b THEN a ELSE b
MutNoTrap(value) == value              \* mutant: no safety trap
setPWM(value) == Least(value, Cap)

\* calculatePWM keeps the polynomial within 0..Full; the loop caps it again.
Clamp(out) == Least(IF out < 0 THEN 0 ELSE Least(out, Full), Cap)

MutCopyPWM ==                          \* mutant: compared with the setpoint
    IF request_pwm0 # servo_setpoint
      THEN duty' = setPWM(request_pwm0) /\ present_pwm0' = request_pwm0
      ELSE UNCHANGED <<duty, present_pwm0>>

CopyPWM ==
    IF request_pwm0 # present_pwm0
      THEN duty' = setPWM(request_pwm0) /\ present_pwm0' = request_pwm0
      ELSE UNCHANGED <<duty, present_pwm0>>

\* One tick of many: the requested PWM is applied and the divider counts.
PitCount ==
    /\ CopyPWM
    /\ updatetach_flag <= Period
    /\ updatetach_flag' = updatetach_flag + 1
    /\ UNCHANGED <<request_pwm0, tachbufferptr, seen, turning, servo_setpoint,
                   servo_state, events, fsm, pc, ghosts>>

\* The tick of the speed loop; without a setpoint it only measures, and
\* without pulses as well it leaves the last speed standing.
PitLoop ==
    /\ CopyPWM
    /\ updatetach_flag > Period
    /\ updatetach_flag' = 0
    /\ seen' = FALSE
    /\ turning' = IF seen \/ servo_setpoint # 0 THEN seen ELSE turning
    /\ IF servo_setpoint # 0
         THEN \E out \in Outputs : request_pwm0' = Clamp(out)
         ELSE UNCHANGED request_pwm0
    /\ lateupdate' = (lateupdate \/ (pc = "disable" /\ servo_setpoint # 0))
    /\ UNCHANGED <<tachbufferptr, servo_setpoint, servo_state, events, fsm, pc,
                   mode, asked>>

-----------------------------------------------------------------------------
(* The tachometer interrupt: serviceTach.                                   *)

MutNextSlot(ptr) == IF ptr > Slots THEN 0 ELSE ptr + 1     \* mutant: off by one
NextSlot(ptr) == IF ptr > Slots - 1 THEN 0 ELSE ptr + 1

\* tachbuffer[Slots] is the word that holds tachbufferptr itself: the store
\* leaves the low byte of the interval there, or the index, in either order.
\* One word further lies updatetach_flag.
ServiceTach ==
    \E gap \in Gaps :
        LET i == NextSlot(tachbufferptr) IN
        /\ tachbufferptr' \in IF i = Slots THEN {i, gap % Width} ELSE {i}
        /\ seen' \in IF i >= Slots THEN {seen}
                     ELSE IF gap = 0 THEN {FALSE, seen} ELSE {TRUE}
        /\ updatetach_flag' = IF i > Slots THEN gap ELSE updatetach_flag
        /\ UNCHANGED <<pwm, turning, servo_setpoint, servo_state, events, fsm,
                       pc, ghosts>>

-----------------------------------------------------------------------------
(* The main loop: pushEvent and serviceEvents.                              *)

Deliver ==
    /\ pc = "rest"
    /\ Len(events) < MaxEvents
    /\ \E m \in Commands : events' = Append(events, m)
    /\ UNCHANGED <<pwm, tach, servo_setpoint, servo_state, fsm, pc, ghosts>>

\* The loop looks at the front, serves it and pops it.
Command(cmd, arg) ==
    /\ pc = "rest" /\ events # <<>>
    /\ Head(events).cmd = cmd /\ Head(events).arg = arg

Done(m, r) == /\ events' = Tail(events) /\ pc' = "rest"
              /\ mode' = m /\ asked' = r

Tick ==
    /\ Command(TickEvt.cmd, 0)
    /\ fsm' = "Idle"                   \* from ColdStart and from Idle
    /\ Done(mode, asked)
    /\ UNCHANGED <<pwm, tach, servo_setpoint, servo_state, lateupdate>>

\* sscanf("%d", &request_pwm0) stores an int over the byte; the bytes above
\* it fall into last_tach and shift one interval, which ServiceTach allows.
Scanned == IF Head(events).val = Bad THEN request_pwm0 ELSE Head(events).val % Width

clearTachBuffer ==
    tachbufferptr' = 0 /\ updatetach_flag' = 0 /\ seen' = FALSE /\ turning' = FALSE

EnableServo(enable) == servo_state' = IF enable THEN "off" ELSE "on"

Enable ==              \* and the state of the PID is cleared
    /\ Command("SERVO_ENABLE", 1)
    /\ clearTachBuffer
    /\ pc' = "enable"
    /\ mode' = "serving"
    /\ UNCHANGED <<pwm, servo_setpoint, servo_state, events, fsm, asked, lateupdate>>

EnableScan ==
    /\ pc = "enable"
    /\ request_pwm0' = Scanned
    /\ EnableServo(TRUE)
    /\ Done("enabled", Scanned)
    /\ UNCHANGED <<present_pwm0, duty, tach, servo_setpoint, fsm, lateupdate>>

Disable ==
    /\ Command("SERVO_ENABLE", 0)
    /\ request_pwm0' = 0
    /\ pc' = "disable"
    /\ mode' = "serving" /\ lateupdate' = FALSE
    /\ UNCHANGED <<present_pwm0, duty, tach, servo_setpoint, servo_state, events,
                   fsm, asked>>

MutDisableSetpoint ==  \* mutant: the setpoint survives
    /\ pc = "disable"
    /\ EnableServo(FALSE)
    /\ Done("disabled", 0)
    /\ UNCHANGED <<pwm, tach, servo_setpoint, fsm, lateupdate>>

DisableSetpoint ==
    /\ pc = "disable"
    /\ servo_setpoint' = 0
    /\ EnableServo(FALSE)
    /\ Done("disabled", 0)
    /\ UNCHANGED <<pwm, tach, fsm, lateupdate>>

MutSetPwm ==           \* mutant: the speed loop is not switched off
    /\ \E arg \in {0, 1} : Command("SERVO_SETPWM", arg)
    /\ pc' = "setpwm"
    /\ mode' = "serving"
    /\ UNCHANGED <<pwm, tach, servo_setpoint, servo_state, events, fsm, asked,
                   lateupdate>>

SetPwm ==
    /\ \E arg \in {0, 1} : Command("SERVO_SETPWM", arg)
    /\ servo_setpoint' = 0
    /\ pc' = "setpwm"
    /\ mode' = "serving"
    /\ UNCHANGED <<pwm, tach, servo_state, events, fsm, asked, lateupdate>>

SetPwmScan ==
    /\ pc = "setpwm"
    /\ LET r == IF Head(events).arg = 1 THEN Scanned ELSE 0 IN
       /\ request_pwm0' = r
       /\ Done("manual", r)
    /\ UNCHANGED <<present_pwm0, duty, tach, servo_setpoint, servo_state, fsm,
                   lateupdate>>

\* An unparsable text leaves the local variable uninitialised.
SetSpeed ==
    /\ Command("SERVO_SETSPEED", 1)
    /\ IF Head(events).val = Bad
         THEN servo_setpoint' \in {m.val : m \in {c \in Commands : c.val # Bad}} \cup {0}
         ELSE servo_setpoint' = Head(events).val
    /\ Done("speed", 0)
    /\ UNCHANGED <<pwm, tach, servo_state, fsm, lateupdate>>

ResetSpeed ==          \* the PWM in force stays in force
    /\ Command("SERVO_SETSPEED", 0)
    /\ servo_setpoint' = 0
    /\ pc' = "resetspeed"
    /\ mode' = "serving" /\ asked' = request_pwm0
    /\ UNCHANGED <<pwm, tach, servo_state, events, fsm, lateupdate>>

ResetSpeedShown ==
    /\ pc = "resetspeed"
    /\ turning' = FALSE
    /\ Done("coast", asked)
    /\ UNCHANGED <<pwm, tachbufferptr, seen, updatetach_flag, servo_setpoint,
                   servo_state, fsm, lateupdate>>

Unknown ==
    /\ \E arg \in {0, 1} : Command("unknown", arg)
    /\ Done(mode, asked)
    /\ UNCHANGED <<pwm, tach, servo_setpoint, servo_state, fsm, lateupdate>>

Main == \/ Tick \/ Enable \/ EnableScan \/ Disable \/ DisableSetpoint
        \/ SetPwm \/ SetPwmScan \/ SetSpeed \/ ResetSpeed \/ ResetSpeedShown
        \/ Unknown

Next == PitCount \/ PitLoop \/ ServiceTach \/ Deliver \/ Main

Spec == Init /\ [][Next]_vars

\* The timer runs and the main loop keeps serving.
FairSpec == Spec /\ WF_vars(PitCount \/ PitLoop) /\ WF_vars(Main)

-----------------------------------------------------------------------------
(* Properties.                                                              *)

\* Every variable of the servo has its type; the divider stays within its
\* period, which only the tachometer's stores past the buffer could break.
TypeOK ==
    /\ request_pwm0 \in Byte /\ present_pwm0 \in Byte /\ duty \in Byte
    /\ servo_setpoint \in Int
    /\ tachbufferptr \in Byte /\ seen \in BOOLEAN /\ turning \in BOOLEAN
    /\ updatetach_flag \in 0..(Period + 1)
    /\ servo_state \in {"off", "on"} /\ fsm \in {"ColdStart", "Idle"}
    /\ events \in Seq(Commands \cup {TickEvt})
    /\ pc \in {"rest", "enable", "disable", "setpwm", "resetspeed"}
    /\ mode \in {"none", "serving", "enabled", "disabled", "manual", "speed", "coast"}
    /\ asked \in Byte /\ lateupdate \in BOOLEAN

\* Whatever the host asks for and the loop computes, the duty cycle of the
\* motor is the request the interrupt last copied, cut off at the safety
\* limit; until the first copy it is 0.
DutyCapped == \/ duty = Least(present_pwm0, Cap)
              \/ duty = 0 /\ present_pwm0 = 1

\* Once SERVO_SETPWM or SERVO_SETSPEED 0 has been served the speed loop does
\* not touch the request again: it stays what the command left until the next
\* command, wherever a tick fell into the handler.
RequestHolds == mode \in {"manual", "coast"} => request_pwm0 = asked

\* SERVO_ENABLE 0 takes the drive down for good, unless the speed loop ran
\* between its two stores and set the request again.
DisableHolds == mode = "disabled" /\ ~lateupdate => request_pwm0 = 0

\* A request the interrupt has not copied yet reaches the motor, or a later
\* one does: the timer shows the request that stands, cut off at the limit.
RequestApplied ==
    (request_pwm0 # present_pwm0)
        ~> (request_pwm0 = present_pwm0 /\ duty = Least(request_pwm0, Cap))
=============================================================================
