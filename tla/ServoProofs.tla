---------------------------- MODULE ServoProofs ----------------------------
(***************************************************************************)
(* Theorems about Servo for every byte width, safety limit, buffer length, *)
(* period and set of commands.                                             *)
(***************************************************************************)
EXTENDS Servo, TLAPS

(* The inductive invariant.  While a handler is between its stores the      *)
(* event is still at the front, and the setpoint is 0 as soon as the        *)
(* handler or the command before it has switched the speed loop off.        *)

Midway == pc # "rest" => events # <<>> /\ mode = "serving"

LoopIsOff == mode \in {"manual", "coast", "disabled"} \/ pc \in {"setpwm", "resetspeed"}
               => servo_setpoint = 0

Left == /\ pc = "resetspeed" => request_pwm0 = asked
        /\ pc = "disable" /\ ~lateupdate => request_pwm0 = 0

Inv == /\ TypeOK /\ DutyCapped
       /\ Midway /\ LoopIsOff /\ Left
       /\ RequestHolds /\ DisableHolds

-----------------------------------------------------------------------------

\* The values the two clamps and the scan of a message produce are bytes.
LEMMA ClampIsByte == ASSUME NEW out \in Outputs PROVE Clamp(out) \in Byte
BY ServoAssumption DEF Clamp, Least, Byte

LEMMA CappedIsByte == ASSUME NEW v \in Byte PROVE setPWM(v) \in Byte
BY ServoAssumption DEF setPWM, Least, Byte

LEMMA RemainderIsByte == ASSUME NEW n \in Int PROVE n % Width \in Byte
BY ServoAssumption DEF Byte

LEMMA ScannedIsByte ==
    ASSUME TypeOK, events # <<>>
    PROVE  Scanned \in Byte
<1>1. Head(events) \in Commands \cup {TickEvt}
  BY DEF TypeOK
<1>2. Head(events).val \in Int \cup {Bad}
  BY <1>1, ServoAssumption DEF Message, TickEvt
<1>. QED  BY <1>2, RemainderIsByte DEF Scanned, TypeOK

\* A popped or extended queue is a queue.
LEMMA QueueStep ==
    ASSUME TypeOK
    PROVE  /\ events # <<>> => Tail(events) \in Seq(Commands \cup {TickEvt})
           /\ \A m \in Commands : Append(events, m) \in Seq(Commands \cup {TickEvt})
BY DEF TypeOK

-----------------------------------------------------------------------------

\* What the constructor leaves satisfies the invariant.
LEMMA InitInv == Init => Inv
<1>. SUFFICES ASSUME Init PROVE Inv
  OBVIOUS
<1>. USE ServoAssumption DEF Init
<1>1. TypeOK
  <2>1. seen \in BOOLEAN /\ turning \in BOOLEAN /\ lateupdate \in BOOLEAN
    BY Zenon
  <2>2. 0 \in Byte /\ 1 \in Byte /\ 0 \in 0..(Period + 1)
    BY DEF Byte
  <2>. QED  BY <2>1, <2>2 DEF TypeOK
<1>2. DutyCapped /\ Midway /\ LoopIsOff /\ Left /\ RequestHolds /\ DisableHolds
  BY DEF DutyCapped, Midway, LoopIsOff, Left, RequestHolds, DisableHolds
<1>. QED  BY <1>1, <1>2 DEF Inv

\* Copying the request keeps the duty cycle under the safety limit.
LEMMA CopyStep ==
    ASSUME TypeOK, DutyCapped, CopyPWM
    PROVE  present_pwm0' \in Byte /\ duty' \in Byte /\ DutyCapped'
<1>1. CASE request_pwm0 # present_pwm0
  BY <1>1, CappedIsByte DEF CopyPWM, TypeOK, DutyCapped, setPWM
<1>2. CASE request_pwm0 = present_pwm0
  BY <1>2 DEF CopyPWM, TypeOK, DutyCapped
<1>. QED  BY <1>1, <1>2

\* The ticks of the timer.
LEMMA PitStep == Inv /\ (PitCount \/ PitLoop) => Inv'
<1>. SUFFICES ASSUME Inv, PitCount \/ PitLoop PROVE Inv'
  OBVIOUS
<1>. USE ServoAssumption DEF Inv
<1>1. present_pwm0' \in Byte /\ duty' \in Byte /\ DutyCapped'
  BY CopyStep DEF PitCount, PitLoop
<1>2. CASE PitCount
  <2>1. TypeOK'
    BY <1>1, <1>2 DEF PitCount, TypeOK, ghosts
  <2>2. Midway' /\ LoopIsOff' /\ Left' /\ RequestHolds' /\ DisableHolds'
    BY <1>2 DEF PitCount, Midway, LoopIsOff, Left, RequestHolds, DisableHolds, ghosts
  <2>. QED  BY <1>1, <2>1, <2>2
<1>3. CASE PitLoop
  <2>1. request_pwm0' \in Byte
    BY <1>3, ClampIsByte DEF PitLoop, TypeOK
  <2>2. servo_setpoint = 0 => request_pwm0' = request_pwm0
    BY <1>3 DEF PitLoop
  <2>3. TypeOK'
    <3>1. seen' \in BOOLEAN /\ turning' \in BOOLEAN /\ lateupdate' \in BOOLEAN
      BY <1>3, Zenon DEF PitLoop, TypeOK
    <3>2. updatetach_flag' \in 0..(Period + 1)
      BY <1>3 DEF PitLoop
    <3>. QED  BY <1>1, <1>3, <2>1, <3>1, <3>2 DEF PitLoop, TypeOK
  <2>4. Midway' /\ LoopIsOff'
    BY <1>3 DEF PitLoop, Midway, LoopIsOff
  <2>5. Left'
    BY <1>3, <2>2 DEF PitLoop, LoopIsOff, Left, TypeOK
  <2>6. RequestHolds' /\ DisableHolds'
    BY <1>3, <2>2 DEF PitLoop, LoopIsOff, RequestHolds, DisableHolds, Midway, TypeOK
  <2>. QED  BY <1>1, <2>3, <2>4, <2>5, <2>6
<1>. QED  BY <1>2, <1>3

\* A pulse of the tachometer: the index never reaches past its own word.
LEMMA TachStep == Inv /\ ServiceTach => Inv'
<1>. SUFFICES ASSUME Inv, ServiceTach PROVE Inv'
  OBVIOUS
<1>. USE ServoAssumption DEF Inv
<1>1. NextSlot(tachbufferptr) \in 0..Slots
  BY DEF NextSlot, TypeOK, Byte
<1>2. NextSlot(tachbufferptr) \in Byte
  BY <1>1 DEF Byte
<1>3. PICK gap \in Gaps :
        /\ tachbufferptr' \in IF NextSlot(tachbufferptr) = Slots
                                THEN {NextSlot(tachbufferptr), gap % Width}
                                ELSE {NextSlot(tachbufferptr)}
        /\ updatetach_flag' = IF NextSlot(tachbufferptr) > Slots
                                THEN gap ELSE updatetach_flag
  BY Zenon DEF ServiceTach
<1>4. tachbufferptr' \in Byte /\ updatetach_flag' = updatetach_flag
  BY <1>1, <1>2, <1>3, RemainderIsByte
<1>5. seen' \in {TRUE, FALSE, seen}
  BY Zenon DEF ServiceTach
<1>6. seen' \in BOOLEAN
  BY <1>5, Zenon DEF TypeOK
<1>7. TypeOK'
  BY <1>4, <1>6 DEF ServiceTach, TypeOK, pwm, ghosts
<1>8. DutyCapped' /\ Midway' /\ LoopIsOff' /\ Left' /\ RequestHolds' /\ DisableHolds'
  BY DEF ServiceTach, DutyCapped, Midway, LoopIsOff, Left, RequestHolds,
         DisableHolds, pwm, ghosts
<1>. QED  BY <1>7, <1>8

\* The handlers of the main loop keep the types.
LEMMA MainType == Inv /\ (Deliver \/ Main) => TypeOK'
<1>. SUFFICES ASSUME Inv, Deliver \/ Main PROVE TypeOK'
  OBVIOUS
<1>. USE ServoAssumption, QueueStep DEF Inv, pwm, tach, ghosts
<1>0. /\ 0 \in Byte
      /\ events # <<>> => Scanned \in Byte
  BY ScannedIsByte DEF Byte
<1>1. CASE Deliver
  BY <1>1 DEF Deliver, TypeOK
<1>2. CASE Tick
  BY <1>2 DEF Tick, Command, Done, TypeOK
<1>3. CASE Enable
  <2>1. seen' \in BOOLEAN /\ turning' \in BOOLEAN
    BY <1>3, Zenon DEF Enable, clearTachBuffer
  <2>2. updatetach_flag' \in 0..(Period + 1)
    BY <1>3 DEF Enable, clearTachBuffer
  <2>. QED  BY <1>0, <1>3, <2>1, <2>2 DEF Enable, clearTachBuffer, TypeOK
<1>4. CASE EnableScan
  BY <1>0, <1>4 DEF EnableScan, EnableServo, Done, Midway, TypeOK
<1>5. CASE Disable
  BY <1>0, <1>5 DEF Disable, TypeOK
<1>6. CASE DisableSetpoint
  BY <1>0, <1>6 DEF DisableSetpoint, EnableServo, Done, Midway, TypeOK
<1>7. CASE SetPwm
  BY <1>7 DEF SetPwm, TypeOK
<1>8. CASE SetPwmScan
  BY <1>0, <1>8 DEF SetPwmScan, Done, Midway, TypeOK
<1>9. CASE SetSpeed
  <2>1. Head(events) \in Commands
    BY <1>9 DEF SetSpeed, Command, TypeOK, TickEvt
  <2>2. \A c \in Commands : c.val # Bad => c.val \in Int
    BY DEF Message
  <2>3. servo_setpoint' \in Int
    BY <1>9, <2>1, <2>2 DEF SetSpeed
  <2>. QED  BY <1>0, <1>9, <2>3 DEF SetSpeed, Command, Done, TypeOK
<1>10. CASE ResetSpeed
  BY <1>10 DEF ResetSpeed, TypeOK
<1>11. CASE ResetSpeedShown
  BY <1>11 DEF ResetSpeedShown, Done, Midway, TypeOK
<1>12. CASE Unknown
  BY <1>12 DEF Unknown, Command, Done, TypeOK
<1>. QED
  BY <1>1, <1>2, <1>3, <1>4, <1>5, <1>6, <1>7, <1>8, <1>9, <1>10, <1>11, <1>12
  DEF Main

\* The handlers of the main loop keep the rest of the invariant.
LEMMA MainStep == Inv /\ (Deliver \/ Main) => Inv'
<1>. SUFFICES ASSUME Inv, Deliver \/ Main PROVE Inv'
  OBVIOUS
<1>. USE DEF Inv, pwm, ghosts
<1>0. TypeOK'
  BY MainType
<1>1. DutyCapped'
  BY DEF Deliver, Main, Tick, Enable, EnableScan, Disable, DisableSetpoint, SetPwm,
         SetPwmScan, SetSpeed, ResetSpeed, ResetSpeedShown, Unknown, DutyCapped
<1>2. CASE Deliver
  BY <1>0, <1>1, <1>2 DEF Deliver, Midway, LoopIsOff, Left, RequestHolds, DisableHolds
<1>3. CASE Tick \/ Unknown
  BY <1>0, <1>1, <1>3
  DEF Tick, Unknown, Command, Done, Midway, LoopIsOff, Left, RequestHolds, DisableHolds
<1>4. CASE Enable \/ EnableScan
  BY <1>0, <1>1, <1>4
  DEF Enable, EnableScan, Command, Done, Midway, LoopIsOff, Left, RequestHolds,
      DisableHolds
<1>5. CASE Disable \/ DisableSetpoint
  BY <1>0, <1>1, <1>5
  DEF Disable, DisableSetpoint, Command, Done, Midway, LoopIsOff, Left,
      RequestHolds, DisableHolds
<1>6. CASE SetPwm \/ SetPwmScan
  BY <1>0, <1>1, <1>6
  DEF SetPwm, SetPwmScan, Command, Done, Midway, LoopIsOff, Left, RequestHolds,
      DisableHolds
<1>7. CASE SetSpeed
  BY <1>0, <1>1, <1>7
  DEF SetSpeed, Command, Done, Midway, LoopIsOff, Left, RequestHolds, DisableHolds
<1>8. CASE ResetSpeed \/ ResetSpeedShown
  BY <1>0, <1>1, <1>8
  DEF ResetSpeed, ResetSpeedShown, Command, Done, Midway, LoopIsOff, Left,
      RequestHolds, DisableHolds
<1>. QED
  BY <1>2, <1>3, <1>4, <1>5, <1>6, <1>7, <1>8 DEF Main

-----------------------------------------------------------------------------

\* Every reachable state of the servo satisfies the inductive invariant.
THEOREM Invariance == Spec => []Inv
<1>1. Inv /\ [Next]_vars => Inv'
  <2>. SUFFICES ASSUME Inv, [Next]_vars PROVE Inv'
    OBVIOUS
  <2>1. CASE UNCHANGED vars
    BY <2>1 DEF Inv, TypeOK, DutyCapped, Midway, LoopIsOff, Left, RequestHolds,
                DisableHolds, vars, pwm, tach, ghosts
  <2>2. CASE Next
    BY <2>2, PitStep, TachStep, MainStep DEF Next
  <2>. QED  BY <2>1, <2>2
<1>. QED  BY <1>1, InitInv, PTL DEF Spec

\* The pulses of the tachometer interrupt never store past the word behind
\* tachbuffer, so the divider of the speed loop stays within its period.
THEOREM TypeCorrect == Spec => []TypeOK
<1>1. Inv => TypeOK
  BY DEF Inv
<1>. QED  BY <1>1, Invariance, PTL

\* The duty cycle of the motor never exceeds the safety trap of setPWM.
THEOREM MotorCapped == Spec => []DutyCapped
<1>1. Inv => DutyCapped
  BY DEF Inv
<1>. QED  BY <1>1, Invariance, PTL

\* After SERVO_SETPWM and SERVO_SETSPEED 0 the interrupt leaves the request
\* alone until the next command.
THEOREM ManualHolds == Spec => []RequestHolds
<1>1. Inv => RequestHolds
  BY DEF Inv
<1>. QED  BY <1>1, Invariance, PTL

\* SERVO_ENABLE 0 leaves the request at 0, unless the speed loop ran inside it.
THEOREM DisabledStaysOff == Spec => []DisableHolds
<1>1. Inv => DisableHolds
  BY DEF Inv
<1>. QED  BY <1>1, Invariance, PTL
=============================================================================
