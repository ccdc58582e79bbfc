------------------------------ MODULE Monitor ------------------------------
(***************************************************************************)
(* The auxiliary outputs (Monitor/Monitor.cpp): vacuum, drum, direction    *)
(* and speed of the WG20 motor, as the main loop serves the host's         *)
(* commands.  A handler stores to pins, timer and status in one action: no *)
(* interrupt writes any of them.  Text formatting and logging are left out.*)
(***************************************************************************)
EXTENDS Integers, Sequences

CONSTANTS
    ByteWidth,      \* values of a uint8_t: 256
    FullDuty,       \* the duty cycle that is always on: 100
    MonCommands,    \* messages of the host: [cmd, arg, val]
    Unread,         \* a text without a number
    MaxMon          \* bound of the model: messages waiting

ASSUME MonitorAssumption ==
    /\ ByteWidth \in Nat \ {0} /\ FullDuty \in 0..(ByteWidth - 1)
    /\ Unread \notin Int /\ MaxMon \in Nat
    /\ MonCommands \subseteq
         [cmd : {"MON_SETVAC", "MON_SETDRUM", "WG20_SETDIR", "WG20_SETVEL",
                 "MON_RESET", "unknown"},
          arg : {0, 1, 2}, val : Int \cup {Unread}]

VARIABLES
    drum, wg20pwm,              \* vaccum and wg20_cw are only copies of flags
    pin,                        \* the output pins; 0 switches on
    wgduty,                     \* channel 1 of FTM2
    flag, speed,                \* DRUM_ENABLED, VAC_ENABLED, WG20_DIR; WG2_SPEED_SLOT
    mevents,
    stopped                     \* not in the code: RESET was the last to set the PWM

monvars == <<drum, wg20pwm, pin, wgduty, flag, speed, mevents, stopped>>

Level(on) == IF on THEN 0 ELSE 1
DutyOf(value) == IF value > FullDuty THEN FullDuty ELSE value

\* The pins boot at 1; start() is setDrum(false), setVaccum(true),
\* setWg20Cw(true) and setWG20Vel with 0.
MonInit ==
    /\ drum = FALSE /\ wg20pwm = 0
    /\ pin = [drum |-> 0, vac |-> Level(TRUE), dir |-> Level(TRUE)]
    /\ wgduty = 0
    /\ flag = [drum |-> FALSE, vac |-> TRUE, dir |-> TRUE] /\ speed = 0
    /\ mevents = <<>> /\ stopped = FALSE

MonDeliver ==
    /\ Len(mevents) < MaxMon
    /\ \E m \in MonCommands : mevents' = Append(mevents, m)
    /\ UNCHANGED <<drum, wg20pwm, pin, wgduty, flag, speed, stopped>>

-----------------------------------------------------------------------------
(* serviceEvents.  The commands test arg against 1, WG20_SETVEL against 0.  *)

Serving(cmd) == /\ mevents # <<>> /\ Head(mevents).cmd = cmd
                /\ mevents' = Tail(mevents)
Arg == Head(mevents).arg = 1
AnyArg == Head(mevents).arg # 0

\* setDrum toggles the pin whatever it is asked for.
Toggled == 1 - pin.drum

SetVac ==
    /\ Serving("MON_SETVAC")
    /\ pin' = [pin EXCEPT !.vac = Level(Arg)]
    /\ flag' = [flag EXCEPT !.vac = Arg]
    /\ UNCHANGED <<drum, wg20pwm, wgduty, speed, stopped>>

SetDrum ==
    /\ Serving("MON_SETDRUM")
    /\ drum' = Arg
    /\ pin' = [pin EXCEPT !.drum = Toggled]
    /\ flag' = [flag EXCEPT !.drum = Arg]
    /\ UNCHANGED <<wg20pwm, wgduty, speed, stopped>>

SetDir ==
    /\ Serving("WG20_SETDIR")
    /\ pin' = [pin EXCEPT !.dir = Level(Arg)]
    /\ flag' = [flag EXCEPT !.dir = Arg]
    /\ UNCHANGED <<drum, wg20pwm, wgduty, speed, stopped>>

\* sscanf "%d" stores an int over the byte; the bytes above it fall behind
\* the object.
ScannedPwm == IF Head(mevents).val = Unread THEN wg20pwm
                                            ELSE Head(mevents).val % ByteWidth

MutSetVel ==                 \* mutant: the number of the host is reported
    /\ Serving("WG20_SETVEL")
    /\ wg20pwm' = ScannedPwm
    /\ pin' = [pin EXCEPT !.dir = Level(AnyArg)]
    /\ flag' = [flag EXCEPT !.dir = AnyArg]
    /\ wgduty' = DutyOf(ScannedPwm)
    /\ speed' = IF Head(mevents).val = Unread THEN speed ELSE Head(mevents).val
    /\ stopped' = FALSE
    /\ UNCHANGED drum

SetVel ==
    /\ Serving("WG20_SETVEL")
    /\ wg20pwm' = ScannedPwm
    /\ pin' = [pin EXCEPT !.dir = Level(AnyArg)]
    /\ flag' = [flag EXCEPT !.dir = AnyArg]
    /\ wgduty' = DutyOf(ScannedPwm)
    /\ speed' = ScannedPwm
    /\ stopped' = FALSE
    /\ UNCHANGED drum

\* setPWM (1, 0) leaves wg20pwm and the reported speed as they are.
Reset ==
    /\ Serving("MON_RESET")
    /\ drum' = FALSE
    /\ pin' = [drum |-> Toggled, vac |-> Level(TRUE), dir |-> Level(TRUE)]
    /\ flag' = [drum |-> FALSE, vac |-> TRUE, dir |-> TRUE]
    /\ wgduty' = 0 /\ stopped' = TRUE
    /\ UNCHANGED <<wg20pwm, speed>>

MonUnknown ==
    /\ Serving("unknown")
    /\ UNCHANGED <<drum, wg20pwm, pin, wgduty, flag, speed, stopped>>

MonNext == MonDeliver \/ SetVac \/ SetDrum \/ SetDir \/ SetVel \/ Reset \/ MonUnknown

MonSpec == MonInit /\ [][MonNext]_monvars

-----------------------------------------------------------------------------
(* Properties.                                                              *)

\* The vacuum, the direction and the speed of the WG20 are what the status
\* reports, with two exceptions: after a MON_RESET, which stops the motor but
\* reports nothing, until the next WG20_SETVEL; and speeds of 101 to 255, which
\* setVel (Monitor.cpp:149) reports as they are and of which 100 is applied.
OutputsAsReported ==
    /\ pin.vac = Level(flag.vac) /\ pin.dir = Level(flag.dir)
    /\ speed = wg20pwm
    /\ wgduty = 0 \/ ~stopped
    /\ wgduty = speed \/ stopped \/ speed > FullDuty
=============================================================================
