------------------------------ MODULE MCServo ------------------------------
(* Small instances of Servo.                                               *)
EXTENDS Servo

\* Every command with a small, a large and an unreadable number; 12 does not
\* fit the byte of the instance, and what is left of it is above Cap.
MCCommands ==
    {[cmd |-> c, arg |-> 1, val |-> v]
       : c \in {"SERVO_ENABLE", "SERVO_SETPWM"}, v \in {2, 12, Bad}}
    \cup {[cmd |-> "SERVO_SETSPEED", arg |-> 1, val |-> v] : v \in {5, Bad}}
    \cup {[cmd |-> c, arg |-> 0, val |-> Bad]
            : c \in {"SERVO_ENABLE", "SERVO_SETPWM", "SERVO_SETSPEED", "unknown"}}

MCOutputs == {-1, 2, 9}
=============================================================================
