------------------------------ MODULE MCSweep ------------------------------
(* Small instances of Sweep: a map of a few cells and byte values 0..Empty. *)
EXTENDS Sweep

Msg(c, a, p, q, v) == [cmd |-> c, arg |-> a, x |-> p, y |-> q, z |-> v]

GotoCmd(p, v) == Msg("GOTO", 0, p, v, 0)
Park == Msg("PARK", 0, 0, 0, 0)
OnOff(c) == {Msg(c, 0, 0, 0, 0), Msg(c, 1, 0, 0, 0)}
Scan(p, q, v) == {Msg("SCAN", 1, p, q, v), Msg("SCAN", 0, 0, 0, 0)}

\* A patient host: any target off the ends, speeds below and at 255.
PatientCommands ==
    {GotoCmd(p, v) : p \in 2..(2 * Home - 1), v \in {0, 1, Empty, Empty + 2}}
      \cup {Park, Msg("PULSE", 0, 3, 1, 0)} \cup OnOff("ENABLE") \cup OnOff("DIR")

\* An impatient host: retargeting, parking and reversing in mid-move.
ImpatientCommands ==
    {GotoCmd(1, 0), GotoCmd(2 * Home, 1), Park, Msg("DIR", 1, 0, 0, 0)}

ScanCommands == Scan(1, 2 * Home - 1, 0) \cup {Park}

SearchCommands == {Park}
=============================================================================
