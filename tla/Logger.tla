------------------------------- MODULE Logger ------------------------------
(***************************************************************************)
(* The log of source/main.cpp: logMessage and logStringnl append to         *)
(* logbuffer at logbufferptr, printLog sends the buffer to the debug        *)
(* console and starts it over.  The main loop does all three; the ENET      *)
(* interrupt calls logMessage from its TCP callbacks and may fall between   *)
(* any two accesses of the main loop.  A line is a number with a length;    *)
(* its characters are <<line, index>>.  Nothing in the code keeps the log   *)
(* inside its buffer: the behaviours of the model are those in which it     *)
(* fits, LogFits.                                                           *)
(***************************************************************************)
EXTENDS Integers, Sequences, SequencesExt

CONSTANTS
    LogSize,    \* characters of logbuffer: 3500
    Lengths,    \* lengths of the lines that are logged
    MaxLines    \* bound of the model: lines logged in a behaviour

ASSUME LoggerAssumption ==
    /\ Lengths \subseteq Nat \ {0} /\ Lengths # {}
    /\ MaxLines \in Nat /\ LogSize \in Nat \ {0}

LogNul == <<0, 0>>
LogChar == {LogNul} \cup ((1..MaxLines) \X (0..(LogSize - 1)))

VARIABLES
    logbuffer, logbufferptr,
    lpc,        \* where the main loop is
    line, llen, \* the line it logs and its length
    dst,        \* where vsprintf was told to put it
    lat, lreg,  \* the next character to write or to send; a register
    console,    \* the characters PUTCHAR has sent from before the pointer
    extra,      \* the ones it has sent from the pointer itself: [at, char], each
                \* behind the first at characters of console
    lines,      \* not in the code: the lengths of the lines logged so far
    lograced    \* not in the code: the interrupt fell where it does harm

buffer  == <<logbuffer, logbufferptr>>
local   == <<line, llen, dst, lat, lreg>>
sent == <<console, extra>>
logvars == <<buffer, lpc, local, sent, lines, lograced>>

LogInit ==
    /\ logbuffer = [i \in 0..(LogSize - 1) |-> LogNul] /\ logbufferptr = 0
    /\ lpc = "loop" /\ line = 0 /\ llen = 0 /\ dst = 0 /\ lat = 0 /\ lreg = 0
    /\ console = <<>> /\ extra = <<>> /\ lines = <<>> /\ lograced = FALSE

\* What vsprintf leaves: the characters of a line and the terminator.
Written(b, p, l, n) ==
    [i \in DOMAIN b |-> IF i \in p..(p + n - 1) THEN <<l, i - p>>
                        ELSE IF i = p + n THEN LogNul ELSE b[i]]

\* A line of n characters and its terminator fit behind the pointer and the line
\* the main loop has begun.
LogFits(n) == logbufferptr + llen + n < LogSize

-----------------------------------------------------------------------------
(* The ENET interrupt: a whole logMessage.                                  *)

Harmful == lpc \in {"text", "load", "add", "put", "inc", "bump", "tail", "reset"}

EnetLog ==
    /\ Len(lines) < MaxLines
    /\ \E n \in Lengths :
         /\ LogFits(n)
         /\ lines' = Append(lines, n)
         /\ logbuffer' = Written(logbuffer, logbufferptr, Len(lines) + 1, n)
         /\ logbufferptr' = logbufferptr + n
    /\ lograced' = (lograced \/ Harmful)
    /\ UNCHANGED <<local, lpc, sent>>

-----------------------------------------------------------------------------
(* The main loop: logMessage.  vsprintf works at the address it was given,  *)
(* the pointer is loaded again afterwards.                                  *)

LogBegin(next) ==
    /\ lpc = "loop" /\ Len(lines) < MaxLines
    /\ \E n \in Lengths : LogFits(n) /\ lines' = Append(lines, n) /\ llen' = n
    /\ line' = Len(lines) + 1 /\ dst' = logbufferptr
    /\ lpc' = next
    /\ UNCHANGED <<buffer, lat, lreg, sent, lograced>>

LogDone == lpc' = "loop" /\ line' = 0 /\ llen' = 0 /\ dst' = 0 /\ lat' = 0 /\ lreg' = 0

LogMessage == LogBegin("text")

LogText ==
    /\ lpc = "text"
    /\ logbuffer' = [logbuffer EXCEPT ![dst + lat] = IF lat = llen THEN LogNul ELSE <<line, lat>>]
    /\ lat' = lat + 1
    /\ lpc' = IF lat = llen THEN "load" ELSE "text"
    /\ UNCHANGED <<logbufferptr, line, llen, dst, lreg, sent, lines, lograced>>

LogLoad ==
    /\ lpc = "load"
    /\ lreg' = logbufferptr /\ lpc' = "add"
    /\ UNCHANGED <<buffer, line, llen, dst, lat, sent, lines, lograced>>

MutLogAdd ==                       \* mutant: the terminator is kept
    /\ lpc = "add"
    /\ logbufferptr' = lreg + llen + 1 /\ LogDone
    /\ UNCHANGED <<logbuffer, sent, lines, lograced>>

LogAdd ==
    /\ lpc = "add"
    /\ logbufferptr' = lreg + llen /\ LogDone
    /\ UNCHANGED <<logbuffer, sent, lines, lograced>>

-----------------------------------------------------------------------------
(* logStringnl: store a character, then load, increment and store the       *)
(* pointer; no terminator at the end.                                       *)

LogStringnl == LogBegin("put")

StringPut ==
    /\ lpc = "put"
    /\ logbuffer' = [logbuffer EXCEPT ![logbufferptr] = <<line, lat>>]
    /\ lpc' = "inc"
    /\ UNCHANGED <<logbufferptr, local, sent, lines, lograced>>

StringInc ==
    /\ lpc = "inc"
    /\ lreg' = logbufferptr /\ lpc' = "bump"
    /\ UNCHANGED <<buffer, line, llen, dst, lat, sent, lines, lograced>>

StringBump ==
    /\ lpc = "bump"
    /\ logbufferptr' = lreg + 1
    /\ IF lat + 1 = llen THEN LogDone
                       ELSE lpc' = "put" /\ lat' = lat + 1 /\ UNCHANGED <<line, llen, dst, lreg>>
    /\ UNCHANGED <<logbuffer, sent, lines, lograced>>

-----------------------------------------------------------------------------
(* printLog: a character is read and sent, then its address is compared     *)
(* with the pointer, which is read anew each time.  So the character at the *)
(* pointer itself is sent too: the terminator of the line before it, or,    *)
(* behind logStringnl, what an earlier line has left there.                 *)

MutPrintLog ==                     \* mutant: off by one
    /\ lpc = "loop"
    /\ lpc' = IF logbufferptr > 1 THEN "char" ELSE "loop"
    /\ UNCHANGED <<buffer, local, sent, lines, lograced>>

PrintLog ==
    /\ lpc = "loop"
    /\ lpc' = IF logbufferptr > 0 THEN "char" ELSE "loop"
    /\ UNCHANGED <<buffer, local, sent, lines, lograced>>

PrintChar ==
    /\ lpc = "char"
    /\ \/ /\ lat < logbufferptr /\ lpc' = "test"
          /\ console' = Append(console, logbuffer[lat]) /\ UNCHANGED extra
       \/ /\ lat >= logbufferptr /\ lpc' = "tail"
          /\ extra' = Append(extra, [at |-> Len(console), char |-> logbuffer[lat]])
          /\ UNCHANGED console
    /\ UNCHANGED <<buffer, local, lines, lograced>>

PrintTest ==
    /\ lpc \in {"test", "tail"}
    /\ IF lat < logbufferptr THEN lpc' = "char" /\ lat' = lat + 1
                            ELSE lpc' = "reset" /\ lat' = 0
    /\ UNCHANGED <<buffer, line, llen, dst, lreg, sent, lines, lograced>>

PrintReset ==
    /\ lpc = "reset"
    /\ logbufferptr' = 0 /\ lpc' = "loop"
    /\ UNCHANGED <<logbuffer, local, sent, lines, lograced>>

LogMain == LogMessage \/ LogText \/ LogLoad \/ LogAdd
          \/ LogStringnl \/ StringPut \/ StringInc \/ StringBump
          \/ PrintLog \/ PrintChar \/ PrintTest \/ PrintReset

LogNext == LogMain \/ EnetLog

LogSpec == LogInit /\ [][LogNext]_logvars

\* What the main loop does of its own accord: it does not block inside a
\* call and calls printLog in every idle pass.
LogSteps == LogText \/ LogLoad \/ LogAdd \/ StringPut \/ StringInc \/ StringBump
              \/ PrintLog \/ PrintChar \/ PrintTest \/ PrintReset

-----------------------------------------------------------------------------
(* Properties.                                                              *)

\* Pointer, places and characters have their types; the pointer and all
\* writes stay inside the buffer.
LogTypeOK ==
    /\ logbuffer \in [0..(LogSize - 1) -> LogChar] /\ logbufferptr \in 0..(LogSize - 1)
    /\ lpc \in {"loop", "text", "load", "add", "put", "inc", "bump",
              "char", "test", "tail", "reset"}
    /\ line \in 0..MaxLines /\ llen \in Lengths \cup {0} /\ dst \in 0..(LogSize - 1)
    /\ lat \in 0..LogSize /\ lreg \in 0..(LogSize - 1)
    /\ console \in Seq(LogChar) /\ extra \in Seq([at : Nat, char : LogChar])
    /\ lines \in Seq(Lengths) /\ lograced \in BOOLEAN

LineText(l) == [i \in 1..lines[l] |-> <<l, i - 1>>]
LoggedUpTo(k) == FlattenSeq([l \in 1..k |-> LineText(l)])
Logged == LoggedUpTo(Len(lines))
Waiting(from) == [i \in 1..(logbufferptr - from) |-> logbuffer[from + i - 1]]

\* printLog sends every line whole, once and in the order it was logged, and what
\* it has not sent yet is in the buffer - also the lines the interrupt logs while
\* the log is being printed, because the pointer is read again for each character.
\* The further character that ends each printLog, whatever it is, comes behind a
\* line and not inside one.  The exceptions are the places named in Harmful: inside
\* another line, and from the moment the character at the pointer was read until
\* the pointer has been reset.
LogWhole ==
    ~lograced =>
      /\ CASE lpc = "loop"             -> console \o Waiting(0) = Logged
           [] lpc = "char"             -> console \o Waiting(lat) = Logged
           [] lpc \in {"test", "tail"} -> console \o Waiting(lat + 1) = Logged
           [] lpc = "reset"            -> console = Logged
           [] OTHER                    -> TRUE
      /\ \A i \in DOMAIN extra : \E k \in 0..Len(lines) : extra[i].at = Len(LoggedUpTo(k))

\* Every line is shown in the end, if the interrupt does no harm.
EveryLineShown ==
    \A l \in 1..MaxLines :
        Len(lines) >= l ~> lograced \/ \E i \in DOMAIN console : console[i] = <<l, 0>>
=============================================================================
