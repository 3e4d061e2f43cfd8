------------------------------- MODULE Serial -------------------------------
(***************************************************************************)
(* The command `pasteh' (kernel/shell_mouse.inc), which reads a line from  *)
(* the serial port into the clipboard: Serial::read_line                   *)
(* (kernel/serial.cpp), Clipboard::set (kernel/clipboard.cpp) and the      *)
(* timer's interrupt (kernel/timer.cpp), which alone advances `ticks'.     *)
(*                                                                         *)
(* The command runs inside keyboard_irq_handler, behind an interrupt gate. *)
(* The text is left out; its length counts.                                *)
(***************************************************************************)
EXTENDS Naturals

CONSTANTS
    Timeout,     \* the timeout of read_line, in ticks (a natural number)
    BufSize      \* sizeof(hbuf), at least 2, less than the clipboard's MAX_SIZE

VARIABLES
    reading,     \* read_line is running
    waited,      \* ticks - start, up to what the timeout tells apart
    port,        \* what the port holds: "none", "char" or "newline"
    n,           \* the characters that read_line has
    length,      \* Clipboard: length
    interrupts   \* the processor's interrupt flag

vars == <<reading, waited, port, n, length, interrupts>>

Init ==
    /\ reading = FALSE
    /\ waited = 0
    /\ port = "none"
    /\ n = 0
    /\ length = 0
    /\ interrupts = TRUE

\* Someone types at the host's terminal.
HostTypes(byte) ==
    /\ port = "none"
    /\ port' = byte
    /\ UNCHANGED <<reading, waited, n, length, interrupts>>

\* IRQ 0: timer_irq_handler
TimerIRQ ==
    /\ interrupts
    /\ waited' = IF reading /\ waited <= Timeout THEN waited + 1 ELSE waited
    /\ UNCHANGED <<reading, port, n, length, interrupts>>

\* IRQ 1: the Enter after `pasteh'
Pasteh ==
    /\ interrupts
    /\ interrupts' = FALSE
    /\ reading' = TRUE
    /\ waited' = 0
    /\ n' = 0
    /\ UNCHANGED <<port, length>>

\* read_line returns, what it got goes to the clipboard, the interrupt ends.
Return(received) ==
    /\ reading' = FALSE
    /\ length' = IF received = 0 THEN length ELSE received
    /\ interrupts' = TRUE
    /\ waited' = 0
    /\ n' = 0

\* One round of read_line's loop: a character, the end of the line, a full
\* buffer, the timeout, or another try
ReadLine ==
    /\ reading
    /\ \/ port = "char" /\ n + 1 < BufSize - 1 /\ n' = n + 1 /\ port' = "none"
          /\ UNCHANGED <<reading, waited, length, interrupts>>
       \/ port = "char" /\ n + 1 = BufSize - 1 /\ port' = "none" /\ Return(n + 1)
       \/ port = "newline" /\ port' = "none" /\ Return(n)
       \/ port = "none" /\ waited > Timeout /\ port' = port /\ Return(n)
       \/ port = "none" /\ waited <= Timeout /\ UNCHANGED vars

Next ==
    \/ \E byte \in {"char", "newline"} : HostTypes(byte)
    \/ TimerIRQ
    \/ Pasteh
    \/ ReadLine

Spec == Init /\ [][Next]_vars

\* The timer never stops asking for its interrupt, and the loop keeps going.
FairSpec == Spec /\ WF_vars(TimerIRQ) /\ WF_vars(ReadLine)

\* "Reading from host terminal (... 10s timeout)": the command ends although
\* nobody types at the other side.
PastehTimesOut == reading ~> ~reading
=============================================================================
