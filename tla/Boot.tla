-------------------------------- MODULE Boot --------------------------------
(***************************************************************************)
(* The machine from keyboard_init on (kernel/kernel.cpp): the keyboard's   *)
(* interrupt handler calls shell_update, which completes lines for the     *)
(* shell (module Session) in the middle of whatever _start is doing.       *)
(* Composes Session and Input: the lines that Session handles are the ones *)
(* for which Input gets an Enter through, and Disk::init, Users::init and  *)
(* shell_init follow when Mouse::init has returned.                        *)
(***************************************************************************)
EXTENDS Session, Input

vars == <<sessionVars, inputVars>>

TypeOK == SessionTypeOK /\ InputTypeOK

Init == SessionInit /\ InputInit

\* shell_update: Enter completes a line, which may be one that changes
\* nothing; in the editor only Ctrl with a letter matters.
ShellUpdate ==
    \/ Types("Enter") /\ mode # "EDIT" /\ (Line \/ PackagesFault \/ Halt)
    \/ Types("Letter") /\ ctrl_down /\ EditorKey
    \/ UNCHANGED sessionVars

Running == phase # "halted"

Keyboard == Running /\ KeyboardIRQ /\ ShellUpdate
Mouse == Running /\ MouseIRQ /\ UNCHANGED sessionVars

\* The rest of _start
Start ==
    \/ Running /\ MouseInit /\ UNCHANGED sessionVars
    \/ InitDone /\ ~Deliverable(1) /\ ~Deliverable(12) /\ SessionBoot /\ UNCHANGED inputVars

Power == PowerFails /\ InputReset

Next ==
    \/ Keyboard
    \/ Mouse
    \/ Start
    \/ Running /\ Devices /\ UNCHANGED sessionVars
    \/ Power

Spec == Init /\ [][Next]_vars

\* The processor takes interrupts and goes on with _start.
FairSpec == Spec /\ WF_vars(Keyboard) /\ WF_vars(Mouse) /\ WF_vars(Start)
=============================================================================
