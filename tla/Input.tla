------------------------------- MODULE Input -------------------------------
(***************************************************************************)
(* Keyboard and mouse: the two interrupt handlers (kernel/keyboard.cpp and *)
(* kernel/mouse.cpp), Mouse::init, which polls the same controller with    *)
(* the keyboard's interrupt on, and the interrupt controller as            *)
(* kernel/idt.cpp programs it.                                             *)
(*                                                                         *)
(* The PS/2 controller has one output buffer for both devices.  Its data   *)
(* port keeps returning the last byte once the buffer is empty.  A byte    *)
(* from the keyboard or from the controller itself raises IRQ 1, one from  *)
(* the mouse IRQ 12.  A pending interrupt is taken before the next         *)
(* instruction of Mouse::init; a handler runs with interrupts off, in one  *)
(* step.  Pointer coordinates and the characters of keys are left out.     *)
(***************************************************************************)
EXTENDS Naturals, Sequences

VARIABLES
    obf,         \* the output buffer is full
    data,        \* what the data port returns
    irr,         \* requests that the interrupt controller has latched
    in_service,  \* interrupts that no end-of-interrupt was sent for
    unmasked,    \* interrupts that irq_unmask has let through
    config,      \* the controller's configuration: "right" or "wrong"
    held,        \* the modifier keys that are down
    second,      \* the byte that the keyboard sends after 0xE0
    shift_down, ctrl_down, ext_prefix,
    init_pc,     \* where Mouse::init is
    owed,        \* the mouse has not acknowledged the last command yet
    sent,        \* how many bytes of a packet the mouse has sent
    packet_idx,  \* packet_idx
    disturbed    \* history: a key came in while Mouse::init talked to the
                 \* controller, or Mouse::init gave up too early

picVars == <<irr, in_service, unmasked>>
decoderVars == <<shift_down, ctrl_down, ext_prefix>>
inputVars == <<obf, data, picVars, config, held, second, decoderVars,
               init_pc, owed, sent, packet_idx, disturbed>>

\* A byte: a scan code, or one of the others.  0xE0 0x1D is the right control
\* key; of all the other keys Enter and a letter matter.
Modifiers == {"LShift", "LCtrl"}
Scan(key, up) == [is |-> "scan", key |-> key, up |-> up]
Other(is) == [is |-> is, key |-> "none", up |-> FALSE]
ScanCodes == {Scan(key, up) : key \in Modifiers \cup {"Enter", "Letter"}, up \in BOOLEAN}
Bytes == ScanCodes \cup {Other(is) : is \in {"E0", "config", "ack", "first", "moved", "none"}}
NoByte == Other("none")

Waiting == {"config", "ack1", "ack2"}
InitPc == Waiting \cup {"ask", "defaults", "report", "register", "ready", "failed"}
InitDone == init_pc \in {"ready", "failed"}

InputTypeOK ==
    /\ obf \in BOOLEAN
    /\ data \in Bytes
    /\ irr \subseteq {1, 12} /\ in_service \subseteq {1, 2, 12} /\ unmasked \subseteq {1, 2, 12}
    /\ config \in {"right", "wrong"}
    /\ held \subseteq Modifiers
    /\ second \in Bytes
    /\ shift_down \in BOOLEAN /\ ctrl_down \in BOOLEAN /\ ext_prefix \in BOOLEAN
    /\ init_pc \in InitPc
    /\ owed \in BOOLEAN
    /\ sent \in 0 .. 2 /\ packet_idx \in 0 .. 2
    /\ disturbed \in BOOLEAN

-----------------------------------------------------------------------------
(* The interrupt controllers *)

\* The second controller is connected to IRQ 2 of the first.
Chain(irq) == IF irq < 8 THEN {irq} ELSE {2, irq}

\* Mutated form: IRQ 2, through which the second controller is heard, stays masked.
OwnLine(irq) == {irq}

\* What irq_unmask lets through
Lines(irq) == Chain(irq)

\* What pic_send_eoi ends
Eoi(irq) == Chain(irq)

Deliverable(irq) ==
    /\ irq \in irr
    /\ Chain(irq) \subseteq unmasked
    /\ \A other \in in_service : other > irq

\* irq_dispatch, around the handler
Dispatch(irq) ==
    /\ Deliverable(irq)
    /\ irr' = irr \ {irq}
    /\ in_service' = (in_service \cup Chain(irq)) \ Eoi(irq)
    /\ unmasked' = unmasked

-----------------------------------------------------------------------------

\* After idt_init and keyboard_init; the firmware has left the keyboard's
\* interrupt and translation on.
InputInit ==
    /\ obf = FALSE /\ data = NoByte
    /\ irr = {} /\ in_service = {} /\ unmasked = {1}
    /\ config = "right"
    /\ held = {} /\ second = NoByte
    /\ shift_down = FALSE /\ ctrl_down = FALSE /\ ext_prefix = FALSE
    /\ init_pc = "ask" /\ owed = FALSE
    /\ sent = 0 /\ packet_idx = 0
    /\ disturbed = FALSE

InputReset ==
    /\ obf' = FALSE /\ data' = NoByte
    /\ irr' = {} /\ in_service' = {} /\ unmasked' = {1}
    /\ config' = "right"
    /\ held' = {} /\ second' = NoByte
    /\ shift_down' = FALSE /\ ctrl_down' = FALSE /\ ext_prefix' = FALSE
    /\ init_pc' = "ask" /\ owed' = FALSE
    /\ sent' = 0 /\ packet_idx' = 0
    /\ disturbed' = FALSE

\* A byte gets into the buffer.
Put(byte, irq) ==
    /\ obf' = TRUE
    /\ data' = byte
    /\ irr' = IF config = "right" THEN irr \cup {irq} ELSE irr
    /\ UNCHANGED <<in_service, unmasked>>

\* inb(0x60).  Nobody reads an empty buffer once Mouse::init is over.
Take ==
    /\ obf' = FALSE
    /\ data' = IF InitDone THEN NoByte ELSE data

-----------------------------------------------------------------------------
(* The devices *)

KeyComes(byte) ==
    /\ ~obf
    /\ Put(byte, 1)
    /\ disturbed' = (disturbed \/ init_pc \in Waiting)
    /\ UNCHANGED <<config, decoderVars, init_pc, owed, sent, packet_idx>>

\* A modifier goes down or up.
Modifier(key) ==
    /\ second = NoByte
    /\ KeyComes(Scan(key, key \in held))
    /\ held' = IF key \in held THEN held \ {key} ELSE held \cup {key}
    /\ second' = second

\* Enter or a letter; the one and the other release it.
Strike(key, up) ==
    /\ second = NoByte
    /\ KeyComes(Scan(key, up))
    /\ UNCHANGED <<held, second>>

\* The right control key, whose code follows the prefix
Prefixed(up) ==
    /\ second = NoByte
    /\ KeyComes(Other("E0"))
    /\ second' = Scan("LCtrl", up)
    /\ held' = held

AfterPrefix ==
    /\ second # NoByte
    /\ KeyComes(second)
    /\ second' = NoByte
    /\ held' = held

MouseAnswers ==
    /\ owed /\ ~obf
    /\ Put(Other("ack"), 12)
    /\ owed' = FALSE
    /\ UNCHANGED <<config, held, second, decoderVars, init_pc, sent, packet_idx, disturbed>>

\* A mouse that reports sends packets of three bytes, of which the first has
\* bit 3 set.
MouseMoves ==
    /\ init_pc \in {"register", "ready"}
    /\ ~obf
    /\ Put(Other(IF sent = 0 THEN "first" ELSE "moved"), 12)
    /\ sent' = (sent + 1) % 3
    /\ UNCHANGED <<config, held, second, decoderVars, init_pc, owed, packet_idx, disturbed>>

Keys ==
    \/ \E key \in Modifiers : Modifier(key)
    \/ \E key \in {"Enter", "Letter"} : Strike(key, FALSE)
    \/ Strike("Letter", TRUE)
    \/ \E up \in BOOLEAN : Prefixed(up)
    \/ AfterPrefix

Devices == Keys \/ MouseAnswers \/ MouseMoves

-----------------------------------------------------------------------------
(* The interrupt handlers *)

IsKey(key) == data.is = "scan" /\ data.key = key /\ ~ext_prefix

\* What shell_update is called with: Ctrl+Enter is none of it
Types(key) == IsKey(key) /\ ~data.up /\ (ctrl_down => key = "Letter")

\* keyboard_irq_handler; the bytes that are not from the keyboard are beyond
\* its tables or look like the release of a key.
KeyboardIRQ ==
    /\ Dispatch(1)
    /\ Take
    /\ ext_prefix' = (data.is = "E0")
    /\ shift_down' = IF IsKey("LShift") THEN ~data.up ELSE shift_down
    /\ ctrl_down' = IF IsKey("LCtrl") THEN ~data.up ELSE ctrl_down
    /\ UNCHANGED <<config, held, second, init_pc, owed, sent, packet_idx, disturbed>>

\* Mutated form: the status is not looked at.
AnyByte == TRUE

\* mouse_irq: the buffer is full, with a byte of the mouse
FromMouse == obf /\ data.is \in {"ack", "first", "moved"}

\* What mouse_irq makes of packet_idx.  It drops a first byte without bit 3,
\* which a byte of a movement may have or not; the acknowledgement of a
\* command has it.
Placed == IF packet_idx = 0 /\ data.is = "moved" THEN {0, 1} ELSE {(packet_idx + 1) % 3}

\* mouse_irq
MouseIRQ ==
    /\ Dispatch(12)
    /\ \/ FromMouse /\ Take /\ packet_idx' \in Placed
       \/ ~FromMouse /\ UNCHANGED <<obf, data, packet_idx>>
    /\ UNCHANGED <<config, held, second, decoderVars, init_pc, owed, sent, disturbed>>

-----------------------------------------------------------------------------
(* Mouse::init *)

InitAt(l) == init_pc = l /\ ~Deliverable(1) /\ ~Deliverable(12)

\* 0xA8, then 0x20: the controller answers with its configuration, which
\* raises the keyboard's interrupt.  The handler takes it for a scan code: one
\* in the middle of a prefixed key gets the prefix.
AskConfig ==
    /\ InitAt("ask")
    /\ Put(Other("config"), 1)
    /\ init_pc' = "config"
    /\ disturbed' = (disturbed \/ obf \/ ext_prefix)
    /\ UNCHANGED <<config, held, second, decoderVars, owed, sent, packet_idx>>

\* The wait ends when the byte is there, or after 100000 polls, since the
\* keyboard's handler has taken it.  What is read goes back as configuration
\* with two bits changed; anything but the old configuration turns the
\* keyboard's interrupt or the translation of its codes off.
ReadConfig ==
    /\ InitAt("config")
    /\ config' = IF data.is = "config" THEN "right" ELSE "wrong"
    /\ Take
    /\ init_pc' = "defaults"
    /\ UNCHANGED <<picVars, held, second, decoderVars, owed, sent, packet_idx, disturbed>>

\* mouse_write(0xF6) and mouse_write(0xF4)
Command(l, next) ==
    /\ InitAt(l)
    /\ owed' = TRUE
    /\ init_pc' = next
    /\ UNCHANGED <<obf, data, picVars, config, held, second, decoderVars, sent, packet_idx, disturbed>>

\* mouse_read: there is a byte, or the wait timed out because there is no
\* mouse, or because it is too slow.
ReadAck(l, next) ==
    /\ InitAt(l)
    /\ init_pc' = IF data.is = "ack" THEN next ELSE "failed"
    /\ Take
    /\ \/ obf /\ UNCHANGED <<owed, disturbed>>
       \/ ~obf /\ owed' = FALSE /\ disturbed' = disturbed
       \/ ~obf /\ owed' = owed /\ disturbed' = TRUE
    /\ UNCHANGED <<picVars, config, held, second, decoderVars, sent, packet_idx>>

\* irq_register(12, mouse_irq)
Register ==
    /\ InitAt("register")
    /\ unmasked' = unmasked \cup Lines(12)
    /\ init_pc' = "ready"
    /\ UNCHANGED <<obf, data, irr, in_service, config, held, second, decoderVars, owed, sent, packet_idx, disturbed>>

MouseInit ==
    \/ AskConfig
    \/ ReadConfig
    \/ Command("defaults", "ack1")
    \/ ReadAck("ack1", "report")
    \/ Command("report", "ack2")
    \/ ReadAck("ack2", "register")
    \/ Register

-----------------------------------------------------------------------------
(* Properties *)

\* When all has been handled, the decoders agree with the devices: shift_down
\* and ctrl_down with the keys that are held (the right control key is not
\* tracked), ext_prefix is off, and mouse_irq is at the same byte of a packet
\* as the mouse, also after the acknowledgements that Mouse::init polled for
\* left their interrupts pending.
InStep == ~disturbed =>
    /\ ~obf => packet_idx = sent
    /\ ~obf /\ irr \cap {1} = {} /\ second = NoByte =>
         /\ ~ext_prefix
         /\ shift_down = ("LShift" \in held)
         /\ ctrl_down = ("LCtrl" \in held)

\* No byte stays in the output buffer, where it would block both devices for
\* good: the one who has to read it always gets to.  Needs that Mouse::init
\* was not disturbed: otherwise it may switch the keyboard's interrupt off or
\* leave a late acknowledgement behind that nobody reads.
BufferDrains == obf ~> (~obf \/ disturbed)
=============================================================================
