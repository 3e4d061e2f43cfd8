----------------------------- MODULE Scheduler -----------------------------
(***************************************************************************)
(* The preemptive round-robin scheduler of QuillOS (kernel/scheduler.cpp)  *)
(* together with everything that calls it: the timer interrupt, the        *)
(* INT 0x80 gate, the task functions (sleep_ms, return), the shell that    *)
(* runs inside the keyboard interrupt, and, on a networked node, the       *)
(* net-poll task that creates and kills tasks for remote peers.            *)
(*                                                                         *)
(* All IDT gates are interrupt gates, so the timer tick, INT 0x80 and the  *)
(* shell commands are atomic; task code runs with interrupts enabled, so   *)
(* every memory access of it that another actor can see is a step.         *)
(* The model starts when kernel.cpp has finished booting.                  *)
(***************************************************************************)
EXTENDS Integers, FiniteSets

CONSTANTS
    MaxTasks,    \* MAX_TASKS
    TimeSlice,   \* TIME_SLICE_MS, in ticks
    MaxSleep,    \* bound on the argument of sleep_ms
    MaxSpawns,   \* bound on the number of tasks created after boot
    Networked    \* TRUE: Service is net-poll, which creates and kills tasks

ASSUME SizeAssumption == MaxTasks \in Nat /\ MaxTasks > 3
ASSUME TimeAssumption == TimeSlice \in Nat \ {0} /\ MaxSleep \in Nat \ {0}
ASSUME SpawnsAssumption == MaxSpawns \in Nat
ASSUME NetworkedAssumption == Networked \in BOOLEAN

Slots == 0 .. MaxTasks - 1
Kernel == 0             \* the boot stack: halts in a loop for ever
Idle == 1               \* idle_task_id
Service == 2            \* the first service task started at boot
ProcSlots == Slots \ {Kernel, Idle, Service}
NoSlot == -1

TaskState == {"UNUSED", "READY", "RUNNING", "SLEEPING", "DEAD"}

VARIABLES
    state,       \* tasks[s].state
    current,     \* current_task
    slice,       \* tasks[current_task].slice_remaining (set anew at every dispatch)
    wake_in,     \* tasks[s].wake_at - ticks, 0 once it is not positive
    task_count,  \* task_count
    built,       \* the context that tasks[s].rsp points at is the occupant's
    pc,          \* where that context continues, an old one too; "none" if rsp is 0
    reg,         \* task_count as loaded by the update in progress
    handled,     \* the slot that net-poll creates a task in or kills
    shared,      \* a command spawned into the slot that net-poll is killing
    bound,       \* slots that a live entry of the process table owns
    spawns,      \* tasks created after boot so far
    typed,       \* a shell command ran since the last tick
    passed       \* history: slots dispatched while this one stayed READY

vars == <<state, current, slice, wake_in, task_count, built, pc, reg,
          handled, shared, bound, spawns, typed, passed>>

(***************************************************************************)
(* The labels of pc.  A task is started by its first dispatch, runs its    *)
(* function, and inside sleep_ms is "armed" (wake_at stored) and then at   *)
(* the "trap" (state stored).  A task function that returns leads through  *)
(* task_entry_wrapper: "dec" (state = DEAD stored), "sub" (task_count      *)
(* loaded), "quit" (stored back) and "gone" (behind the final INT 0x80).   *)
(* net-poll is at "claim" (slot found), "build" (slot READY), "inc" (rsp   *)
(* stored) and "add" (task_count loaded) inside create_task_internal, and  *)
(* at "bind" before spawn_local stores sched_slot; for a kill it is at     *)
(* "kill" (stop flag set), "free", "dec" and "sub" inside kill_task, and   *)
(* at "unbind" before the entry is marked dead.  "wild" is a CPU that      *)
(* popped a frame that is none.                                            *)
(***************************************************************************)
Label == {"none", "start", "run", "ret", "armed", "trap", "dec", "sub",
          "quit", "gone", "claim", "build", "inc", "add", "bind", "kill", "free", "unbind", "wild"}

TypeOK ==
    /\ state \in [Slots -> TaskState]
    /\ current \in Slots
    /\ slice \in 0 .. TimeSlice
    /\ wake_in \in [Slots -> 0 .. MaxSleep]
    /\ task_count \in Nat
    /\ built \in [Slots -> BOOLEAN]
    /\ pc \in [Slots -> Label]
    /\ reg \in [Slots -> Nat]
    /\ handled \in Slots \cup {NoSlot}
    /\ shared \in BOOLEAN
    /\ bound \in SUBSET ProcSlots
    /\ spawns \in 0 .. MaxSpawns
    /\ typed \in BOOLEAN
    /\ passed \in [Slots -> SUBSET Slots]

-----------------------------------------------------------------------------
(* Pieces of scheduler.cpp *)

\* How many slots further on, cyclically, the loop of pick_next reaches b
\* when it starts behind a; a itself comes last.
Dist(a, b) == IF b > a THEN b - a ELSE b - a + MaxTasks

Ready(st) == {i \in Slots : i # Idle /\ st[i] = "READY"}

\* Mutated form: the search starts at slot 0, not behind current_task.
LowestIsNext(st, n) ==
    IF Ready(st) = {}
    THEN n = Idle
    ELSE n \in Ready(st) /\ \A i \in Ready(st) : n <= i

\* Mutated form: the search runs down from the last slot.
HighestIsNext(st, n) ==
    IF Ready(st) = {}
    THEN n = Idle
    ELSE n \in Ready(st) /\ \A i \in Ready(st) : n >= i

\* pick_next returns n.
IsNext(st, n) ==
    IF Ready(st) = {}
    THEN n = Idle
    ELSE /\ n \in Ready(st)
         /\ \A i \in Ready(st) : Dist(current, n) <= Dist(current, i)

\* Mutated form: the outgoing task stays RUNNING.
NotSaved(st) == st

\* do_schedule gives the outgoing task back to the ready slots.
Saved(st) ==
    IF st[current] = "RUNNING" THEN [st EXCEPT ![current] = "READY"] ELSE st

\* The slot that create_task_internal has made READY without its rsp
HalfBuilt == IF pc[Service] = "build" THEN {handled} ELSE {}

\* Where a slot's context continues.  In the slot that is half built it is the
\* one of the previous task, if that is not overwritten yet; rsp is 0 if there
\* was none.
Resumed(n, p) == IF n = current \/ built[n] THEN {p[n]} ELSE {p[n], "wild"} \ {"none"}

\* do_schedule gives the CPU to slot n.  Staying on the current task has the
\* same effect as switching to it.
SwitchTo(n, st, p) ==
    /\ current' = n
    /\ state' = [Saved(st) EXCEPT ![n] = "RUNNING"]
    /\ slice' = TimeSlice
    /\ built' = [built EXCEPT ![current] = (st[current] # "UNUSED" /\ current \notin HalfBuilt)]
    /\ \E l \in Resumed(n, p) : pc' = [p EXCEPT ![n] = l]
    /\ passed' = [t \in Slots |-> IF t \in Ready(Saved(st)) \ {n}
                                  THEN passed[t] \cup {n} ELSE {}]

\* do_schedule, entered with task states st and contexts p.
DoSchedule(st, p) == \E n \in Slots : IsNext(Saved(st), n) /\ SwitchTo(n, st, p)

\* Mutated form: the wake loop forgets to test for TASK_SLEEPING.
WakesAnything(st, w) ==
    [i \in Slots |-> IF st[i] \in {"SLEEPING", "DEAD"} /\ w[i] = 0
                     THEN "READY" ELSE st[i]]

\* Mutated form: the wake loop stops one slot short.
WakesAllButLast(st, w) ==
    [i \in Slots |-> IF st[i] = "SLEEPING" /\ w[i] = 0 /\ i < MaxTasks - 1
                     THEN "READY" ELSE st[i]]

\* timer_tick wakes the sleepers whose time has come.
Woken(st, w) ==
    [i \in Slots |-> IF st[i] = "SLEEPING" /\ w[i] = 0 THEN "READY" ELSE st[i]]

\* Mutated form: only the current task's slot is ever cleaned up.
ReapedWrong(st) ==
    [i \in Slots |-> IF st[i] = "DEAD" /\ i = current THEN "UNUSED" ELSE st[i]]

\* timer_tick frees the slots of dead tasks, except the one it runs on.
Reaped(st) ==
    [i \in Slots |-> IF st[i] = "DEAD" /\ i # current THEN "UNUSED" ELSE st[i]]

\* Mutated form: a dead task's slot counts as free.
FreeOrDead(s) ==
    /\ s \in Slots \ {Kernel}
    /\ state[s] \in {"UNUSED", "DEAD"}
    /\ \A i \in 1 .. s - 1 : state[i] \notin {"UNUSED", "DEAD"}

\* The slot that create_task_internal finds.
FirstFree(s) ==
    /\ s \in Slots \ {Kernel}
    /\ state[s] = "UNUSED"
    /\ \A i \in 1 .. s - 1 : state[i] # "UNUSED"

\* Mutated form: a killed task is counted out twice, with no test for zero.
DecTwice(n) == n - 2

\* if (task_count > 0) task_count--
Dec(n) == IF n > 0 THEN n - 1 ELSE 0

\* kill_task does something.
Killable(s) == s \notin {Kernel, Idle} /\ state[s] # "UNUSED"

-----------------------------------------------------------------------------
(* State at the end of _start: the kernel task runs, the others are ready  *)

Init ==
    /\ state = [s \in Slots |-> CASE s = Kernel -> "RUNNING"
                                  [] s \in {Idle, Service} -> "READY"
                                  [] OTHER -> "UNUSED"]
    /\ current = Kernel
    /\ slice = TimeSlice
    /\ wake_in = [s \in Slots |-> 0]
    /\ task_count = 3
    /\ built = [s \in Slots |-> s \in {Kernel, Idle, Service}]
    /\ pc = [s \in Slots |-> CASE s = Kernel -> "run"
                               [] s \in {Idle, Service} -> "start"
                               [] OTHER -> "none"]
    /\ reg = [s \in Slots |-> 0]
    /\ handled = NoSlot
    /\ shared = FALSE
    /\ bound = {}
    /\ spawns = 0
    /\ typed = FALSE
    /\ passed = [s \in Slots |-> {}]

-----------------------------------------------------------------------------
(* Interrupts *)

\* IRQ 0: ticks++ and Scheduler::timer_tick.
TimerTick ==
    LET w == [i \in Slots |-> IF wake_in[i] > 0 THEN wake_in[i] - 1 ELSE 0]
        st == Reaped(Woken(state, w))
        left == IF slice > 0 THEN slice - 1 ELSE 0
    IN  /\ pc[current] # "wild"
        /\ wake_in' = w
        /\ typed' = FALSE
        /\ \/ /\ st[current] # "RUNNING"
              /\ DoSchedule(st, pc)
           \/ /\ st[current] = "RUNNING"
              /\ left = 0
              /\ DoSchedule(st, pc)
           \/ /\ st[current] = "RUNNING"
              /\ left > 0
              /\ state' = st
              /\ slice' = left
              /\ UNCHANGED <<current, pc, built, passed>>
        /\ UNCHANGED <<task_count, reg, handled, shared, bound, spawns>>

\* A shell command: the keyboard interrupt on the stack of the current task.
\* Typing the next command takes longer than a tick.
ShellIRQ == ~typed /\ pc[current] # "wild" /\ typed' = TRUE

\* Mutated form: the new task's stack pointer is never stored.
FrameLost(s) == [built EXCEPT ![s] = FALSE]

\* create_task_internal builds the fake frame and stores rsp.
FrameBuilt(s) == [built EXCEPT ![s] = TRUE]

\* net-poll is in the middle of a kill.
Killing == pc[Service] \in {"kill", "free", "dec", "sub", "unbind"}

\* Process::spawn_local from the shell, create_task_internal included.
ShellSpawn(s) ==
    /\ ShellIRQ
    /\ spawns < MaxSpawns
    /\ spawns' = spawns + 1
    /\ FirstFree(s)
    /\ state' = [state EXCEPT ![s] = "READY"]
    /\ wake_in' = [wake_in EXCEPT ![s] = 0]
    /\ built' = FrameBuilt(s)
    /\ pc' = [pc EXCEPT ![s] = "start"]
    /\ reg' = [reg EXCEPT ![s] = 0]
    /\ task_count' = task_count + 1
    /\ bound' = bound \cup {s}
    /\ shared' = (shared \/ (Killing /\ s = handled))
    /\ UNCHANGED <<current, slice, handled, passed>>

\* Process::kill from the shell, kill_task included.  What the task left on
\* its stack stays there; if it is the current one it goes on executing until
\* it is switched out.
ShellKill(s) ==
    /\ ShellIRQ
    /\ s \in bound
    /\ bound' = bound \ {s}
    /\ IF Killable(s)
       THEN /\ state' = [state EXCEPT ![s] = "UNUSED"]
            /\ built' = [built EXCEPT ![s] = FALSE]
            /\ task_count' = Dec(task_count)
       ELSE UNCHANGED <<state, built, task_count>>
    /\ passed' = [passed EXCEPT ![s] = {}]
    /\ UNCHANGED <<current, slice, wake_in, pc, reg, handled, shared, spawns>>

-----------------------------------------------------------------------------
(* Code of the running task, one visible memory access at a time *)

At(c, l) == c = current /\ c \notin {Kernel, Idle} /\ pc[c] = l

Goto(c, l) == pc' = [pc EXCEPT ![c] = l]

\* task_entry_wrapper calls the task function; a process looks up its entry
\* with find_my_slot and returns at once when it finds none.
TaskStart(c) ==
    /\ At(c, "start")
    /\ Goto(c, IF c = Service \/ c \in bound THEN "run" ELSE "ret")
    /\ UNCHANGED <<state, current, slice, wake_in, task_count, built, reg, handled, shared, bound, spawns, typed, passed>>

\* sleep_ms: wake_at = ticks + ms
SleepArm(c, ms) ==
    /\ At(c, "run")
    /\ wake_in' = [wake_in EXCEPT ![c] = ms]
    /\ Goto(c, "armed")
    /\ UNCHANGED <<state, current, slice, task_count, built, reg, handled, shared, bound, spawns, typed, passed>>

\* sleep_ms: state = TASK_SLEEPING
SleepMark(c) ==
    /\ At(c, "armed")
    /\ state' = [state EXCEPT ![c] = "SLEEPING"]
    /\ Goto(c, "trap")
    /\ UNCHANGED <<current, slice, wake_in, task_count, built, reg, handled, shared, bound, spawns, typed, passed>>

\* sleep_ms: int 0x80, and Scheduler::yield
SleepTrap(c) ==
    /\ At(c, "trap")
    /\ DoSchedule(state, [pc EXCEPT ![c] = "run"])
    /\ UNCHANGED <<wake_in, task_count, reg, handled, shared, bound, spawns, typed>>

\* The task function returns (a process, when its stop flag is set or it has
\* no entry): state = TASK_DEAD.  A stop flag may also be missed: spawn_local
\* clears the flag of the entry it reuses.  net-poll sets it before it kills.
TaskReturn(c) ==
    /\ c # Service
    /\ At(c, "ret") \/ (At(c, "run") /\ (c \notin bound \/ (Killing /\ c = handled)))
    /\ state' = [state EXCEPT ![c] = "DEAD"]
    /\ Goto(c, "dec")
    /\ UNCHANGED <<current, slice, wake_in, task_count, built, reg, handled, shared, bound, spawns, typed, passed>>

\* task_entry_wrapper and kill_task: the load of task_count ...
CountLoad(c) ==
    /\ At(c, "dec")
    /\ reg' = [reg EXCEPT ![c] = task_count]
    /\ Goto(c, "sub")
    /\ UNCHANGED <<state, current, slice, wake_in, task_count, built, handled, shared, bound, spawns, typed, passed>>

\* ... and the store of the decremented value.
CountStore(c) ==
    /\ At(c, "sub")
    /\ task_count' = IF reg[c] > 0 THEN reg[c] - 1 ELSE task_count
    /\ reg' = [reg EXCEPT ![c] = 0]
    /\ Goto(c, IF c = Service THEN "unbind" ELSE "quit")
    /\ UNCHANGED <<state, current, slice, wake_in, built, handled, shared, bound, spawns, typed, passed>>

\* task_entry_wrapper: the INT 0x80 that never returns
ExitTrap(c) ==
    /\ At(c, "quit")
    /\ DoSchedule(state, [pc EXCEPT ![c] = "gone"])
    /\ UNCHANGED <<wake_in, task_count, reg, handled, shared, bound, spawns, typed>>

-----------------------------------------------------------------------------
(* net-poll serving a peer: create_task and kill_task with interrupts on *)

\* on_remote_spawn_request -> spawn_local -> create_task_internal: the search
NetFind ==
    /\ Networked
    /\ At(Service, "run")
    /\ spawns < MaxSpawns
    /\ spawns' = spawns + 1
    /\ \E s \in Slots : FirstFree(s) /\ handled' = s
    /\ Goto(Service, "claim")
    /\ UNCHANGED <<state, current, slice, wake_in, task_count, built, reg, shared, bound, typed, passed>>

\* create_task_internal: the slot is READY before it has a frame
NetClaim ==
    /\ At(Service, "claim")
    /\ state' = [state EXCEPT ![handled] = "READY"]
    /\ wake_in' = [wake_in EXCEPT ![handled] = 0]
    /\ built' = [built EXCEPT ![handled] = FALSE]
    /\ Goto(Service, "build")
    /\ UNCHANGED <<current, slice, task_count, reg, handled, shared, bound, spawns, typed, passed>>

\* create_task_internal: frame and rsp
NetBuild ==
    /\ At(Service, "build")
    /\ built' = FrameBuilt(handled)
    /\ pc' = [pc EXCEPT ![handled] = "start", ![Service] = "inc"]
    /\ reg' = [reg EXCEPT ![handled] = 0]
    /\ UNCHANGED <<state, current, slice, wake_in, task_count, handled, shared, bound, spawns, typed, passed>>

\* create_task_internal: task_count++, the load
NetCountLoad ==
    /\ At(Service, "inc")
    /\ reg' = [reg EXCEPT ![Service] = task_count]
    /\ Goto(Service, "add")
    /\ UNCHANGED <<state, current, slice, wake_in, task_count, built, handled, shared, bound, spawns, typed, passed>>

\* and the store
NetCountStore ==
    /\ At(Service, "add")
    /\ task_count' = reg[Service] + 1
    /\ reg' = [reg EXCEPT ![Service] = 0]
    /\ Goto(Service, "bind")
    /\ UNCHANGED <<state, current, slice, wake_in, built, handled, shared, bound, spawns, typed, passed>>

\* spawn_local: sched_slot = sched
NetBind ==
    /\ At(Service, "bind")
    /\ bound' = bound \cup {handled}
    /\ handled' = NoSlot
    /\ Goto(Service, "run")
    /\ UNCHANGED <<state, current, slice, wake_in, task_count, built, reg, shared, spawns, typed, passed>>

\* on_remote_kill_request sets the stop flag of the process
NetKillFlag(s) ==
    /\ Networked
    /\ At(Service, "run")
    /\ s \in bound
    /\ handled' = s
    /\ Goto(Service, "kill")
    /\ UNCHANGED <<state, current, slice, wake_in, task_count, built, reg, shared, bound, spawns, typed, passed>>

\* and calls kill_task, which tests the slot,
NetKillTest ==
    /\ At(Service, "kill")
    /\ Goto(Service, IF Killable(handled) THEN "free" ELSE "unbind")
    /\ UNCHANGED <<state, current, slice, wake_in, task_count, built, reg, handled, shared, bound, spawns, typed, passed>>

\* frees it and counts the task out (CountLoad and CountStore);
NetKillFree ==
    /\ At(Service, "free")
    /\ state' = [state EXCEPT ![handled] = "UNUSED"]
    /\ built' = [built EXCEPT ![handled] = FALSE]
    /\ passed' = [passed EXCEPT ![handled] = {}]
    /\ Goto(Service, "dec")
    /\ UNCHANGED <<current, slice, wake_in, task_count, reg, handled, shared, bound, spawns, typed>>

\* then the entry is marked dead.  If a command has used the slot again, it is
\* another entry's, or the same entry's.
NetUnbind ==
    /\ At(Service, "unbind")
    /\ bound' \in {bound \ {handled}} \cup IF shared THEN {bound} ELSE {}
    /\ handled' = NoSlot
    /\ shared' = FALSE
    /\ Goto(Service, "run")
    /\ UNCHANGED <<state, current, slice, wake_in, task_count, built, reg, spawns, typed, passed>>

-----------------------------------------------------------------------------

TaskStep(c) ==
    \/ TaskStart(c)
    \/ \E ms \in 1 .. MaxSleep : SleepArm(c, ms)
    \/ SleepMark(c)
    \/ SleepTrap(c)
    \/ TaskReturn(c)
    \/ CountLoad(c)
    \/ CountStore(c)
    \/ ExitTrap(c)

NetStep ==
    \/ NetFind
    \/ NetClaim
    \/ NetBuild
    \/ NetCountLoad
    \/ NetCountStore
    \/ NetBind
    \/ \E s \in ProcSlots : NetKillFlag(s)
    \/ NetKillTest
    \/ NetKillFree
    \/ NetUnbind

Next ==
    \/ TimerTick
    \/ \E s \in ProcSlots : ShellSpawn(s)
    \/ \E s \in ProcSlots : ShellKill(s)
    \/ \E c \in Slots : TaskStep(c)
    \/ NetStep

Spec == Init /\ [][Next]_vars

\* The PIT keeps interrupting: tasks and the idle loops run with IF = 1.
\* Nothing obliges a task to progress, a user to type or a peer to send.
FairSpec == Spec /\ WF_vars(TimerTick)

-----------------------------------------------------------------------------
(* Properties *)

\* At most one task is RUNNING and it is the one current_task names
\* (do_schedule), whatever killed, woke or reaped slots in between.
RunningIsCurrent == \A s \in Slots : state[s] = "RUNNING" => s = current

\* create_task_internal never hands out the slot whose stack the CPU is on:
\* neither the slot of a task that is between state = TASK_DEAD and its last
\* INT 0x80, nor that of a task killed while it runs (kill_task frees the
\* slot under it at once).
NewFrame(s) == built[s] /\ pc[s] = "start"
NoReuseUnderfoot ==
    [][\A s \in Slots : NewFrame(s)' /\ ~NewFrame(s) => s # current]_vars

\* The INT 0x80 at the end of task_entry_wrapper should never return (its
\* comment).  A task that got behind it is given the CPU again only in the slot
\* that net-poll has made READY inside create_task_internal and whose rsp it
\* has not stored yet: there the old rsp is still the one of the task that has
\* exited.
ExitedStaysOff == pc[current] = "gone" => current \in HalfBuilt

\* The CPU only ever resumes a context that was built for, or saved by, the
\* task in that slot, whatever was killed and reused in between; the same slot
\* is the one exception.
ResumesBuiltFrames ==
    [][current' # current => built[current'] \/ current' \in HalfBuilt]_vars

\* A frame that is none was popped, in that slot.
Crashed == pc[current] = "wild"

\* Round robin: between the moment a task becomes READY and the moment it is
\* dispatched (or killed), no other slot is dispatched twice (pick_next).
NoOvertaking ==
    [][current' # current =>
         \A t \in Slots \ {Idle} :
            state[t] = "READY" /\ state'[t] = "READY" => current' \notin passed[t]]_vars

\* A process that the process table dropped (Process::kill) and that is off
\* the CPU is never scheduled again: kill_task's comment.
KilledStaysStopped ==
    [][\A s \in ProcSlots :
         s \notin bound /\ current' = s => current = s]_vars

\* Every READY task is dispatched (or killed), unless the CPU is lost in the
\* slot that is half built: pick_next starves nobody even though the kernel task is
\* always ready.
ReadyIsDispatched ==
    \A s \in Slots \ {Idle} : state[s] = "READY" ~> state[s] # "READY" \/ Crashed

\* Every sleeper is woken (or killed) and every dead task's slot is freed,
\* with the same exception.
SleeperWakes ==
    \A s \in Slots \ {Kernel, Idle} : state[s] = "SLEEPING" ~> state[s] # "SLEEPING" \/ Crashed
DeadIsReaped ==
    \A s \in ProcSlots : state[s] = "DEAD" ~> state[s] # "DEAD" \/ Crashed
=============================================================================
