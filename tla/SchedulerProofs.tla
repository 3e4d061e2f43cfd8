-------------------------- MODULE SchedulerProofs --------------------------
(***************************************************************************)
(* Proofs about Scheduler for every number of slots, slice length, sleep   *)
(* bound and number of spawns.                                             *)
(***************************************************************************)
EXTENDS Scheduler, TLAPS

-----------------------------------------------------------------------------
(* The inductive invariant, part by part *)

\* net-poll only ever creates and kills tasks in slots behind the boot tasks.
Busy == {"claim", "build", "inc", "add", "bind", "kill", "free", "dec", "sub", "unbind"}
HandledInv == pc[Service] \in Busy => handled \in ProcSlots

\* The boot tasks stay alive: the kernel task is always runnable, so the idle
\* task waits for ever, and the service task is never freed.  Nobody but
\* do_schedule stores their rsp.
BootInv ==
    /\ state[Kernel] \in {"READY", "RUNNING"}
    /\ state[Idle] = "READY"
    /\ state[Service] \in {"READY", "RUNNING", "SLEEPING"}
    /\ current # Idle
    /\ built[Kernel] /\ built[Service]

\* What the current task's own entry may say between two steps; it is UNUSED
\* only after a shell kill that no tick has followed yet.
CurrentInv ==
    /\ RunningIsCurrent
    /\ state[current] # "READY"
    /\ state[current] = "UNUSED" => typed

\* A slot dispatched while t waits is at least as far from t as the current one.
PassedInv ==
    \A t \in Slots :
        /\ passed[t] # {} => t \in Ready(state)
        /\ \A u \in passed[t] : Dist(u, t) >= Dist(current, t)

\* A task on its way out is off the ready list for good, unless net-poll has
\* made its slot READY again, whose frame then is not built yet.
Exiting == {"dec", "sub", "quit", "gone"}
ExitInv ==
    /\ \A s \in ProcSlots :
          pc[s] \in Exiting => state[s] \in {"DEAD", "UNUSED"} \/ s \in HalfBuilt
    /\ pc[Service] \notin {"quit", "gone"}
    /\ pc[Kernel] = "run"
    /\ ExitedStaysOff

\* Only the slot that is half built is ever READY or SLEEPING without a frame,
\* and a task that has not begun loses its frame only with its slot.
FrameInv ==
    /\ \A s \in Slots \ {current} :
          state[s] \in {"READY", "SLEEPING"} => built[s] \/ s \in HalfBuilt
    /\ pc[current] = "start" =>
          built[current] \/ state[current] = "UNUSED" \/ current \in HalfBuilt

IInv == TypeOK /\ HandledInv /\ BootInv /\ CurrentInv /\ PassedInv /\ ExitInv /\ FrameInv

-----------------------------------------------------------------------------
(* Facts about the operators of the model *)

\* The boot slots are distinct slots and no process slot.
LEMMA SlotFacts ==
    /\ Kernel \in Slots /\ Idle \in Slots /\ Service \in Slots
    /\ ProcSlots \subseteq Slots
    /\ Slots \subseteq Int
    /\ NoSlot \notin Slots
BY SizeAssumption DEF Slots, Kernel, Idle, Service, ProcSlots, NoSlot

\* The slot that is half built is none of the boot tasks'.
LEMMA HalfFacts ==
    ASSUME HandledInv
    PROVE  /\ HalfBuilt \subseteq ProcSlots
           /\ Service \notin HalfBuilt /\ Kernel \notin HalfBuilt
BY DEF HandledInv, HalfBuilt, Busy, ProcSlots

\* The cyclic distance of pick_next is between 1 and MaxTasks, and it is
\* MaxTasks only from a slot to itself.
LEMMA DistRange ==
    ASSUME NEW a \in Slots, NEW b \in Slots
    PROVE  /\ Dist(a, b) \in 1 .. MaxTasks
           /\ Dist(a, b) = MaxTasks <=> a = b
BY SizeAssumption DEF Slots, Dist

\* A slot b that pick_next meets before c on the way from a lies between them.
LEMMA DistSplit ==
    ASSUME NEW a \in Slots, NEW b \in Slots, NEW c \in Slots,
           b # c, Dist(a, b) <= Dist(a, c)
    PROVE  Dist(b, c) = Dist(a, c) - Dist(a, b)
BY SizeAssumption DEF Slots, Dist

\* What the wake and reap loops of timer_tick may do to a task state.
Moved(st) ==
    \A s \in Slots :
        \/ st[s] = state[s]
        \/ state[s] = "SLEEPING" /\ st[s] = "READY"
        \/ state[s] = "DEAD" /\ s # current /\ st[s] = "UNUSED"

\* What timer_tick's two loops do to a slot before it schedules: wake a sleeper
\* or free a dead task, never the current one.
LEMMA TickMoves ==
    ASSUME TypeOK, NEW w
    PROVE  /\ Reaped(Woken(state, w)) \in [Slots -> TaskState]
           /\ Moved(Reaped(Woken(state, w)))
BY DEF TypeOK, Reaped, Woken, Moved, TaskState

\* What do_schedule is entered with, from the timer tick and from INT 0x80.
Entered(st, p) ==
    /\ st \in [Slots -> TaskState]
    /\ p \in [Slots -> Label]
    /\ Moved(st)
    /\ \A s \in Slots \ {current} : p[s] = pc[s]
    /\ \/ p[current] = pc[current]
       \/ pc[current] \in {"trap", "quit"} /\ p[current] \in {"run", "gone"}
    /\ p[current] = "gone" => current \in ProcSlots
    /\ current = Kernel => p[current] = pc[current]
    /\ current \in ProcSlots /\ p[current] \in Exiting =>
          st[current] \in {"DEAD", "UNUSED"} \/ current \in HalfBuilt

\* A step that goes through do_schedule, in terms of the variables alone.
Switch == \E st \in [Slots -> TaskState], p \in [Slots -> Label] :
             Entered(st, p) /\ DoSchedule(st, p)

\* The tick that leaves the current task its slice.
Stay ==
    /\ state[current] = "RUNNING"
    /\ \E st \in [Slots -> TaskState] : Moved(st) /\ state' = st
    /\ UNCHANGED <<current, pc, built, passed>>
    /\ slice' \in 0 .. TimeSlice

\* A timer tick either stays on the current task or switches to another one.
LEMMA TickCases ==
    ASSUME IInv, TimerTick
    PROVE  /\ Switch \/ Stay
           /\ wake_in' \in [Slots -> 0 .. MaxSleep]
           /\ typed' = FALSE
           /\ UNCHANGED <<task_count, reg, handled, shared, bound, spawns>>
<1> DEFINE w == [i \in Slots |-> IF wake_in[i] > 0 THEN wake_in[i] - 1 ELSE 0]
           st == Reaped(Woken(state, w))
           left == IF slice > 0 THEN slice - 1 ELSE 0
<1>1. st \in [Slots -> TaskState] /\ Moved(st)
  BY TickMoves DEF IInv
<1>2. st[current] = "RUNNING" => state[current] = "RUNNING"
  BY <1>1 DEF Moved, IInv, TypeOK
<1>3. Entered(st, pc)
  <2>1. current \in Slots /\ pc \in [Slots -> Label]
    BY DEF IInv, TypeOK
  <2>2. current \in ProcSlots /\ pc[current] \in Exiting =>
          st[current] \in {"DEAD", "UNUSED"} \/ current \in HalfBuilt
    BY <1>1, <2>1 DEF IInv, ExitInv, Moved
  <2>3. pc[current] = "gone" => current \in ProcSlots
    BY HalfFacts DEF IInv, ExitInv, ExitedStaysOff
  <2> QED BY <1>1, <2>1, <2>2, <2>3 DEF Entered
<1>4. wake_in' = w /\ typed' = FALSE
      /\ UNCHANGED <<task_count, reg, handled, shared, bound, spawns>>
  BY DEF TimerTick
<1>5. w \in [Slots -> 0 .. MaxSleep]
  BY TimeAssumption DEF IInv, TypeOK
<1>6. CASE DoSchedule(st, pc)
  BY <1>1, <1>3, <1>4, <1>5, <1>6 DEF Switch, Entered
<1>7. CASE /\ st[current] = "RUNNING" /\ state' = st /\ slice' = left
           /\ UNCHANGED <<current, pc, built, passed>>
  <2>1. left \in 0 .. TimeSlice
    BY TimeAssumption DEF IInv, TypeOK
  <2> QED BY <1>1, <1>2, <1>4, <1>5, <1>7, <2>1 DEF Stay
<1> QED BY <1>6, <1>7 DEF TimerTick

\* INT 0x80, from sleep_ms or at the end of a task, is a switch.
LEMMA TrapCases ==
    ASSUME IInv, NEW c \in Slots, SleepTrap(c) \/ ExitTrap(c)
    PROVE  Switch /\ UNCHANGED <<wake_in, task_count, reg, handled, shared, bound, spawns, typed>>
<1> DEFINE p(l) == [pc EXCEPT ![c] = l]
<1>1. c = current /\ c # Kernel /\ pc \in [Slots -> Label] /\ state \in [Slots -> TaskState]
  BY DEF SleepTrap, ExitTrap, At, IInv, TypeOK
<1>2. Moved(state)
  BY DEF Moved
<1>3. CASE SleepTrap(c)
  <2>1. Entered(state, p("run"))
    BY <1>1, <1>2, <1>3 DEF Entered, Label, Exiting, SleepTrap, At
  <2>2. p("run") \in [Slots -> Label]
    BY <1>1 DEF Label
  <2> QED BY <1>1, <1>3, <2>1, <2>2 DEF Switch, SleepTrap
<1>4. CASE ExitTrap(c)
  <2>1. c \in ProcSlots /\ (state[c] \in {"DEAD", "UNUSED"} \/ c \in HalfBuilt)
    BY <1>1, <1>4 DEF ExitTrap, At, IInv, ExitInv, Exiting, ProcSlots
  <2>2. Entered(state, p("gone"))
    BY <1>1, <1>2, <1>4, <2>1 DEF Entered, Label, Exiting, ExitTrap, At
  <2>3. p("gone") \in [Slots -> Label]
    BY <1>1 DEF Label
  <2> QED BY <1>1, <1>4, <2>2, <2>3 DEF Switch, ExitTrap
<1> QED BY <1>3, <1>4

-----------------------------------------------------------------------------
(* What do_schedule guarantees *)

\* The kernel task is always ready, so pick_next always finds a task and never
\* has to fall back on the idle task.
LEMMA SwitchTarget ==
    ASSUME IInv, NEW st, NEW p, Entered(st, p),
           NEW n \in Slots, IsNext(Saved(st), n)
    PROVE  /\ n \in Ready(Saved(st))
           /\ Saved(st) \in [Slots -> TaskState]
           /\ \A i \in Ready(Saved(st)) : Dist(current, n) <= Dist(current, i)
           /\ n # current => st[n] = "READY"
           /\ n = current => st[current] \in {"READY", "RUNNING"}
<1>1. Kernel \in Slots /\ Kernel # Idle /\ current \in Slots
  BY SlotFacts DEF IInv, TypeOK, Kernel, Idle
<1>2. st \in [Slots -> TaskState] /\ st[Kernel] \in {"READY", "RUNNING"}
  BY <1>1 DEF Entered, Moved, IInv, BootInv
<1>3. st[Kernel] = "RUNNING" => Kernel = current
  BY <1>1, <1>2 DEF Entered, Moved, IInv, CurrentInv, RunningIsCurrent
<1>4. Saved(st) \in [Slots -> TaskState]
  BY <1>1, <1>2 DEF Saved, TaskState
<1>5. Kernel \in Ready(Saved(st))
  BY <1>1, <1>2, <1>3, <1>4 DEF Ready, Saved
<1>6. n \in Ready(Saved(st)) /\ \A i \in Ready(Saved(st)) : Dist(current, n) <= Dist(current, i)
  BY <1>5 DEF IsNext
<1>7. (n # current => st[n] = "READY") /\ (n = current => st[current] \in {"READY", "RUNNING"})
  BY <1>1, <1>2, <1>6 DEF Ready, Saved
<1> QED BY <1>4, <1>6, <1>7

\* do_schedule keeps the types.
LEMMA SwitchType ==
    ASSUME IInv, Switch
    PROVE  /\ state' \in [Slots -> TaskState] /\ current' \in Slots
           /\ slice' \in 0 .. TimeSlice /\ built' \in [Slots -> BOOLEAN]
           /\ pc' \in [Slots -> Label] /\ passed' \in [Slots -> SUBSET Slots]
<1>1. PICK st \in [Slots -> TaskState], p \in [Slots -> Label] : Entered(st, p) /\ DoSchedule(st, p)
  BY DEF Switch
<1>2. PICK n \in Slots : IsNext(Saved(st), n) /\ SwitchTo(n, st, p)
  BY <1>1 DEF DoSchedule
<1>3. Saved(st) \in [Slots -> TaskState]
  BY <1>1, <1>2, SwitchTarget
<1>4. state' \in [Slots -> TaskState] /\ current' \in Slots
  BY <1>2, <1>3 DEF TaskState, SwitchTo
<1>5. slice' \in 0 .. TimeSlice
  BY <1>2, TimeAssumption DEF SwitchTo
<1>6. built' \in [Slots -> BOOLEAN]
  <2>1. (st[current] # "UNUSED" /\ current \notin HalfBuilt) \in BOOLEAN
    OBVIOUS
  <2> QED BY <1>2, <2>1 DEF IInv, TypeOK, SwitchTo
<1>7. pc' \in [Slots -> Label]
  <2>1. PICK l \in Resumed(n, p) : pc' = [p EXCEPT ![n] = l]
    BY <1>2 DEF SwitchTo
  <2>2. l \in Label
    BY <1>1, <2>1 DEF Resumed, Label
  <2> QED BY <1>1, <2>1, <2>2
<1>8. passed' \in [Slots -> SUBSET Slots]
  BY <1>2 DEF IInv, TypeOK, SwitchTo
<1> QED BY <1>4, <1>5, <1>6, <1>7, <1>8

\* After do_schedule exactly the new current task is RUNNING, and the boot
\* tasks are where they have to be.
LEMMA SwitchCurrent ==
    ASSUME IInv, Switch
    PROVE  /\ BootInv' /\ RunningIsCurrent' /\ state'[current'] = "RUNNING"
           /\ \A t \in Slots : state'[t] = "READY" /\ t # current =>
                 state[t] \in {"READY", "SLEEPING"}
<1>1. PICK st \in [Slots -> TaskState], p \in [Slots -> Label] : Entered(st, p) /\ DoSchedule(st, p)
  BY DEF Switch
<1>2. PICK n \in Slots : IsNext(Saved(st), n) /\ SwitchTo(n, st, p)
  BY <1>1 DEF DoSchedule
<1>3. /\ n \in Ready(Saved(st)) /\ Saved(st) \in [Slots -> TaskState]
      /\ current \in Slots
  BY <1>1, <1>2, SwitchTarget DEF IInv, TypeOK
<1>4. \A s \in Slots : Saved(st)[s] # "RUNNING"
  BY <1>1, <1>3 DEF Saved, Entered, Moved, IInv, CurrentInv, RunningIsCurrent
<1>5. RunningIsCurrent' /\ state'[current'] = "RUNNING"
  BY <1>2, <1>3, <1>4 DEF RunningIsCurrent, SwitchTo
<1>6. BootInv'
  <2>1. Kernel \in Slots /\ Idle \in Slots /\ Service \in Slots
    BY SlotFacts
  <2>2. n # Idle /\ current # Idle
    BY <1>3 DEF Ready, IInv, BootInv
  <2>3. Saved(st)[Idle] = "READY" /\ Saved(st)[Kernel] = "READY"
        /\ Saved(st)[Service] \in {"READY", "SLEEPING"}
    BY <1>1, <1>3, <1>4, <2>1, <2>2 DEF Saved, Entered, Moved, IInv, BootInv
  <2>4. st[current] = "UNUSED" => current # Kernel /\ current # Service
    BY <1>1, <2>1 DEF Entered, Moved, IInv, BootInv
  <2>5. built'[Kernel] /\ built'[Service]
    BY <1>2, <2>1, <2>4, HalfFacts DEF IInv, TypeOK, BootInv, SwitchTo
  <2> QED BY <1>2, <1>3, <2>1, <2>2, <2>3, <2>5 DEF BootInv, SwitchTo
<1>7. \A t \in Slots : state'[t] = "READY" /\ t # current => state[t] \in {"READY", "SLEEPING"}
  BY <1>1, <1>2, <1>3 DEF SwitchTo, Saved, Entered, Moved
<1> QED BY <1>5, <1>6, <1>7

\* Every switch brings the CPU strictly closer to every task that keeps
\* waiting, so what was dispatched before lies behind.
LEMMA SwitchPassed ==
    ASSUME IInv, Switch
    PROVE  /\ PassedInv'
           /\ current' # current =>
                \A t \in Slots \ {Idle} :
                   state[t] = "READY" /\ state'[t] = "READY" => current' \notin passed[t]
<1>1. PICK st \in [Slots -> TaskState], p \in [Slots -> Label] : Entered(st, p) /\ DoSchedule(st, p)
  BY DEF Switch
<1>2. PICK n \in Slots : IsNext(Saved(st), n) /\ SwitchTo(n, st, p)
  BY <1>1 DEF DoSchedule
<1>3. /\ n \in Ready(Saved(st)) /\ Saved(st) \in [Slots -> TaskState]
      /\ \A i \in Ready(Saved(st)) : Dist(current, n) <= Dist(current, i)
      /\ current \in Slots /\ passed \in [Slots -> SUBSET Slots]
  BY <1>1, <1>2, SwitchTarget DEF IInv, TypeOK
<1>4. ASSUME NEW t \in Ready(Saved(st)) \ {n}, NEW u \in passed[t]
      PROVE  Dist(u, t) > Dist(n, t)
  <2>1. t \in Slots /\ u \in Slots /\ n # t
    BY <1>3 DEF Ready
  <2>2. Dist(u, t) >= Dist(current, t)
    BY <2>1 DEF IInv, PassedInv
  <2>3. Dist(n, t) = Dist(current, t) - Dist(current, n)
    BY <1>3, <2>1, DistSplit
  <2>4. /\ Dist(current, n) \in 1 .. MaxTasks /\ Dist(current, t) \in 1 .. MaxTasks
        /\ Dist(u, t) \in 1 .. MaxTasks /\ Dist(n, t) \in 1 .. MaxTasks
    BY <1>3, <2>1, DistRange
  <2> QED BY <2>2, <2>3, <2>4, SizeAssumption
<1>5. PassedInv'
  <2> SUFFICES ASSUME NEW t \in Slots
               PROVE  /\ passed'[t] # {} => t \in Ready(state')
                      /\ \A u \in passed'[t] : Dist(u, t) >= Dist(current', t)
    BY DEF PassedInv, Ready, Dist
  <2>1. CASE t \in Ready(Saved(st)) \ {n}
    <3>1. passed'[t] = passed[t] \cup {n} /\ current' = n
      BY <1>2, <2>1 DEF SwitchTo
    <3>2. t \in Ready(state')
      BY <1>2, <1>3, <2>1 DEF SwitchTo, Ready
    <3>3. \A u \in passed[t] : Dist(u, t) >= Dist(n, t)
      <4> SUFFICES ASSUME NEW u \in passed[t] PROVE Dist(u, t) >= Dist(n, t)
        OBVIOUS
      <4>1. Dist(u, t) > Dist(n, t)
        BY <1>4, <2>1
      <4>2. Dist(u, t) \in Int /\ Dist(n, t) \in Int
        BY <1>3, DistRange
      <4> QED BY <4>1, <4>2
    <3>4. Dist(n, t) \in Int
      BY DistRange
    <3> QED BY <3>1, <3>2, <3>3, <3>4
  <2>2. CASE t \notin Ready(Saved(st)) \ {n}
    BY <1>2, <2>2 DEF SwitchTo
  <2> QED BY <2>1, <2>2
<1>6. ASSUME NEW t \in Slots \ {Idle}, state[t] = "READY", state'[t] = "READY", current' # current
      PROVE  current' \notin passed[t]
  <2>1. t \in Ready(Saved(st)) \ {n}
    BY <1>2, <1>3, <1>6 DEF SwitchTo, Ready
  <2>2. \A u \in passed[t] : Dist(u, t) > Dist(n, t)
    BY <1>4, <2>1
  <2>3. Dist(n, t) \in Int
    BY DistRange
  <2> QED BY <1>2, <2>2, <2>3 DEF SwitchTo
<1> QED BY <1>5, <1>6

\* do_schedule goes on where the dispatched task was, except in the slot that
\* is half built; net-poll's own context is never lost.
LEMMA SwitchContext ==
    ASSUME IInv, NEW st, NEW p, Entered(st, p), NEW n \in Slots,
           IsNext(Saved(st), n), SwitchTo(n, st, p), handled' = handled
    PROVE  /\ pc' \in [Slots -> Label]
           /\ \A s \in Slots : s # n \/ s = current \/ built[s] => pc'[s] = p[s]
           /\ pc'[n] = p[n] \/ pc'[n] = "wild"
           /\ n # current => state[n] \in {"READY", "SLEEPING"}
           /\ n # current => built[n] \/ n \in HalfBuilt
           /\ pc'[Service] = p[Service]
           /\ pc'[Service] = pc[Service] \/ pc'[Service] \in {"run", "gone"}
           /\ HalfBuilt' = HalfBuilt
<1>1. PICK l \in Resumed(n, p) : pc' = [p EXCEPT ![n] = l]
  BY DEF SwitchTo
<1>2. p \in [Slots -> Label] /\ l \in Label /\ (l = p[n] \/ l = "wild")
      /\ (n = current \/ built[n] => l = p[n])
  BY <1>1 DEF Entered, Resumed, Label
<1>3. /\ n # current => state[n] \in {"READY", "SLEEPING"}
      /\ current \in Slots /\ Service \in Slots
  BY SwitchTarget, SlotFacts DEF Entered, Moved, IInv, TypeOK
<1>4. n # current => built[n] \/ n \in HalfBuilt
  BY <1>3 DEF IInv, FrameInv
<1>5. pc'[Service] = p[Service]
  BY <1>1, <1>2, <1>3 DEF IInv, BootInv
<1>6. p[Service] = pc[Service] \/ (pc[Service] \in {"trap", "quit"} /\ p[Service] \in {"run", "gone"})
  BY <1>3 DEF Entered
<1>7. HalfBuilt' = HalfBuilt
  BY <1>5, <1>6 DEF HalfBuilt
<1> QED BY <1>1, <1>2, <1>3, <1>4, <1>5, <1>6, <1>7

\* do_schedule resumes a task behind its last INT 0x80 only in the slot that is
\* half built.
LEMMA SwitchExit ==
    ASSUME IInv, Switch, handled' = handled
    PROVE  /\ ExitInv'
           /\ HandledInv'
<1>1. PICK st \in [Slots -> TaskState], p \in [Slots -> Label] : Entered(st, p) /\ DoSchedule(st, p)
  BY DEF Switch
<1>2. PICK n \in Slots : IsNext(Saved(st), n) /\ SwitchTo(n, st, p)
  BY <1>1 DEF DoSchedule
<1>3. /\ n \in Ready(Saved(st)) /\ Saved(st) \in [Slots -> TaskState]
      /\ n # current => st[n] = "READY"
      /\ n = current => st[current] \in {"READY", "RUNNING"}
      /\ current \in Slots /\ built \in [Slots -> BOOLEAN] /\ pc \in [Slots -> Label]
  BY <1>1, <1>2, SwitchTarget DEF IInv, TypeOK
<1>4. Kernel \in Slots /\ Service \in Slots /\ ProcSlots \subseteq Slots
      /\ Kernel \notin ProcSlots /\ Service \notin ProcSlots /\ Kernel # Service
  BY SlotFacts DEF ProcSlots, Kernel, Service
<1>5. /\ \A s \in Slots : s # n \/ s = current \/ built[s] => pc'[s] = p[s]
      /\ pc'[n] = p[n] \/ pc'[n] = "wild"
      /\ pc'[Service] = p[Service]
      /\ pc'[Service] = pc[Service] \/ pc'[Service] \in {"run", "gone"}
      /\ HalfBuilt' = HalfBuilt
  BY <1>1, <1>2, SwitchContext
<1>6. ASSUME NEW s \in ProcSlots, pc'[s] \in Exiting
      PROVE  (state'[s] \in {"DEAD", "UNUSED"} /\ s # n) \/ s \in HalfBuilt
  <2>1. s \in Slots
    BY <1>4
  <2>2. p[s] \in Exiting
    BY <1>5, <1>6, <2>1 DEF Exiting
  <2>3. st[s] \in {"DEAD", "UNUSED"} \/ s \in HalfBuilt
    <3>1. CASE s = current
      BY <1>1, <2>2, <3>1 DEF Entered
    <3>2. CASE s # current
      <4>1. state[s] \in {"DEAD", "UNUSED"} \/ s \in HalfBuilt
        BY <1>1, <2>1, <2>2, <3>2 DEF Entered, IInv, ExitInv
      <4> QED BY <1>1, <2>1, <4>1 DEF Entered, Moved
    <3> QED BY <3>1, <3>2
  <2>4. st[s] \in {"DEAD", "UNUSED"} => s # n /\ state'[s] = st[s]
    BY <1>2, <1>3, <2>1 DEF SwitchTo, Saved
  <2> QED BY <2>3, <2>4
<1>7. pc'[Service] \notin {"quit", "gone"}
  BY <1>1, <1>3, <1>4, <1>5 DEF Entered, IInv, ExitInv
<1>8. pc'[Kernel] = "run"
  BY <1>1, <1>4, <1>5 DEF Entered, IInv, ExitInv, BootInv
<1>9. pc'[current'] = "gone" => current' \in HalfBuilt
  <2>1. n # Idle /\ current' = n
    BY <1>2, <1>3 DEF Ready, SwitchTo
  <2>2. n = Kernel \/ n = Service \/ n \in ProcSlots
    BY <2>1 DEF ProcSlots
  <2> QED BY <1>6, <1>7, <1>8, <2>1, <2>2 DEF Exiting
<1>10. HandledInv'
  BY <1>5 DEF IInv, HandledInv, Busy
<1>11. ExitInv'
  BY <1>5, <1>6, <1>7, <1>8, <1>9 DEF ExitInv, ExitedStaysOff
<1> QED BY <1>10, <1>11

\* do_schedule leaves a frame under every task that may be dispatched.
LEMMA SwitchFrame ==
    ASSUME IInv, Switch, handled' = handled
    PROVE  /\ FrameInv'
           /\ current' # current => built[current'] \/ current' \in HalfBuilt
           /\ built'[current] /\ pc'[current] = "start" =>
                 built[current] /\ pc[current] = "start"
<1>1. PICK st \in [Slots -> TaskState], p \in [Slots -> Label] : Entered(st, p) /\ DoSchedule(st, p)
  BY DEF Switch
<1>2. PICK n \in Slots : IsNext(Saved(st), n) /\ SwitchTo(n, st, p)
  BY <1>1 DEF DoSchedule
<1>3. /\ Saved(st) \in [Slots -> TaskState]
      /\ n # current => st[n] = "READY"
      /\ n = current => st[current] \in {"READY", "RUNNING"}
      /\ current \in Slots /\ built \in [Slots -> BOOLEAN] /\ pc \in [Slots -> Label]
      /\ current' = n
  BY <1>1, <1>2, SwitchTarget DEF IInv, TypeOK, SwitchTo
<1>4. /\ \A s \in Slots : s # n \/ s = current \/ built[s] => pc'[s] = p[s]
      /\ n # current => built[n] \/ n \in HalfBuilt
      /\ HalfBuilt' = HalfBuilt
  BY <1>1, <1>2, SwitchContext
<1>5. built' = [built EXCEPT ![current] = (st[current] # "UNUSED" /\ current \notin HalfBuilt)]
  BY <1>2 DEF SwitchTo
<1>6. ASSUME NEW s \in Slots \ {n}, state'[s] \in {"READY", "SLEEPING"}
      PROVE  built'[s] \/ s \in HalfBuilt
  <2>1. CASE s = current
    <3>1. st[current] # "UNUSED"
      BY <1>2, <1>3, <1>6, <2>1 DEF SwitchTo, Saved
    <3> QED BY <1>3, <1>5, <2>1, <3>1
  <2>2. CASE s # current
    <3>1. state'[s] = st[s] /\ built'[s] = built[s]
      BY <1>2, <1>3, <1>5, <2>2 DEF SwitchTo, Saved
    <3>2. state[s] \in {"READY", "SLEEPING"}
      BY <1>1, <1>6, <3>1 DEF Entered, Moved
    <3> QED BY <2>2, <3>1, <3>2 DEF IInv, FrameInv
  <2> QED BY <2>1, <2>2
<1>7. built'[n] \/ n \in HalfBuilt
  <2>1. CASE n = current
    BY <1>3, <1>5, <2>1
  <2>2. CASE n # current
    BY <1>3, <1>4, <1>5, <2>2
  <2> QED BY <2>1, <2>2
<1>8. FrameInv'
  BY <1>3, <1>4, <1>6, <1>7 DEF FrameInv
<1>9. ASSUME built'[current], pc'[current] = "start"
      PROVE  built[current] /\ pc[current] = "start"
  <2>1. p[current] = "start" /\ st[current] # "UNUSED" /\ current \notin HalfBuilt
    BY <1>3, <1>4, <1>5, <1>9
  <2>2. pc[current] = "start" /\ state[current] # "UNUSED"
    BY <1>1, <1>3, <2>1 DEF Entered, Moved
  <2> QED BY <2>1, <2>2 DEF IInv, FrameInv
<1> QED BY <1>3, <1>4, <1>8, <1>9

-----------------------------------------------------------------------------
(* Every step preserves the invariant *)

\* The slots that a step other than a switch can name.
LEMMA StepSlots ==
    ASSUME IInv
    PROVE  /\ \A s : FirstFree(s) => s \in ProcSlots
           /\ \A c, l : At(c, l) => c = current /\ c \in Slots
                                   /\ (c = Service \/ c \in ProcSlots)
           /\ \A l \in Busy : At(Service, l) => handled \in ProcSlots /\ current = Service
BY SlotFacts DEF IInv, TypeOK, BootInv, HandledInv, FirstFree, At, ProcSlots, Slots, Kernel, Idle, Service

\* Type correctness is preserved.
LEMMA TypeStep == IInv /\ [Next]_vars => TypeOK'
<1> SUFFICES ASSUME IInv, [Next]_vars PROVE TypeOK'
  OBVIOUS
<1> USE SlotFacts
<1>1. CASE TimerTick
  <2>1. CASE Switch
    BY <1>1, <2>1, TickCases, SwitchType DEF TypeOK, IInv
  <2>2. CASE Stay
    BY <1>1, <2>2, TickCases DEF TypeOK, IInv, Stay
  <2> QED BY <1>1, <2>1, <2>2, TickCases
<1>2. ASSUME NEW s \in ProcSlots, ShellSpawn(s) PROVE TypeOK'
  <2>1. shared' \in BOOLEAN /\ typed' \in BOOLEAN
    BY <1>2 DEF ShellSpawn, ShellIRQ
  <2>2. built' \in [Slots -> BOOLEAN] /\ bound' \in SUBSET ProcSlots
    BY <1>2 DEF ShellSpawn, FrameBuilt, TypeOK, IInv
  <2>3. /\ state' \in [Slots -> TaskState] /\ pc' \in [Slots -> Label]
        /\ wake_in' \in [Slots -> 0 .. MaxSleep] /\ reg' \in [Slots -> Nat]
        /\ task_count' \in Nat /\ spawns' \in 0 .. MaxSpawns
    BY <1>2, SpawnsAssumption, TimeAssumption DEF ShellSpawn, TypeOK, IInv, TaskState, Label
  <2> QED BY <1>2, <2>1, <2>2, <2>3 DEF ShellSpawn, TypeOK, IInv
<1>3. ASSUME NEW s \in ProcSlots, ShellKill(s) PROVE TypeOK'
  <2>1. state' \in [Slots -> TaskState] /\ built' \in [Slots -> BOOLEAN]
    BY <1>3 DEF ShellKill, TypeOK, IInv, TaskState
  <2>2. task_count' \in Nat
    BY <1>3 DEF ShellKill, Dec, TypeOK, IInv
  <2>3. bound' \in SUBSET ProcSlots /\ passed' \in [Slots -> SUBSET Slots]
    BY <1>3 DEF ShellKill, TypeOK, IInv
  <2> QED BY <1>3, <2>1, <2>2, <2>3 DEF ShellKill, ShellIRQ, TypeOK, IInv
<1>4. ASSUME NEW c \in Slots, SleepTrap(c) \/ ExitTrap(c) PROVE TypeOK'
  BY <1>4, TrapCases, SwitchType DEF TypeOK, IInv
<1>5. ASSUME NEW c \in Slots, TaskStart(c) PROVE TypeOK'
  BY <1>5 DEF TaskStart, Goto, TypeOK, IInv, Label
<1>6. ASSUME NEW c \in Slots, NEW ms \in 1 .. MaxSleep, SleepArm(c, ms) PROVE TypeOK'
  BY <1>6, TimeAssumption DEF SleepArm, Goto, TypeOK, IInv, Label
<1>7. ASSUME NEW c \in Slots, SleepMark(c) PROVE TypeOK'
  BY <1>7 DEF SleepMark, Goto, TypeOK, IInv, Label, TaskState
<1>8. ASSUME NEW c \in Slots, TaskReturn(c) PROVE TypeOK'
  BY <1>8 DEF TaskReturn, Goto, TypeOK, IInv, Label, TaskState
<1>9. ASSUME NEW c \in Slots, CountLoad(c) PROVE TypeOK'
  BY <1>9 DEF CountLoad, Goto, TypeOK, IInv, Label
<1>10. ASSUME NEW c \in Slots, CountStore(c) PROVE TypeOK'
  BY <1>10 DEF CountStore, Goto, TypeOK, IInv, Label
<1>11. CASE NetFind
  <2>1. handled' \in Slots
    BY <1>11, StepSlots DEF NetFind
  <2> QED BY <1>11, <2>1, SpawnsAssumption DEF NetFind, Goto, TypeOK, IInv, Label
<1>12. CASE NetClaim
  <2>1. handled \in Slots
    BY <1>12, StepSlots DEF NetClaim, Busy
  <2> QED BY <1>12, <2>1, TimeAssumption DEF NetClaim, Goto, TypeOK, IInv, Label, TaskState
<1>13. CASE NetBuild
  <2>1. handled \in Slots
    BY <1>13, StepSlots DEF NetBuild, Busy
  <2> QED BY <1>13, <2>1 DEF NetBuild, FrameBuilt, TypeOK, IInv, Label
<1>14. CASE NetCountLoad \/ NetCountStore
  <2>1. reg[Service] \in Nat /\ task_count \in Nat
    BY DEF TypeOK, IInv
  <2>2. reg' \in [Slots -> Nat] /\ task_count' \in Nat
    BY <1>14, <2>1 DEF NetCountLoad, NetCountStore, TypeOK, IInv
  <2>3. pc' \in [Slots -> Label]
    BY <1>14 DEF NetCountLoad, NetCountStore, Goto, TypeOK, IInv, Label
  <2> QED BY <1>14, <2>2, <2>3 DEF NetCountLoad, NetCountStore, TypeOK, IInv
<1>15. CASE NetBind
  <2>1. handled \in ProcSlots
    BY <1>15, StepSlots DEF NetBind, Busy
  <2> QED BY <1>15, <2>1 DEF NetBind, Goto, TypeOK, IInv, Label
<1>16. ASSUME NEW s \in ProcSlots, NetKillFlag(s) PROVE TypeOK'
  BY <1>16 DEF NetKillFlag, Goto, TypeOK, IInv, Label
<1>17. CASE NetKillTest
  BY <1>17 DEF NetKillTest, Goto, TypeOK, IInv, Label
<1>18. CASE NetKillFree
  <2>1. handled \in Slots
    BY <1>18, StepSlots DEF NetKillFree, Busy
  <2>2. passed' \in [Slots -> SUBSET Slots]
    BY <1>18, <2>1 DEF NetKillFree, TypeOK, IInv
  <2> QED BY <1>18, <2>1, <2>2 DEF NetKillFree, Goto, TypeOK, IInv, TaskState, Label
<1>19. CASE NetUnbind
  <2>1. bound' \in SUBSET ProcSlots
    BY <1>19 DEF NetUnbind, TypeOK, IInv
  <2> QED BY <1>19, <2>1 DEF NetUnbind, Goto, TypeOK, IInv, Label
<1>20. CASE UNCHANGED vars
  BY <1>20 DEF vars, TypeOK, IInv
<1> QED BY <1>1, <1>2, <1>3, <1>4, <1>5, <1>6, <1>7, <1>8, <1>9, <1>10, <1>11, <1>12,
           <1>13, <1>14, <1>15, <1>16, <1>17, <1>18, <1>19, <1>20 DEF Next, TaskStep, NetStep

\* The task states a step may leave: the boot tasks, the current task.
LEMMA StateStep == IInv /\ [Next]_vars => HandledInv' /\ BootInv' /\ CurrentInv'
<1> SUFFICES ASSUME IInv, [Next]_vars PROVE HandledInv' /\ BootInv' /\ CurrentInv'
  OBVIOUS
<1> USE SlotFacts
<1>0. Service \notin ProcSlots /\ Kernel \notin ProcSlots /\ Idle \notin ProcSlots
      /\ Service # Kernel /\ Service # Idle
  BY DEF ProcSlots, Service, Kernel, Idle
<1>1. CASE TimerTick
  <2>1. CASE Switch
    BY <1>1, <2>1, TickCases, SwitchCurrent, SwitchExit DEF IInv, HandledInv, CurrentInv
  <2>2. CASE Stay
    BY <1>0, <1>1, <2>2, TickCases
       DEF IInv, TypeOK, Stay, Moved, HandledInv, BootInv, CurrentInv, RunningIsCurrent
  <2> QED BY <1>1, <2>1, <2>2, TickCases
<1>2. ASSUME NEW s \in ProcSlots, ShellSpawn(s) PROVE HandledInv' /\ BootInv' /\ CurrentInv'
  BY <1>0, <1>2 DEF ShellSpawn, ShellIRQ, FrameBuilt, FirstFree, IInv, TypeOK, HandledInv, BootInv,
                    CurrentInv, RunningIsCurrent
<1>3. ASSUME NEW s \in ProcSlots, ShellKill(s) PROVE HandledInv' /\ BootInv' /\ CurrentInv'
  BY <1>0, <1>3 DEF ShellKill, ShellIRQ, Killable, IInv, TypeOK, HandledInv, BootInv,
                    CurrentInv, RunningIsCurrent
<1>4. ASSUME NEW c \in Slots, SleepTrap(c) \/ ExitTrap(c)
      PROVE  HandledInv' /\ BootInv' /\ CurrentInv'
  BY <1>4, TrapCases, SwitchCurrent, SwitchExit DEF IInv, HandledInv, CurrentInv
<1>5. ASSUME NEW c \in Slots,
             \/ TaskStart(c)
             \/ \E ms \in 1 .. MaxSleep : SleepArm(c, ms)
             \/ CountLoad(c)
             \/ CountStore(c)
      PROVE  HandledInv' /\ BootInv' /\ CurrentInv'
  BY <1>0, <1>5, StepSlots DEF At, Busy, TaskStart, SleepArm, CountLoad, CountStore, Goto, IInv, TypeOK,
                    HandledInv, BootInv, CurrentInv, RunningIsCurrent
<1>6. ASSUME NEW c \in Slots, SleepMark(c) PROVE HandledInv' /\ BootInv' /\ CurrentInv'
  BY <1>0, <1>6 DEF Busy, SleepMark, At, Goto, IInv, TypeOK, HandledInv, BootInv, CurrentInv,
                    RunningIsCurrent
<1>7. ASSUME NEW c \in Slots, TaskReturn(c) PROVE HandledInv' /\ BootInv' /\ CurrentInv'
  BY <1>0, <1>7 DEF Busy, TaskReturn, At, Goto, IInv, TypeOK, HandledInv, BootInv, CurrentInv,
                    RunningIsCurrent
<1>8. CASE NetFind
  BY <1>8, StepSlots DEF NetFind, IInv, HandledInv, BootInv, CurrentInv, RunningIsCurrent
<1>9. CASE NetClaim
  <2>1. handled \in ProcSlots /\ current = Service
    BY <1>9, StepSlots DEF NetClaim, Busy
  <2> QED BY <1>0, <1>9, <2>1 DEF NetClaim, Goto, IInv, TypeOK, HandledInv, BootInv, CurrentInv,
                                  RunningIsCurrent
<1>10. CASE NetBuild
  <2>1. handled \in ProcSlots /\ current = Service
    BY <1>10, StepSlots DEF NetBuild, Busy
  <2> QED BY <1>0, <1>10, <2>1 DEF NetBuild, FrameBuilt, IInv, TypeOK, HandledInv, BootInv,
                                   CurrentInv, RunningIsCurrent
<1>11. CASE NetCountLoad \/ NetCountStore \/ NetKillTest
  BY <1>0, <1>11 DEF NetCountLoad, NetCountStore, NetKillTest, At, Goto, Busy, IInv, TypeOK,
                     HandledInv, BootInv, CurrentInv, RunningIsCurrent
<1>12. CASE NetBind \/ NetUnbind
  BY <1>0, <1>12 DEF NetBind, NetUnbind, At, Goto, Busy, IInv, TypeOK, HandledInv, BootInv,
                     CurrentInv, RunningIsCurrent
<1>13. ASSUME NEW s \in ProcSlots, NetKillFlag(s)
       PROVE  HandledInv' /\ BootInv' /\ CurrentInv'
  BY <1>0, <1>13 DEF NetKillFlag, IInv, HandledInv, BootInv, CurrentInv, RunningIsCurrent
<1>14. CASE NetKillFree
  <2>1. handled \in ProcSlots /\ current = Service
    BY <1>14, StepSlots DEF NetKillFree, Busy
  <2> QED BY <1>0, <1>14, <2>1 DEF NetKillFree, Goto, IInv, TypeOK, HandledInv, BootInv,
                                   CurrentInv, RunningIsCurrent
<1>15. CASE UNCHANGED vars
  BY <1>15 DEF vars, IInv, HandledInv, BootInv, CurrentInv, RunningIsCurrent
<1> QED BY <1>1, <1>2, <1>3, <1>4, <1>5, <1>6, <1>7, <1>8, <1>9, <1>10, <1>11, <1>12,
           <1>13, <1>14, <1>15 DEF Next, TaskStep, NetStep

\* The order in which waiting tasks are passed.
LEMMA PassedStep == IInv /\ [Next]_vars => PassedInv'
<1> SUFFICES ASSUME IInv, [Next]_vars PROVE PassedInv'
  OBVIOUS
<1> USE SlotFacts
<1>0. /\ state \in [Slots -> TaskState] /\ passed \in [Slots -> SUBSET Slots]
      /\ current \in Slots /\ state[current] # "READY"
  BY DEF IInv, TypeOK, CurrentInv
<1>1. CASE TimerTick
  <2>1. CASE Switch
    BY <2>1, SwitchPassed
  <2>2. CASE Stay
    <3>1. Ready(state) \subseteq Ready(state')
      BY <1>0, <2>2 DEF Stay, Moved, Ready
    <3> QED BY <2>2, <3>1 DEF Stay, IInv, PassedInv, Dist
  <2> QED BY <1>1, <2>1, <2>2, TickCases
<1>2. ASSUME NEW s \in ProcSlots, ShellSpawn(s) PROVE PassedInv'
  <2>1. Ready(state) \subseteq Ready(state')
    BY <1>0, <1>2 DEF ShellSpawn, Ready
  <2> QED BY <1>2, <2>1 DEF ShellSpawn, IInv, PassedInv, Dist
<1>3. ASSUME NEW s \in ProcSlots, ShellKill(s) \/ (NetKillFree /\ s = handled) PROVE PassedInv'
  <2>1. passed' = [passed EXCEPT ![s] = {}] /\ current' = current
    BY <1>3 DEF ShellKill, NetKillFree
  <2>2. Ready(state) \ {s} \subseteq Ready(state')
    BY <1>0, <1>3 DEF ShellKill, NetKillFree, Ready
  <2> QED BY <1>0, <2>1, <2>2 DEF IInv, PassedInv, Dist
<1>4. ASSUME NEW c \in Slots, SleepTrap(c) \/ ExitTrap(c) PROVE PassedInv'
  BY <1>4, TrapCases, SwitchPassed
<1>5. ASSUME NEW c \in Slots,
             \/ TaskStart(c)
             \/ \E ms \in 1 .. MaxSleep : SleepArm(c, ms)
             \/ CountLoad(c)
             \/ CountStore(c)
      PROVE  PassedInv'
  BY <1>5 DEF TaskStart, SleepArm, CountLoad, CountStore, IInv, PassedInv, Dist, Ready
<1>6. ASSUME NEW c \in Slots, SleepMark(c) \/ TaskReturn(c) PROVE PassedInv'
  <2>1. Ready(state) \subseteq Ready(state')
    BY <1>0, <1>6 DEF SleepMark, TaskReturn, At, Ready
  <2> QED BY <1>6, <2>1 DEF SleepMark, TaskReturn, IInv, PassedInv, Dist
<1>7. CASE \/ NetFind \/ NetBuild \/ NetCountLoad \/ NetCountStore \/ NetBind
           \/ (\E s \in ProcSlots : NetKillFlag(s)) \/ NetKillTest \/ NetUnbind
  BY <1>7 DEF NetFind, NetBuild, NetCountLoad, NetCountStore, NetBind, NetKillFlag, NetKillTest,
              NetUnbind, IInv, PassedInv, Dist, Ready
<1>8. CASE NetClaim
  <2>1. Ready(state) \subseteq Ready(state')
    BY <1>0, <1>8 DEF NetClaim, Ready
  <2> QED BY <1>8, <2>1 DEF NetClaim, IInv, PassedInv, Dist
<1>9. CASE NetKillFree
  <2>1. handled \in ProcSlots
    BY <1>9, StepSlots DEF NetKillFree, Busy
  <2> QED BY <1>3, <1>9, <2>1
<1>10. CASE UNCHANGED vars
  BY <1>10 DEF vars, IInv, PassedInv, Dist, Ready
<1> QED BY <1>1, <1>2, <1>3, <1>4, <1>5, <1>6, <1>7, <1>8, <1>9, <1>10 DEF Next, TaskStep, NetStep

\* A step that leaves the CPU where it is moves net-poll into or out of the
\* window of the half-built slot only by its own two steps.
LEMMA HalfStays ==
    ASSUME pc'[Service] = pc[Service] \/ (pc'[Service] # "build" /\ pc[Service] # "build"),
           handled' = handled \/ pc'[Service] # "build"
    PROVE  HalfBuilt' = HalfBuilt
BY DEF HalfBuilt

\* What the steps of the current task's own code leave alone.
LEMMA OwnStep ==
    ASSUME IInv, NEW c \in Slots,
           \/ TaskStart(c)
           \/ \E ms \in 1 .. MaxSleep : SleepArm(c, ms)
           \/ SleepMark(c)
           \/ TaskReturn(c)
           \/ CountLoad(c)
           \/ CountStore(c)
    PROVE  /\ c = current /\ (c = Service \/ c \in ProcSlots)
           /\ \E l \in Label \ {"start", "gone", "wild"} : pc' = [pc EXCEPT ![c] = l]
           /\ \A s \in Slots \ {c} : state'[s] = state[s]
           /\ UNCHANGED <<current, built, handled>>
           /\ HalfBuilt' = HalfBuilt
<1>1. /\ c = current /\ (c = Service \/ c \in ProcSlots)
      /\ \A s \in Slots \ {c} : state'[s] = state[s]
      /\ UNCHANGED <<current, built, handled>>
  BY StepSlots DEF TaskStart, SleepArm, SleepMark, TaskReturn, CountLoad, CountStore, IInv, TypeOK
<1>2. PICK l \in Label \ {"start", "gone", "wild", "build"} : pc' = [pc EXCEPT ![c] = l]
  BY DEF TaskStart, SleepArm, SleepMark, TaskReturn, CountLoad, CountStore, Goto, Label
<1>3. pc[c] # "build"
  BY DEF TaskStart, SleepArm, SleepMark, TaskReturn, CountLoad, CountStore, At
<1>4. HalfBuilt' = HalfBuilt
  BY <1>1, <1>2, <1>3, SlotFacts, HalfStays DEF IInv, TypeOK
<1> QED BY <1>1, <1>2, <1>4

\* The steps of net-poll other than those that touch a frame or a slot.
LEMMA NetQuiet ==
    ASSUME IInv,
           \/ NetFind \/ NetCountLoad \/ NetCountStore \/ NetBind
           \/ (\E s \in ProcSlots : NetKillFlag(s)) \/ NetKillTest \/ NetUnbind
    PROVE  /\ current = Service
           /\ \E l \in Label \ {"start", "quit", "gone", "build"} : pc' = [pc EXCEPT ![Service] = l]
           /\ UNCHANGED <<state, current, built>>
           /\ HalfBuilt' = HalfBuilt
<1>1. current = Service /\ UNCHANGED <<state, current, built>> /\ pc[Service] # "build"
  BY DEF NetFind, NetCountLoad, NetCountStore, NetBind, NetKillFlag, NetKillTest, NetUnbind, At
<1>2. PICK l \in Label \ {"start", "quit", "gone", "build"} : pc' = [pc EXCEPT ![Service] = l]
  BY DEF NetFind, NetCountLoad, NetCountStore, NetBind, NetKillFlag, NetKillTest, NetUnbind,
         Goto, Label
<1>3. HalfBuilt' = HalfBuilt
  BY <1>1, <1>2, SlotFacts, HalfStays DEF IInv, TypeOK
<1> QED BY <1>1, <1>2, <1>3

\* A task on its way out stays out.
LEMMA ExitStep == IInv /\ [Next]_vars => ExitInv'
<1> SUFFICES ASSUME IInv, [Next]_vars PROVE ExitInv'
  OBVIOUS
<1> USE SlotFacts
<1>0. /\ Service \notin ProcSlots /\ Kernel \notin ProcSlots /\ Service # Kernel
      /\ state \in [Slots -> TaskState] /\ pc \in [Slots -> Label]
      /\ built \in [Slots -> BOOLEAN] /\ current \in Slots
  BY DEF ProcSlots, Service, Kernel, IInv, TypeOK
<1>1. CASE TimerTick
  <2>1. handled' = handled
    BY <1>1, TickCases
  <2>2. CASE Switch
    BY <2>1, <2>2, SwitchExit
  <2>3. CASE Stay
    <3>1. HalfBuilt' = HalfBuilt
      BY <2>1, <2>3 DEF Stay, HalfBuilt
    <3> QED BY <1>0, <2>3, <3>1 DEF Stay, Moved, IInv, ExitInv, ExitedStaysOff
  <2> QED BY <1>1, <2>2, <2>3, TickCases
<1>2. ASSUME NEW s \in ProcSlots, ShellSpawn(s) PROVE ExitInv'
  <2>1. HalfBuilt' = HalfBuilt
    BY <1>0, <1>2, HalfStays DEF ShellSpawn
  <2> QED BY <1>0, <1>2, <2>1 DEF ShellSpawn, IInv, ExitInv, ExitedStaysOff, Exiting
<1>3. ASSUME NEW s \in ProcSlots, ShellKill(s) PROVE ExitInv'
  <2>1. HalfBuilt' = HalfBuilt
    BY <1>0, <1>3, HalfStays DEF ShellKill
  <2> QED BY <1>0, <1>3, <2>1 DEF ShellKill, IInv, ExitInv, ExitedStaysOff
<1>4. ASSUME NEW c \in Slots, SleepTrap(c) \/ ExitTrap(c) PROVE ExitInv'
  BY <1>4, TrapCases, SwitchExit
<1>5. ASSUME NEW c \in Slots,
             TaskStart(c) \/ (\E ms \in 1 .. MaxSleep : SleepArm(c, ms)) \/ SleepMark(c)
      PROVE  ExitInv'
  <2>1. c = current /\ pc[c] \notin Exiting /\ c # Kernel
    BY <1>5 DEF TaskStart, SleepArm, SleepMark, At, Exiting
  <2>2. PICK l \in Label \ Exiting : pc' = [pc EXCEPT ![c] = l]
    BY <1>5 DEF TaskStart, SleepArm, SleepMark, Goto, Label, Exiting
  <2>3. /\ \A s \in Slots \ {c} : state'[s] = state[s]
        /\ HalfBuilt' = HalfBuilt /\ current' = current
    BY <1>5, OwnStep
  <2> QED BY <1>0, <2>1, <2>2, <2>3 DEF IInv, ExitInv, ExitedStaysOff, Exiting
<1>6. ASSUME NEW c \in Slots, TaskReturn(c) \/ CountLoad(c) \/ CountStore(c) PROVE ExitInv'
  <2>1. /\ c = current /\ (c = Service \/ c \in ProcSlots)
        /\ \A s \in Slots \ {c} : state'[s] = state[s]
        /\ HalfBuilt' = HalfBuilt /\ current' = current
    BY <1>6, OwnStep
  <2>2. PICK l \in Label \ {"gone"} : pc' = [pc EXCEPT ![c] = l] /\ (c = Service => l # "quit")
    BY <1>6 DEF TaskReturn, CountLoad, CountStore, Goto, Label
  <2>3. c \in ProcSlots => state'[c] \in {"DEAD", "UNUSED"} \/ c \in HalfBuilt
    <3>1. CASE TaskReturn(c)
      BY <1>0, <3>1 DEF TaskReturn
    <3>2. CASE CountLoad(c) \/ CountStore(c)
      BY <3>2 DEF CountLoad, CountStore, At, IInv, ExitInv, Exiting
    <3> QED BY <1>6, <3>1, <3>2
  <2> QED BY <1>0, <2>1, <2>2, <2>3 DEF IInv, ExitInv, ExitedStaysOff
<1>7. CASE \/ NetFind \/ NetCountLoad \/ NetCountStore \/ NetBind
           \/ (\E s \in ProcSlots : NetKillFlag(s)) \/ NetKillTest \/ NetUnbind
  BY <1>0, <1>7, NetQuiet DEF IInv, ExitInv, ExitedStaysOff
<1>8. CASE NetClaim
  <2>1. handled \in ProcSlots /\ current = Service /\ current' = current /\ handled' = handled
    BY <1>8, StepSlots DEF NetClaim, Busy
  <2>2. pc' = [pc EXCEPT ![Service] = "build"] /\ HalfBuilt = {} /\ HalfBuilt' = {handled}
    BY <1>0, <1>8, <2>1 DEF NetClaim, At, Goto, HalfBuilt
  <2> QED BY <1>0, <1>8, <2>1, <2>2 DEF NetClaim, IInv, ExitInv, ExitedStaysOff
<1>9. CASE NetBuild
  <2>1. handled \in ProcSlots /\ current = Service /\ current' = current /\ state' = state
    BY <1>9, StepSlots DEF NetBuild, Busy
  <2>2. /\ pc' = [pc EXCEPT ![handled] = "start", ![Service] = "inc"]
        /\ HalfBuilt = {handled} /\ HalfBuilt' = {}
    BY <1>0, <1>9, <2>1 DEF NetBuild, At, HalfBuilt
  <2> QED BY <1>0, <2>1, <2>2 DEF IInv, ExitInv, ExitedStaysOff, Exiting
<1>10. CASE NetKillFree
  <2>1. handled \in ProcSlots /\ current = Service /\ current' = current
    BY <1>10, StepSlots DEF NetKillFree, Busy
  <2>2. pc' = [pc EXCEPT ![Service] = "dec"] /\ HalfBuilt' = HalfBuilt
    BY <1>0, <1>10 DEF NetKillFree, At, Goto, HalfBuilt
  <2> QED BY <1>0, <1>10, <2>1, <2>2 DEF NetKillFree, IInv, ExitInv, ExitedStaysOff
<1>11. CASE UNCHANGED vars
  BY <1>11 DEF vars, IInv, ExitInv, ExitedStaysOff, HalfBuilt
<1> QED BY <1>1, <1>2, <1>3, <1>4, <1>5, <1>6, <1>7, <1>8, <1>9, <1>10, <1>11
        DEF Next, TaskStep, NetStep

\* Every step keeps a frame under every task that may be dispatched, except
\* the one that is half built.
LEMMA FrameStep == IInv /\ [Next]_vars => FrameInv'
<1> SUFFICES ASSUME IInv, [Next]_vars PROVE FrameInv'
  OBVIOUS
<1> USE SlotFacts
<1>0. /\ state \in [Slots -> TaskState] /\ pc \in [Slots -> Label]
      /\ built \in [Slots -> BOOLEAN] /\ current \in Slots /\ Service \notin ProcSlots
  BY DEF IInv, TypeOK, ProcSlots
<1>1. CASE TimerTick
  <2>1. handled' = handled
    BY <1>1, TickCases
  <2>2. CASE Switch
    BY <2>1, <2>2, SwitchFrame
  <2>3. CASE Stay
    <3>1. HalfBuilt' = HalfBuilt
      BY <2>1, <2>3 DEF Stay, HalfBuilt
    <3> QED BY <1>0, <2>3, <3>1 DEF Stay, Moved, IInv, FrameInv
  <2> QED BY <1>1, <2>2, <2>3, TickCases
<1>2. ASSUME NEW s \in ProcSlots, ShellSpawn(s) PROVE FrameInv'
  <2>1. HalfBuilt' = HalfBuilt
    BY <1>0, <1>2, HalfStays DEF ShellSpawn
  <2> QED BY <1>0, <1>2, <2>1 DEF ShellSpawn, FrameBuilt, IInv, FrameInv
<1>3. ASSUME NEW s \in ProcSlots, ShellKill(s) PROVE FrameInv'
  <2>1. HalfBuilt' = HalfBuilt
    BY <1>0, <1>3, HalfStays DEF ShellKill
  <2> QED BY <1>0, <1>3, <2>1 DEF ShellKill, IInv, FrameInv
<1>4. ASSUME NEW c \in Slots, SleepTrap(c) \/ ExitTrap(c) PROVE FrameInv'
  BY <1>4, TrapCases, SwitchFrame
<1>5. ASSUME NEW c \in Slots,
             \/ TaskStart(c)
             \/ \E ms \in 1 .. MaxSleep : SleepArm(c, ms)
             \/ SleepMark(c)
             \/ TaskReturn(c)
             \/ CountLoad(c)
             \/ CountStore(c)
      PROVE  FrameInv'
  BY <1>0, <1>5, OwnStep DEF IInv, FrameInv
<1>6. CASE \/ NetFind \/ NetCountLoad \/ NetCountStore \/ NetBind
           \/ (\E s \in ProcSlots : NetKillFlag(s)) \/ NetKillTest \/ NetUnbind
  BY <1>0, <1>6, NetQuiet DEF IInv, FrameInv
<1>7. CASE NetClaim
  <2>1. handled \in ProcSlots /\ current = Service /\ current' = current /\ handled' = handled
    BY <1>7, StepSlots DEF NetClaim, Busy
  <2>2. pc' = [pc EXCEPT ![Service] = "build"] /\ HalfBuilt = {} /\ HalfBuilt' = {handled}
    BY <1>0, <1>7, <2>1 DEF NetClaim, At, Goto, HalfBuilt
  <2> QED BY <1>0, <1>7, <2>1, <2>2 DEF NetClaim, IInv, FrameInv
<1>8. CASE NetBuild
  <2>1. handled \in ProcSlots /\ current = Service /\ current' = current /\ state' = state
    BY <1>8, StepSlots DEF NetBuild, Busy
  <2>2. /\ pc' = [pc EXCEPT ![handled] = "start", ![Service] = "inc"]
        /\ HalfBuilt = {handled} /\ HalfBuilt' = {}
    BY <1>0, <1>8, <2>1 DEF NetBuild, At, HalfBuilt
  <2> QED BY <1>0, <1>8, <2>1, <2>2 DEF NetBuild, FrameBuilt, IInv, FrameInv
<1>9. CASE NetKillFree
  <2>1. handled \in ProcSlots /\ current = Service /\ current' = current
    BY <1>9, StepSlots DEF NetKillFree, Busy
  <2>2. pc' = [pc EXCEPT ![Service] = "dec"] /\ HalfBuilt' = HalfBuilt
    BY <1>0, <1>9 DEF NetKillFree, At, Goto, HalfBuilt
  <2> QED BY <1>0, <1>9, <2>1, <2>2 DEF NetKillFree, IInv, FrameInv
<1>10. CASE UNCHANGED vars
  BY <1>10 DEF vars, IInv, FrameInv, HalfBuilt
<1> QED BY <1>1, <1>2, <1>3, <1>4, <1>5, <1>6, <1>7, <1>8, <1>9, <1>10
        DEF Next, TaskStep, NetStep

\* The state at the end of _start satisfies the invariant.
LEMMA InvInit == Init => IInv
<1> SUFFICES ASSUME Init PROVE IInv
  OBVIOUS
<1> USE SlotFacts
<1>1. TypeOK
  <2>1. built \in [Slots -> BOOLEAN]
    <3>1. \A s \in Slots : (s \in {Kernel, Idle, Service}) \in BOOLEAN
      OBVIOUS
    <3> QED BY <3>1 DEF Init
  <2>2. state \in [Slots -> TaskState] /\ pc \in [Slots -> Label]
    BY DEF Init, TaskState, Label
  <2>3. /\ current \in Slots /\ slice \in 0 .. TimeSlice
        /\ wake_in \in [Slots -> 0 .. MaxSleep] /\ reg \in [Slots -> Nat]
        /\ task_count \in Nat /\ spawns \in 0 .. MaxSpawns
    BY TimeAssumption, SpawnsAssumption DEF Init
  <2> QED BY <2>1, <2>2, <2>3 DEF Init, TypeOK
<1>2. HandledInv /\ BootInv /\ CurrentInv
  <2>1. /\ state[Kernel] = "RUNNING" /\ state[Idle] = "READY" /\ state[Service] = "READY"
        /\ pc[Service] = "start" /\ current = Kernel /\ Kernel # Idle
        /\ \A s \in Slots : state[s] = "RUNNING" => s = Kernel
    BY DEF Init, Kernel, Idle, Service
  <2>2. built[Kernel] /\ built[Service]
    BY DEF Init
  <2> QED BY <2>1, <2>2 DEF HandledInv, Busy, BootInv, CurrentInv, RunningIsCurrent
<1>3. PassedInv
  BY DEF Init, PassedInv
<1>4. ExitInv
  BY DEF Init, ExitInv, ExitedStaysOff, Exiting, Kernel, Idle, Service, ProcSlots
<1>5. FrameInv
  BY DEF Init, FrameInv, Kernel, Idle, Service
<1> QED BY <1>1, <1>2, <1>3, <1>4, <1>5 DEF IInv

\* Every step of the kernel preserves the invariant.
LEMMA InvStep == IInv /\ [Next]_vars => IInv'
BY TypeStep, StateStep, PassedStep, ExitStep, FrameStep DEF IInv

\* IInv is an invariant of the scheduler for every value of its constants.
LEMMA Invariance == Spec => []IInv
BY InvInit, InvStep, PTL DEF Spec

-----------------------------------------------------------------------------
(* The theorems *)

\* The variables of scheduler.cpp keep their types; in particular task_count
\* never goes below zero, whatever double decrements do to it.
THEOREM TypeCorrect == Spec => []TypeOK
<1>1. IInv => TypeOK
  BY DEF IInv
<1> QED BY <1>1, Invariance, PTL

\* At most one task is RUNNING, and current_task names it.
THEOREM OneRunning == Spec => []RunningIsCurrent
<1>1. IInv => RunningIsCurrent
  BY DEF IInv, CurrentInv
<1> QED BY <1>1, Invariance, PTL

\* A task that got behind the last INT 0x80 of task_entry_wrapper is given the
\* CPU again only in the slot that net-poll has made READY and whose rsp it has
\* not stored yet.
THEOREM ExitIsFinal == Spec => []ExitedStaysOff
<1>1. IInv => ExitedStaysOff
  BY DEF IInv, ExitInv
<1> QED BY <1>1, Invariance, PTL

\* Round robin: no task is dispatched twice while another one stays READY.
THEOREM BoundedBypass == Spec => NoOvertaking
<1> DEFINE Fair == current' # current =>
               \A t \in Slots \ {Idle} :
                  state[t] = "READY" /\ state'[t] = "READY" => current' \notin passed[t]
<1>1. IInv /\ [Next]_vars => [Fair]_vars
  <2> SUFFICES ASSUME IInv, Next PROVE Fair
    OBVIOUS
  <2>1. CASE TimerTick
    BY <2>1, TickCases, SwitchPassed DEF Stay
  <2>2. ASSUME NEW c \in Slots, SleepTrap(c) \/ ExitTrap(c) PROVE Fair
    BY <2>2, TrapCases, SwitchPassed
  <2>3. ASSUME NEW s \in ProcSlots, ShellSpawn(s) \/ ShellKill(s) PROVE Fair
    BY <2>3 DEF ShellSpawn, ShellKill
  <2>4. ASSUME NEW c \in Slots,
               \/ TaskStart(c)
               \/ \E ms \in 1 .. MaxSleep : SleepArm(c, ms)
               \/ SleepMark(c)
               \/ TaskReturn(c)
               \/ CountLoad(c)
               \/ CountStore(c)
        PROVE  Fair
    BY <2>4 DEF TaskStart, SleepArm, SleepMark, TaskReturn, CountLoad, CountStore
  <2>5. CASE NetStep
    BY <2>5 DEF NetStep, NetFind, NetClaim, NetBuild, NetCountLoad, NetCountStore, NetBind,
                NetKillFlag, NetKillTest, NetKillFree, NetUnbind
  <2> QED BY <2>1, <2>2, <2>3, <2>4, <2>5 DEF Next, TaskStep
<1> QED BY <1>1, Invariance, PTL DEF Spec, NoOvertaking

\* create_task_internal never builds a frame on the stack the CPU is on, not
\* even when the shell has just killed the task it interrupted.
THEOREM SafeReuse == Spec => NoReuseUnderfoot
<1> DEFINE Safe == \A s \in Slots : NewFrame(s)' /\ ~NewFrame(s) => s # current
<1>1. IInv /\ [Next]_vars => [Safe]_vars
  <2> SUFFICES ASSUME IInv, Next, NEW s \in Slots,
                      built'[s], pc'[s] = "start", ~(built[s] /\ pc[s] = "start")
               PROVE  s # current
    BY DEF NewFrame
  <2>0. /\ pc \in [Slots -> Label] /\ built \in [Slots -> BOOLEAN]
        /\ current \in Slots /\ Service \in Slots
        /\ Service \notin ProcSlots /\ ProcSlots \subseteq Slots
    BY SlotFacts DEF IInv, TypeOK, ProcSlots
  <2>1. CASE TimerTick
    BY <2>1, TickCases, SwitchFrame DEF Stay
  <2>2. ASSUME NEW c \in Slots, SleepTrap(c) \/ ExitTrap(c) PROVE s # current
    BY <2>2, TrapCases, SwitchFrame
  <2>3. ASSUME NEW n \in ProcSlots, ShellSpawn(n) PROVE s # current
    <3>1. n # current
      BY <2>3 DEF ShellSpawn, ShellIRQ, FirstFree, IInv, CurrentInv
    <3> QED BY <2>0, <2>3, <3>1 DEF ShellSpawn, FrameBuilt
  <2>4. ASSUME NEW n \in ProcSlots, ShellKill(n) PROVE s # current
    BY <2>0, <2>4 DEF ShellKill
  <2>5. ASSUME NEW c \in Slots,
               \/ TaskStart(c)
               \/ \E ms \in 1 .. MaxSleep : SleepArm(c, ms)
               \/ SleepMark(c)
               \/ TaskReturn(c)
               \/ CountLoad(c)
               \/ CountStore(c)
        PROVE  s # current
    BY <2>0, <2>5, OwnStep
  <2>6. CASE \/ NetFind \/ NetCountLoad \/ NetCountStore \/ NetBind
             \/ (\E n \in ProcSlots : NetKillFlag(n)) \/ NetKillTest \/ NetUnbind
    BY <2>0, <2>6, NetQuiet
  <2>7. CASE NetClaim \/ NetKillFree
    BY <2>0, <2>7 DEF NetClaim, NetKillFree, Goto, At
  <2>8. CASE NetBuild
    <3>1. handled \in ProcSlots /\ current = Service
      BY <2>8, StepSlots DEF NetBuild, Busy
    <3> QED BY <2>0, <2>8, <3>1 DEF NetBuild
  <2> QED BY <2>1, <2>2, <2>3, <2>4, <2>5, <2>6, <2>7, <2>8 DEF Next, TaskStep, NetStep
<1> QED BY <1>1, Invariance, PTL DEF Spec, NoReuseUnderfoot

\* The CPU only ever resumes frames that were built for or saved by the task in
\* the slot, but for the slot net-poll is in the middle of creating: the one
\* window between TASK_READY and the store of rsp in create_task_internal.
THEOREM FramesAreBuilt == Spec => ResumesBuiltFrames
<1> DEFINE Sound == current' # current => built[current'] \/ current' \in HalfBuilt
<1>1. IInv /\ [Next]_vars => [Sound]_vars
  <2> SUFFICES ASSUME IInv, Next, current' # current PROVE built[current'] \/ current' \in HalfBuilt
    OBVIOUS
  <2>1. CASE TimerTick
    BY <2>1, TickCases, SwitchFrame DEF Stay
  <2>2. ASSUME NEW c \in Slots, SleepTrap(c) \/ ExitTrap(c)
        PROVE  built[current'] \/ current' \in HalfBuilt
    BY <2>2, TrapCases, SwitchFrame
  <2>3. ASSUME NEW s \in ProcSlots PROVE ~ShellSpawn(s) /\ ~ShellKill(s)
    BY DEF ShellSpawn, ShellKill
  <2>4. ASSUME NEW c \in Slots
        PROVE  /\ ~TaskStart(c) /\ ~(\E ms \in 1 .. MaxSleep : SleepArm(c, ms))
               /\ ~SleepMark(c) /\ ~TaskReturn(c) /\ ~CountLoad(c) /\ ~CountStore(c)
    BY DEF TaskStart, SleepArm, SleepMark, TaskReturn, CountLoad, CountStore
  <2>5. ~NetStep
    BY DEF NetStep, NetFind, NetClaim, NetBuild, NetCountLoad, NetCountStore, NetBind,
           NetKillFlag, NetKillTest, NetKillFree, NetUnbind
  <2> QED BY <2>1, <2>2, <2>3, <2>4, <2>5 DEF Next, TaskStep
<1> QED BY <1>1, Invariance, PTL DEF Spec, ResumesBuiltFrames
=============================================================================
