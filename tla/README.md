# QuillOS in TLA+

A verification project for the QuillOS kernel (`src/quillos/kernel/`): TLA+
modules of its stateful parts, TLC runs on small instances, and TLAPS proofs, for
every value of the constants, of the safety properties that hold in the code and of
three refinements.

## 1. The system

QuillOS is a small x86-64 kernel. One CPU, ring 0 only, no memory protection.
All IDT gates are interrupt gates, so an interrupt handler is never interrupted;
task code runs with interrupts enabled and can be preempted between any two
instructions. There are three kinds of actors:

* **interrupts**: the timer (IRQ 0, 1000 Hz) runs `Scheduler::timer_tick` and may
  switch tasks; `INT 0x80` switches on demand; the keyboard (IRQ 1) runs the
  *whole shell*, commands included, on the stack of whatever task is current;
* **service tasks**: `net-poll` (polls the card every 10 ms and runs the UDP
  handlers), `cluster-hb` (heartbeat, load reports, expiry of peers), `proc-stat`
  (cleans the process table), and the idle task;
* **process tasks**: `counter`, `stress`, `monitor`, `worker`, which loop until
  their stop flag is set and sleep in between.

So shell commands are atomic, and what a service task reads before it writes may
be changed by a command or by another task in the meantime. No locks are used
(the heap disables interrupts).

### Inventory

| Component (source) | State | Operations | Interacts with | What is hard | Correct if |
|---|---|---|---|---|---|
| Scheduler (`scheduler.cpp`) | task slots, `current_task`, `task_count`, ticks to wake | `create_task`, `kill_task`, `timer_tick`, `yield`, `sleep_ms`, exit wrapper | interrupts; called by Process, Cluster, shell | preemption between two stores; killing the current task; slot reuse | one RUNNING slot; no stack shared; exits final; no starvation; count right |
| Process manager (`process.cpp`) | table of 16 entries, `next_pid`, stop flags | `spawn`, `spawn_on`, `kill`, remote spawn/kill handlers, clean-up | Scheduler, Cluster messages, shell | three actors on one table; pids of two nodes; duplicated datagrams | entry ⇔ task; a pid names one process; kill hits what it names |
| Distributed jobs (`djob.cpp`, `jobs.h`) | load table, ring of 16 jobs, id and round-robin counters | `submit`, `on_remote_result`, `update_node_load`, `get_history`, `get_last_completed` | Cluster messages, shell | late, lost, duplicated results; ring wrap; two id counters | history in order; a result reaches its own job; idle fresh node chosen |
| Cluster (`cluster.cpp`) | peers, `peer_count`, own job counter | discovery, heartbeat, expiry, submit, execute, dispatch of messages | Network, DJob, Process | handler against heartbeat; expiry of a peer being added | membership tracks who is heard |
| Memory (`memory.cpp`) | page bitmap and hint; block list, statistics | `pmm_alloc_page`, `pmm_free_page`, `kmalloc`, `kfree`, `heap_grow` | E1000, shell | coalescing, growth cut off at the limit, double free after a merge | blocks tile the heap; no overlap; statistics right |
| File system (`filesystem.cpp`) | 64 entries | `mkdir`, `touch`, `write_file`, `rm`, `ls`, `read_file` | shell paths, `cd`, editor | one path in several spellings | a tree; a path names one entry |
| Users (`users.cpp`), Disk (`disk.cpp`) | 8 accounts in memory, a copy in a sector | `create`, `verify`, `set_usecase`, `complete_onboarding`, load, save | shell modes | failing writes, power failure in the middle of onboarding | disk = memory; nobody in the shell without an onboarded account |
| Shell (`shell.cpp`) | mode, pending name and password, echo switch, cwd, editor | one line or key at a time | everything | rare paths between dialogues | passwords hidden, shell input visible |
| Network (`network.cpp`) | ARP table, static send and receive buffer | `send_udp`, `poll`, `arp_store`, ARP answers | Cluster, E1000 | several senders share one buffer; the table is read between two stores | packets leave as assembled, to the right station |
| E1000 (`e1000.cpp`) | two descriptor rings, `tx_cur`, `rx_cur` | `send`, `poll_receive` | the card, which works beside the driver | ownership of descriptors, the full ring | what is posted leaves; what the card takes is read once, in order |
| Keyboard, mouse (`keyboard.cpp`, `mouse.cpp`), interrupt controllers (`idt.cpp`) | modifier flags, prefix, position in a packet, masks | the two interrupt handlers, `Mouse::init` | shell | both devices share one buffer, which `Mouse::init` polls with interrupts on | decoders and devices agree; the buffer never blocks |
| Boot (`kernel.cpp`) | how far `_start` has come | `_start` | all | lines are handled before the tables exist | what is typed early does no harm to what comes later |
| Serial, clipboard (`serial.cpp`, `clipboard.cpp`) | text and length | `read_line`, `set` | shell | a timeout inside an interrupt | the command ends |
| Console, PCI, CPU, bitmap | drawing and detection | | shell | | not modelled |

The hazards that follow from this, each at its line, are in `PROJECT.json`.

## 2. Modules

Each module keeps the source's names. Its header says what is atomic in it.

**`Scheduler`** — slots, the current task, its slice, remaining sleep, the count,
and for every slot `pc`, where the context that `tasks[s].rsp` points at continues,
and `built`, whether that context is the present occupant's. Slots
0 (kernel task), 1 (idle) and 2 (one service task) exist at the end of boot, the
others are for processes. `TimerTick`, `ShellSpawn`, `ShellKill` are the
interrupts. `TaskStart … ExitTrap` are the code of the running task, one visible
memory access per step: the two stores of `sleep_ms`, the store of `TASK_DEAD`,
load and store of `task_count--`, and the final trap. With `Networked = TRUE` the
service task is net-poll and serves its peers in steps: `create_task_internal`
(`NetFind`, `NetClaim`, `NetBuild`, `NetCountLoad`, `NetCountStore`), the store of
`sched_slot` (`NetBind`), and a kill (`NetKillFlag`, `NetKillTest`, `NetKillFree`, the
two halves of `task_count--`, `NetUnbind`); `handled` is the slot it is at, `shared` says
that a command has meanwhile spawned into the slot that it kills. `bound` stands
for the process table: the slots that a live entry owns. `passed` is a history
variable for the round-robin property. Between `NetClaim` and `NetBuild` the slot is
READY and its rsp still the previous occupant's (`HalfBuilt`): a dispatch goes on where
that task, exited or killed, was switched out (`Resumed`), or, if the slot had none or
the new frame has overwritten a part, pops a frame that is none: the CPU is then "wild"
and does nothing more.

**`DJob`** — one node's job scheduler and the job messages of the cluster.
`Submit` is the `run` command (target choice, `record_job`, local execution or
`Cluster::submit_job`, which may fail to send), `SubmitManual` the `rjob`
command, `PeerExecutes` any peer, `ResultArrives`/`ResultStored` the two halves
of `on_remote_result`. A payload is identified with its job, so that "the right
result" is that job's number.

**`Process`** — the tables of several nodes. `SpawnLocal`, `SpawnRemote` and
`Kill` are commands; `NetSpawn*` and `NetKill*` are net-poll serving a peer, step
by step: a remote kill finds the entry, sets the stop flag and loads the slot, frees it
(`NetKillTask`) and marks the entry (`NetKillMark`). A process that sees the flag before it
is killed marks its entry (`TaskStops`) and returns (`TaskReturns`) by itself.
`ReapLook`/`ReapStore` are the two halves of proc-stat's clean-up.
The scheduler is abstracted to the process in each slot; consequences of its
interleavings appear as outcomes here: a task dispatched before its `sched_slot`
is stored returns (`TaskFindsNoEntry`); a task dispatched while net-poll has its slot in
another entry, one that it is filling in and whose last `sched_slot` is still there or
one whose task it has killed and that it has not marked yet, takes that entry for its own
and in the second case returns (`TaskFindsUnbound`, `TaskFindsKilled`); and a process
killed inside `sleep_ms` survives. The history variable `raced` collects the nodes where such a thing has
happened; the properties speak of the other nodes.

**`Memory`** — the block list of the heap, the headers *as memory contains them*
(stale ones of merged blocks included, until a caller's data overwrites them),
and the page bitmap with its search hint. The only caller of the heap today is
the `heaptest` command; the module checks the interface under any sequence of
calls, with `kfree` of any address. `live` records what callers hold.

**`Allocator`** — what a heap promises: a region it hands out lies in the managed memory
and shares nothing with a region that is still held, and only a release takes one away.
`Memory` implements it (`IsAllocator`, `INSTANCE Allocator WITH held <- Regions, ...`):
`Regions` is the memory behind the headers of what callers hold. Splitting, merging,
growth and the page operations are stuttering steps or part of one abstract step.

**`FileSystem`** — the entry table under the shell's commands. A path is the
sequence of what stands between its slashes, so that doubled and trailing slashes
are part of the model, as they are of the strings that the code compares.

**`Session`** — the user table, its copy on disk, the shell's modes, and the steps
of `_start` that touch them: `Disk::init`, `Users::init` (`UsersClear`, `UsersForget`,
`UsersRead` of the sector, `UsersCopy` into the table) and `shell_init` (`ShellLooks`
for accounts, `ShellStarts` with the mode, `ShellPrompts` with the echo). `Cut` is what
`create` stores of a name; the pointer that a sign-up gets is looked up under the name as
typed, and is null if the name was cut. A disk may be absent or fail, the power may go.

**`AccountStore`** — what the user may expect of accounts on disk: one is registered, with a
password that is long enough, its owner chooses a use case and completes the dialogue once,
and nothing else ever happens to it; all this as long as the store is intact. `Session`
implements it (`IsAccountStore`, `INSTANCE AccountStore WITH store <- Accounts, intact <- Intact, ...`):
`Accounts` is what the sector holds, and the store is intact until a disk operation fails
(`failed`) or an account is created during boot (`early`). Power failures, boots with the
drive missing and all that happens in memory are stuttering steps.

**`Input`** — the PS/2 controller with its one output buffer, the interrupt
controllers as `idt.cpp` programs them (masks, latched requests, the chain through
IRQ 2), both interrupt handlers with the decoders' state, and `Mouse::init`, step by
step. Bytes are scan codes, the 0xE0 prefix, the configuration byte, the
acknowledgement, and the bytes of mouse packets.

**`Boot`** — composes `Session` and `Input`. A line reaches `Session` when `Input`
gets an Enter through to `shell_update`, in whatever state `_start` is; the steps of
`_start` follow when `Mouse::init` has returned and no interrupt is pending. Both
parts are extended, not instantiated, since the handlers of the one call the other.

**`Network`** — the ARP table, `send_udp` and the two rings of the card. cluster-hb
and net-poll send one memory access at a time (assemble, wait for the descriptor,
copy headers, copy payload, post, advance `tx_cur`, write TDT); a shell command
sends inside its interrupt, in one step; the card sends and receives on its own. A
frame is its headers and its payload, each tagged with the packet it was written for.

**`Fifo`** — what a receive ring promises: a bounded queue from which the reader gets
every accepted item once and in order, and keeps reading. `Network` implements it
(`RxIsFifo`, `INSTANCE Fifo WITH queue <- RxQueue, last <- recv_buf, ...`): the queue
is the filled descriptors from `rx_cur` on.

**`Cluster`** — the membership table. net-poll's `add_or_update_peer` and cluster-hb's
expiry and load report interleave access by access. The report is `SendLoadReport` (the
test of `peer_count`) and `SendUdp` for one entry after the other, which sends a request
instead while the ARP table does not have the peer; `HandleArp` is the arrival of an ARP packet
that fills it (`resolved`, for the one host that is watched), and need never happen: a full
table takes no more. Time is relative (`age` is
`ticks - last_seen`); the unsigned difference that wraps when `last_seen` is stored
after `ticks` was read is modelled (`Wraps`). The job and process messages of the same
source file are in `DJob` and `Process`.

**`Serial`** — the command `pasteh`: `read_line`, the timer's interrupt, and the
interrupt flag.

`MCBoot`, `MCCluster`, `MCDJob`, `MCFileSystem`, `MCNetwork`, `MCProcess` define
symmetry sets, constants and constraints for TLC. `SchedulerProofs`, `DJobProofs`,
`ProcessProofs`, `MemoryProofs`, `FileSystemProofs`, `BootProofs`, `NetworkProofs` and
`ClusterProofs` contain the proofs.

Several modules have a history variable that records that a race which the code does
allow has happened: `raced` (`Process`, `Network`, `Cluster`), `disturbed` (`Input`),
`early`, `failed` and `exposed` (`Session`). Their properties say what holds until then; the
definition of the history variable names the overlap exactly, so that the property
excludes nothing else.

In `DJob` and `Process`, `net` holds all datagrams ever sent and receiving one does
not remove it: loss is never receiving it, and delay, reordering and duplication
come for free.

Operators commented "Mutated form" are not used by any specification. Each is a
plausible bug of the definition that follows it; with it in place the property
named with it in `PROJECT.json` is violated, which shows that the property can fail.

## 3. Runs

| Run | Instance | Checks |
|---|---|---|
| `Scheduler` | 4 slots (1 for processes), slice 2, sleep 1, 3 spawns, net-poll on, fair timer | types, `RunningIsCurrent`, `ExitedStaysOff`, `ResumesBuiltFrames`, `NoReuseUnderfoot`, `NoOvertaking`; liveness `ReadyIsDispatched`, `SleeperWakes`, `DeadIsReaped` |
| `DJob` | 2 peers, loads {1, 2}, ring of 2, 3 jobs, 1 `rjob` | `HistoryInOrder`, `LastCompletedIsLatest`, `AlignedResultsMatch`, `TargetIsFreshAndIdler` |
| `Process` | a peer with 1 pid and a node with 4, 3 entries, 2 slots | `TableMatchesTasks`, `PidsUnique` |
| `Memory` | pages of 8 units, header 3, smallest split 4, 1 to 3 heap pages, requests 1, 5, 14, 5 pages in all | `Tiled`, `Coalesced`, `LiveIntact`, `OnlyHeldIsFreed`, `StatsMatch`, `PagesAccounted`; refinement `IsAllocator` |
| `FileSystem` | 2 names, 3 entries, paths of up to 3 components | `TreeWellFormed`, `PathsUnique` |
| `Boot` | 2 names (one is cut to the other), 2 passwords (one too short), 2 entries, 1 use case; two modifiers, Enter, a letter, the right control key | `SessionHasUser`, `DiskIsCurrent`, `HiddenInput`, `InStep`; refinement `IsAccountStore`; liveness `BufferDrains` |
| `Network` | 2 hosts, transmit ring of 2, receive ring of 3, 1 ARP entry, 3 kinds of arrivals | `CardSeesPosted`, `FramesWhole`, `ArpTableTrue`; refinement `RxIsFifo`; liveness `PostedLeaves` |
| `Cluster` | 3 hosts, 2 entries, expiry 1, delay 1 | `PeersUnique`, `PeerCount`, `DropMeansSilent`; liveness `SilentIsDropped`, `ListedIsReported` |

*Why the bounds are enough.* Scheduler: three spawns reuse the process slot twice, and
kernel, service and process task compete for the CPU; slice 2 and sleep 1 give every
order of expiry, wake-up and trap. A second process slot multiplies the time of the
liveness check without a new kind of interleaving, and the safety properties are
proved for every number of slots. DJob: a ring of two wraps with three jobs, and one
`rjob` shifts the ids. Process: four pids on the watched node fill, free and reuse an
entry while a remote request is served; its datagrams come twice, which makes net-poll
reuse an entry that it has killed. Memory: the requests split a block, take one
whole, need growth, and meet growth that is cut off. FileSystem: three entries hold a
directory, its subdirectory and a file, and fill the table. Boot: two entries and two
names are enough for a second account, for a taken name and for one that is cut. Network: with two transmit
descriptors the ring wraps and fills, three receive descriptors make a queue of two,
and one ARP entry is full with the first host. Cluster: a host more than there are
entries fills the table and reuses an entry; expiry and delay of one tick give both
sides of the comparison and the wrap.

*Constraints.* `Process` follows node b until it has raced (`WatchB`) and `Network` the
machine until two packets were under way at once (`NotRaced`): the properties say
nothing afterwards and the history variables only grow. `Cluster` bounds `peer_count`,
which can run away after a race (`CountBounded`). `Boot` (`Bounded`) does not follow a
boot in which `Mouse::init` was disturbed, about which `InStep` and `BufferDrains` say
nothing, nor one in which an early account meets a failing disk; and it combines the
whole of keyboard and mouse with the empty machine only, elsewhere with Enter, and with
Ctrl and a letter in the editor. The liveness properties are accordingly shown for the
behaviours that stay inside the constraints.

`Scheduler` does not check for deadlock: a CPU that pops a frame that is none (see
below) stops the machine. `Process` does not, since its pids are bounded.

*Fairness.* Scheduler: only `WF(TimerTick)`; the timer is enabled in every state in
which tasks run with interrupts on, and the PIT keeps firing. Nothing is assumed of
tasks, users or peers, so these properties hold even if every task spins. Cluster and
Network: time passes and both service tasks get the CPU again and again, which is what
`ReadyIsDispatched` and `SleeperWakes` give; the card keeps sending what it sees.
Nobody has to send anything. Boot: the processor takes pending interrupts and goes on
with `_start`; devices owe nothing. Serial: the timer keeps asking, the loop keeps going.

### Disagreements

Four runs check what the repository says and the code does not do; TLC shows how.

* `SchedKill` — *"guaranteed to stop it"* (`scheduler.cpp:237`): a process killed
  between the two stores of its `sleep_ms` goes back to SLEEPING and runs on.
* `DJobResults` — a job *"produces a uint32_t result"* (`jobs.h:7`): DJob and Cluster
  number jobs separately, so that a result ends up in another job.
* `ProcKill` — *"terminate a process (local or remote)"* (`README.md:62`): the pid
  that is sent is the asking node's, and the peer kills a process of its own.
* `Serial` — *"10s timeout"* (`shell_mouse.inc:90`): `pasteh` waits inside the keyboard's
  interrupt, where `ticks` stands still, and never times out.

Others came up while modelling and have no run of their own. The models contain all
of them; where a property would fail, a history variable or an exception marks the place.

* `task_count` is not *"Number of active scheduler tasks"* (`djob.h:20`) for ever: a task
  killed while it exits is counted out twice (`scheduler.cpp:60`).
* The INT 0x80 of a task that has exited *"never returns"* (`scheduler.cpp:62`), but when net-poll
  has made its slot READY for a new task (`scheduler.cpp:128`) and not stored the new rsp
  (`scheduler.cpp:162`), a tick gives the CPU back to it, or to a task that was killed there, or
  pops a frame that is none. `ExitedStaysOff` and `ResumesBuiltFrames` state, and `ExitIsFinal`
  and `FramesAreBuilt` prove, that there is no other way.
* While net-poll kills a process for a peer (`process.cpp:430` to `434`), `spawn` may take the
  slot, and the new task may find the old entry and return; a task may also take an entry
  that is being filled in for its own (`process.cpp:37`, `164`, `193`).
* A sign-up with a name of 32 or more characters is stored under 31 (`users.cpp:134`) and
  looked up under all of them (`shell.cpp:1189`): its session has no user, the onboarding
  changes nothing, and the answer `y` dereferences a null pointer (`shell.cpp:1218`).
  `SessionHasUser` excepts it, and `IsAccountStore` does not need to.
* `shell_init` sets the mode (`shell.cpp:213`, `216`) before it sets the echo (`162`, `151`): a
  name typed in between is hidden or shown as before, and the password after it is shown
  once (`exposed`).
* A load report to a peer that the ARP table does not have is an ARP request instead
  (`network.cpp:258`); with the table full, which never forgets, it stays so. And a round of
  cluster-hb between the store of `active` and that of `peer_count` (`cluster.cpp:71`, `74`)
  sends nothing to the only peer.
* `E1000::send` takes the last free descriptor too; the full ring looks empty to the card
  and stalls (`e1000.cpp:246`; `Stalled`).
* net-poll, cluster-hb and the shell may mix their packets in `send_buf` (`network.cpp:27`).
* `peer_count` loses updates, and `ticks - last_seen` wraps (`cluster.cpp:256`, `258`).
* A key pressed while `Mouse::init` waits is written back as the controller's
  configuration (`mouse.cpp:84`); an acknowledgement that comes after it gave up stays in
  the buffer and blocks both devices; a configuration byte between a prefix and its
  code makes the right control key pass for the left one (`keyboard.cpp:44`).
* A sign-up typed while the machine boots may be wiped, in memory alone if it falls between
  the read of the sector and its copy (`users.cpp:46`, `60`), be joined by a second account, or
  get to a dialogue that dereferences a null pointer (`kernel.cpp:49`, `shell.cpp:1218`).
* A read of the sector that fails at boot looks like a machine without accounts; the sign-up
  that follows saves over the account (`users.cpp:46`). `IsAccountStore` excepts it.
* `pick_target` says *"pick the node (including self) with the fewest tasks"*
  (`djob.cpp:115`) but takes the first peer with less load than this node, and computes a
  `min_load` that it does not use (`TargetIsFreshAndIdler` states what it does).
* `cls` resets the file system and returns to the login, because it calls `shell_init`.
* The entry of a killed remote process stays EXITING for ever: `on_remote_died` is never
  called (`process.cpp:354`).

## 4. Proofs

Assumptions: those on the constants in the modules, named `…Assumption` (at least four
slots, a positive slice, a positive ring length, no name that is the empty string, and so
on). Two of them are about the machine rather than about sizes: `RegionAssumption` of
`Memory` puts the heap's largest extent into pages that exist and that the memory map
does not reserve, and `HostAssumption` of `Cluster` says that no other host has this
node's address. TLC evaluates all of them on the runs. Constraints and symmetry are not
used in the proofs: a theorem speaks of every behaviour of `Spec`.

| Module | Theorems | State |
|---|---|---|
| `SchedulerProofs` | `TypeCorrect`, `OneRunning`, `ExitIsFinal`, `SafeReuse`, `BoundedBypass`, `FramesAreBuilt` | all safety properties of the run |
| `DJobProofs` | `TypeCorrect`, `HistoryOrdered`, `LatestIsFound`, `AlignedRouting`, `JobsGoToIdler` | all |
| `ProcessProofs` | `TypeCorrect`, `PidNamesOne`, `TableAndTasksAgree` | all |
| `MemoryProofs` | `TypeCorrect`, `HeapIsTiled`, `FullyCoalesced`, `CallersKeepTheirs`, `FreesOnlyWhatIsHeld`, `PagesAreAccounted`, `StatsAreTrue`, `HeapImplementsAllocator` | all |
| `FileSystemProofs` | `TypeCorrect`, `OnePath`, `IsATree` | all |
| `BootProofs` | `TypeCorrect`, `UserWhenUp`, `NothingIsLost`, `SingleAccount`, `PasswordsAreHidden`, `DiskImplementsStore`, `DecodersInStep` | all, and `OneAccount`, which no run checks |
| `NetworkProofs` | `TypeCorrect`, `ArpIsTrue`, `RingsAgree`, `SentWhole`, `RxImplementsFifo` | all, and the safety part of `RxIsFifo` |
| `ClusterProofs` | `TypeCorrect`, `OneEntryPerHost`, `CountIsRight`, `OnlySilentDropped` | all |

**`SchedulerProofs`** proves, for every number of slots, slice and bound and for
both values of `Networked`: `TypeCorrect`, `OneRunning`, `ExitIsFinal`,
`SafeReuse`, `BoundedBypass` and `FramesAreBuilt`.

The inductive invariant `IInv` adds six parts to the types:

* `BootInv`: the kernel task is always READY or RUNNING, so the idle task is never
  picked, and the service task is never freed. Hence `pick_next` always finds a
  ready slot, and process tasks only ever get the slots behind the boot tasks.
* `HandledInv`: the slot in which net-poll creates or kills a task is one of those.
* `CurrentInv`: `RunningIsCurrent`; the current slot is not READY, and it is UNUSED
  only after a shell command that no tick has followed yet (`typed`). This gives
  `NoReuseUnderfoot`: by the time the next command is typed, a tick has taken the
  CPU off the stack of the task that the last one killed. Here the model uses that
  typing a command takes longer than a tick (1 ms); net-poll only creates tasks
  while it is itself current, hence never in the current slot.
* `PassedInv`: the slots dispatched while t stayed ready are, cyclically, at least
  as far from t as the current one. The next dispatch is nearer, so it is none of
  them, which is `NoOvertaking`.
* `ExitInv`: a task on its way out is DEAD or its slot UNUSED, unless net-poll has made
  the slot READY and not stored its rsp; only there can it be current behind its last trap.
* `FrameInv`: a READY or SLEEPING slot that is not current has its own context, with the
  same exception, and a task that has not begun loses its frame only with its slot. So
  that slot is the only one in which an old context is resumed or the CPU is lost.

**`DJobProofs`**. The inductive invariant is `TypeOK ∧ CounterInv ∧ RingInv ∧ RouteInv`:
how the counters relate (`history_count`, `history_write`, `next_job_id`), which id is in
which position of the ring, and that every message and every pending write carries a
value that belongs to the id of its submit. `LatestIsFound` follows from `RingInv` alone:
`get_last_completed` walks the ring backwards from `history_write`, and along that walk
the ids descend, so the completed job it meets first has the greatest id; that it meets
one needs a least element of the distances, which `WFMin` gives. `JobsGoToIdler` is about
a single step: among the fresh entries there is a first with less load than this node's,
and the round robin, which may keep the job here, is only reached when there is none.

**`ProcessProofs`**. `IInv` is the types and, for every node that has not raced, three parts:
`PidInv` (the pids in use are distinct and below `next_pid`, which is still the one that
net-poll has read), `FoundInv` (what net-poll and proc-stat have found and are about to
write on is still free, or still the process that is being made or killed) and `TaskInv` (running
entries and occupied slots correspond one to one, but for the task that net-poll has not
listed yet and the one that has left its entry and not returned, `Unlisted`). A step of a node touches that node and
the network only (`Within`), so each action is looked at on one node. The theorems cover every
number of nodes: what peers send, twice, late or never, cannot disturb a table, except
through `raced`.

**`MemoryProofs`**. `IInv` is `Good(heap, live) ∧ PageInv ∧ CountInv`. `Good` says that the
blocks tile the region, that those in use are what callers hold, that no other header in
memory looks in use, and that free neighbours are merged. The ascending order of the
blocks is a consequence of the tiling, but only by induction along the list; the
invariant carries it, and each list operation preserves it. The operations are shown one
by one (`Marked`, `JoinedNext`, `JoinedPrev`, `Taken`, `Grown`), the intermediate heaps of
`kfree` and of a growing `kmalloc` with `Apart(h, X)`, which excepts the positions at which
two free blocks may still meet. `OnlyHeldIsFreed` needs the headers that merging leaves
behind: they are marked free before the merge, and stay so until a caller's data
overwrites them. `HeapImplementsAllocator` maps an allocation to `Allocate` (the new
region lies in a block that was free, so by the tiling it meets no other), a release that
is accepted to `Release`, and everything else to a stutter.

`StatsAreTrue` is about a sum over the blocks in use. `StatsMatch` writes it as a fold, and what a
fold computes is out of the provers' reach, since the induction theorems of the library
take an operator as a parameter. The proof goes round that with sets. `SubsetInduction`
is induction over the subsets of a finite set for a *set* A of subsets, from the well-foundedness
of strict inclusion; with it, `SumExists` shows that for weights w on a finite S there is a
function g on the subsets of S that is 0 at the empty one and grows by w[x] with every new
member x (`IsSum`), and `SumSame` that two such functions agree where their weights do.
`BytesInv` says that the counter is the value of such a function at the set of addresses that
callers hold, with the sizes in the headers at those addresses as weights. A step changes
that set by one address and no header of the others (`FreedKeeps`, `GrownKeeps`, `TakenKeeps`,
`WrittenKeeps`: merging and splitting write only to headers of free blocks), so the counter
follows by one addition or subtraction (`BytesStep`). `FoldIsSum` leads back to the fold
over the positions of the list. That the sum is a natural number also gives the type of the
unsigned counters: what `kfree` subtracts has been added before (`TypeCorrect`).

**`FileSystemProofs`**. `IInv` is `TypeOK ∧ KeysUnique ∧ TreeWellFormed`. `PathsUnique` compares full
paths; what `find_entry` looks up and the operations preserve is `KeysUnique`, that the pair
of parent and name determines an entry. Since no name is empty (`TypeOK`), equal full
paths have equal parents and names, which gives the one from the other.

**`BootProofs`** has one invariant for each half of `Boot`, since a step of the one half is
for the other a step of a known kind or a stutter (`SessionView`). `SInv` adds to the
session's properties where the shell can be while the machine boots (`BootInv`), that the
name of a sign-up is known (`PendingInv`), that nobody is onboarded without a use case, in
memory, on disk or in the sector just read (`OnboardInv`, which carries `SessionHasUser` over a
power failure), when memory, disk and that sector agree (`LoadInv`), and that it holds one
account at most (`SectorInv`). `HiddenInput` is inductive with `exposed`, which
`ShellPrompts` sets and the next line clears. `KInv` describes the interrupt controllers (`PicInv`) and, unless `Mouse::init`
was disturbed, which bytes can be in the buffer for whom (`ByteInv`) and how the decoders
relate to devices and bytes under way (`DecoderInv`).

`DiskImplementsStore` needs `StoreInv` besides: the password that is to be confirmed was long
enough, and nobody is asked for a use case whose onboarding is complete. A step that writes the
sector while the store stays intact happens with the shell up and a drive that answers, so by
`LoadInv` the sector was what memory was, and becomes what memory becomes. A sign-up finds
the table empty (`OneAccount`, in `SInv`) and maps to `Register`; the two steps of onboarding
change the one account there is, in one field, and map to `Choose` and `Complete`.

**`NetworkProofs`**. `ArpInv` strengthens `ArpTableTrue` by what `arp_store` has already written
at each of its points. `SendInv` says that the one task that sends finds its own packet in
the buffers, `RingInv` that the posted descriptors are those from the card's head up to the
driver's position (`Run`, in which an empty and a full ring differ only by the set), `RxInv`
that the filled descriptors are those from `rx_cur` up to the card's head and never all of
them. Distances in a ring are `Ahead`, for which the lemmas on `%` are stated once.
`RxImplementsFifo` maps the card's store to the queue's input and `poll_receive` to its
output; all other steps leave the queue alone.

**`ClusterProofs`**. Only net-poll activates an entry and only cluster-hb drops one: `NetInv` and
`HeartInv` state what each may therefore rely on between two accesses, and give
`PeersUnique` in spite of every race. `ApartInv` and `AgeInv` add, until the race, what
the two know of each other and that the entry's age is the watched host's silence, which
`PeerCount` and `DropMeansSilent` need.

### Only model-checked

* Liveness: `ReadyIsDispatched`, `SleeperWakes`, `DeadIsReaped`, `BufferDrains`, `PostedLeaves`,
  `SilentIsDropped`, `ListedIsReported`, and the fairness part of `RxIsFifo` (its safety part is
  proved). Fairness and `ENABLED` are out of the prover's reach.
* The four disagreements of section 3, which are counterexamples.

## 5. Not modelled

* Without state that a property could be about: formatting and printing, the console's
  drawing, the pointer's position, PCI and CPU detection, the commands that only print.
* Register protocols: ATA, PCI, the reset of the E1000. They are straight lines of port
  accesses that run once, or with interrupts off; their outcomes (a drive answers or not,
  an operation fails or not) are in the models.
* Data: the work of the process functions and of `Jobs::execute`, hashes, checksums,
  line editing and the parsing of commands, the text of clipboard and editor.
* The construction of the page bitmap from the boot loader's memory map (`pmm_init`),
  which `Memory` takes as constants.
* Bounds of a model that the code does not have: `MaxDepth` of `FileSystem` (the code does not
  check the length of a path), and the sizes of `Memory`, small enough for `kmalloc`'s rounding
  not to wrap at 2^64 (no caller asks for that much).
* Loops over a table that are one step: the clearing of the users, and the copy of the sector
  (a sign-up inside sets `early`, as it does before and after). That a sign-up's write
  interrupts the sector's read on the ATA ports, and what unused user entries hold, is left out.
* A station is its IP and its MAC in `Network`, so that refreshing an ARP entry writes the
  value that it has; a station whose MAC changes is left out, and with it a half-written MAC.
* A name of 32 or more characters also runs over the end of `pending_username`
  (`shell.cpp:71`); whatever it overwrites there, it is not found in the table, and `Session`
  has no more of it.
* In `Cluster`, sent means handed to `send_udp` with what it needs; a driver that gives up and
  two packets mixed in `send_buf` are in `Network`. In `Scheduler` a process returns when its own
  entry is gone or stopped; one that runs under another's entry (`TaskFindsUnbound`) is in `Process`.
* Code that nothing calls: `kmain.cpp`, `bitmap.cpp`, `send_raw`, `irq_mask`,
  `irq_unregister`, `on_remote_died`, `on_remote_status`.
* The Limine boot loader (`limine/`, `include/limine.h`): third party.

## 6. Plan

Done: Scheduler, DJob, Process, Memory, FileSystem, Session; Network, Cluster, Input, Boot and
Serial; the proofs of the safety properties of all of them but Serial, whose run is a
disagreement; the abstract allocator, queue and account store, and the refinements from
Memory, Network and Session to them. What would come next:

1. **An abstract process**: one that is started, listed and stopped once, for `Process`, with
   the life cycle of remote entries, and the refinement for nodes that have not raced.
2. **Stronger statements of what is proved**: what `CardSeesPosted` and `FramesWhole` say while
   the ring is full; that a host once heard of is listed if the table has room.
