------------------------------ MODULE Process ------------------------------
(***************************************************************************)
(* The process tables of a cluster (kernel/process.cpp): every node has a  *)
(* table of the processes it runs and of those it asked a peer to run.     *)
(*                                                                         *)
(* Three actors share a node's table.  Shell commands run inside the       *)
(* keyboard interrupt and are atomic.  net-poll serves the peers' requests *)
(* and proc-stat cleans up; both are tasks that a command can interrupt    *)
(* and that preempt each other, so what they read and what they write      *)
(* because of it are separate steps; the fields of an entry that are       *)
(* written in a row are one step.                                          *)
(*                                                                         *)
(* UDP may lose, delay, reorder or duplicate: `net' holds every datagram   *)
(* ever sent and receiving one does not remove it.  PROC_SPAWNED, which    *)
(* on_remote_spawned ignores, is left out.  A process is identified by the *)
(* node whose user asked for it and the pid it was given there.            *)
(* The scheduler is abstracted to the slots that process tasks occupy; how *)
(* the tasks preempt each other is in Scheduler.                           *)
(***************************************************************************)
EXTENDS Naturals, FiniteSets

CONSTANTS
    Node,        \* the nodes of the cluster, by IP address
    MaxProcs,    \* MAX_PROCS
    MaxTasks,    \* scheduler slots left for processes
    MaxPid       \* MaxPid[n]: bound on the pids node n hands out

ASSUME NodeAssumption == "none" \notin Node
ASSUME TableAssumption == MaxProcs \in Nat \ {0} /\ MaxTasks \in Nat \ {0}
ASSUME PidAssumption == MaxPid \in [Node -> Nat]

VARIABLES
    procs,       \* procs[n][i]: the table of node n; `proc' is a history field
    next_pid,    \* next_pid[n]
    tasks,       \* tasks[n][s]: the process whose task is in scheduler slot s
    net,         \* datagrams sent so far
    op,          \* op[n]: what net-poll of n is executing
    reap,        \* reap[n]: the entry that status_report_entry of n found DEAD, if any
    raced        \* history: nodes where one actor hit an operation of another in progress

vars == <<procs, next_pid, tasks, net, op, reap, raced>>

Entries == 1 .. MaxProcs
TaskSlots == 1 .. MaxTasks
NoSlot == 0                      \* sched_slot = -1
NoEntry == 0
Pid == Nat
Proc == [home : Node, pid : Pid]
NoProc == [home |-> "none", pid |-> 0]

State == {"UNUSED", "RUNNING", "EXITING", "DEAD"}
Entry == [pid : Pid, state : State, node_ip : Node, sched_slot : TaskSlots \cup {NoSlot},
          proc : Proc \cup {NoProc}]
Message == [kind : {"spawn", "kill"}, from : Node, to : Node, pid : Pid]

\* net-poll inside spawn_local: "fill" (entry found, next_pid loaded), "create"
\* (entry written), "claim" (scheduler slot found), "bind" (task created);
\* inside on_remote_kill_request: "found" (the entry), "kill" (stop flag set and
\* sched_slot loaded), "mark" (task killed).
Idle == [at |-> "idle", entry |-> 1, pid |-> 0, slot |-> NoSlot, proc |-> NoProc]
Op == [at : {"idle", "fill", "create", "claim", "bind", "found", "kill", "mark"}, entry : Entries, pid : Pid,
       slot : TaskSlots \cup {NoSlot}, proc : Proc \cup {NoProc}]

TypeOK ==
    /\ procs \in [Node -> [Entries -> Entry]]
    /\ next_pid \in [Node -> Nat \ {0}]
    /\ tasks \in [Node -> [TaskSlots -> Proc \cup {NoProc}]]
    /\ net \in SUBSET Message
    /\ op \in [Node -> Op]
    /\ reap \in [Node -> Entries \cup {NoEntry}]
    /\ raced \in SUBSET Node

-----------------------------------------------------------------------------
(* Pieces of process.cpp *)

Free(e) == e.state \in {"UNUSED", "DEAD"}
Live(e) == e.state \in {"RUNNING", "EXITING"}

\* find_free returns i.
FindFree(n, i) ==
    /\ Free(procs[n][i])
    /\ \A j \in 1 .. i - 1 : ~Free(procs[n][j])

\* Process::kill(pid) acts on entry i.
FindKill(n, pid, i) ==
    LET match(j) == procs[n][j].pid = pid /\ Live(procs[n][j])
    IN  match(i) /\ \A j \in 1 .. i - 1 : ~match(j)

\* The pids worth typing: any other leaves the table alone.
PidsOf(n) == {procs[n][i].pid : i \in Entries}

\* on_remote_kill_request(pid) acts on entry i.
FindRemoteKill(n, pid, i) ==
    LET match(j) == /\ procs[n][j].pid = pid
                    /\ procs[n][j].state = "RUNNING"
                    /\ procs[n][j].node_ip = n
    IN  match(i) /\ \A j \in 1 .. i - 1 : ~match(j)

\* The slot that Scheduler::create_task takes; none when all are in use.
FirstFreeTask(n, s) ==
    /\ tasks[n][s] = NoProc
    /\ \A r \in 1 .. s - 1 : tasks[n][r] # NoProc
NoFreeTask(n) == \A s \in TaskSlots : tasks[n][s] # NoProc

\* Mutated form: the entry is dropped, the task is not.
KillNothing(n, s) == tasks' = tasks

\* Scheduler::kill_task, called when sched_slot is not -1
KillTask(n, s) ==
    tasks' = IF s = NoSlot THEN tasks ELSE [tasks EXCEPT ![n][s] = NoProc]

\* Mutated form: the counter is not advanced.
PidStays(pid) == pid

FirstPid == 1
PidAfter(pid) == pid + 1         \* next_pid++

\* net-poll holds a pid or an entry, or proc-stat an entry, that a command at
\* this point can take as well; net-poll holds a scheduler slot likewise: the
\* one it is about to claim, or the one it is about to kill the task in.
EntryHeld(n, i) ==
    \/ op[n].at = "fill"
    \/ op[n].at \in {"found", "kill", "mark"} /\ op[n].entry = i
    \/ reap[n] = i
SlotHeld(n) ==
    \/ op[n].at = "claim"
    \/ op[n].at = "kill" /\ op[n].slot # NoSlot /\ FirstFreeTask(n, op[n].slot)
Races(n, race) == raced' = IF race THEN raced \cup {n} ELSE raced

-----------------------------------------------------------------------------

Init ==
    /\ procs = [n \in Node |-> [i \in Entries |->
         [pid |-> 0, state |-> "UNUSED", node_ip |-> n, sched_slot |-> NoSlot, proc |-> NoProc]]]
    /\ next_pid = [n \in Node |-> FirstPid]
    /\ tasks = [n \in Node |-> [s \in TaskSlots |-> NoProc]]
    /\ net = {}
    /\ op = [n \in Node |-> Idle]
    /\ reap = [n \in Node |-> NoEntry]
    /\ raced = {}

\* `spawn' of a local process: spawn_on and spawn_local, create_task included
SpawnLocal(n) ==
    /\ next_pid[n] <= MaxPid[n]
    /\ next_pid' = [next_pid EXCEPT ![n] = PidAfter(@)]
    /\ \E i \in Entries :
         LET proc == [home |-> n, pid |-> next_pid[n]]
             entry == [procs[n][i] EXCEPT !.pid = next_pid[n], !.node_ip = n, !.proc = proc]
         IN  /\ FindFree(n, i)
             /\ Races(n, EntryHeld(n, i) \/ SlotHeld(n))
             /\ \/ \E s \in TaskSlots :
                     /\ FirstFreeTask(n, s)
                     /\ tasks' = [tasks EXCEPT ![n][s] = proc]
                     /\ procs' = [procs EXCEPT ![n][i] =
                          [entry EXCEPT !.state = "RUNNING", !.sched_slot = s]]
                \/ /\ NoFreeTask(n)
                   /\ procs' = [procs EXCEPT ![n][i] = [entry EXCEPT !.state = "UNUSED"]]
                   /\ tasks' = tasks
    /\ UNCHANGED <<net, op, reap>>

\* `spawn' of a process on peer m: spawn_on
SpawnRemote(n, m) ==
    /\ next_pid[n] <= MaxPid[n]
    /\ next_pid' = [next_pid EXCEPT ![n] = PidAfter(@)]
    /\ \E i \in Entries :
         /\ FindFree(n, i)
         /\ Races(n, EntryHeld(n, i))
         /\ procs' = [procs EXCEPT ![n][i] =
              [pid |-> next_pid[n], state |-> "RUNNING", node_ip |-> m, sched_slot |-> NoSlot,
               proc |-> [home |-> n, pid |-> next_pid[n]]]]
    /\ net' = net \cup {[kind |-> "spawn", from |-> n, to |-> m, pid |-> next_pid[n]]}
    /\ UNCHANGED <<tasks, op, reap>>

\* `kill pid', kill_task included.  The process that the keyboard interrupted
\* survives if it is inside sleep_ms, whose next store undoes kill_task's.
Kill(n, pid) ==
    /\ \E i \in Entries, survives \in BOOLEAN :
         LET e == procs[n][i]
         IN  /\ FindKill(n, pid, i)
             /\ survives => e.node_ip = n /\ e.sched_slot # NoSlot
             /\ Races(n, survives \/ (op[n].at \in {"create", "claim", "bind", "mark"} /\ op[n].entry = i))
             /\ \/ /\ e.node_ip = n
                   /\ IF survives THEN tasks' = tasks ELSE KillTask(n, e.sched_slot)
                   /\ procs' = [procs EXCEPT ![n][i] = [@ EXCEPT !.state = "DEAD", !.sched_slot = NoSlot, !.proc = NoProc]]
                   /\ net' = net
                \/ /\ e.node_ip # n
                   /\ net' = net \cup {[kind |-> "kill", from |-> n, to |-> e.node_ip, pid |-> pid]}
                   /\ procs' = [procs EXCEPT ![n][i].state = "EXITING"]
                   /\ tasks' = tasks
    /\ UNCHANGED <<next_pid, op, reap>>

-----------------------------------------------------------------------------
(* net-poll *)

\* on_remote_spawn_request -> spawn_local: find_free, and next_pid is loaded
NetSpawnFind(n, m) ==
    /\ op[n].at = "idle"
    /\ m.kind = "spawn" /\ m.to = n
    /\ next_pid[n] <= MaxPid[n]
    /\ \E i \in Entries :
         /\ FindFree(n, i)
         /\ op' = [op EXCEPT ![n] = [at |-> "fill", entry |-> i, pid |-> next_pid[n], slot |-> NoSlot,
                                     proc |-> [home |-> m.from, pid |-> m.pid]]]
    /\ UNCHANGED <<procs, next_pid, tasks, net, reap, raced>>

\* next_pid++ is stored and the entry filled in, except for sched_slot
NetSpawnFill(n) ==
    /\ op[n].at = "fill"
    /\ next_pid' = [next_pid EXCEPT ![n] = PidAfter(op[n].pid)]
    /\ procs' = [procs EXCEPT ![n][op[n].entry] =
         [@ EXCEPT !.pid = op[n].pid, !.state = "RUNNING", !.node_ip = n, !.proc = op[n].proc]]
    /\ Races(n, reap[n] = op[n].entry)
    /\ op' = [op EXCEPT ![n].at = "create"]
    /\ UNCHANGED <<tasks, net, reap>>

\* create_task looks for a free slot
NetSpawnCreate(n) ==
    /\ op[n].at = "create"
    /\ \/ \E s \in TaskSlots :
            /\ FirstFreeTask(n, s)
            /\ op' = [op EXCEPT ![n].at = "claim", ![n].slot = s]
            /\ procs' = procs
       \/ /\ NoFreeTask(n)
          /\ procs' = [procs EXCEPT ![n][op[n].entry].state = "UNUSED"]
          /\ op' = [op EXCEPT ![n] = Idle]
    /\ UNCHANGED <<next_pid, tasks, net, reap, raced>>

\* create_task makes the slot a task
NetSpawnClaim(n) ==
    /\ op[n].at = "claim"
    /\ tasks' = [tasks EXCEPT ![n][op[n].slot] = op[n].proc]
    /\ op' = [op EXCEPT ![n].at = "bind"]
    /\ UNCHANGED <<procs, next_pid, net, reap, raced>>

\* The new task is dispatched before sched_slot is stored: find_my_slot finds
\* no entry for it, and it returns.
TaskFindsNoEntry(n) ==
    /\ op[n].at = "bind"
    /\ tasks[n][op[n].slot] = op[n].proc
    /\ \A i \in Entries : procs[n][i].state = "RUNNING" => procs[n][i].sched_slot # op[n].slot
    /\ tasks' = [tasks EXCEPT ![n][op[n].slot] = NoProc]
    /\ Races(n, TRUE)
    /\ UNCHANGED <<procs, next_pid, net, op, reap>>

\* find_my_slot of the task in slot s finds entry i, which is another process's.
FindsOther(n, i, s) ==
    LET match(j) == procs[n][j].state = "RUNNING" /\ procs[n][j].sched_slot = s
    IN  /\ s # NoSlot
        /\ tasks[n][s] \notin {NoProc, procs[n][i].proc}
        /\ match(i) /\ \A j \in 1 .. i - 1 : ~match(j)

\* A new task is dispatched while the entry that net-poll fills in still has
\* the sched_slot of its last process: it runs on under that entry.
TaskFindsUnbound(n) ==
    /\ op[n].at \in {"create", "claim", "bind"}
    /\ FindsOther(n, op[n].entry, procs[n][op[n].entry].sched_slot)
    /\ Races(n, TRUE)
    /\ UNCHANGED <<procs, next_pid, tasks, net, op, reap>>

\* A new task is dispatched in the slot of a process that net-poll has killed,
\* before its entry is marked: it sees that entry's stop flag and returns.
TaskFindsKilled(n) ==
    /\ op[n].at = "mark"
    /\ FindsOther(n, op[n].entry, op[n].slot)
    /\ procs' = [procs EXCEPT ![n][op[n].entry] = [@ EXCEPT !.state = "DEAD", !.proc = NoProc]]
    /\ tasks' = [tasks EXCEPT ![n][op[n].slot] = NoProc]
    /\ Races(n, TRUE)
    /\ UNCHANGED <<next_pid, net, op, reap>>

\* sched_slot = sched
NetSpawnBind(n) ==
    /\ op[n].at = "bind"
    /\ procs' = [procs EXCEPT ![n][op[n].entry].sched_slot = op[n].slot]
    /\ op' = [op EXCEPT ![n] = Idle]
    /\ UNCHANGED <<next_pid, tasks, net, reap, raced>>

\* on_remote_kill_request finds the entry ...
NetKillFind(n, m) ==
    /\ op[n].at = "idle"
    /\ m.kind = "kill" /\ m.to = n
    /\ \E i \in Entries :
         /\ FindRemoteKill(n, m.pid, i)
         /\ op' = [op EXCEPT ![n].at = "found", ![n].entry = i]
    /\ UNCHANGED <<procs, next_pid, tasks, net, reap, raced>>

\* ... sets its stop flag and loads its sched_slot ...
NetKillFlag(n) ==
    LET e == procs[n][op[n].entry]
    IN  /\ op[n].at = "found"
        /\ op' = [op EXCEPT ![n].at = "kill", ![n].slot = e.sched_slot, ![n].proc = e.proc]
        /\ UNCHANGED <<procs, next_pid, tasks, net, reap, raced>>

\* ... (now the process may see the flag by itself: it stores state = PROC_DEAD
TaskStops(n) ==
    LET e == procs[n][op[n].entry]
    IN  /\ op[n].at = "kill" /\ op[n].slot # NoSlot
        /\ e.state = "RUNNING" /\ e.proc = op[n].proc /\ tasks[n][op[n].slot] = op[n].proc
        /\ procs' = [procs EXCEPT ![n][op[n].entry] = [@ EXCEPT !.state = "DEAD", !.proc = NoProc]]
        /\ UNCHANGED <<next_pid, tasks, net, op, reap, raced>>

\* and returns, which frees its slot) ...
TaskReturns(n) ==
    /\ op[n].at = "kill" /\ op[n].slot # NoSlot
    /\ tasks[n][op[n].slot] = op[n].proc /\ procs[n][op[n].entry].proc # op[n].proc
    /\ tasks' = [tasks EXCEPT ![n][op[n].slot] = NoProc]
    /\ UNCHANGED <<procs, next_pid, net, op, reap, raced>>

\* ... calls kill_task ...
NetKillTask(n) ==
    /\ op[n].at = "kill"
    /\ KillTask(n, op[n].slot)
    /\ op' = [op EXCEPT ![n].at = "mark"]
    /\ UNCHANGED <<procs, next_pid, net, reap, raced>>

\* ... and marks the entry, which keeps its sched_slot.
NetKillMark(n) ==
    /\ op[n].at = "mark"
    /\ procs' = [procs EXCEPT ![n][op[n].entry] = [@ EXCEPT !.state = "DEAD", !.proc = NoProc]]
    /\ op' = [op EXCEPT ![n] = Idle]
    /\ UNCHANGED <<next_pid, tasks, net, reap, raced>>

-----------------------------------------------------------------------------
(* proc-stat *)

\* status_report_entry tests entry i ...
ReapLook(n, i) ==
    /\ reap[n] = NoEntry
    /\ procs[n][i].state = "DEAD" /\ procs[n][i].node_ip = n
    /\ reap' = [reap EXCEPT ![n] = i]
    /\ UNCHANGED <<procs, next_pid, tasks, net, op, raced>>

\* ... and frees it.
ReapStore(n) ==
    /\ reap[n] # NoEntry
    /\ procs' = [procs EXCEPT ![n][reap[n]].state = "UNUSED", ![n][reap[n]].pid = 0]
    /\ reap' = [reap EXCEPT ![n] = NoEntry]
    /\ UNCHANGED <<next_pid, tasks, net, op, raced>>

-----------------------------------------------------------------------------

Command(n) ==
    \/ SpawnLocal(n)
    \/ \E m \in Node \ {n} : SpawnRemote(n, m)
    \/ \E pid \in PidsOf(n) : Kill(n, pid)

NetPoll(n) ==
    \/ \E m \in net : NetSpawnFind(n, m)
    \/ NetSpawnFill(n)
    \/ NetSpawnCreate(n)
    \/ NetSpawnClaim(n)
    \/ TaskFindsNoEntry(n)
    \/ TaskFindsUnbound(n)
    \/ TaskFindsKilled(n)
    \/ NetSpawnBind(n)
    \/ \E m \in net : NetKillFind(n, m)
    \/ NetKillFlag(n)
    \/ TaskStops(n)
    \/ TaskReturns(n)
    \/ NetKillTask(n)
    \/ NetKillMark(n)

ProcStat(n) == (\E i \in Entries : ReapLook(n, i)) \/ ReapStore(n)

Next == \E n \in Node : Command(n) \/ NetPoll(n) \/ ProcStat(n)

Spec == Init /\ [][Next]_vars

-----------------------------------------------------------------------------
(* Properties *)

\* Entry i of node n describes a local process, net-poll has finished creating
\* it and not killed it yet.
Settled(n, i) ==
    /\ procs[n][i].state = "RUNNING" /\ procs[n][i].node_ip = n
    /\ ~(op[n].at \in {"create", "claim", "bind", "mark"} /\ op[n].entry = i)

\* The task in slot s has no entry yet, or no longer because it has seen its
\* stop flag and is about to return.
Unlisted(n, s) ==
    /\ op[n].slot = s
    /\ op[n].at = "bind" \/ (op[n].at = "kill" /\ procs[n][op[n].entry].state # "RUNNING")

\* As long as nobody hit spawn_local, sleep_ms, a remote kill or the clean-up
\* loop at the wrong moment, table and tasks agree: the sched_slot of a running
\* local entry holds that very process (so `kill' stops what it names), and
\* every process task has exactly one entry (so it is listed and can be
\* killed), but for the task that net-poll creates and the one that returns
\* while net-poll kills it.
TableMatchesTasks ==
    \A n \in Node \ raced :
        /\ \A i \in Entries : Settled(n, i) =>
              /\ procs[n][i].sched_slot # NoSlot
              /\ tasks[n][procs[n][i].sched_slot] = procs[n][i].proc
        /\ \A s \in TaskSlots :
              tasks[n][s] # NoProc /\ ~Unlisted(n, s) =>
              Cardinality({i \in Entries : Settled(n, i) /\ procs[n][i].sched_slot = s}) = 1

\* Under the same condition a pid names at most one process of a table.
PidsUnique ==
    \A n \in Node \ raced : \A i, j \in Entries :
        Live(procs[n][i]) /\ Live(procs[n][j]) /\ procs[n][i].pid = procs[n][j].pid => i = j

\* README: `kill <pid>' terminates a process, local or remote.  A task ends
\* only by a `kill' on its own node, by one on the node that asked for the
\* process and that names it there, or because it finds no entry or another's.
OnlyNamedDies ==
    [][\A n \in Node, s \in TaskSlots :
         tasks[n][s] # NoProc /\ tasks'[n][s] # tasks[n][s] =>
            \/ \E pid \in PidsOf(n) : Kill(n, pid)
            \/ TaskFindsNoEntry(n) \/ TaskFindsKilled(n)
            \/ [kind |-> "kill", from |-> tasks[n][s].home, to |-> n, pid |-> tasks[n][s].pid] \in net]_vars
=============================================================================
