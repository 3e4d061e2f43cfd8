--------------------------- MODULE ProcessProofs ---------------------------
(***************************************************************************)
(* Proofs about Process, for every number of nodes, every size of the      *)
(* process table and of the scheduler, and every number of pids: as long   *)
(* as a node's actors did not meet in the middle of an operation, pids are *)
(* unique in its table, and table and scheduler agree.                     *)
(***************************************************************************)
EXTENDS Process, FiniteSetTheorems, TLAPS

\* Entry i of node n is a local process; net-poll is still creating it.
Local(n, i) == procs[n][i].state = "RUNNING" /\ procs[n][i].node_ip = n
Making == {"create", "claim", "bind"}

\* Pids in use were handed out before, each to one entry, and net-poll still
\* has the latest when it is about to store one.
PidInv(n) ==
    /\ \A i \in Entries : Live(procs[n][i]) => procs[n][i].pid < next_pid[n]
    /\ \A i, j \in Entries :
          Live(procs[n][i]) /\ Live(procs[n][j]) /\ procs[n][i].pid = procs[n][j].pid => i = j
    /\ op[n].at = "fill" => op[n].pid = next_pid[n]

\* What net-poll and proc-stat have found is still what they found.
FoundInv(n) ==
    /\ op[n].at = "fill" => Free(procs[n][op[n].entry])
    /\ op[n].at = "fill" \/ op[n].at \in Making => op[n].proc \in Proc
    /\ op[n].at \in Making => Local(n, op[n].entry) /\ procs[n][op[n].entry].proc = op[n].proc
    /\ op[n].at = "claim" => op[n].slot \in TaskSlots /\ tasks[n][op[n].slot] = NoProc
    /\ op[n].at = "bind" => op[n].slot \in TaskSlots /\ tasks[n][op[n].slot] = op[n].proc
    /\ op[n].at = "found" =>
          \/ Local(n, op[n].entry)
          \/ Free(procs[n][op[n].entry]) /\ procs[n][op[n].entry].sched_slot = NoSlot
    /\ op[n].at = "kill" =>
          \/ Local(n, op[n].entry) /\ procs[n][op[n].entry].sched_slot = op[n].slot
             /\ procs[n][op[n].entry].proc = op[n].proc
          \/ Free(procs[n][op[n].entry])
    /\ op[n].at = "mark" => Local(n, op[n].entry) \/ Free(procs[n][op[n].entry])
    /\ reap[n] # NoEntry => Free(procs[n][reap[n]])
    /\ \A i \in Entries : procs[n][i].state = "EXITING" => procs[n][i].node_ip # n

\* Entries and tasks belong to each other, one to one.
TaskInv(n) ==
    /\ \A i \in Entries : Settled(n, i) =>
          /\ procs[n][i].sched_slot \in TaskSlots /\ procs[n][i].proc \in Proc
          /\ tasks[n][procs[n][i].sched_slot] = procs[n][i].proc
    /\ \A i, j \in Entries :
          Settled(n, i) /\ Settled(n, j) /\ procs[n][i].sched_slot = procs[n][j].sched_slot => i = j
    /\ \A i \in Entries, s \in TaskSlots :
          Settled(n, i) /\ Unlisted(n, s) => procs[n][i].sched_slot # s
    /\ \A s \in TaskSlots : tasks[n][s] # NoProc /\ ~Unlisted(n, s) =>
          \E i \in Entries : Settled(n, i) /\ procs[n][i].sched_slot = s

NodeInv(n) == PidInv(n) /\ FoundInv(n) /\ TaskInv(n)

IInv == TypeOK /\ \A n \in Node \ raced : NodeInv(n)

-----------------------------------------------------------------------------
(* A step of a node changes that node only, and keeps the types *)

Slot == TaskSlots \cup {NoSlot}
AnyProc == Proc \cup {NoProc}

Within(n) ==
    /\ \E P \in [Entries -> Entry] : procs' = [procs EXCEPT ![n] = P]
    /\ \E p \in Nat \ {0} : next_pid' = [next_pid EXCEPT ![n] = p]
    /\ \E T \in [TaskSlots -> AnyProc] : tasks' = [tasks EXCEPT ![n] = T]
    /\ \E o \in Op : op' = [op EXCEPT ![n] = o]
    /\ \E r \in Entries \cup {NoEntry} : reap' = [reap EXCEPT ![n] = r]
    /\ raced' \in {raced, raced \cup {n}}
    /\ net' \subseteq Message

\* What is left alone is within.
LEMMA LeftAlone ==
    ASSUME TypeOK, NEW n \in Node
    PROVE  /\ procs' = procs => \E P \in [Entries -> Entry] : procs' = [procs EXCEPT ![n] = P]
           /\ next_pid' = next_pid => \E p \in Nat \ {0} : next_pid' = [next_pid EXCEPT ![n] = p]
           /\ tasks' = tasks => \E T \in [TaskSlots -> AnyProc] : tasks' = [tasks EXCEPT ![n] = T]
           /\ op' = op => \E o \in Op : op' = [op EXCEPT ![n] = o]
           /\ reap' = reap => \E r \in Entries \cup {NoEntry} : reap' = [reap EXCEPT ![n] = r]
<1> USE DEF TypeOK, AnyProc
<1>1. procs[n] \in [Entries -> Entry] /\ procs = [procs EXCEPT ![n] = procs[n]]
  OBVIOUS
<1>2. next_pid[n] \in Nat \ {0} /\ next_pid = [next_pid EXCEPT ![n] = next_pid[n]]
  OBVIOUS
<1>3. tasks[n] \in [TaskSlots -> AnyProc] /\ tasks = [tasks EXCEPT ![n] = tasks[n]]
  OBVIOUS
<1>4. op[n] \in Op /\ op = [op EXCEPT ![n] = op[n]]
  OBVIOUS
<1>5. reap[n] \in Entries \cup {NoEntry} /\ reap = [reap EXCEPT ![n] = reap[n]]
  OBVIOUS
<1> QED BY <1>1, <1>2, <1>3, <1>4, <1>5

\* A change of one entry or of one task is within.
LEMMA OneChanges ==
    ASSUME TypeOK, NEW n \in Node
    PROVE  /\ \A i \in Entries, e \in Entry : procs' = [procs EXCEPT ![n][i] = e] =>
                 \E P \in [Entries -> Entry] : procs' = [procs EXCEPT ![n] = P]
           /\ \A s \in Slot, t \in AnyProc : tasks' = [tasks EXCEPT ![n][s] = t] =>
                 \E T \in [TaskSlots -> AnyProc] : tasks' = [tasks EXCEPT ![n] = T]
<1> USE DEF TypeOK, AnyProc
<1>1. ASSUME NEW i \in Entries, NEW e \in Entry, procs' = [procs EXCEPT ![n][i] = e]
      PROVE  \E P \in [Entries -> Entry] : procs' = [procs EXCEPT ![n] = P]
  <2>1. [procs[n] EXCEPT ![i] = e] \in [Entries -> Entry]
    OBVIOUS
  <2>2. procs' = [procs EXCEPT ![n] = [procs[n] EXCEPT ![i] = e]]
    BY <1>1
  <2> QED BY <2>1, <2>2
<1>2. ASSUME NEW s \in Slot, NEW t \in AnyProc, tasks' = [tasks EXCEPT ![n][s] = t]
      PROVE  \E T \in [TaskSlots -> AnyProc] : tasks' = [tasks EXCEPT ![n] = T]
  <2>1. [tasks[n] EXCEPT ![s] = t] \in [TaskSlots -> AnyProc]
    OBVIOUS
  <2>2. tasks' = [tasks EXCEPT ![n] = [tasks[n] EXCEPT ![s] = t]]
    BY <1>2
  <2> QED BY <2>1, <2>2
<1> QED BY <1>1, <1>2

LEMMA EntryFacts ==
    ASSUME TypeOK, NEW n \in Node
    PROVE  /\ \A i \in Entries : procs[n][i] \in Entry
           /\ next_pid[n] \in Nat \ {0} /\ op[n] \in Op /\ op[n].entry \in Entries
           /\ op[n].pid \in Nat /\ op[n].slot \in Slot /\ op[n].proc \in AnyProc
           /\ reap[n] \in Entries \cup {NoEntry}
           /\ Idle \in Op /\ [home |-> n, pid |-> next_pid[n]] \in Proc
           /\ NoProc \in AnyProc /\ NoProc \notin Proc /\ NoEntry \notin Entries /\ NoSlot \notin TaskSlots
<1>1. \A i \in Entries : procs[n][i] \in Entry
  BY DEF TypeOK
<1>2. next_pid[n] \in Nat \ {0} /\ op[n] \in Op /\ reap[n] \in Entries \cup {NoEntry}
  BY DEF TypeOK
<1>3. op[n].entry \in Entries /\ op[n].pid \in Nat /\ op[n].slot \in Slot /\ op[n].proc \in AnyProc
  BY <1>2 DEF Op, Pid, Slot, AnyProc
<1>4. Idle \in Op
  BY TableAssumption DEF Idle, Op, Entries, Pid, NoProc
<1>5. [home |-> n, pid |-> next_pid[n]] \in Proc
  BY <1>2 DEF Proc, Pid
<1>6. NoProc \in AnyProc /\ NoProc \notin Proc
  BY NodeAssumption DEF AnyProc, NoProc, Proc
<1>7. NoEntry \notin Entries /\ NoSlot \notin TaskSlots
  BY TableAssumption DEF NoEntry, Entries, NoSlot, TaskSlots
<1> QED BY <1>1, <1>2, <1>3, <1>4, <1>5, <1>6, <1>7

\* What a new or changed entry, a new operation and a new task are made of.
LEMMA Parts ==
    ASSUME NEW e \in Entry
    PROVE  /\ \A st \in State : [e EXCEPT !.state = st] \in Entry
           /\ \A s \in Slot : [e EXCEPT !.sched_slot = s] \in Entry
           /\ \A st \in State : [e EXCEPT !.state = st, !.proc = NoProc] \in Entry
           /\ \A st \in State : [e EXCEPT !.state = st, !.pid = 0] \in Entry
           /\ \A st \in State : [e EXCEPT !.state = st, !.sched_slot = NoSlot, !.proc = NoProc] \in Entry
           /\ \A p \in Nat, n \in Node, x \in AnyProc : [e EXCEPT !.pid = p, !.node_ip = n, !.proc = x] \in Entry
           /\ \A p \in Nat, n \in Node, x \in AnyProc, st \in State :
                 [e EXCEPT !.pid = p, !.state = st, !.node_ip = n, !.proc = x] \in Entry
BY DEF Entry, Slot, AnyProc, Pid, NoSlot, NoProc

\* Every step of a node is within it.
LEMMA StepsWithin ==
    ASSUME TypeOK, NEW n \in Node, Command(n) \/ NetPoll(n) \/ ProcStat(n)
    PROVE  Within(n)
<1> DEFINE P == \E f \in [Entries -> Entry] : procs' = [procs EXCEPT ![n] = f]
           D == \E p \in Nat \ {0} : next_pid' = [next_pid EXCEPT ![n] = p]
           T == \E f \in [TaskSlots -> AnyProc] : tasks' = [tasks EXCEPT ![n] = f]
           O == \E o \in Op : op' = [op EXCEPT ![n] = o]
           R == \E r \in Entries \cup {NoEntry} : reap' = [reap EXCEPT ![n] = r]
           G == raced' \in {raced, raced \cup {n}}
           M == net' \subseteq Message
<1>a. Within(n) <=> P /\ D /\ T /\ O /\ R /\ G /\ M
  BY DEF Within
<1>p. procs' = procs => P
  BY LeftAlone
<1>d. next_pid' = next_pid => D
  BY LeftAlone
<1>t. tasks' = tasks => T
  BY LeftAlone
<1>o. op' = op => O
  BY LeftAlone
<1>r. reap' = reap => R
  BY LeftAlone
<1>m. net' = net => M
  BY DEF TypeOK
<1>g. (raced' = raced => G) /\ \A b \in BOOLEAN : Races(n, b) => G
  BY DEF Races
<1>P. \A i \in Entries, e \in Entry : procs' = [procs EXCEPT ![n][i] = e] => P
  BY OneChanges
<1>T. \A s \in Slot, t \in AnyProc : tasks' = [tasks EXCEPT ![n][s] = t] => T
  BY OneChanges
<1>e. /\ \A i \in Entries : procs[n][i] \in Entry
      /\ next_pid[n] \in Nat \ {0} /\ op[n] \in Op /\ op[n].entry \in Entries
      /\ op[n].pid \in Nat /\ op[n].slot \in Slot /\ op[n].proc \in AnyProc
      /\ reap[n] \in Entries \cup {NoEntry}
      /\ Idle \in Op /\ [home |-> n, pid |-> next_pid[n]] \in Proc /\ NoProc \in AnyProc
  BY EntryFacts
<1>n. next_pid' = [next_pid EXCEPT ![n] = PidAfter(@)] => D
  <2>1. next_pid[n] + 1 \in Nat \ {0}
    BY <1>e
  <2> QED BY <2>1 DEF PidAfter
<1>c. State = {"UNUSED", "RUNNING", "EXITING", "DEAD"}
  BY DEF State
<1>k. \A s \in Slot : KillTask(n, s) => T
  BY <1>t, <1>T, <1>e DEF KillTask
<1> HIDE DEF P, D, T, O, R, G, M
<1>1. CASE SpawnLocal(n)
  <2>1. PICK i \in Entries : LET proc == [home |-> n, pid |-> next_pid[n]]
             entry == [procs[n][i] EXCEPT !.pid = next_pid[n], !.node_ip = n, !.proc = proc]
         IN  /\ Races(n, EntryHeld(n, i) \/ SlotHeld(n))
             /\ \/ \E s \in TaskSlots :
                     /\ tasks' = [tasks EXCEPT ![n][s] = proc]
                     /\ procs' = [procs EXCEPT ![n][i] =
                          [entry EXCEPT !.state = "RUNNING", !.sched_slot = s]]
                \/ /\ procs' = [procs EXCEPT ![n][i] = [entry EXCEPT !.state = "UNUSED"]]
                   /\ tasks' = tasks
    BY <1>1 DEF SpawnLocal
  <2> DEFINE proc == [home |-> n, pid |-> next_pid[n]]
             entry == [procs[n][i] EXCEPT !.pid = next_pid[n], !.node_ip = n, !.proc = proc]
  <2>2. entry \in Entry /\ proc \in AnyProc
    BY <1>e, Parts DEF AnyProc
  <2>3. D /\ O /\ R /\ M
    BY <1>1, <1>n, <1>o, <1>r, <1>m DEF SpawnLocal
  <2>4. G
    <3>1. (EntryHeld(n, i) \/ SlotHeld(n)) \in BOOLEAN
      BY DEF EntryHeld, SlotHeld, FirstFreeTask
    <3> QED BY <2>1, <3>1, <1>g
  <2> HIDE DEF entry, proc
  <2>5. CASE \E s \in TaskSlots :
                     /\ tasks' = [tasks EXCEPT ![n][s] = proc]
                     /\ procs' = [procs EXCEPT ![n][i] = [entry EXCEPT !.state = "RUNNING", !.sched_slot = s]]
    <3>1. PICK s \in TaskSlots :
                     /\ tasks' = [tasks EXCEPT ![n][s] = proc]
                     /\ procs' = [procs EXCEPT ![n][i] = [entry EXCEPT !.state = "RUNNING", !.sched_slot = s]]
      BY <2>5
    <3>2. [entry EXCEPT !.state = "RUNNING", !.sched_slot = s] \in Entry
      BY <2>2 DEF Entry, State
    <3>3. T /\ P
      BY <3>1, <3>2, <2>2, <1>P, <1>T DEF Slot
    <3> QED BY <1>a, <2>3, <2>4, <3>3
  <2>6. CASE /\ procs' = [procs EXCEPT ![n][i] = [entry EXCEPT !.state = "UNUSED"]]
             /\ tasks' = tasks
    <3>1. [entry EXCEPT !.state = "UNUSED"] \in Entry
      BY <2>2, Parts, <1>c
    <3> QED BY <1>a, <1>P, <1>t, <2>3, <2>4, <2>6, <3>1
  <2> QED BY <2>1, <2>5, <2>6 DEF entry, proc
<1>2. ASSUME NEW m \in Node \ {n}, SpawnRemote(n, m) PROVE Within(n)
  <2>1. PICK i \in Entries :
         /\ Races(n, EntryHeld(n, i))
         /\ procs' = [procs EXCEPT ![n][i] =
              [pid |-> next_pid[n], state |-> "RUNNING", node_ip |-> m, sched_slot |-> NoSlot,
               proc |-> [home |-> n, pid |-> next_pid[n]]]]
    BY <1>2 DEF SpawnRemote
  <2>2. [pid |-> next_pid[n], state |-> "RUNNING", node_ip |-> m, sched_slot |-> NoSlot,
               proc |-> [home |-> n, pid |-> next_pid[n]]] \in Entry
    BY <1>e DEF Entry, State, Pid
  <2>3. P
    BY <2>1, <2>2, <1>P
  <2>4. D /\ T /\ O /\ R
    BY <1>2, <1>n, <1>t, <1>o, <1>r DEF SpawnRemote
  <2>5. G
    <3>1. EntryHeld(n, i) \in BOOLEAN
      BY DEF EntryHeld
    <3> QED BY <2>1, <3>1, <1>g
  <2>6. M
    BY <1>2, <1>e DEF SpawnRemote, Message, TypeOK, Pid, M
  <2> QED BY <1>a, <2>3, <2>4, <2>5, <2>6
<1>3. ASSUME NEW pid \in PidsOf(n), Kill(n, pid) PROVE Within(n)
  <2>1. PICK i \in Entries, survives \in BOOLEAN :
         LET e == procs[n][i]
         IN  /\ Races(n, survives \/ (op[n].at \in {"create", "claim", "bind", "mark"} /\ op[n].entry = i))
             /\ \/ /\ e.node_ip = n
                   /\ IF survives THEN tasks' = tasks ELSE KillTask(n, e.sched_slot)
                   /\ procs' = [procs EXCEPT ![n][i] = [@ EXCEPT !.state = "DEAD", !.sched_slot = NoSlot, !.proc = NoProc]]
                   /\ net' = net
                \/ /\ net' = net \cup {[kind |-> "kill", from |-> n, to |-> e.node_ip, pid |-> pid]}
                   /\ procs' = [procs EXCEPT ![n][i].state = "EXITING"]
                   /\ tasks' = tasks
    BY <1>3 DEF Kill
  <2>2. /\ [procs[n][i] EXCEPT !.state = "DEAD", !.sched_slot = NoSlot, !.proc = NoProc] \in Entry
        /\ [procs[n][i] EXCEPT !.state = "EXITING"] \in Entry
    BY <1>e, Parts, <1>c
  <2>3. P
    <3>1. \/ procs' = [procs EXCEPT ![n][i] = [procs[n][i] EXCEPT !.state = "DEAD", !.sched_slot = NoSlot, !.proc = NoProc]]
          \/ procs' = [procs EXCEPT ![n][i] = [procs[n][i] EXCEPT !.state = "EXITING"]]
      BY <2>1 DEF TypeOK
    <3> QED BY <3>1, <2>2, <1>P
  <2>4. D /\ O /\ R
    BY <1>3, <1>d, <1>o, <1>r DEF Kill
  <2>5. G
    <3>1. (survives \/ (op[n].at \in {"create", "claim", "bind", "mark"} /\ op[n].entry = i)) \in BOOLEAN
      OBVIOUS
    <3> QED BY <2>1, <3>1, <1>g
  <2>6. T
    <3>1. procs[n][i].sched_slot \in Slot
      BY <1>e DEF Entry, Slot
    <3> QED BY <2>1, <1>t, <1>k, <3>1
  <2>7. M
    <3>1. procs[n][i].node_ip \in Node /\ pid \in Nat
      BY <1>e DEF Entry, PidsOf, Pid
    <3>2. [kind |-> "kill", from |-> n, to |-> procs[n][i].node_ip, pid |-> pid] \in Message
      BY <3>1 DEF Message, Pid
    <3> QED BY <2>1, <3>2 DEF TypeOK, M
  <2> QED BY <1>a, <2>3, <2>4, <2>5, <2>6, <2>7
<1>4. ASSUME NEW m \in net, NetSpawnFind(n, m) PROVE Within(n)
  <2>1. PICK i \in Entries : op' = [op EXCEPT ![n] = [at |-> "fill", entry |-> i, pid |-> next_pid[n], slot |-> NoSlot,
                                     proc |-> [home |-> m.from, pid |-> m.pid]]]
    BY <1>4 DEF NetSpawnFind
  <2>2. [home |-> m.from, pid |-> m.pid] \in Proc
    BY DEF TypeOK, Message, Proc, Pid
  <2>3. [at |-> "fill", entry |-> i, pid |-> next_pid[n], slot |-> NoSlot,
                                     proc |-> [home |-> m.from, pid |-> m.pid]] \in Op
    BY <2>2, <1>e DEF Op, Pid
  <2>4. O
    BY <2>1, <2>3 DEF O
  <2> QED BY <1>4, <2>4, <1>a, <1>p, <1>d, <1>t, <1>r, <1>g, <1>m DEF NetSpawnFind
<1>5. CASE NetSpawnFill(n)
  <2>1. D
    <3>1. op[n].pid + 1 \in Nat \ {0}
      BY <1>e
    <3> QED BY <3>1, <1>5 DEF NetSpawnFill, PidAfter, D
  <2>2. P
    <3>1. [procs[n][op[n].entry] EXCEPT !.pid = op[n].pid, !.state = "RUNNING", !.node_ip = n, !.proc = op[n].proc] \in Entry
      BY <1>e, <1>c, Parts
    <3>2. procs' = [procs EXCEPT ![n][op[n].entry] =
            [procs[n][op[n].entry] EXCEPT !.pid = op[n].pid, !.state = "RUNNING", !.node_ip = n, !.proc = op[n].proc]]
      BY <1>5, <1>e DEF NetSpawnFill, TypeOK
    <3> QED BY <3>1, <3>2, <1>P, <1>e
  <2>3. O
    <3>1. [op[n] EXCEPT !.at = "create"] \in Op
      BY <1>e DEF Op
    <3>2. op' = [op EXCEPT ![n] = [op[n] EXCEPT !.at = "create"]]
      BY <1>5 DEF NetSpawnFill, TypeOK
    <3> QED BY <3>1, <3>2 DEF O
  <2>4. G
    BY <1>5, <1>g DEF NetSpawnFill
  <2> QED BY <1>5, <2>1, <2>2, <2>3, <2>4, <1>a, <1>t, <1>r, <1>m DEF NetSpawnFill
<1>6. CASE NetSpawnCreate(n)
  <2>1. D /\ T /\ R /\ G /\ M
    BY <1>6, <1>d, <1>t, <1>r, <1>g, <1>m DEF NetSpawnCreate
  <2>2. CASE \E s \in TaskSlots : op' = [op EXCEPT ![n].at = "claim", ![n].slot = s] /\ procs' = procs
    <3>1. PICK s \in TaskSlots : op' = [op EXCEPT ![n].at = "claim", ![n].slot = s] /\ procs' = procs
      BY <2>2
    <3>2. [op[n] EXCEPT !.at = "claim", !.slot = s] \in Op
      BY <1>e DEF Op
    <3>3. op' = [op EXCEPT ![n] = [op[n] EXCEPT !.at = "claim", !.slot = s]]
      BY <3>1 DEF TypeOK
    <3>4. O
      BY <3>2, <3>3 DEF O
    <3> QED BY <2>1, <3>1, <3>4, <1>p, <1>a
  <2>3. CASE procs' = [procs EXCEPT ![n][op[n].entry].state = "UNUSED"] /\ op' = [op EXCEPT ![n] = Idle]
    <3>1. O
      BY <2>3, <1>e DEF O
    <3>2. P
      <4>1. [procs[n][op[n].entry] EXCEPT !.state = "UNUSED"] \in Entry
        BY <1>e, <1>c, Parts
      <4>2. procs' = [procs EXCEPT ![n][op[n].entry] = [procs[n][op[n].entry] EXCEPT !.state = "UNUSED"]]
        BY <2>3, <1>e DEF TypeOK
      <4> QED BY <4>1, <4>2, <1>P, <1>e
    <3> QED BY <2>1, <3>1, <3>2, <1>a
  <2> QED BY <1>6, <2>2, <2>3 DEF NetSpawnCreate
<1>7. CASE NetSpawnClaim(n)
  <2>1. P /\ D /\ R /\ G /\ M
    BY <1>7, <1>p, <1>d, <1>r, <1>g, <1>m DEF NetSpawnClaim
  <2>2. T
    BY <1>7, <1>T, <1>e DEF NetSpawnClaim
  <2>3. O
    <3>1. [op[n] EXCEPT !.at = "bind"] \in Op
      BY <1>e DEF Op
    <3>2. op' = [op EXCEPT ![n] = [op[n] EXCEPT !.at = "bind"]]
      BY <1>7 DEF NetSpawnClaim, TypeOK
    <3> QED BY <3>1, <3>2 DEF O
  <2> QED BY <2>1, <2>2, <2>3, <1>a
<1>8. CASE TaskFindsNoEntry(n)
  <2>1. P /\ D /\ O /\ R /\ M
    BY <1>8, <1>p, <1>d, <1>o, <1>r, <1>m DEF TaskFindsNoEntry
  <2>2. T
    BY <1>8, <1>T, <1>e DEF TaskFindsNoEntry
  <2>3. G
    BY <1>8, <1>g DEF TaskFindsNoEntry
  <2> QED BY <2>1, <2>2, <2>3, <1>a
<1>18. CASE TaskFindsUnbound(n)
  <2>1. P /\ D /\ T /\ O /\ R /\ M
    BY <1>18, <1>p, <1>d, <1>t, <1>o, <1>r, <1>m DEF TaskFindsUnbound
  <2>2. G
    BY <1>18, <1>g DEF TaskFindsUnbound
  <2> QED BY <2>1, <2>2, <1>a
<1>19. CASE TaskFindsKilled(n)
  <2>1. D /\ O /\ R /\ M
    BY <1>19, <1>d, <1>o, <1>r, <1>m DEF TaskFindsKilled
  <2>2. G
    BY <1>19, <1>g DEF TaskFindsKilled
  <2>3. T
    BY <1>19, <1>T, <1>e DEF TaskFindsKilled, FindsOther
  <2>4. procs' = [procs EXCEPT ![n][op[n].entry] = [procs[n][op[n].entry] EXCEPT !.state = "DEAD", !.proc = NoProc]]
    BY <1>19, <1>e DEF TaskFindsKilled, TypeOK
  <2>5. P
    BY <2>4, <1>e, <1>c, <1>P, Parts
  <2> QED BY <2>1, <2>2, <2>3, <2>5, <1>a
<1>9. CASE NetSpawnBind(n)
  <2>1. D /\ T /\ R /\ G /\ M
    BY <1>9, <1>d, <1>t, <1>r, <1>g, <1>m DEF NetSpawnBind
  <2>2. O
    BY <1>9, <1>e DEF NetSpawnBind, O
  <2>3. P
    <3>1. [procs[n][op[n].entry] EXCEPT !.sched_slot = op[n].slot] \in Entry
      BY <1>e, Parts
    <3>2. procs' = [procs EXCEPT ![n][op[n].entry] = [procs[n][op[n].entry] EXCEPT !.sched_slot = op[n].slot]]
      BY <1>9, <1>e DEF NetSpawnBind, TypeOK
    <3> QED BY <3>1, <3>2, <1>P, <1>e
  <2> QED BY <2>1, <2>2, <2>3, <1>a
<1>10. ASSUME NEW m \in net, NetKillFind(n, m) PROVE Within(n)
  <2>1. PICK i \in Entries : op' = [op EXCEPT ![n].at = "found", ![n].entry = i]
    BY <1>10 DEF NetKillFind
  <2>2. [op[n] EXCEPT !.at = "found", !.entry = i] \in Op
    BY <1>e DEF Op
  <2>3. op' = [op EXCEPT ![n] = [op[n] EXCEPT !.at = "found", !.entry = i]]
    BY <2>1 DEF TypeOK
  <2>4. O
    BY <2>2, <2>3 DEF O
  <2> QED BY <1>10, <2>4, <1>a, <1>p, <1>d, <1>t, <1>r, <1>g, <1>m DEF NetKillFind
<1>e1. [procs[n][op[n].entry] EXCEPT !.state = "DEAD", !.proc = NoProc] \in Entry
  BY <1>e, <1>c, Parts
<1>11. CASE NetKillFlag(n)
  <2> DEFINE e == procs[n][op[n].entry]
             o == [op[n] EXCEPT !.at = "kill", !.slot = e.sched_slot, !.proc = e.proc]
  <2>1. e \in Entry
    BY <1>e
  <2>2. o \in Op
    BY <1>e, <2>1 DEF Op, Entry
  <2>3. op' = [op EXCEPT ![n] = o]
    BY <1>11 DEF NetKillFlag, TypeOK
  <2>4. O
    BY <2>2, <2>3 DEF O
  <2> QED BY <1>11, <2>4, <1>a, <1>p, <1>d, <1>t, <1>r, <1>g, <1>m DEF NetKillFlag
<1>14. CASE TaskStops(n)
  <2>1. D /\ T /\ O /\ R /\ G /\ M
    BY <1>14, <1>d, <1>t, <1>o, <1>r, <1>g, <1>m DEF TaskStops
  <2>2. procs' = [procs EXCEPT ![n][op[n].entry] = [procs[n][op[n].entry] EXCEPT !.state = "DEAD", !.proc = NoProc]]
    BY <1>14, <1>e DEF TaskStops, TypeOK
  <2>3. P
    BY <2>2, <1>e1, <1>P, <1>e
  <2> QED BY <2>1, <2>3, <1>a
<1>15. CASE TaskReturns(n)
  <2>1. P /\ D /\ O /\ R /\ G /\ M
    BY <1>15, <1>p, <1>d, <1>o, <1>r, <1>g, <1>m DEF TaskReturns
  <2>2. T
    BY <1>15, <1>T, <1>e DEF TaskReturns
  <2> QED BY <2>1, <2>2, <1>a
<1>16. CASE NetKillTask(n)
  <2>1. P /\ D /\ R /\ G /\ M
    BY <1>16, <1>p, <1>d, <1>r, <1>g, <1>m DEF NetKillTask
  <2>2. T
    BY <1>16, <1>k, <1>e DEF NetKillTask
  <2>3. O
    <3>1. [op[n] EXCEPT !.at = "mark"] \in Op
      BY <1>e DEF Op
    <3>2. op' = [op EXCEPT ![n] = [op[n] EXCEPT !.at = "mark"]]
      BY <1>16 DEF NetKillTask, TypeOK
    <3> QED BY <3>1, <3>2 DEF O
  <2> QED BY <2>1, <2>2, <2>3, <1>a
<1>17. CASE NetKillMark(n)
  <2>1. D /\ T /\ R /\ G /\ M
    BY <1>17, <1>d, <1>t, <1>r, <1>g, <1>m DEF NetKillMark
  <2>2. O
    BY <1>17, <1>e DEF NetKillMark, O
  <2>3. procs' = [procs EXCEPT ![n][op[n].entry] = [procs[n][op[n].entry] EXCEPT !.state = "DEAD", !.proc = NoProc]]
    BY <1>17, <1>e DEF NetKillMark, TypeOK
  <2>4. P
    BY <2>3, <1>e1, <1>P, <1>e
  <2> QED BY <2>1, <2>2, <2>4, <1>a
<1>12. ASSUME NEW i \in Entries, ReapLook(n, i) PROVE Within(n)
  <2>1. R
    BY <1>12 DEF ReapLook, R
  <2> QED BY <2>1, <1>12, <1>a, <1>p, <1>d, <1>t, <1>o, <1>g, <1>m DEF ReapLook
<1>13. CASE ReapStore(n)
  <2>1. D /\ T /\ O /\ G /\ M
    BY <1>13, <1>d, <1>t, <1>o, <1>g, <1>m DEF ReapStore
  <2>2. R
    BY <1>13 DEF ReapStore, R
  <2>3. P
    <3>1. reap[n] \in Entries
      BY <1>13, <1>e DEF ReapStore
    <3>2. [procs[n][reap[n]] EXCEPT !.state = "UNUSED", !.pid = 0] \in Entry
      BY <1>e, <1>c, <3>1, Parts
    <3>3. procs' = [procs EXCEPT ![n][reap[n]] = [procs[n][reap[n]] EXCEPT !.state = "UNUSED", !.pid = 0]]
      BY <1>13, <3>1 DEF ReapStore, TypeOK
    <3> QED BY <3>1, <3>2, <3>3, <1>P
  <2> QED BY <2>1, <2>2, <2>3, <1>a
<1> QED BY <1>1, <1>2, <1>3, <1>4, <1>5, <1>6, <1>7, <1>8, <1>9, <1>10, <1>11, <1>12, <1>13,
           <1>14, <1>15, <1>16, <1>17, <1>18, <1>19 DEF Command, NetPoll, ProcStat

\* So types are kept, and the other nodes are left alone.
LEMMA WithinKeeps ==
    ASSUME TypeOK, NEW n \in Node, Within(n)
    PROVE  /\ TypeOK'
           /\ raced \subseteq raced'
           /\ \A m \in Node \ {n} : NodeInv(m) => NodeInv(m)'
<1>1. TypeOK'
  <2>1. procs' \in [Node -> [Entries -> Entry]] /\ next_pid' \in [Node -> Nat \ {0}]
    BY DEF Within, TypeOK
  <2>2. tasks' \in [Node -> [TaskSlots -> Proc \cup {NoProc}]] /\ op' \in [Node -> Op]
    BY DEF Within, TypeOK, AnyProc
  <2>3. reap' \in [Node -> Entries \cup {NoEntry}] /\ raced' \in SUBSET Node /\ net' \in SUBSET Message
    BY DEF Within, TypeOK
  <2> QED BY <2>1, <2>2, <2>3 DEF TypeOK
<1>2. raced \subseteq raced'
  BY DEF Within
<1>3. ASSUME NEW m \in Node \ {n}, NodeInv(m) PROVE NodeInv(m)'
  <2>1. /\ procs'[m] = procs[m] /\ next_pid'[m] = next_pid[m] /\ tasks'[m] = tasks[m]
        /\ op'[m] = op[m] /\ reap'[m] = reap[m]
    BY DEF Within, TypeOK
  <2> QED BY <1>3, <2>1 DEF NodeInv, PidInv, FoundInv, TaskInv, Local, Settled, Unlisted
<1> QED BY <1>1, <1>2, <1>3

-----------------------------------------------------------------------------
(* The commands *)

\* A new entry i gets a pid that no other entry has, and net-poll does not
\* hold that pid as well.
LEMMA NewEntry ==
    ASSUME TypeOK, TypeOK', NEW n \in Node, NodeInv(n), NEW i \in Entries,
           op'[n].at # "fill",
           next_pid'[n] = next_pid[n] + 1, procs'[n][i].pid = next_pid[n],
           procs'[n][i].state \in {"UNUSED", "RUNNING"},
           \A j \in Entries \ {i} : procs'[n][j] = procs[n][j]
    PROVE  PidInv(n)'
<1>1. next_pid[n] \in Nat /\ \A j \in Entries : procs[n][j].pid \in Nat
  BY EntryFacts DEF Entry, Pid
<1>2. (\A j \in Entries : Live(procs[n][j]) => procs[n][j].pid < next_pid[n])'
  <2> SUFFICES ASSUME NEW j \in Entries, Live(procs'[n][j]) PROVE procs'[n][j].pid < next_pid'[n]
    OBVIOUS
  <2>1. CASE j = i
    BY <2>1, <1>1
  <2>2. CASE j # i
    BY <2>2, <1>1 DEF NodeInv, PidInv
  <2> QED BY <2>1, <2>2
<1>3. (\A j, k \in Entries :
          Live(procs[n][j]) /\ Live(procs[n][k]) /\ procs[n][j].pid = procs[n][k].pid => j = k)'
  <2>1. \A j \in Entries \ {i} : Live(procs[n][j]) => procs[n][j].pid # next_pid[n]
    BY <1>1 DEF NodeInv, PidInv
  <2> QED BY <2>1 DEF NodeInv, PidInv
<1>4. (op[n].at = "fill" => op[n].pid = next_pid[n])'
  OBVIOUS
<1> QED BY <1>2, <1>3, <1>4 DEF PidInv

\* What net-poll and proc-stat found stays as it is if nobody touches it.
LEMMA FoundKept ==
    ASSUME TypeOK, NEW n \in Node, NodeInv(n), op'[n] = op[n], reap'[n] = reap[n],
           op[n].at # "idle" => procs'[n][op[n].entry] = procs[n][op[n].entry],
           op[n].at \in {"claim", "bind"} => tasks'[n][op[n].slot] = tasks[n][op[n].slot],
           reap[n] # NoEntry => procs'[n][reap[n]] = procs[n][reap[n]],
           \A i \in Entries : procs'[n][i].state = "EXITING" => procs'[n][i].node_ip # n
    PROVE  FoundInv(n)'
<1>1. FoundInv(n)
  BY DEF NodeInv
<1>2. (op[n].at = "fill" => Free(procs[n][op[n].entry]))'
  BY <1>1 DEF FoundInv
<1>3. (op[n].at = "fill" \/ op[n].at \in Making => op[n].proc \in Proc)'
  BY <1>1 DEF FoundInv
<1>4. (op[n].at \in Making => Local(n, op[n].entry) /\ procs[n][op[n].entry].proc = op[n].proc)'
  BY <1>1 DEF FoundInv, Making, Local
<1>5. (op[n].at = "claim" => op[n].slot \in TaskSlots /\ tasks[n][op[n].slot] = NoProc)'
  BY <1>1 DEF FoundInv
<1>6. (op[n].at = "bind" => op[n].slot \in TaskSlots /\ tasks[n][op[n].slot] = op[n].proc)'
  BY <1>1 DEF FoundInv
<1>7. (op[n].at = "found" =>
          \/ Local(n, op[n].entry)
          \/ Free(procs[n][op[n].entry]) /\ procs[n][op[n].entry].sched_slot = NoSlot)'
  BY <1>1 DEF FoundInv, Local
<1>9. (op[n].at = "kill" =>
          \/ Local(n, op[n].entry) /\ procs[n][op[n].entry].sched_slot = op[n].slot
             /\ procs[n][op[n].entry].proc = op[n].proc
          \/ Free(procs[n][op[n].entry]))'
  BY <1>1 DEF FoundInv, Local
<1>10. (op[n].at = "mark" => Local(n, op[n].entry) \/ Free(procs[n][op[n].entry]))'
  BY <1>1 DEF FoundInv, Local
<1>8. (reap[n] # NoEntry => Free(procs[n][reap[n]]))'
  BY <1>1 DEF FoundInv
<1> QED BY <1>2, <1>3, <1>4, <1>5, <1>6, <1>7, <1>8, <1>9, <1>10 DEF FoundInv

\* Table and tasks still agree if nobody touches a settled entry or a task ...
LEMMA TasksKept ==
    ASSUME NEW n \in Node, NodeInv(n), tasks'[n] = tasks[n],
           \A s \in TaskSlots : Unlisted(n, s)' <=> Unlisted(n, s),
           \A j \in Entries : Settled(n, j)' <=> Settled(n, j),
           \A j \in Entries : Settled(n, j) => procs'[n][j] = procs[n][j]
    PROVE  TaskInv(n)'
<1>1. TaskInv(n)
  BY DEF NodeInv
<1>2. (\A i \in Entries : Settled(n, i) =>
          /\ procs[n][i].sched_slot \in TaskSlots /\ procs[n][i].proc \in Proc
          /\ tasks[n][procs[n][i].sched_slot] = procs[n][i].proc)'
  BY <1>1 DEF TaskInv
<1>3. (\A i, j \in Entries :
          Settled(n, i) /\ Settled(n, j) /\ procs[n][i].sched_slot = procs[n][j].sched_slot => i = j)'
  BY <1>1 DEF TaskInv
<1>4. (\A s \in TaskSlots : tasks[n][s] # NoProc /\ ~Unlisted(n, s) =>
          \E i \in Entries : Settled(n, i) /\ procs[n][i].sched_slot = s)'
  BY <1>1 DEF TaskInv
<1>5. (\A i \in Entries, s \in TaskSlots :
          Settled(n, i) /\ Unlisted(n, s) => procs[n][i].sched_slot # s)'
  BY <1>1 DEF TaskInv
<1> QED BY <1>2, <1>3, <1>4, <1>5 DEF TaskInv

\* ... or if a settled entry and its task go together.
LEMMA TaskGone ==
    ASSUME NEW n \in Node, NodeInv(n), NEW i \in Entries, Settled(n, i), NEW s \in TaskSlots,
           s = procs[n][i].sched_slot, tasks'[n][s] = NoProc,
           \A t \in TaskSlots \ {s} : tasks'[n][t] = tasks[n][t],
           \A t \in TaskSlots \ {s} : Unlisted(n, t)' <=> Unlisted(n, t),
           \A j \in Entries : Settled(n, j)' <=> Settled(n, j) /\ j # i,
           \A j \in Entries \ {i} : procs'[n][j] = procs[n][j]
    PROVE  TaskInv(n)'
<1>1. TaskInv(n)
  BY DEF NodeInv
<1>2. (\A j \in Entries : Settled(n, j) =>
          /\ procs[n][j].sched_slot \in TaskSlots /\ procs[n][j].proc \in Proc
          /\ tasks[n][procs[n][j].sched_slot] = procs[n][j].proc)'
  <2>1. \A j \in Entries \ {i} : Settled(n, j) => procs[n][j].sched_slot # s
    BY <1>1 DEF TaskInv
  <2> QED BY <1>1, <2>1 DEF TaskInv
<1>3. (\A j, k \in Entries :
          Settled(n, j) /\ Settled(n, k) /\ procs[n][j].sched_slot = procs[n][k].sched_slot => j = k)'
  BY <1>1 DEF TaskInv
<1>4. (\A t \in TaskSlots : tasks[n][t] # NoProc /\ ~Unlisted(n, t) =>
          \E j \in Entries : Settled(n, j) /\ procs[n][j].sched_slot = t)'
  <2> SUFFICES ASSUME NEW t \in TaskSlots, tasks'[n][t] # NoProc, ~Unlisted(n, t)'
               PROVE  \E j \in Entries : Settled(n, j)' /\ procs'[n][j].sched_slot = t
    OBVIOUS
  <2>1. t # s
    OBVIOUS
  <2>2. PICK j \in Entries : Settled(n, j) /\ procs[n][j].sched_slot = t
    BY <1>1, <2>1 DEF TaskInv
  <2> QED BY <2>1, <2>2
<1>5. (\A j \in Entries, u \in TaskSlots :
          Settled(n, j) /\ Unlisted(n, u) => procs[n][j].sched_slot # u)'
  BY <1>1 DEF TaskInv
<1> QED BY <1>2, <1>3, <1>4, <1>5 DEF TaskInv

LEMMA SpawnLocalStep ==
    ASSUME TypeOK, TypeOK', NEW n \in Node \ raced', NodeInv(n), SpawnLocal(n)
    PROVE  NodeInv(n)'
<1>1. PICK i \in Entries : LET proc == [home |-> n, pid |-> next_pid[n]]
             entry == [procs[n][i] EXCEPT !.pid = next_pid[n], !.node_ip = n, !.proc = proc]
         IN  /\ FindFree(n, i)
             /\ Races(n, EntryHeld(n, i) \/ SlotHeld(n))
             /\ \/ \E s \in TaskSlots :
                     /\ FirstFreeTask(n, s)
                     /\ tasks' = [tasks EXCEPT ![n][s] = proc]
                     /\ procs' = [procs EXCEPT ![n][i] =
                          [entry EXCEPT !.state = "RUNNING", !.sched_slot = s]]
                \/ /\ procs' = [procs EXCEPT ![n][i] = [entry EXCEPT !.state = "UNUSED"]]
                   /\ tasks' = tasks
  BY DEF SpawnLocal
<1> DEFINE proc == [home |-> n, pid |-> next_pid[n]]
           entry == [procs[n][i] EXCEPT !.pid = next_pid[n], !.node_ip = n, !.proc = proc]
<1>2. ~EntryHeld(n, i) /\ ~SlotHeld(n) /\ Free(procs[n][i])
  BY <1>1 DEF Races, FindFree
<1>3. op' = op /\ reap' = reap /\ next_pid'[n] = next_pid[n] + 1
  BY DEF SpawnLocal, TypeOK, PidAfter
<1>4. /\ procs[n] \in [Entries -> Entry] /\ tasks[n] \in [TaskSlots -> AnyProc]
      /\ op[n].at # "fill" /\ op[n].at # "claim" /\ ~(op[n].at \in {"found", "kill", "mark"} /\ op[n].entry = i)
      /\ reap[n] # i
      /\ op[n].at = "kill" /\ op[n].slot \in TaskSlots => ~FirstFreeTask(n, op[n].slot)
      /\ procs[n][i].state # "RUNNING"
      /\ ~(op[n].at \in Making /\ op[n].entry = i)
  <2>1. procs[n][i].state # "RUNNING"
    BY <1>2 DEF Free
  <2>2. NoSlot \notin TaskSlots
    BY EntryFacts
  <2> QED BY <2>1, <2>2, <1>2 DEF EntryHeld, SlotHeld, TypeOK, AnyProc, NodeInv, FoundInv, Local
<1>5. /\ proc \in Proc /\ NoProc \notin Proc /\ NoSlot \notin TaskSlots /\ op[n].entry \in Entries
      /\ reap[n] \in Entries \cup {NoEntry}
  BY EntryFacts
<1>6. entry \in Entry /\ entry.pid = next_pid[n] /\ entry.node_ip = n /\ entry.proc = proc
  <2>1. procs[n][i] \in Entry /\ next_pid[n] \in Nat /\ proc \in AnyProc
    BY <1>4, <1>5, EntryFacts DEF AnyProc
  <2>2. entry \in Entry
    BY <2>1, Parts
  <2> QED BY <2>1, <2>2 DEF Entry
<1> HIDE DEF proc, entry
<1>7. CASE \E s \in TaskSlots :
             /\ FirstFreeTask(n, s)
             /\ tasks' = [tasks EXCEPT ![n][s] = proc]
             /\ procs' = [procs EXCEPT ![n][i] = [entry EXCEPT !.state = "RUNNING", !.sched_slot = s]]
  <2>1. PICK s \in TaskSlots :
             /\ FirstFreeTask(n, s)
             /\ tasks' = [tasks EXCEPT ![n][s] = proc]
             /\ procs' = [procs EXCEPT ![n][i] = [entry EXCEPT !.state = "RUNNING", !.sched_slot = s]]
    BY <1>7
  <2>2. /\ procs'[n][i] = [entry EXCEPT !.state = "RUNNING", !.sched_slot = s]
        /\ \A j \in Entries \ {i} : procs'[n][j] = procs[n][j]
    BY <2>1 DEF TypeOK
  <2>3. /\ procs'[n][i].pid = next_pid[n] /\ procs'[n][i].state = "RUNNING" /\ procs'[n][i].node_ip = n
        /\ procs'[n][i].sched_slot = s /\ procs'[n][i].proc = proc
    BY <2>2, <1>6 DEF Entry
  <2>4. tasks[n][s] = NoProc /\ tasks'[n][s] = proc /\ \A t \in TaskSlots \ {s} : tasks'[n][t] = tasks[n][t]
    BY <2>1 DEF FirstFreeTask, TypeOK
  <2> HIDE DEF EntryHeld
  <2>5. PidInv(n)'
    BY <1>3, <1>4, <2>2, <2>3, NewEntry
  <2>6. FoundInv(n)'
    <3>1. op[n].at # "idle" => op[n].entry # i
      <4>1. op[n].at \in {"idle", "fill", "create", "claim", "bind", "found", "kill", "mark"}
        BY EntryFacts DEF Op
      <4> QED BY <4>1, <1>4 DEF Making
    <3>2. op[n].at \in {"claim", "bind"} => tasks'[n][op[n].slot] = tasks[n][op[n].slot]
      BY <1>4, <1>5, <2>4 DEF NodeInv, FoundInv, Making
    <3>3. \A j \in Entries : procs'[n][j].state = "EXITING" => procs'[n][j].node_ip # n
      BY <2>2, <2>3 DEF NodeInv, FoundInv
    <3> QED BY <1>3, <1>4, <1>5, <2>2, <3>1, <3>2, <3>3, FoundKept
  <2>7. /\ ~Unlisted(n, s)
        /\ \A j \in Entries : Settled(n, j) => procs[n][j].sched_slot # s
    <3>1. ~Unlisted(n, s)
      BY <1>4, <1>5, <2>1, <2>4 DEF NodeInv, FoundInv, Making, Unlisted
    <3>2. \A j \in Entries : Settled(n, j) => procs[n][j].sched_slot # s
      BY <1>5, <2>4 DEF NodeInv, TaskInv
    <3> QED BY <3>1, <3>2
  <2>11. \A u \in TaskSlots : Unlisted(n, u)' <=> Unlisted(n, u)
    <3>1. op[n].at = "kill" => procs'[n][op[n].entry] = procs[n][op[n].entry]
      BY <1>4, <1>5, <2>2
    <3> QED BY <1>3, <3>1 DEF Unlisted
  <2>8. \A j \in Entries : Settled(n, j)' <=> j = i \/ Settled(n, j)
    <3>1. op[n].at = "mark" => op[n].entry # i
      BY <1>4
    <3> QED BY <1>3, <1>4, <2>2, <2>3, <3>1 DEF Settled, Making
  <2>9. ~Settled(n, i)
    BY <1>4 DEF Settled
  <2>10. TaskInv(n)'
    <3>1. (\A j \in Entries : Settled(n, j) =>
          /\ procs[n][j].sched_slot \in TaskSlots /\ procs[n][j].proc \in Proc
          /\ tasks[n][procs[n][j].sched_slot] = procs[n][j].proc)'
      <4> SUFFICES ASSUME NEW j \in Entries, Settled(n, j)'
                   PROVE  /\ procs'[n][j].sched_slot \in TaskSlots /\ procs'[n][j].proc \in Proc
                          /\ tasks'[n][procs'[n][j].sched_slot] = procs'[n][j].proc
        OBVIOUS
      <4>1. CASE j = i
        BY <4>1, <1>5, <2>3, <2>4
      <4>2. CASE j # i
        BY <4>2, <2>2, <2>4, <2>7, <2>8 DEF NodeInv, TaskInv
      <4> QED BY <4>1, <4>2
    <3>2. (\A j, k \in Entries :
          Settled(n, j) /\ Settled(n, k) /\ procs[n][j].sched_slot = procs[n][k].sched_slot => j = k)'
      BY <2>2, <2>3, <2>7, <2>8, <2>9 DEF NodeInv, TaskInv
    <3>3. (\A t \in TaskSlots : tasks[n][t] # NoProc /\ ~Unlisted(n, t) =>
          \E j \in Entries : Settled(n, j) /\ procs[n][j].sched_slot = t)'
      <4> SUFFICES ASSUME NEW t \in TaskSlots, tasks'[n][t] # NoProc, ~Unlisted(n, t)'
                   PROVE  \E j \in Entries : Settled(n, j)' /\ procs'[n][j].sched_slot = t
        OBVIOUS
      <4>1. CASE t = s
        BY <4>1, <2>3, <2>8
      <4>2. CASE t # s
        <5>1. PICK j \in Entries : Settled(n, j) /\ procs[n][j].sched_slot = t
          BY <4>2, <2>4, <2>11 DEF NodeInv, TaskInv
        <5> QED BY <5>1, <2>2, <2>8, <2>9
      <4> QED BY <4>1, <4>2
    <3>4. (\A j \in Entries, u \in TaskSlots :
              Settled(n, j) /\ Unlisted(n, u) => procs[n][j].sched_slot # u)'
      <4> SUFFICES ASSUME NEW j \in Entries, NEW u \in TaskSlots, Settled(n, j)', Unlisted(n, u)'
                   PROVE  procs'[n][j].sched_slot # u
        OBVIOUS
      <4>1. Unlisted(n, u) /\ u # s
        BY <2>7, <2>11
      <4>2. CASE j = i
        BY <4>1, <4>2, <2>3
      <4>3. CASE j # i
        <5>1. Settled(n, j) /\ procs'[n][j] = procs[n][j]
          BY <4>3, <2>2, <2>8
        <5> QED BY <4>1, <5>1 DEF NodeInv, TaskInv
      <4> QED BY <4>2, <4>3
    <3> QED BY <3>1, <3>2, <3>3, <3>4 DEF TaskInv
  <2> QED BY <2>5, <2>6, <2>10 DEF NodeInv
<1>8. CASE /\ procs' = [procs EXCEPT ![n][i] = [entry EXCEPT !.state = "UNUSED"]]
           /\ tasks' = tasks
  <2>2. /\ procs'[n][i] = [entry EXCEPT !.state = "UNUSED"]
        /\ \A j \in Entries \ {i} : procs'[n][j] = procs[n][j]
    BY <1>8 DEF TypeOK
  <2>3. procs'[n][i].pid = next_pid[n] /\ procs'[n][i].state = "UNUSED"
    BY <2>2, <1>6 DEF Entry
  <2>5. PidInv(n)'
    BY <1>3, <1>4, <2>2, <2>3, NewEntry
  <2>6. FoundInv(n)'
    <3>1. op[n].at # "idle" => op[n].entry # i
      <4>1. op[n].at \in {"idle", "fill", "create", "claim", "bind", "found", "kill", "mark"}
        BY EntryFacts DEF Op
      <4> QED BY <4>1, <1>4 DEF Making
    <3>2. op[n].at \in {"claim", "bind"} => tasks'[n][op[n].slot] = tasks[n][op[n].slot]
      BY <1>8
    <3>3. \A j \in Entries : procs'[n][j].state = "EXITING" => procs'[n][j].node_ip # n
      BY <2>2, <2>3 DEF NodeInv, FoundInv
    <3> QED BY <1>3, <1>4, <1>5, <2>2, <3>1, <3>2, <3>3, FoundKept
  <2>8. \A j \in Entries : (Settled(n, j)' <=> Settled(n, j)) /\ (Settled(n, j) => j # i)
    BY <1>3, <1>4, <2>2, <2>3 DEF Settled, Making
  <2>9. \A s \in TaskSlots : Unlisted(n, s)' <=> Unlisted(n, s)
    BY <1>3, <1>4, <1>5, <2>2 DEF Unlisted
  <2>10. TaskInv(n)'
    BY <1>3, <1>8, <2>2, <2>8, <2>9, TasksKept
  <2> QED BY <2>5, <2>6, <2>10 DEF NodeInv
<1> QED BY <1>1, <1>7, <1>8 DEF proc, entry

LEMMA SpawnRemoteStep ==
    ASSUME TypeOK, TypeOK', NEW n \in Node \ raced', NodeInv(n), NEW m \in Node \ {n}, SpawnRemote(n, m)
    PROVE  NodeInv(n)'
<1>1. PICK i \in Entries :
         /\ FindFree(n, i)
         /\ Races(n, EntryHeld(n, i))
         /\ procs' = [procs EXCEPT ![n][i] =
              [pid |-> next_pid[n], state |-> "RUNNING", node_ip |-> m, sched_slot |-> NoSlot,
               proc |-> [home |-> n, pid |-> next_pid[n]]]]
  BY DEF SpawnRemote
<1>2. ~EntryHeld(n, i) /\ Free(procs[n][i])
  BY <1>1 DEF Races, FindFree
<1>3. op' = op /\ reap' = reap /\ tasks' = tasks /\ next_pid'[n] = next_pid[n] + 1
  BY DEF SpawnRemote, TypeOK, PidAfter
<1>4. /\ procs'[n][i].pid = next_pid[n] /\ procs'[n][i].state = "RUNNING" /\ procs'[n][i].node_ip = m
      /\ \A j \in Entries \ {i} : procs'[n][j] = procs[n][j]
  BY <1>1 DEF TypeOK
<1>5. PidInv(n)'
  <2>1. op'[n].at # "fill"
    BY <1>2, <1>3 DEF EntryHeld
  <2> QED BY <1>3, <1>4, <2>1, NewEntry
<1>6. FoundInv(n)'
  <2>1. op[n].at # "idle" => op[n].entry # i
    <3>1. op[n].at \in {"idle", "fill", "create", "claim", "bind", "found", "kill", "mark"}
      BY EntryFacts DEF Op
    <3> QED BY <3>1, <1>2 DEF Making, NodeInv, FoundInv, Local, Free, EntryHeld
  <2>2. \A j \in Entries : procs'[n][j].state = "EXITING" => procs'[n][j].node_ip # n
    BY <1>4 DEF NodeInv, FoundInv
  <2>3. reap[n] # i /\ op[n].entry \in Entries /\ reap[n] \in Entries \cup {NoEntry}
    BY <1>2, EntryFacts DEF EntryHeld
  <2> QED BY <1>3, <1>4, <2>1, <2>2, <2>3, FoundKept
<1>7. \A j \in Entries : (Settled(n, j)' <=> Settled(n, j)) /\ (Settled(n, j) => j # i)
  BY <1>2, <1>3, <1>4 DEF Settled, Free
<1>8. \A s \in TaskSlots : Unlisted(n, s)' <=> Unlisted(n, s)
  BY <1>2, <1>3, <1>4, EntryFacts DEF Unlisted, EntryHeld
<1>9. TaskInv(n)'
  BY <1>3, <1>4, <1>7, <1>8, TasksKept
<1> QED BY <1>5, <1>6, <1>9 DEF NodeInv

\* A pid that goes, or stays with its entry, leaves the others unique.
LEMMA PidsKept ==
    ASSUME NEW n \in Node, NodeInv(n), next_pid'[n] = next_pid[n],
           op'[n].at = "fill" => op'[n].pid = next_pid[n],
           \A j \in Entries : Live(procs'[n][j]) => Live(procs[n][j]) /\ procs'[n][j].pid = procs[n][j].pid
    PROVE  PidInv(n)'
BY DEF NodeInv, PidInv

LEMMA KillStep ==
    ASSUME TypeOK, TypeOK', NEW n \in Node \ raced', NodeInv(n), NEW pid \in PidsOf(n), Kill(n, pid)
    PROVE  NodeInv(n)'
<1>1. PICK i \in Entries, survives \in BOOLEAN :
         LET e == procs[n][i]
         IN  /\ FindKill(n, pid, i)
             /\ Races(n, survives \/ (op[n].at \in {"create", "claim", "bind", "mark"} /\ op[n].entry = i))
             /\ \/ /\ e.node_ip = n
                   /\ IF survives THEN tasks' = tasks ELSE KillTask(n, e.sched_slot)
                   /\ procs' = [procs EXCEPT ![n][i] = [@ EXCEPT !.state = "DEAD", !.sched_slot = NoSlot, !.proc = NoProc]]
                \/ /\ e.node_ip # n
                   /\ procs' = [procs EXCEPT ![n][i].state = "EXITING"]
                   /\ tasks' = tasks
  BY DEF Kill
<1>2. /\ ~survives /\ ~(op[n].at \in Making /\ op[n].entry = i) /\ Live(procs[n][i])
      /\ ~(op[n].at = "mark" /\ op[n].entry = i)
  BY <1>1 DEF Races, Making, FindKill
<1>3. op' = op /\ reap' = reap /\ next_pid' = next_pid /\ procs[n][i] \in Entry
  BY DEF Kill, TypeOK
<1>4. /\ op[n].at = "fill" => op[n].entry # i
      /\ reap[n] # i
      /\ op[n].entry \in Entries /\ reap[n] \in Entries \cup {NoEntry}
      /\ NoProc \notin Proc /\ NoSlot \notin TaskSlots /\ NoEntry \notin Entries
      /\ op[n].at \in {"idle", "fill", "found", "kill", "mark"} \cup Making
  BY <1>2, EntryFacts DEF NodeInv, FoundInv, Free, Live, Op, Making
<1>5. CASE /\ procs[n][i].node_ip = n
           /\ KillTask(n, procs[n][i].sched_slot)
           /\ procs' = [procs EXCEPT ![n][i] = [@ EXCEPT !.state = "DEAD", !.sched_slot = NoSlot, !.proc = NoProc]]
  <2>1. /\ procs'[n][i].state = "DEAD" /\ procs'[n][i].sched_slot = NoSlot
        /\ \A j \in Entries \ {i} : procs'[n][j] = procs[n][j]
    <3>1. procs'[n][i] = [procs[n][i] EXCEPT !.state = "DEAD", !.sched_slot = NoSlot, !.proc = NoProc]
      BY <1>5 DEF TypeOK
    <3>2. procs'[n][i].state = "DEAD" /\ procs'[n][i].sched_slot = NoSlot
      BY <3>1, <1>3 DEF Entry
    <3> QED BY <3>2, <1>5 DEF TypeOK
  <2>2. Settled(n, i)
    BY <1>2, <1>5 DEF Settled, Live, Making, NodeInv, FoundInv
  <2> DEFINE s == procs[n][i].sched_slot
  <2>3. /\ s \in TaskSlots /\ tasks[n][s] = procs[n][i].proc /\ procs[n][i].proc \in Proc
        /\ ~Unlisted(n, s)
    BY <2>2 DEF NodeInv, TaskInv
  <2>a. ~(op[n].at = "bind" /\ op[n].slot = s)
    BY <2>3 DEF Unlisted
  <2>b. \A u \in TaskSlots \ {s} : Unlisted(n, u)' <=> Unlisted(n, u)
    <3>1. op[n].at = "kill" /\ op[n].entry = i => op[n].slot = s
      BY <1>2 DEF NodeInv, FoundInv, Free, Live
    <3> QED BY <1>3, <1>4, <2>1, <3>1 DEF Unlisted
  <2>4. tasks'[n][s] = NoProc /\ \A t \in TaskSlots \ {s} : tasks'[n][t] = tasks[n][t]
    BY <1>4, <1>5, <2>3 DEF KillTask, TypeOK
  <2>5. \A j \in Entries : Settled(n, j)' <=> Settled(n, j) /\ j # i
    BY <1>3, <2>1 DEF Settled
  <2> HIDE DEF s
  <2>6. TaskInv(n)'
    BY <1>3, <2>1, <2>2, <2>3, <2>b, <2>4, <2>5, TaskGone DEF s
  <2>7. PidInv(n)'
    <3>1. op[n].at = "fill" => op[n].pid = next_pid[n]
      BY DEF NodeInv, PidInv
    <3>2. \A j \in Entries : Live(procs'[n][j]) => Live(procs[n][j]) /\ procs'[n][j].pid = procs[n][j].pid
      BY <2>1 DEF Live
    <3> QED BY <1>3, <3>1, <3>2, PidsKept
  <2>8. \A j \in Entries : procs'[n][j].state = "EXITING" => procs'[n][j].node_ip # n
    BY <2>1 DEF NodeInv, FoundInv
  <2>9. FoundInv(n)'
    <3>1. op[n].at \in {"claim", "bind"} => tasks'[n][op[n].slot] = tasks[n][op[n].slot]
      BY <1>4, <2>3, <2>a, <2>4 DEF NodeInv, FoundInv
    <3>2. CASE op[n].at \in {"found", "kill"} /\ op[n].entry = i
      <4>1. Free(procs'[n][i])
        BY <2>1 DEF Free
      <4>2. (reap[n] # NoEntry => Free(procs[n][reap[n]]))'
        BY <1>3, <1>4, <2>1 DEF NodeInv, FoundInv
      <4>3. op'[n].at \in {"found", "kill"} /\ op'[n].entry = i
        BY <3>2, <1>3
      <4> QED BY <4>1, <4>2, <4>3, <2>1, <2>8 DEF FoundInv, Making
    <3>3. CASE ~(op[n].at \in {"found", "kill"} /\ op[n].entry = i)
      <4>1. op[n].at # "idle" => op[n].entry # i
        BY <3>3, <1>2, <1>4
      <4> QED BY <4>1, <1>3, <1>4, <2>1, <2>8, <3>1, FoundKept
    <3> QED BY <3>2, <3>3
  <2> QED BY <2>6, <2>7, <2>9 DEF NodeInv
<1>6. CASE /\ procs[n][i].node_ip # n
           /\ procs' = [procs EXCEPT ![n][i].state = "EXITING"]
           /\ tasks' = tasks
  <2>1. /\ procs'[n][i].state = "EXITING" /\ procs'[n][i].node_ip # n /\ procs'[n][i].pid = procs[n][i].pid
        /\ \A j \in Entries \ {i} : procs'[n][j] = procs[n][j]
    <3>1. procs'[n][i] = [procs[n][i] EXCEPT !.state = "EXITING"]
      BY <1>6 DEF TypeOK
    <3>2. procs'[n][i].state = "EXITING" /\ procs'[n][i].node_ip # n /\ procs'[n][i].pid = procs[n][i].pid
      BY <3>1, <1>3, <1>6 DEF Entry
    <3> QED BY <3>2, <1>6 DEF TypeOK
  <2>2. \A j \in Entries : (Settled(n, j)' <=> Settled(n, j)) /\ (Settled(n, j) => j # i)
    BY <1>3, <1>6, <2>1 DEF Settled
  <2>a. op[n].at # "idle" => op[n].entry # i
    BY <1>2, <1>4, <1>6 DEF NodeInv, FoundInv, Local, Free, Live
  <2>b. \A s \in TaskSlots : Unlisted(n, s)' <=> Unlisted(n, s)
    BY <1>3, <1>4, <2>1, <2>a DEF Unlisted
  <2>3. TaskInv(n)'
    BY <1>3, <1>6, <2>1, <2>2, <2>b, TasksKept
  <2>4. PidInv(n)'
    <3>1. op[n].at = "fill" => op[n].pid = next_pid[n]
      BY DEF NodeInv, PidInv
    <3>2. \A j \in Entries : Live(procs'[n][j]) => Live(procs[n][j]) /\ procs'[n][j].pid = procs[n][j].pid
      BY <1>2, <2>1 DEF Live
    <3> QED BY <1>3, <3>1, <3>2, PidsKept
  <2>5. FoundInv(n)'
    <3>1. \A j \in Entries : procs'[n][j].state = "EXITING" => procs'[n][j].node_ip # n
      BY <2>1 DEF NodeInv, FoundInv
    <3> QED BY <3>1, <2>a, <1>3, <1>4, <1>6, <2>1, FoundKept
  <2> QED BY <2>3, <2>4, <2>5 DEF NodeInv
<1> QED BY <1>1, <1>2, <1>5, <1>6

-----------------------------------------------------------------------------
(* net-poll *)

LEMMA OneEntry ==
    ASSUME TypeOK, NEW n \in Node, NEW i \in Entries, NEW e, procs' = [procs EXCEPT ![n][i] = e]
    PROVE  procs'[n][i] = e /\ procs[n][i] \in Entry /\ \A j \in Entries \ {i} : procs'[n][j] = procs[n][j]
BY DEF TypeOK

LEMMA NetSpawnFindStep ==
    ASSUME TypeOK, TypeOK', NEW n \in Node \ raced', NodeInv(n), NEW m \in net, NetSpawnFind(n, m)
    PROVE  NodeInv(n)'
<1>1. PICK i \in Entries :
         /\ FindFree(n, i)
         /\ op' = [op EXCEPT ![n] = [at |-> "fill", entry |-> i, pid |-> next_pid[n], slot |-> NoSlot,
                                     proc |-> [home |-> m.from, pid |-> m.pid]]]
  BY DEF NetSpawnFind
<1>2. /\ op[n].at = "idle" /\ procs' = procs /\ tasks' = tasks /\ reap' = reap /\ next_pid' = next_pid
      /\ op'[n].at = "fill" /\ op'[n].entry = i /\ op'[n].pid = next_pid[n]
      /\ op'[n].proc = [home |-> m.from, pid |-> m.pid] /\ Free(procs[n][i])
  BY <1>1 DEF NetSpawnFind, TypeOK, FindFree
<1>3. op'[n].proc \in Proc
  BY <1>2 DEF TypeOK, Message, Proc, Pid
<1>4. PidInv(n)'
  BY <1>2, PidsKept
<1>5. FoundInv(n)'
  BY <1>2, <1>3 DEF FoundInv, NodeInv, Making
<1>6. TaskInv(n)'
  <2>1. \A j \in Entries : Settled(n, j)' <=> Settled(n, j)
    BY <1>2 DEF Settled
  <2>2. \A s \in TaskSlots : Unlisted(n, s)' <=> Unlisted(n, s)
    BY <1>2 DEF Unlisted
  <2> QED BY <1>2, <2>1, <2>2, TasksKept
<1> QED BY <1>4, <1>5, <1>6 DEF NodeInv

LEMMA NetSpawnFillStep ==
    ASSUME TypeOK, TypeOK', NEW n \in Node \ raced', NodeInv(n), NetSpawnFill(n)
    PROVE  NodeInv(n)'
<1> DEFINE i == op[n].entry
<1>1. /\ op[n].at = "fill" /\ op[n].pid = next_pid[n] /\ Free(procs[n][i]) /\ op[n].proc \in Proc
      /\ reap[n] # i /\ i \in Entries /\ reap[n] \in Entries \cup {NoEntry} /\ next_pid[n] \in Nat
  BY EntryFacts DEF NetSpawnFill, NodeInv, PidInv, FoundInv, Races
<1>2. /\ op'[n].at = "create" /\ op'[n].entry = i /\ op'[n].proc = op[n].proc
      /\ tasks' = tasks /\ reap' = reap
  BY EntryFacts DEF NetSpawnFill, TypeOK, Op
<1>3. next_pid'[n] = next_pid[n] + 1
  BY <1>1 DEF NetSpawnFill, TypeOK, PidAfter
<1>4. /\ procs'[n][i].pid = next_pid[n] /\ procs'[n][i].state = "RUNNING" /\ procs'[n][i].node_ip = n
      /\ procs'[n][i].proc = op[n].proc /\ \A j \in Entries \ {i} : procs'[n][j] = procs[n][j]
  <2> DEFINE e == [procs[n][i] EXCEPT !.pid = op[n].pid, !.state = "RUNNING", !.node_ip = n, !.proc = op[n].proc]
  <2>0. procs' = [procs EXCEPT ![n][i] = e]
    BY DEF NetSpawnFill
  <2> HIDE DEF e, i
  <2>1. procs'[n][i] = e /\ procs[n][i] \in Entry /\ \A j \in Entries \ {i} : procs'[n][j] = procs[n][j]
    BY <1>1, <2>0, OneEntry
  <2>2. e.pid = op[n].pid /\ e.state = "RUNNING" /\ e.node_ip = n /\ e.proc = op[n].proc
    BY <2>1 DEF e, Entry
  <2> QED BY <1>1, <2>1, <2>2
<1> HIDE DEF i
<1>5. PidInv(n)'
  BY <1>1, <1>2, <1>3, <1>4, NewEntry
<1>6. FoundInv(n)'
  <2>1. (reap[n] # NoEntry => Free(procs[n][reap[n]]))'
    BY <1>1, <1>2, <1>4 DEF NodeInv, FoundInv
  <2>2. \A j \in Entries : procs'[n][j].state = "EXITING" => procs'[n][j].node_ip # n
    BY <1>4 DEF NodeInv, FoundInv
  <2> QED BY <1>1, <1>2, <1>4, <2>1, <2>2 DEF FoundInv, Making, Local
<1>7. TaskInv(n)'
  <2>1. \A j \in Entries : (Settled(n, j)' <=> Settled(n, j)) /\ (Settled(n, j) => j # i)
    BY <1>1, <1>2, <1>4 DEF Settled, Free
  <2>2. \A s \in TaskSlots : Unlisted(n, s)' <=> Unlisted(n, s)
    BY <1>1, <1>2 DEF Unlisted
  <2> QED BY <1>1, <1>2, <1>4, <2>1, <2>2, TasksKept
<1> QED BY <1>5, <1>6, <1>7 DEF NodeInv

LEMMA NetSpawnCreateStep ==
    ASSUME TypeOK, TypeOK', NEW n \in Node \ raced', NodeInv(n), NetSpawnCreate(n)
    PROVE  NodeInv(n)'
<1> DEFINE i == op[n].entry
<1>1. /\ op[n].at = "create" /\ tasks' = tasks /\ reap' = reap /\ next_pid' = next_pid /\ i \in Entries
      /\ Local(n, i) /\ procs[n][i].proc = op[n].proc /\ op[n].proc \in Proc
      /\ reap[n] \in Entries \cup {NoEntry} /\ reap[n] # i
  <2>1. /\ op[n].at = "create" /\ tasks' = tasks /\ reap' = reap /\ next_pid' = next_pid /\ i \in Entries
        /\ reap[n] \in Entries \cup {NoEntry} /\ NoEntry \notin Entries
    BY EntryFacts DEF NetSpawnCreate
  <2>2. Local(n, i) /\ procs[n][i].proc = op[n].proc /\ op[n].proc \in Proc
    BY <2>1 DEF NodeInv, FoundInv, Making
  <2>3. reap[n] # i
    BY <2>1, <2>2 DEF NodeInv, FoundInv, Local, Free
  <2> QED BY <2>1, <2>2, <2>3
<1>2. CASE \E s \in TaskSlots :
            /\ FirstFreeTask(n, s)
            /\ op' = [op EXCEPT ![n].at = "claim", ![n].slot = s]
            /\ procs' = procs
  <2>1. PICK s \in TaskSlots :
            /\ FirstFreeTask(n, s)
            /\ op' = [op EXCEPT ![n].at = "claim", ![n].slot = s]
            /\ procs' = procs
    BY <1>2
  <2>2. /\ op'[n].at = "claim" /\ op'[n].slot = s /\ op'[n].entry = i /\ op'[n].proc = op[n].proc
        /\ tasks[n][s] = NoProc
    BY <2>1, EntryFacts DEF TypeOK, Op, FirstFreeTask
  <2> HIDE DEF i
  <2>3. PidInv(n)'
    BY <1>1, <2>1, <2>2, PidsKept
  <2>4. FoundInv(n)'
    BY <1>1, <2>1, <2>2 DEF FoundInv, NodeInv, Making, Local
  <2>5. TaskInv(n)'
    <3>1. \A j \in Entries : Settled(n, j)' <=> Settled(n, j)
      BY <1>1, <2>1, <2>2 DEF Settled, i
    <3>2. \A u \in TaskSlots : Unlisted(n, u)' <=> Unlisted(n, u)
      BY <1>1, <2>2 DEF Unlisted
    <3> QED BY <1>1, <2>1, <2>2, <3>1, <3>2, TasksKept
  <2> QED BY <2>3, <2>4, <2>5 DEF NodeInv
<1>3. CASE /\ procs' = [procs EXCEPT ![n][op[n].entry].state = "UNUSED"]
           /\ op' = [op EXCEPT ![n] = Idle]
  <2>1. op'[n].at = "idle"
    BY <1>3 DEF TypeOK, Idle
  <2>2. procs'[n][i].state = "UNUSED" /\ \A j \in Entries \ {i} : procs'[n][j] = procs[n][j]
    <3> DEFINE e == [procs[n][i] EXCEPT !.state = "UNUSED"]
    <3>0. procs' = [procs EXCEPT ![n][i] = e]
      BY <1>3
    <3> HIDE DEF e, i
    <3>1. procs'[n][i] = e /\ procs[n][i] \in Entry /\ \A j \in Entries \ {i} : procs'[n][j] = procs[n][j]
      BY <1>1, <3>0, OneEntry
    <3>2. e.state = "UNUSED"
      BY <3>1 DEF e, Entry
    <3> QED BY <3>1, <3>2
  <2>3. \A j \in Entries : (Settled(n, j)' <=> Settled(n, j)) /\ (Settled(n, j) => j # i)
    BY <1>1, <2>1, <2>2 DEF Settled
  <2> HIDE DEF i
  <2>4. PidInv(n)'
    <3>1. \A j \in Entries : Live(procs'[n][j]) => Live(procs[n][j]) /\ procs'[n][j].pid = procs[n][j].pid
      BY <2>2 DEF Live
    <3> QED BY <1>1, <2>1, <3>1, PidsKept
  <2>5. FoundInv(n)'
    BY <1>1, <2>1, <2>2 DEF FoundInv, NodeInv, Making
  <2>7. \A s \in TaskSlots : Unlisted(n, s)' <=> Unlisted(n, s)
    BY <1>1, <2>1 DEF Unlisted
  <2>6. TaskInv(n)'
    BY <1>1, <2>1, <2>2, <2>3, <2>7, TasksKept
  <2> QED BY <2>4, <2>5, <2>6 DEF NodeInv
<1> QED BY <1>2, <1>3 DEF NetSpawnCreate

LEMMA NetSpawnClaimStep ==
    ASSUME TypeOK, TypeOK', NEW n \in Node \ raced', NodeInv(n), NetSpawnClaim(n)
    PROVE  NodeInv(n)'
<1> DEFINE s == op[n].slot
<1>1. /\ op[n].at = "claim" /\ procs' = procs /\ reap' = reap /\ next_pid' = next_pid
      /\ s \in TaskSlots /\ tasks[n][s] = NoProc /\ op[n].proc \in Proc /\ NoProc \notin Proc
  BY EntryFacts DEF NetSpawnClaim, NodeInv, FoundInv, Making
<1>2. /\ op'[n].at = "bind" /\ op'[n].slot = s /\ op'[n].entry = op[n].entry /\ op'[n].proc = op[n].proc
      /\ tasks'[n][s] = op[n].proc /\ \A t \in TaskSlots \ {s} : tasks'[n][t] = tasks[n][t]
  BY <1>1, EntryFacts DEF NetSpawnClaim, TypeOK, Op
<1> HIDE DEF s
<1>3. PidInv(n)'
  BY <1>1, <1>2, PidsKept
<1>4. FoundInv(n)'
  BY <1>1, <1>2 DEF FoundInv, NodeInv, Making, Local
<1>5. \A j \in Entries : Settled(n, j)' <=> Settled(n, j)
  BY <1>1, <1>2 DEF Settled
<1>6. \A j \in Entries : Settled(n, j) => procs[n][j].sched_slot # s
  BY <1>1 DEF NodeInv, TaskInv
<1>8. \A t \in TaskSlots : ~Unlisted(n, t) /\ (Unlisted(n, t)' <=> t = s)
  BY <1>1, <1>2 DEF Unlisted
<1>7. TaskInv(n)'
  <2>1. (\A j \in Entries : Settled(n, j) =>
          /\ procs[n][j].sched_slot \in TaskSlots /\ procs[n][j].proc \in Proc
          /\ tasks[n][procs[n][j].sched_slot] = procs[n][j].proc)'
    BY <1>1, <1>2, <1>5, <1>6 DEF NodeInv, TaskInv
  <2>2. (\A j, k \in Entries :
          Settled(n, j) /\ Settled(n, k) /\ procs[n][j].sched_slot = procs[n][k].sched_slot => j = k)'
    BY <1>1, <1>5 DEF NodeInv, TaskInv
  <2>3. (\A t \in TaskSlots : tasks[n][t] # NoProc /\ ~Unlisted(n, t) =>
          \E j \in Entries : Settled(n, j) /\ procs[n][j].sched_slot = t)'
    BY <1>1, <1>2, <1>5, <1>8 DEF NodeInv, TaskInv
  <2>4. (\A j \in Entries, u \in TaskSlots :
            Settled(n, j) /\ Unlisted(n, u) => procs[n][j].sched_slot # u)'
    BY <1>1, <1>5, <1>6, <1>8
  <2> QED BY <2>1, <2>2, <2>3, <2>4 DEF TaskInv
<1> QED BY <1>3, <1>4, <1>7 DEF NodeInv

LEMMA NetSpawnBindStep ==
    ASSUME TypeOK, TypeOK', NEW n \in Node \ raced', NodeInv(n), NetSpawnBind(n)
    PROVE  NodeInv(n)'
<1> DEFINE i == op[n].entry
           s == op[n].slot
<1>1. /\ op[n].at = "bind" /\ tasks' = tasks /\ reap' = reap /\ next_pid' = next_pid
      /\ s \in TaskSlots /\ tasks[n][s] = op[n].proc /\ op[n].proc \in Proc /\ i \in Entries
      /\ Local(n, i) /\ procs[n][i].proc = op[n].proc
      /\ reap[n] \in Entries \cup {NoEntry} /\ reap[n] # i
  BY EntryFacts DEF NetSpawnBind, NodeInv, FoundInv, Making, Local, Free, NoEntry
<1>2. op'[n].at = "idle"
  BY DEF NetSpawnBind, TypeOK, Idle
<1>3. /\ procs'[n][i].state = "RUNNING" /\ procs'[n][i].node_ip = n /\ procs'[n][i].sched_slot = s
      /\ procs'[n][i].pid = procs[n][i].pid
      /\ procs'[n][i].proc = op[n].proc /\ \A j \in Entries \ {i} : procs'[n][j] = procs[n][j]
  <2> DEFINE e == [procs[n][i] EXCEPT !.sched_slot = s]
  <2>0. procs' = [procs EXCEPT ![n][i] = e]
    BY DEF NetSpawnBind
  <2> HIDE DEF e, i
  <2>1. procs'[n][i] = e /\ procs[n][i] \in Entry /\ \A j \in Entries \ {i} : procs'[n][j] = procs[n][j]
    BY <1>1, <2>0, OneEntry
  <2>2. /\ e.state = "RUNNING" /\ e.node_ip = n /\ e.sched_slot = s
        /\ e.pid = procs[n][i].pid /\ e.proc = op[n].proc
    BY <1>1, <2>1 DEF e, Entry, Local
  <2> QED BY <2>1, <2>2
<1>4. ~Settled(n, i) /\ \A j \in Entries : Settled(n, j)' <=> j = i \/ Settled(n, j)
  BY <1>1, <1>2, <1>3 DEF Settled
<1>9. \A t \in TaskSlots : ~Unlisted(n, t)' /\ (Unlisted(n, t) <=> t = s)
  BY <1>1, <1>2 DEF Unlisted
<1>5. \A j \in Entries : Settled(n, j) => procs[n][j].sched_slot # s
  BY <1>1, <1>9 DEF NodeInv, TaskInv
<1>6. PidInv(n)'
  <2>1. \A j \in Entries : Live(procs'[n][j]) => Live(procs[n][j]) /\ procs'[n][j].pid = procs[n][j].pid
    BY <1>1, <1>3 DEF Live, Local
  <2> QED BY <1>1, <1>2, <2>1, PidsKept
<1> HIDE DEF i, s
<1>7. FoundInv(n)'
  BY <1>1, <1>2, <1>3 DEF FoundInv, NodeInv, Making
<1>8. TaskInv(n)'
  <2>1. (\A j \in Entries : Settled(n, j) =>
          /\ procs[n][j].sched_slot \in TaskSlots /\ procs[n][j].proc \in Proc
          /\ tasks[n][procs[n][j].sched_slot] = procs[n][j].proc)'
    BY <1>1, <1>2, <1>3, <1>4 DEF NodeInv, TaskInv
  <2>2. (\A j, k \in Entries :
          Settled(n, j) /\ Settled(n, k) /\ procs[n][j].sched_slot = procs[n][k].sched_slot => j = k)'
    BY <1>3, <1>4, <1>5 DEF NodeInv, TaskInv
  <2>3. (\A t \in TaskSlots : tasks[n][t] # NoProc /\ ~Unlisted(n, t) =>
          \E j \in Entries : Settled(n, j) /\ procs[n][j].sched_slot = t)'
    <3> SUFFICES ASSUME NEW t \in TaskSlots, tasks[n][t] # NoProc
                 PROVE  \E j \in Entries : Settled(n, j)' /\ procs'[n][j].sched_slot = t
      BY <1>1
    <3>1. CASE t = s
      BY <3>1, <1>1, <1>3, <1>4
    <3>2. CASE t # s
      <4>1. PICK j \in Entries : Settled(n, j) /\ procs[n][j].sched_slot = t
        BY <1>9, <3>2 DEF NodeInv, TaskInv
      <4> QED BY <4>1, <1>3, <1>4
    <3> QED BY <3>1, <3>2
  <2>4. (\A j \in Entries, u \in TaskSlots :
            Settled(n, j) /\ Unlisted(n, u) => procs[n][j].sched_slot # u)'
    BY <1>9
  <2> QED BY <2>1, <2>2, <2>3, <2>4 DEF TaskInv
<1> QED BY <1>6, <1>7, <1>8 DEF NodeInv

LEMMA NetKillFindStep ==
    ASSUME TypeOK, TypeOK', NEW n \in Node \ raced', NodeInv(n), NEW m \in net, NetKillFind(n, m)
    PROVE  NodeInv(n)'
<1>1. PICK i \in Entries :
         /\ FindRemoteKill(n, m.pid, i)
         /\ op' = [op EXCEPT ![n].at = "found", ![n].entry = i]
  BY DEF NetKillFind
<1>2. /\ op[n].at = "idle" /\ procs' = procs /\ tasks' = tasks /\ reap' = reap /\ next_pid' = next_pid
      /\ op'[n].at = "found" /\ op'[n].entry = i /\ Local(n, i)
  BY <1>1, EntryFacts DEF NetKillFind, TypeOK, Op, FindRemoteKill, Local
<1>3. PidInv(n)'
  BY <1>2, PidsKept
<1>4. FoundInv(n)'
  BY <1>2 DEF FoundInv, NodeInv, Making, Local
<1>5. TaskInv(n)'
  <2>1. \A j \in Entries : Settled(n, j)' <=> Settled(n, j)
    BY <1>2 DEF Settled
  <2>2. \A s \in TaskSlots : Unlisted(n, s)' <=> Unlisted(n, s)
    BY <1>2 DEF Unlisted
  <2> QED BY <1>2, <2>1, <2>2, TasksKept
<1> QED BY <1>3, <1>4, <1>5 DEF NodeInv

LEMMA NetKillFlagStep ==
    ASSUME TypeOK, TypeOK', NEW n \in Node \ raced', NodeInv(n), NetKillFlag(n)
    PROVE  NodeInv(n)'
<1> DEFINE i == op[n].entry
<1>1. /\ op[n].at = "found" /\ procs' = procs /\ tasks' = tasks /\ reap' = reap /\ next_pid' = next_pid
      /\ i \in Entries /\ op[n] \in Op /\ procs[n][i] \in Entry /\ NoSlot \notin TaskSlots
      /\ Local(n, i) \/ (Free(procs[n][i]) /\ procs[n][i].sched_slot = NoSlot)
  BY EntryFacts DEF NetKillFlag, NodeInv, FoundInv
<1>2. /\ op'[n].at = "kill" /\ op'[n].entry = i
      /\ op'[n].slot = procs[n][i].sched_slot /\ op'[n].proc = procs[n][i].proc
  <2>1. op'[n] = [op[n] EXCEPT !.at = "kill", !.slot = procs[n][i].sched_slot, !.proc = procs[n][i].proc]
    BY DEF NetKillFlag, TypeOK
  <2> QED BY <1>1, <2>1 DEF Op
<1> HIDE DEF i
<1>3. PidInv(n)'
  BY <1>1, <1>2, PidsKept
<1>4. FoundInv(n)'
  BY <1>1, <1>2 DEF FoundInv, NodeInv, Making, Local
<1>5. \A j \in Entries : Settled(n, j)' <=> Settled(n, j)
  BY <1>1, <1>2 DEF Settled
<1>6. \A s \in TaskSlots : Unlisted(n, s)' <=> Unlisted(n, s)
  BY <1>1, <1>2 DEF Unlisted, Local
<1>7. TaskInv(n)'
  BY <1>1, <1>5, <1>6, TasksKept
<1> QED BY <1>3, <1>4, <1>7 DEF NodeInv

\* What entry i loses when it is marked dead.
LEMMA MarkedDead ==
    ASSUME TypeOK, NEW n \in Node, NEW i \in Entries,
           NEW e, e = [procs[n][i] EXCEPT !.state = "DEAD", !.proc = NoProc],
           procs' = [procs EXCEPT ![n][i] = e]
    PROVE  /\ procs'[n][i].state = "DEAD"
           /\ \A j \in Entries \ {i} : procs'[n][j] = procs[n][j]
<1>1. procs'[n][i] = e /\ procs[n][i] \in Entry /\ \A j \in Entries \ {i} : procs'[n][j] = procs[n][j]
  <2>1. procs[n] \in [Entries -> Entry] /\ procs \in [Node -> [Entries -> Entry]]
    BY DEF TypeOK
  <2>2. procs'[n] = [procs[n] EXCEPT ![i] = e]
    BY <2>1, Zenon
  <2>3. procs'[n][i] = e
    BY <2>1, <2>2, Zenon
  <2>4. \A j \in Entries \ {i} : procs'[n][j] = procs[n][j]
    BY <2>1, <2>2, Zenon
  <2> QED BY <2>1, <2>3, <2>4, Zenon
<1>2. e.state = "DEAD"
  BY <1>1 DEF Entry
<1> QED BY <1>1, <1>2

\* The process leaves its loop: its task is unlisted until it has returned.
LEMMA TaskStopsStep ==
    ASSUME TypeOK, TypeOK', NEW n \in Node \ raced', NodeInv(n), TaskStops(n)
    PROVE  NodeInv(n)'
<1> DEFINE i == op[n].entry
           s == op[n].slot
<1>1. /\ op[n].at = "kill" /\ op' = op /\ tasks' = tasks /\ reap' = reap /\ next_pid' = next_pid
      /\ i \in Entries /\ reap[n] \in Entries \cup {NoEntry} /\ procs[n][i].state = "RUNNING"
  BY EntryFacts DEF TaskStops
<1>2. Local(n, i) /\ procs[n][i].sched_slot = s /\ Settled(n, i)
  BY <1>1 DEF NodeInv, FoundInv, Free, Local, Settled
<1>3. procs'[n][i].state = "DEAD" /\ \A j \in Entries \ {i} : procs'[n][j] = procs[n][j]
  BY <1>1, MarkedDead DEF TaskStops
<1>4. s \in TaskSlots /\ \A j \in Entries \ {i} : Settled(n, j) => procs[n][j].sched_slot # s
  <2> HIDE DEF i, s
  <2>1. TaskInv(n)
    BY DEF NodeInv
  <2>2. procs[n][i].sched_slot \in TaskSlots
    BY <1>1, <1>2, <2>1 DEF TaskInv
  <2>3. \A j \in Entries \ {i} : Settled(n, j) => procs[n][j].sched_slot # procs[n][i].sched_slot
    BY <1>1, <1>2, <2>1 DEF TaskInv
  <2> QED BY <1>2, <2>2, <2>3
<1>5. \A j \in Entries : Settled(n, j)' <=> Settled(n, j) /\ j # i
  BY <1>1, <1>3 DEF Settled
<1>6. \A u \in TaskSlots : ~Unlisted(n, u) /\ (Unlisted(n, u)' <=> u = s)
  BY <1>1, <1>3 DEF Unlisted
<1> HIDE DEF i, s
<1>7. PidInv(n)'
  <2>1. \A j \in Entries : Live(procs'[n][j]) => Live(procs[n][j]) /\ procs'[n][j].pid = procs[n][j].pid
    BY <1>3 DEF Live
  <2> QED BY <1>1, <2>1, PidsKept
<1>8. FoundInv(n)'
  <2>1. Free(procs'[n][i])
    BY <1>3 DEF Free
  <2>2. (reap[n] # NoEntry => Free(procs[n][reap[n]]))'
    BY <1>1, <1>3, <2>1 DEF NodeInv, FoundInv
  <2>3. \A j \in Entries : procs'[n][j].state = "EXITING" => procs'[n][j].node_ip # n
    BY <1>3 DEF NodeInv, FoundInv
  <2> QED BY <1>1, <2>1, <2>2, <2>3 DEF FoundInv, Making, i
<1>9. TaskInv(n)'
  <2>1. (\A j \in Entries : Settled(n, j) =>
          /\ procs[n][j].sched_slot \in TaskSlots /\ procs[n][j].proc \in Proc
          /\ tasks[n][procs[n][j].sched_slot] = procs[n][j].proc)'
    BY <1>1, <1>3, <1>5 DEF NodeInv, TaskInv
  <2>2. (\A j, k \in Entries :
          Settled(n, j) /\ Settled(n, k) /\ procs[n][j].sched_slot = procs[n][k].sched_slot => j = k)'
    BY <1>3, <1>5 DEF NodeInv, TaskInv
  <2>3. (\A j \in Entries, u \in TaskSlots :
            Settled(n, j) /\ Unlisted(n, u) => procs[n][j].sched_slot # u)'
    BY <1>3, <1>4, <1>5, <1>6
  <2>4. (\A u \in TaskSlots : tasks[n][u] # NoProc /\ ~Unlisted(n, u) =>
          \E j \in Entries : Settled(n, j) /\ procs[n][j].sched_slot = u)'
    <3> SUFFICES ASSUME NEW u \in TaskSlots \ {s}, tasks[n][u] # NoProc
                 PROVE  \E j \in Entries : Settled(n, j)' /\ procs'[n][j].sched_slot = u
      BY <1>1, <1>6
    <3>1. PICK j \in Entries : Settled(n, j) /\ procs[n][j].sched_slot = u
      BY <1>6 DEF NodeInv, TaskInv
    <3>2. j # i
      BY <1>2, <3>1
    <3> QED BY <1>3, <1>5, <3>1, <3>2
  <2> QED BY <2>1, <2>2, <2>3, <2>4 DEF TaskInv
<1> QED BY <1>7, <1>8, <1>9 DEF NodeInv

\* An unlisted task goes: no entry has its slot.
LEMMA UnlistedGone ==
    ASSUME NEW n \in Node, NodeInv(n), NEW s \in TaskSlots, Unlisted(n, s), tasks'[n][s] = NoProc,
           \A t \in TaskSlots \ {s} : tasks'[n][t] = tasks[n][t], procs' = procs,
           \A t \in TaskSlots \ {s} : Unlisted(n, t)' <=> Unlisted(n, t),
           \A j \in Entries : Settled(n, j)' <=> Settled(n, j)
    PROVE  TaskInv(n)'
<1>1. TaskInv(n) /\ \A j \in Entries : Settled(n, j) => procs[n][j].sched_slot # s
  BY DEF NodeInv, TaskInv
<1>2. (\A j \in Entries : Settled(n, j) =>
          /\ procs[n][j].sched_slot \in TaskSlots /\ procs[n][j].proc \in Proc
          /\ tasks[n][procs[n][j].sched_slot] = procs[n][j].proc)'
  BY <1>1 DEF TaskInv
<1>3. (\A j, k \in Entries :
          Settled(n, j) /\ Settled(n, k) /\ procs[n][j].sched_slot = procs[n][k].sched_slot => j = k)'
  BY <1>1 DEF TaskInv
<1>4. (\A j \in Entries, u \in TaskSlots :
          Settled(n, j) /\ Unlisted(n, u) => procs[n][j].sched_slot # u)'
  BY <1>1 DEF TaskInv
<1>5. (\A u \in TaskSlots : tasks[n][u] # NoProc /\ ~Unlisted(n, u) =>
          \E j \in Entries : Settled(n, j) /\ procs[n][j].sched_slot = u)'
  <2> SUFFICES ASSUME NEW u \in TaskSlots, tasks'[n][u] # NoProc, ~Unlisted(n, u)'
               PROVE  \E j \in Entries : Settled(n, j)' /\ procs[n][j].sched_slot = u
    OBVIOUS
  <2>1. u # s
    OBVIOUS
  <2>2. PICK j \in Entries : Settled(n, j) /\ procs[n][j].sched_slot = u
    BY <1>1, <2>1 DEF TaskInv
  <2> QED BY <2>2
<1> QED BY <1>2, <1>3, <1>4, <1>5 DEF TaskInv

LEMMA TaskReturnsStep ==
    ASSUME TypeOK, TypeOK', NEW n \in Node \ raced', NodeInv(n), TaskReturns(n)
    PROVE  NodeInv(n)'
<1> DEFINE i == op[n].entry
           s == op[n].slot
<1>1. /\ op[n].at = "kill" /\ op' = op /\ procs' = procs /\ reap' = reap /\ next_pid' = next_pid
      /\ s \in TaskSlots /\ procs[n][i].proc # op[n].proc
  BY EntryFacts DEF TaskReturns, Slot
<1>2. Free(procs[n][i]) /\ Unlisted(n, s)
  BY <1>1 DEF NodeInv, FoundInv, Free, Unlisted
<1>3. tasks'[n][s] = NoProc /\ \A t \in TaskSlots \ {s} : tasks'[n][t] = tasks[n][t]
  BY <1>1 DEF TaskReturns, TypeOK
<1>4. PidInv(n)'
  BY <1>1, PidsKept
<1>5. FoundInv(n)'
  BY <1>1 DEF FoundInv, NodeInv, Making, Local
<1>6. \A j \in Entries : Settled(n, j)' <=> Settled(n, j)
  BY <1>1 DEF Settled
<1>7. \A t \in TaskSlots \ {s} : Unlisted(n, t)' <=> Unlisted(n, t)
  BY <1>1 DEF Unlisted
<1> HIDE DEF i, s
<1>8. TaskInv(n)'
  BY <1>1, <1>2, <1>3, <1>6, <1>7, UnlistedGone
<1> QED BY <1>4, <1>5, <1>8 DEF NodeInv

LEMMA NetKillTaskStep ==
    ASSUME TypeOK, TypeOK', NEW n \in Node \ raced', NodeInv(n), NetKillTask(n)
    PROVE  NodeInv(n)'
<1> DEFINE i == op[n].entry
           s == op[n].slot
<1>1. /\ op[n].at = "kill" /\ procs' = procs /\ reap' = reap /\ next_pid' = next_pid
      /\ i \in Entries /\ s \in Slot /\ NoSlot \notin TaskSlots /\ KillTask(n, s)
      /\ (Local(n, i) /\ procs[n][i].sched_slot = s) \/ Free(procs[n][i])
  BY EntryFacts DEF NetKillTask, NodeInv, FoundInv
<1>2. op'[n].at = "mark" /\ op'[n].entry = i
  BY EntryFacts DEF NetKillTask, TypeOK, Op
<1>3. s \in TaskSlots => tasks'[n][s] = NoProc /\ \A t \in TaskSlots \ {s} : tasks'[n][t] = tasks[n][t]
  BY <1>1 DEF KillTask, TypeOK
<1>4. \A j \in Entries : Settled(n, j)' <=> Settled(n, j) /\ j # i
  BY <1>1, <1>2 DEF Settled
<1>5. \A t \in TaskSlots : ~Unlisted(n, t)' /\ (t # s => ~Unlisted(n, t))
  BY <1>2 DEF Unlisted
<1>6. PidInv(n)'
  BY <1>1, <1>2, PidsKept
<1>7. FoundInv(n)'
  BY <1>1, <1>2 DEF FoundInv, NodeInv, Making, Local
<1>8. CASE Local(n, i) /\ procs[n][i].sched_slot = s
  <2>1. Settled(n, i)
    BY <1>1, <1>8 DEF Local, Settled
  <2>2. s \in TaskSlots
    BY <1>1, <1>8, <2>1 DEF NodeInv, TaskInv
  <2> HIDE DEF i, s
  <2>3. TaskInv(n)'
    BY <1>1, <1>3, <1>4, <1>5, <1>8, <2>1, <2>2, TaskGone
  <2> QED BY <1>6, <1>7, <2>3 DEF NodeInv
<1>9. CASE Free(procs[n][i])
  <2>1. \A j \in Entries : Settled(n, j)' <=> Settled(n, j)
    BY <1>4, <1>9 DEF Free, Settled
  <2>2. CASE s \in TaskSlots
    <3>1. Unlisted(n, s)
      BY <1>1, <1>9 DEF Unlisted, Free
    <3> HIDE DEF i, s
    <3>2. TaskInv(n)'
      BY <1>1, <1>3, <1>5, <2>1, <2>2, <3>1, UnlistedGone
    <3> QED BY <1>6, <1>7, <3>2 DEF NodeInv
  <2>3. CASE s \notin TaskSlots
    <3>1. tasks' = tasks
      BY <1>1, <2>3 DEF KillTask, Slot
    <3>2. \A t \in TaskSlots : Unlisted(n, t)' <=> Unlisted(n, t)
      BY <1>5, <2>3
    <3> HIDE DEF i, s
    <3>3. TaskInv(n)'
      BY <1>1, <2>1, <3>1, <3>2, TasksKept
    <3> QED BY <1>6, <1>7, <3>3 DEF NodeInv
  <2> QED BY <2>2, <2>3
<1> QED BY <1>1, <1>8, <1>9

LEMMA NetKillMarkStep ==
    ASSUME TypeOK, TypeOK', NEW n \in Node \ raced', NodeInv(n), NetKillMark(n)
    PROVE  NodeInv(n)'
<1> DEFINE i == op[n].entry
<1>1. /\ op[n].at = "mark" /\ tasks' = tasks /\ reap' = reap /\ next_pid' = next_pid
      /\ i \in Entries /\ reap[n] \in Entries \cup {NoEntry}
  BY EntryFacts DEF NetKillMark
<1>2. op'[n].at = "idle"
  BY DEF NetKillMark, TypeOK, Idle
<1>3. procs'[n][i].state = "DEAD" /\ \A j \in Entries \ {i} : procs'[n][j] = procs[n][j]
  BY <1>1, MarkedDead DEF NetKillMark
<1>4. \A j \in Entries : (Settled(n, j)' <=> Settled(n, j)) /\ (Settled(n, j) => j # i)
  BY <1>1, <1>2, <1>3 DEF Settled
<1>5. \A t \in TaskSlots : Unlisted(n, t)' <=> Unlisted(n, t)
  BY <1>1, <1>2 DEF Unlisted
<1> HIDE DEF i
<1>6. PidInv(n)'
  <2>1. \A j \in Entries : Live(procs'[n][j]) => Live(procs[n][j]) /\ procs'[n][j].pid = procs[n][j].pid
    BY <1>3 DEF Live
  <2> QED BY <1>1, <1>2, <2>1, PidsKept
<1>7. FoundInv(n)'
  BY <1>1, <1>2, <1>3 DEF FoundInv, NodeInv, Making, Free
<1>8. TaskInv(n)'
  BY <1>1, <1>3, <1>4, <1>5, TasksKept
<1> QED BY <1>6, <1>7, <1>8 DEF NodeInv

-----------------------------------------------------------------------------
(* proc-stat *)

LEMMA ReapLookStep ==
    ASSUME TypeOK, TypeOK', NEW n \in Node \ raced', NodeInv(n), NEW i \in Entries, ReapLook(n, i)
    PROVE  NodeInv(n)'
<1>1. /\ procs' = procs /\ tasks' = tasks /\ op' = op /\ next_pid' = next_pid
      /\ reap'[n] = i /\ Free(procs[n][i])
  BY DEF ReapLook, TypeOK, Free
<1>2. FoundInv(n)'
  BY <1>1 DEF FoundInv, NodeInv, Local
<1>3. PidInv(n)' /\ TaskInv(n)'
  BY <1>1 DEF PidInv, TaskInv, NodeInv, Settled, Unlisted
<1> QED BY <1>2, <1>3 DEF NodeInv

LEMMA ReapStoreStep ==
    ASSUME TypeOK, TypeOK', NEW n \in Node \ raced', NodeInv(n), ReapStore(n)
    PROVE  NodeInv(n)'
<1> DEFINE i == reap[n]
<1>1. /\ tasks' = tasks /\ op' = op /\ next_pid' = next_pid /\ i \in Entries /\ reap'[n] = NoEntry
      /\ Free(procs[n][i]) /\ op[n].entry \in Entries
  BY EntryFacts DEF ReapStore, TypeOK, NodeInv, FoundInv
<1>2. /\ procs'[n][i].state = "UNUSED" /\ procs'[n][i].sched_slot = procs[n][i].sched_slot
      /\ \A j \in Entries \ {i} : procs'[n][j] = procs[n][j]
  <2>1. procs'[n][i] = [procs[n][i] EXCEPT !.state = "UNUSED", !.pid = 0] /\ procs[n][i] \in Entry
    BY <1>1 DEF ReapStore, TypeOK
  <2>2. procs'[n][i].state = "UNUSED" /\ procs'[n][i].sched_slot = procs[n][i].sched_slot
    BY <2>1 DEF Entry
  <2> QED BY <1>1, <2>2 DEF ReapStore, TypeOK
<1>3. \A j \in Entries : (Settled(n, j)' <=> Settled(n, j)) /\ (Settled(n, j) => j # i)
  BY <1>1, <1>2 DEF Settled, Free
<1> HIDE DEF i
<1>7. \A s \in TaskSlots : Unlisted(n, s)' <=> Unlisted(n, s)
  BY <1>1, <1>2 DEF Unlisted, Free
<1>4. TaskInv(n)'
  BY <1>1, <1>2, <1>3, <1>7, TasksKept
<1>5. PidInv(n)'
  <2>1. \A j \in Entries : Live(procs'[n][j]) => Live(procs[n][j]) /\ procs'[n][j].pid = procs[n][j].pid
    BY <1>2 DEF Live
  <2>2. op[n].at = "fill" => op[n].pid = next_pid[n]
    BY DEF NodeInv, PidInv
  <2> QED BY <1>1, <2>1, <2>2, PidsKept
<1>6. FoundInv(n)'
  <2>1. CASE op[n].entry = i
    <3>1. ~Local(n, i) /\ Free(procs'[n][i])
      BY <1>1, <1>2 DEF Local, Free
    <3> QED BY <1>1, <1>2, <2>1, <3>1 DEF NodeInv, FoundInv, Making
  <2>2. CASE op[n].entry # i
    BY <1>1, <1>2, <2>2 DEF NodeInv, FoundInv, Making, Local
  <2> QED BY <2>1, <2>2
<1> QED BY <1>4, <1>5, <1>6 DEF NodeInv

-----------------------------------------------------------------------------
(* The theorems *)

LEMMA InitHolds == Init => IInv
<1> SUFFICES ASSUME Init PROVE IInv
  OBVIOUS
<1>1. TypeOK
  <2>1. Idle \in Op
    BY TableAssumption DEF Idle, Op, Entries, Pid, NoProc
  <2>2. procs \in [Node -> [Entries -> Entry]]
    BY DEF Init, Entry, State, Pid, NoProc
  <2>3. next_pid \in [Node -> Nat \ {0}] /\ op \in [Node -> Op]
    BY <2>1 DEF Init, FirstPid
  <2> QED BY <2>2, <2>3 DEF TypeOK, Init
<1>2. ASSUME NEW n \in Node PROVE NodeInv(n)
  <2>1. \A i \in Entries : procs[n][i].state = "UNUSED"
    BY DEF Init
  <2>2. op[n].at = "idle" /\ reap[n] = NoEntry /\ \A s \in TaskSlots : tasks[n][s] = NoProc
    BY DEF Init, Idle
  <2>3. \A i \in Entries : ~Live(procs[n][i]) /\ ~Settled(n, i)
    BY <2>1 DEF Live, Settled
  <2>4. PidInv(n)
    BY <2>2, <2>3 DEF PidInv
  <2>5. FoundInv(n)
    BY <2>1, <2>2 DEF FoundInv, Making
  <2>6. TaskInv(n)
    BY <2>2, <2>3 DEF TaskInv
  <2> QED BY <2>4, <2>5, <2>6 DEF NodeInv
<1> QED BY <1>1, <1>2 DEF IInv

LEMMA StepKeeps ==
    ASSUME TypeOK, TypeOK', NEW n \in Node \ raced', NodeInv(n), Command(n) \/ NetPoll(n) \/ ProcStat(n)
    PROVE  NodeInv(n)'
<1>1. CASE Command(n)
  BY <1>1, SpawnLocalStep, SpawnRemoteStep, KillStep DEF Command
<1>2. ASSUME TaskFindsNoEntry(n) \/ TaskFindsUnbound(n) \/ TaskFindsKilled(n) PROVE FALSE
  BY <1>2 DEF TaskFindsNoEntry, TaskFindsUnbound, TaskFindsKilled, Races
<1>3. CASE NetPoll(n)
  BY <1>2, <1>3, NetSpawnFindStep, NetSpawnFillStep, NetSpawnCreateStep, NetSpawnClaimStep,
     NetSpawnBindStep, NetKillFindStep, NetKillFlagStep, TaskStopsStep, TaskReturnsStep,
     NetKillTaskStep, NetKillMarkStep DEF NetPoll
<1>4. CASE ProcStat(n)
  BY <1>4, ReapLookStep, ReapStoreStep DEF ProcStat
<1> QED BY <1>1, <1>3, <1>4

LEMMA NextKeeps == IInv /\ [Next]_vars => IInv'
<1> SUFFICES ASSUME IInv, [Next]_vars PROVE IInv'
  OBVIOUS
<1>0. TypeOK /\ \A n \in Node \ raced : NodeInv(n)
  BY DEF IInv
<1>1. CASE UNCHANGED vars
  BY <1>1 DEF vars, IInv, TypeOK, NodeInv, PidInv, FoundInv, TaskInv, Local, Settled, Unlisted
<1>2. CASE Next
  <2>1. PICK n \in Node : Command(n) \/ NetPoll(n) \/ ProcStat(n)
    BY <1>2 DEF Next
  <2>2. Within(n)
    BY <1>0, <2>1, StepsWithin
  <2>3. TypeOK' /\ raced \subseteq raced' /\ \A m \in Node \ {n} : NodeInv(m) => NodeInv(m)'
    BY <1>0, <2>2, WithinKeeps
  <2>4. n \notin raced' => NodeInv(n)'
    BY <1>0, <2>1, <2>3, StepKeeps
  <2>5. (\A m \in Node \ raced : NodeInv(m))'
    <3> SUFFICES ASSUME NEW m \in Node \ raced' PROVE NodeInv(m)'
      OBVIOUS
    <3> QED BY <1>0, <2>3, <2>4
  <2> QED BY <2>3, <2>5 DEF IInv
<1> QED BY <1>1, <1>2

\* The inductive invariant of the process tables.
THEOREM Invariance == Spec => []IInv
BY InitHolds, NextKeeps, PTL DEF Spec

\* Every field of the tables, tasks, datagrams and operations in progress has
\* its type, at every step of every actor.
THEOREM TypeCorrect == Spec => []TypeOK
<1>1. IInv => TypeOK
  BY DEF IInv
<1> QED BY <1>1, Invariance, PTL

\* A pid names at most one live entry of a node's table, as long as no actor
\* of the node hit another in the middle of an operation (spawn_on, spawn_local,
\* kill, on_remote_spawn_request).
THEOREM PidNamesOne == Spec => []PidsUnique
<1>1. IInv => PidsUnique
  BY DEF IInv, NodeInv, PidInv, PidsUnique
<1> QED BY <1>1, Invariance, PTL

\* The sched_slot of a running local entry holds that very process, and every
\* process task has exactly one entry, under the same condition: `kill' stops
\* what it names, and nothing runs unlisted.
THEOREM TableAndTasksAgree == Spec => []TableMatchesTasks
<1>1. IInv => TableMatchesTasks
  <2> SUFFICES ASSUME IInv, NEW n \in Node \ raced
               PROVE  /\ \A i \in Entries : Settled(n, i) =>
                            /\ procs[n][i].sched_slot # NoSlot
                            /\ tasks[n][procs[n][i].sched_slot] = procs[n][i].proc
                      /\ \A s \in TaskSlots :
                            tasks[n][s] # NoProc /\ ~Unlisted(n, s) =>
                            Cardinality({i \in Entries : Settled(n, i) /\ procs[n][i].sched_slot = s}) = 1
    BY DEF TableMatchesTasks
  <2>1. TypeOK /\ TaskInv(n)
    BY DEF IInv, NodeInv
  <2>2. NoSlot \notin TaskSlots
    BY <2>1, EntryFacts
  <2>3. ASSUME NEW s \in TaskSlots, tasks[n][s] # NoProc, ~Unlisted(n, s)
        PROVE  Cardinality({i \in Entries : Settled(n, i) /\ procs[n][i].sched_slot = s}) = 1
    <3>1. PICK i \in Entries : Settled(n, i) /\ procs[n][i].sched_slot = s
      BY <2>1, <2>3 DEF TaskInv
    <3>2. {j \in Entries : Settled(n, j) /\ procs[n][j].sched_slot = s} = {i}
      BY <2>1, <3>1 DEF TaskInv
    <3> QED BY <3>2, FS_Singleton
  <2>4. \A i \in Entries : Settled(n, i) =>
                            /\ procs[n][i].sched_slot # NoSlot
                            /\ tasks[n][procs[n][i].sched_slot] = procs[n][i].proc
    BY <2>1, <2>2 DEF TaskInv
  <2> QED BY <2>3, <2>4
<1> QED BY <1>1, Invariance, PTL
=============================================================================
