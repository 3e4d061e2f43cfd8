------------------------------- MODULE DJob -------------------------------
(***************************************************************************)
(* Distributed jobs as one node sees them: the job scheduler (djob.cpp:    *)
(* load table, history ring, submit, result routing) on top of the job     *)
(* messages of the cluster protocol (cluster.cpp: submit_job, execute_job  *)
(* on the peers, the MSG_JOB_RESULT branch of the UDP handler).            *)
(*                                                                         *)
(* submit runs inside the keyboard interrupt and is atomic.  The handler   *)
(* of a result runs in the net-poll task, so a command can interrupt it    *)
(* between finding the job and writing to it.  UDP may lose, delay,        *)
(* reorder or duplicate: `net' holds every datagram ever sent and          *)
(* receiving one does not remove it.                                       *)
(*                                                                         *)
(* A payload is abstracted to the job it belongs to and Jobs::execute to   *)
(* the identity on it: two jobs have the same result only if they are the  *)
(* same job.  Cluster::last_result, which only the `cluster' command        *)
(* displays, is left out.                                                  *)
(***************************************************************************)
EXTENDS Naturals, Sequences, FiniteSets

CONSTANTS
    Peers,        \* IP addresses of the other nodes
    Loads,        \* task counts that nodes report
    MaxNodes,     \* MAX_NODES: length of node_loads
    MaxHistory,   \* MAX_HISTORY: length of the ring
    MaxJobs,      \* bound on the number of `run' commands
    MaxManual     \* how far `rjob' commands may push Cluster's counter ahead of DJob's

ASSUME PeersAssumption == 0 \notin Peers
ASSUME LoadsAssumption == Loads \subseteq Nat
ASSUME BoundsAssumption ==
    /\ MaxNodes \in Nat \ {0}
    /\ MaxHistory \in Nat \ {0}
    /\ MaxJobs \in Nat
    /\ MaxManual \in Nat

VARIABLES
    node_loads,       \* the valid prefix of node_loads
    load,             \* get_local_load()
    round_robin,      \* round_robin_counter
    history,          \* the ring
    history_write,
    history_count,
    next_job_id,      \* DJob's counter
    cluster_next,     \* Cluster's counter, next_job_id in cluster.cpp
    net,              \* datagrams sent so far
    writing           \* net-poll between find_job and its writes

vars == <<node_loads, load, round_robin, history, history_write, history_count,
          next_job_id, cluster_next, net, writing>>

Ring == 0 .. MaxHistory - 1
Local == 0                       \* target_ip of a local job
Target == Peers \cup {Local}
Status == {"PENDING", "RUNNING", "COMPLETED", "FAILED"}
Manual == 0                      \* the payload of an rjob
Payload == 0 .. MaxJobs
JobId == 0 .. MaxJobs
ClusterId == 1 .. MaxJobs + MaxManual

Job == [id : JobId, status : Status, result : Payload, target : Target]
NodeLoad == [ip : Peers, load : Loads, fresh : BOOLEAN]
Message == [kind : {"submit"}, cid : ClusterId, payload : Payload]
           \cup [kind : {"result"}, cid : ClusterId, value : Payload]
NotWriting == [slot |-> MaxHistory, value |-> 0]

TypeOK ==
    /\ node_loads \in Seq(NodeLoad) /\ Len(node_loads) <= MaxNodes
    /\ load \in Loads
    /\ round_robin \in Nat
    /\ history \in [Ring -> Job]
    /\ history_write \in Ring
    /\ history_count \in 0 .. MaxHistory
    /\ next_job_id \in 1 .. MaxJobs + 1
    /\ cluster_next \in 1 .. MaxJobs + MaxManual + 1
    /\ net \in SUBSET Message
    /\ writing \in [slot : Ring, value : Payload] \cup {NotWriting}

-----------------------------------------------------------------------------
(* Load balancing *)

\* The entries of node_loads that pick_target considers, in table order
Candidates == {i \in 1 .. Len(node_loads) : node_loads[i].fresh}

\* Mutated form: prefers a busier peer.
BusierIsFirst(i) ==
    /\ node_loads[i].load > load
    /\ \A j \in Candidates : j < i => node_loads[j].load <= load

\* i is the first candidate with strictly less load than this node.
FirstIdler(i) ==
    /\ node_loads[i].load < load
    /\ \A j \in Candidates : j < i => node_loads[j].load >= load

\* i is the pick-th candidate.
IsPick(i, pick) == Cardinality({j \in Candidates : j <= i}) = pick

\* pick_target returns `target' and leaves the counter at `rr'.
PickTarget(target, rr) ==
    \/ /\ Candidates = {}
       /\ target = Local /\ rr = round_robin
    \/ \E i \in Candidates :
          FirstIdler(i) /\ target = node_loads[i].ip /\ rr = round_robin
    \/ /\ Candidates # {}
       /\ \A i \in Candidates : ~FirstIdler(i)
       /\ rr = round_robin + 1
       /\ LET pick == rr % (1 + Cardinality(Candidates))
          IN  \/ pick = 0 /\ target = Local
              \/ \E i \in Candidates : IsPick(i, pick) /\ target = node_loads[i].ip

\* The slot of node_loads that update_node_load writes: the node's own, else
\* the first invalid one; a report beyond MaxNodes nodes is dropped.
UpdateNodeLoad(ip, n) ==
    LET known == {i \in 1 .. Len(node_loads) : node_loads[i].ip = ip}
        entry == [ip |-> ip, load |-> n, fresh |-> TRUE]
    IN  IF known # {}
        THEN node_loads' = [i \in 1 .. Len(node_loads) |->
                              IF i \in known THEN entry ELSE node_loads[i]]
        ELSE node_loads' = IF Len(node_loads) < MaxNodes
                           THEN Append(node_loads, entry) ELSE node_loads

-----------------------------------------------------------------------------
(* History ring *)

\* (history_write + 1) % MAX_HISTORY
NextWrite == (history_write + 1) % MaxHistory

\* record_job, and the status and result that submit goes on to store in it.
RecordJob(target, status, result) ==
    /\ history' = [history EXCEPT ![history_write] =
         [id |-> next_job_id, status |-> status, result |-> result, target |-> target]]
    /\ history_write' = NextWrite
    /\ history_count' = IF history_count < MaxHistory THEN history_count + 1 ELSE history_count
    /\ next_job_id' = next_job_id + 1

\* Mutated form: ids are compared off by one.
FindJobBefore(id) == {s \in Ring : history[s].id + 1 = id /\ history[s].id # 0}

\* find_job: the slots whose entry has this id.
FindJob(id) == {s \in Ring : history[s].id = id /\ id # 0}

\* Mutated form: forgets that the full ring starts at history_write.
GetHistoryFromZero(idx) == history[idx]

\* get_history, for idx < history_count
GetHistory(idx) ==
    IF history_count < MaxHistory THEN history[idx]
    ELSE history[(history_write + idx) % MaxHistory]

\* Mutated form: walks from the oldest entry.
LastCompletedOldest(s) ==
    \E i \in Ring :
        /\ s = (history_write + i) % MaxHistory
        /\ history[s].id # 0 /\ history[s].status = "COMPLETED"
        /\ \A k \in 0 .. i - 1 :
             LET t == (history_write + k) % MaxHistory
             IN  history[t].id = 0 \/ history[t].status # "COMPLETED"

\* get_last_completed returns &history[s].
LastCompleted(s) ==
    \E i \in Ring :
        /\ s = (history_write + i) % MaxHistory
        /\ history[s].id # 0 /\ history[s].status = "COMPLETED"
        /\ \A k \in i + 1 .. MaxHistory - 1 :
             LET t == (history_write + k) % MaxHistory
             IN  history[t].id = 0 \/ history[t].status # "COMPLETED"

-----------------------------------------------------------------------------

Init ==
    /\ node_loads = <<>>
    /\ load \in Loads
    /\ round_robin = 0
    /\ history = [s \in Ring |-> [id |-> 0, status |-> "PENDING", result |-> 0, target |-> Local]]
    /\ history_write = 0
    /\ history_count = 0
    /\ next_job_id = 1
    /\ cluster_next = 1
    /\ net = {}
    /\ writing = NotWriting

\* The scheduler's task_count moves.
LoadChanges ==
    /\ load' \in Loads \ {load}
    /\ UNCHANGED <<node_loads, round_robin, history, history_write, history_count,
                   next_job_id, cluster_next, net, writing>>

\* MSG_LOAD_REPORT from a peer
LoadReport(ip, n) ==
    /\ writing = NotWriting
    /\ UpdateNodeLoad(ip, n)
    /\ UNCHANGED <<load, round_robin, history, history_write, history_count,
                   next_job_id, cluster_next, net, writing>>

\* More than 10000 ticks without a report from the node in slot i
LoadExpires(i) ==
    /\ node_loads[i].fresh
    /\ node_loads' = [node_loads EXCEPT ![i].fresh = FALSE]
    /\ UNCHANGED <<load, round_robin, history, history_write, history_count,
                   next_job_id, cluster_next, net, writing>>

\* Cluster::submit_job: an id of its own is used up whether or not send_udp
\* manages to send (it fails while the peer's MAC is unknown).
ClusterSubmit(payload, sent) ==
    /\ cluster_next' = cluster_next + 1
    /\ net' = IF sent
              THEN net \cup {[kind |-> "submit", cid |-> cluster_next, payload |-> payload]}
              ELSE net

\* DJob::submit: the `run' command
Submit ==
    /\ next_job_id <= MaxJobs
    /\ \E target \in Target, rr \in {round_robin, round_robin + 1} :
         /\ PickTarget(target, rr)
         /\ round_robin' = rr
         /\ \/ /\ target = Local
               /\ RecordJob(Local, "COMPLETED", next_job_id)
               /\ UNCHANGED <<cluster_next, net>>
            \/ /\ target # Local
               /\ \E sent \in BOOLEAN :
                    /\ ClusterSubmit(next_job_id, sent)
                    /\ RecordJob(target, IF sent THEN "RUNNING" ELSE "FAILED", 0)
    /\ UNCHANGED <<node_loads, load, writing>>

\* The `rjob' command: a job of Cluster's own
SubmitManual ==
    /\ cluster_next < next_job_id + MaxManual
    /\ \E sent \in BOOLEAN : ClusterSubmit(Manual, sent)
    /\ UNCHANGED <<node_loads, load, round_robin, history, history_write, history_count,
                   next_job_id, writing>>

\* execute_job on whichever peer the datagram went to
PeerExecutes(m) ==
    /\ m.kind = "submit"
    /\ net' = net \cup {[kind |-> "result", cid |-> m.cid, value |-> m.payload]}
    /\ UNCHANGED <<node_loads, load, round_robin, history, history_write, history_count,
                   next_job_id, cluster_next, writing>>

\* MSG_JOB_RESULT: on_remote_result up to its writes
ResultArrives(m) ==
    /\ writing = NotWriting
    /\ m.kind = "result"
    /\ writing' = IF \E s \in FindJob(m.cid) : history[s].status = "RUNNING"
                  THEN [slot |-> CHOOSE s \in FindJob(m.cid) : TRUE, value |-> m.value]
                  ELSE NotWriting
    /\ UNCHANGED <<node_loads, load, round_robin, history, history_write, history_count,
                   next_job_id, cluster_next, net>>

\* on_remote_result: the writes through the pointer
ResultStored ==
    /\ writing # NotWriting
    /\ history' = [history EXCEPT ![writing.slot].result = writing.value,
                                  ![writing.slot].status = "COMPLETED"]
    /\ writing' = NotWriting
    /\ UNCHANGED <<node_loads, load, round_robin, history_write, history_count,
                   next_job_id, cluster_next, net>>

Next ==
    \/ LoadChanges
    \/ \E ip \in Peers, n \in Loads : LoadReport(ip, n)
    \/ \E i \in 1 .. Len(node_loads) : LoadExpires(i)
    \/ Submit
    \/ SubmitManual
    \/ \E m \in net : PeerExecutes(m)
    \/ \E m \in net : ResultArrives(m)
    \/ ResultStored

Spec == Init /\ [][Next]_vars

-----------------------------------------------------------------------------
(* Properties *)

\* get_history lists the last history_count jobs, oldest first, with no gap:
\* job ids are consecutive whatever the ring position.
HistoryInOrder ==
    \A idx \in 0 .. history_count - 1 :
        GetHistory(idx).id + history_count = next_job_id + idx

\* get_last_completed finds the completed job that was submitted last, and
\* finds one whenever there is one.
LastCompletedIsLatest ==
    LET done == {s \in Ring : history[s].id # 0 /\ history[s].status = "COMPLETED"}
    IN  /\ \A s \in Ring : LastCompleted(s) =>
              \A t \in done : history[t].id <= history[s].id
        /\ done # {} => \E s \in done : LastCompleted(s)

\* A job leaves this node only for a node whose load report is fresh, and it
\* never stays here, nor goes to a node as busy as this one, while a fresh
\* report shows a strictly less loaded node.
TargetIsFreshAndIdler ==
    [][next_job_id' # next_job_id =>
         LET target == history'[history_write].target
             fresh == {i \in 1 .. Len(node_loads) : node_loads[i].fresh}
             idler == {i \in fresh : node_loads[i].load < load}
         IN  /\ target # Local => \E i \in fresh : node_loads[i].ip = target
             /\ idler # {} => \E i \in idler : node_loads[i].ip = target]_vars

\* Every completed job shows the result of its own payload.
ResultsMatch ==
    \A s \in Ring : history[s].id # 0 /\ history[s].status = "COMPLETED" =>
        history[s].result = history[s].id

\* Results reach the right job under any loss, delay, reordering and
\* duplication, as long as Cluster's ids happen to equal DJob's (every job so
\* far went to a peer and no rjob was typed) and the ring has not wrapped.
Aligned ==
    /\ \A m \in net : m.kind = "submit" => m.cid = m.payload
    /\ next_job_id <= MaxHistory + 1
AlignedResultsMatch == Aligned => ResultsMatch
=============================================================================
