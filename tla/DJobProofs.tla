----------------------------- MODULE DJobProofs -----------------------------
(***************************************************************************)
(* Proofs about DJob for every ring size, number of peers and number of    *)
(* jobs: types, the order of the history ring, the last completed job, the *)
(* routing of results and the choice of the target.                        *)
(***************************************************************************)
EXTENDS DJob, WellFoundedInduction, TLAPS

\* Cluster's counter is never further ahead of DJob's than rjob pushed it.
CounterInv == cluster_next <= next_job_id + MaxManual

\* Where each job is: until the ring has been filled once, job k is in slot
\* k - 1 and the rest is empty; then the ids ascend from history_write.
RingInv ==
    IF history_count < MaxHistory
    THEN /\ history_write = history_count
         /\ next_job_id = history_count + 1
         /\ \A s \in Ring : history[s].id = IF s < history_count THEN s + 1 ELSE 0
    ELSE /\ next_job_id > MaxHistory
         /\ \A s \in Ring :
              history[s].id + history_write =
                IF s < history_write THEN next_job_id + s ELSE next_job_id + s - MaxHistory

\* A result answers a submission; while the ids are aligned the pointer that
\* net-poll holds is the job the result belongs to.
RouteInv ==
    /\ \A r \in net : r.kind = "result" =>
          \E m \in net : m.kind = "submit" /\ m.cid = r.cid /\ m.payload = r.value
    /\ Aligned /\ writing # NotWriting =>
          writing.value # 0 /\ history[writing.slot].id = writing.value
    /\ AlignedResultsMatch

Inv == TypeOK /\ CounterInv /\ RingInv /\ RouteInv

-----------------------------------------------------------------------------

\* (w + k) % MAX_HISTORY for a ring position w and k at most MAX_HISTORY.
LEMMA RingMod ==
    ASSUME NEW w \in Ring, NEW k \in 0 .. MaxHistory
    PROVE  (w + k) % MaxHistory = IF w + k < MaxHistory THEN w + k ELSE w + k - MaxHistory
BY BoundsAssumption DEF Ring

\* The write position stays in the ring.
LEMMA NextWriteFact ==
    ASSUME TypeOK
    PROVE  NextWrite = IF history_write < MaxHistory - 1 THEN history_write + 1 ELSE 0
<1>1. 1 \in 0 .. MaxHistory /\ history_write \in Ring
  BY BoundsAssumption DEF TypeOK
<1>2. (history_write + 1) % MaxHistory =
        IF history_write + 1 < MaxHistory THEN history_write + 1 ELSE history_write + 1 - MaxHistory
  BY <1>1, RingMod
<1> QED BY <1>1, <1>2, BoundsAssumption DEF NextWrite, Ring

\* What record_job leaves behind.
LEMMA RecordFact ==
    ASSUME TypeOK, next_job_id <= MaxJobs,
           NEW target \in Target, NEW status \in Status, NEW result \in Payload,
           RecordJob(target, status, result)
    PROVE  /\ history' \in [Ring -> Job] /\ history_write' \in Ring
           /\ history_count' \in 0 .. MaxHistory /\ next_job_id' \in 1 .. MaxJobs + 1
           /\ \A s \in Ring : history'[s] =
                IF s = history_write
                THEN [id |-> next_job_id, status |-> status, result |-> result, target |-> target]
                ELSE history[s]
<1>1. [id |-> next_job_id, status |-> status, result |-> result, target |-> target] \in Job
  BY BoundsAssumption DEF TypeOK, Job, JobId
<1>2. history_write' \in Ring
  BY NextWriteFact, BoundsAssumption DEF RecordJob, Ring, TypeOK
<1> QED BY <1>1, <1>2, BoundsAssumption DEF RecordJob, TypeOK

\* Both counters and the datagram of a job that is sent.
LEMMA ClusterSubmitFact ==
    ASSUME TypeOK, CounterInv, NEW payload \in Payload, NEW sent \in BOOLEAN,
           cluster_next <= MaxJobs + MaxManual,
           ClusterSubmit(payload, sent)
    PROVE  /\ cluster_next' \in 1 .. MaxJobs + MaxManual + 1
           /\ net' \in SUBSET Message
           /\ net \subseteq net'
           /\ \A m \in net' : m \in net \/ m.kind = "submit"
<1>1. cluster_next' \in 1 .. MaxJobs + MaxManual + 1
  BY BoundsAssumption DEF ClusterSubmit, TypeOK
<1>2. [kind |-> "submit", cid |-> cluster_next, payload |-> payload] \in Message
  BY BoundsAssumption DEF TypeOK, Message, ClusterId
<1> QED BY <1>1, <1>2 DEF ClusterSubmit, TypeOK

\* The three ways a `run' command ends.
LEMMA SubmitCases ==
    ASSUME TypeOK, CounterInv, Submit
    PROVE  /\ next_job_id <= MaxJobs
           /\ round_robin' \in Nat
           /\ UNCHANGED <<node_loads, load, writing>>
           /\ \/ /\ RecordJob(Local, "COMPLETED", next_job_id)
                 /\ UNCHANGED <<cluster_next, net>>
              \/ \E target \in Peers, sent \in BOOLEAN :
                    /\ ClusterSubmit(next_job_id, sent)
                    /\ RecordJob(target, IF sent THEN "RUNNING" ELSE "FAILED", 0)
<1>1. PICK target \in Target, rr \in {round_robin, round_robin + 1} :
        /\ round_robin' = rr
        /\ \/ /\ target = Local
              /\ RecordJob(Local, "COMPLETED", next_job_id)
              /\ UNCHANGED <<cluster_next, net>>
           \/ /\ target # Local
              /\ \E sent \in BOOLEAN :
                   /\ ClusterSubmit(next_job_id, sent)
                   /\ RecordJob(target, IF sent THEN "RUNNING" ELSE "FAILED", 0)
  BY DEF Submit
<1>2. round_robin' \in Nat
  BY <1>1 DEF TypeOK
<1>3. next_job_id <= MaxJobs /\ UNCHANGED <<node_loads, load, writing>>
  BY DEF Submit
<1>4. target # Local => target \in Peers
  BY DEF Target
<1> QED BY <1>1, <1>2, <1>3, <1>4

\* The ring is empty and nothing was sent when _start has called DJob::init.
LEMMA InitInv == Init => Inv
<1> SUFFICES ASSUME Init PROVE Inv
  OBVIOUS
<1>1. TypeOK
  <2>1. [id |-> 0, status |-> "PENDING", result |-> 0, target |-> Local] \in Job
    BY BoundsAssumption DEF Job, JobId, Status, Payload, Target
  <2>2. history \in [Ring -> Job]
    BY <2>1 DEF Init
  <2>3. node_loads \in Seq(NodeLoad) /\ Len(node_loads) <= MaxNodes
    BY BoundsAssumption DEF Init
  <2>4. /\ history_write \in Ring /\ history_count \in 0 .. MaxHistory
        /\ next_job_id \in 1 .. MaxJobs + 1 /\ cluster_next \in 1 .. MaxJobs + MaxManual + 1
        /\ round_robin \in Nat
    BY BoundsAssumption DEF Init, Ring
  <2>5. load \in Loads /\ net \in SUBSET Message /\ writing = NotWriting
    BY DEF Init
  <2> QED BY <2>2, <2>3, <2>4, <2>5 DEF TypeOK
<1>2. CounterInv /\ RingInv
  BY BoundsAssumption DEF Init, CounterInv, RingInv, Ring
<1>3. RouteInv
  BY DEF Init, RouteInv, AlignedResultsMatch, ResultsMatch
<1> QED BY <1>1, <1>2, <1>3 DEF Inv

\* Type correctness and the distance between the counters.
LEMMA TypeStep == Inv /\ [Next]_vars => TypeOK' /\ CounterInv'
<1> SUFFICES ASSUME Inv, [Next]_vars PROVE TypeOK' /\ CounterInv'
  OBVIOUS
<1>0. TypeOK /\ CounterInv
  BY DEF Inv
<1>1. CASE LoadChanges
  BY <1>0, <1>1 DEF LoadChanges, TypeOK, CounterInv
<1>2. ASSUME NEW ip \in Peers, NEW n \in Loads, LoadReport(ip, n) PROVE TypeOK' /\ CounterInv'
  <2>1. [ip |-> ip, load |-> n, fresh |-> TRUE] \in NodeLoad
    BY DEF NodeLoad
  <2>2. node_loads' \in Seq(NodeLoad) /\ Len(node_loads') <= MaxNodes
    <3> DEFINE entry == [ip |-> ip, load |-> n, fresh |-> TRUE]
               known == {i \in 1 .. Len(node_loads) : node_loads[i].ip = ip}
    <3>1. entry \in NodeLoad /\ node_loads \in Seq(NodeLoad) /\ Len(node_loads) <= MaxNodes
      BY <1>0, <2>1 DEF TypeOK
    <3>2. /\ known # {} => node_loads' = [i \in 1 .. Len(node_loads) |->
                                           IF i \in known THEN entry ELSE node_loads[i]]
          /\ known = {} => node_loads' = IF Len(node_loads) < MaxNodes
                                          THEN Append(node_loads, entry) ELSE node_loads
      BY <1>2 DEF LoadReport, UpdateNodeLoad
    <3> HIDE DEF entry, known
    <3>3. CASE known # {}
      <4>1. Len(node_loads) \in Nat /\ \A i \in 1 .. Len(node_loads) : node_loads[i] \in NodeLoad
        BY <3>1
      <4>2. node_loads' \in [1 .. Len(node_loads) -> NodeLoad]
        BY <3>1, <3>2, <3>3, <4>1
      <4>3. node_loads' \in Seq(NodeLoad) /\ Len(node_loads') = Len(node_loads)
        BY <4>1, <4>2
      <4> QED BY <3>1, <4>3
    <3>4. CASE known = {}
      <4>1. /\ Append(node_loads, entry) \in Seq(NodeLoad)
            /\ Len(Append(node_loads, entry)) = Len(node_loads) + 1
            /\ Len(node_loads) \in Nat
        BY <3>1
      <4>2. CASE Len(node_loads) < MaxNodes
        <5>1. node_loads' = Append(node_loads, entry)
          BY <3>2, <3>4, <4>2
        <5>2. Len(node_loads) + 1 <= MaxNodes
          BY <4>1, <4>2, BoundsAssumption
        <5> QED BY <4>1, <5>1, <5>2
      <4>3. CASE ~(Len(node_loads) < MaxNodes)
        BY <3>1, <3>2, <3>4, <4>3
      <4> QED BY <4>2, <4>3
    <3> QED BY <3>3, <3>4
  <2> QED BY <1>0, <1>2, <2>2 DEF LoadReport, TypeOK, CounterInv
<1>3. ASSUME NEW i \in 1 .. Len(node_loads), LoadExpires(i) PROVE TypeOK' /\ CounterInv'
  <2>1. node_loads[i] \in NodeLoad
    BY <1>0 DEF TypeOK
  <2>2. [node_loads[i] EXCEPT !.fresh = FALSE] \in NodeLoad
    BY <2>1 DEF NodeLoad
  <2>3. node_loads' \in Seq(NodeLoad) /\ Len(node_loads') <= MaxNodes
    BY <1>0, <1>3, <2>2 DEF LoadExpires, TypeOK
  <2> QED BY <1>0, <1>3, <2>3 DEF LoadExpires, TypeOK, CounterInv
<1>4. CASE Submit
  <2>1. CASE RecordJob(Local, "COMPLETED", next_job_id) /\ UNCHANGED <<cluster_next, net>>
    <3>1. /\ Local \in Target /\ "COMPLETED" \in Status /\ next_job_id \in Payload
          /\ next_job_id <= MaxJobs
      BY <1>0, <1>4, SubmitCases DEF Target, Status, Payload, TypeOK
    <3>2. /\ history' \in [Ring -> Job] /\ history_write' \in Ring
          /\ history_count' \in 0 .. MaxHistory /\ next_job_id' \in 1 .. MaxJobs + 1
      BY <1>0, <2>1, <3>1, RecordFact
    <3>3. next_job_id' = next_job_id + 1
      BY <2>1 DEF RecordJob
    <3> QED BY <1>0, <1>4, <2>1, <3>2, <3>3, SubmitCases, BoundsAssumption DEF TypeOK, CounterInv
  <2>2. ASSUME NEW target \in Peers, NEW sent \in BOOLEAN,
               ClusterSubmit(next_job_id, sent),
               RecordJob(target, IF sent THEN "RUNNING" ELSE "FAILED", 0)
        PROVE  TypeOK' /\ CounterInv'
    <3>1. /\ target \in Target /\ (IF sent THEN "RUNNING" ELSE "FAILED") \in Status
          /\ 0 \in Payload /\ next_job_id \in Payload
          /\ next_job_id <= MaxJobs /\ cluster_next <= MaxJobs + MaxManual
      BY <1>0, <1>4, SubmitCases, BoundsAssumption DEF Target, Status, Payload, TypeOK, CounterInv
    <3>2. /\ history' \in [Ring -> Job] /\ history_write' \in Ring
          /\ history_count' \in 0 .. MaxHistory /\ next_job_id' \in 1 .. MaxJobs + 1
      BY <1>0, <2>2, <3>1, RecordFact
    <3>3. cluster_next' \in 1 .. MaxJobs + MaxManual + 1 /\ net' \in SUBSET Message
      BY <1>0, <2>2, <3>1, ClusterSubmitFact
    <3>4. next_job_id' = next_job_id + 1 /\ cluster_next' = cluster_next + 1
      BY <2>2 DEF RecordJob, ClusterSubmit
    <3>5. CounterInv'
      BY <1>0, <3>4, BoundsAssumption DEF CounterInv, TypeOK
    <3> QED BY <1>0, <1>4, <3>2, <3>3, <3>5, SubmitCases DEF TypeOK
  <2> QED BY <1>0, <1>4, <2>1, <2>2, SubmitCases
<1>5. CASE SubmitManual
  <2>1. PICK sent \in BOOLEAN : ClusterSubmit(Manual, sent)
    BY <1>5 DEF SubmitManual
  <2>2. cluster_next <= MaxJobs + MaxManual /\ Manual \in Payload
    BY <1>0, <1>5, BoundsAssumption DEF SubmitManual, TypeOK, Manual, Payload
  <2>3. cluster_next' \in 1 .. MaxJobs + MaxManual + 1 /\ net' \in SUBSET Message
    BY <1>0, <2>1, <2>2, ClusterSubmitFact
  <2>4. CounterInv'
    BY <1>0, <1>5, <2>1, BoundsAssumption DEF SubmitManual, ClusterSubmit, CounterInv, TypeOK
  <2> QED BY <1>0, <1>5, <2>3, <2>4 DEF SubmitManual, TypeOK
<1>6. ASSUME NEW m \in net, PeerExecutes(m) PROVE TypeOK' /\ CounterInv'
  <2>1. m \in Message /\ m.kind = "submit"
    BY <1>0, <1>6 DEF PeerExecutes, TypeOK
  <2>2. m.cid \in ClusterId /\ m.payload \in Payload
    BY <2>1 DEF Message
  <2>3. [kind |-> "result", cid |-> m.cid, value |-> m.payload] \in Message
    BY <2>2 DEF Message
  <2> QED BY <1>0, <1>6, <2>3 DEF PeerExecutes, TypeOK, CounterInv
<1>7. ASSUME NEW m \in net, ResultArrives(m) PROVE TypeOK' /\ CounterInv'
  <2>1. m \in Message /\ m.kind = "result"
    BY <1>0, <1>7 DEF ResultArrives, TypeOK
  <2>2. m.value \in Payload
    BY <2>1 DEF Message
  <2>3. (\E s \in FindJob(m.cid) : history[s].status = "RUNNING") =>
          (CHOOSE s \in FindJob(m.cid) : TRUE) \in Ring
    BY DEF FindJob
  <2>4. writing' \in [slot : Ring, value : Payload] \cup {NotWriting}
    BY <1>7, <2>2, <2>3 DEF ResultArrives
  <2> QED BY <1>0, <1>7, <2>4 DEF ResultArrives, TypeOK, CounterInv
<1>8. CASE ResultStored
  <2>1. writing.slot \in Ring /\ writing.value \in Payload
    BY <1>0, <1>8 DEF ResultStored, TypeOK
  <2>2. history[writing.slot] \in Job
    BY <1>0, <2>1 DEF TypeOK
  <2>3. history' \in [Ring -> Job]
    BY <1>0, <1>8, <2>1, <2>2 DEF ResultStored, TypeOK, Job, Status
  <2> QED BY <1>0, <1>8, <2>3 DEF ResultStored, TypeOK, CounterInv
<1>9. CASE UNCHANGED vars
  BY <1>0, <1>9 DEF vars, TypeOK, CounterInv
<1> QED BY <1>1, <1>2, <1>3, <1>4, <1>5, <1>6, <1>7, <1>8, <1>9 DEF Next

\* The ring keeps its order: only record_job changes an id.
LEMMA RingStep == Inv /\ [Next]_vars => RingInv'
<1> SUFFICES ASSUME Inv, [Next]_vars PROVE RingInv'
  OBVIOUS
<1>0. TypeOK /\ CounterInv /\ RingInv
  BY DEF Inv
<1>1. CASE Submit
  <2>1. PICK target \in Target, status \in Status, result \in Payload :
          RecordJob(target, status, result)
    <3>1. next_job_id \in Payload /\ 0 \in Payload /\ Local \in Target
      BY <1>0, <1>1, SubmitCases, BoundsAssumption DEF TypeOK, Payload, Target
    <3>2. Peers \subseteq Target /\ {"COMPLETED", "RUNNING", "FAILED"} \subseteq Status
      BY DEF Target, Status
    <3>3. ASSUME NEW t \in Peers, NEW sent \in BOOLEAN,
                 RecordJob(t, IF sent THEN "RUNNING" ELSE "FAILED", 0)
          PROVE  \E target \in Target, status \in Status, result \in Payload :
                    RecordJob(target, status, result)
      <4>1. (IF sent THEN "RUNNING" ELSE "FAILED") \in Status
        BY <3>2
      <4> QED BY <3>1, <3>2, <3>3, <4>1
    <3> QED BY <1>0, <1>1, <3>1, <3>2, <3>3, SubmitCases
  <2>2. /\ next_job_id' = next_job_id + 1
        /\ history_count' = IF history_count < MaxHistory THEN history_count + 1 ELSE history_count
        /\ history_write' = IF history_write < MaxHistory - 1 THEN history_write + 1 ELSE 0
    BY <1>0, <2>1, NextWriteFact DEF RecordJob
  <2>3. next_job_id <= MaxJobs
    BY <1>0, <1>1, SubmitCases
  <2>4. \A s \in Ring : history'[s].id = IF s = history_write THEN next_job_id ELSE history[s].id
    <3>1. \A s \in Ring : history'[s] =
            IF s = history_write
            THEN [id |-> next_job_id, status |-> status, result |-> result, target |-> target]
            ELSE history[s]
      BY <1>0, <2>1, <2>3, RecordFact
    <3> QED BY <3>1
  <2>5. /\ history_write \in Ring /\ history_count \in 0 .. MaxHistory /\ next_job_id \in Nat
        /\ \A s \in Ring : history[s].id \in Nat
    BY <1>0, BoundsAssumption DEF TypeOK, Job, JobId
  <2>6. CASE history_count + 1 < MaxHistory
    BY <1>0, <2>2, <2>4, <2>5, <2>6, BoundsAssumption DEF RingInv, Ring
  <2>7. CASE history_count + 1 = MaxHistory
    BY <1>0, <2>2, <2>4, <2>5, <2>7, BoundsAssumption DEF RingInv, Ring
  <2>8. CASE history_count = MaxHistory
    <3>1. /\ ~(history_count < MaxHistory) /\ ~(history_count' < MaxHistory) /\ MaxHistory \in Nat \ {0}
          /\ next_job_id > MaxHistory /\ next_job_id' > MaxHistory /\ Ring = 0 .. MaxHistory - 1
      BY <1>0, <2>2, <2>5, <2>8, BoundsAssumption DEF RingInv, Ring
    <3>2. ASSUME NEW s \in Ring
          PROVE  history'[s].id + history_write' =
                   IF s < history_write' THEN next_job_id' + s ELSE next_job_id' + s - MaxHistory
      <4>1. history[s].id + history_write =
              IF s < history_write THEN next_job_id + s ELSE next_job_id + s - MaxHistory
        BY <1>0, <3>1 DEF RingInv
      <4>2. CASE s = history_write
        BY <2>2, <2>4, <2>5, <3>1, <4>2
      <4>3. CASE s # history_write
        <5>1. /\ history_write \in 0 .. MaxHistory - 1 /\ s \in 0 .. MaxHistory - 1 /\ next_job_id \in Nat
              /\ history[s].id \in Nat /\ history'[s].id = history[s].id
          BY <2>4, <2>5, <3>1, <4>3
        <5>2. history_write' \in 0 .. MaxHistory - 1
          BY <2>2, <3>1, <5>1
        <5>3. history[s].id + history_write' =
                IF s < history_write' THEN next_job_id + 1 + s ELSE next_job_id + 1 + s - MaxHistory
          <6> DEFINE m == MaxHistory
                     w == history_write
                     v == history_write'
                     j == next_job_id
                     id == history[s].id
          <6>1. /\ m \in Nat \ {0} /\ w \in 0 .. m - 1 /\ s \in 0 .. m - 1 /\ s # w /\ j \in Nat /\ id \in Nat
                /\ v \in 0 .. m - 1 /\ v = (IF w < m - 1 THEN w + 1 ELSE 0)
                /\ id + w = IF s < w THEN j + s ELSE j + s - m
            BY <2>2, <3>1, <4>1, <4>3, <5>1, <5>2
          <6> HIDE DEF m, w, v, j, id
          <6>2. id + v = IF s < v THEN j + 1 + s ELSE j + 1 + s - m
            BY <6>1
          <6> QED BY <6>2 DEF m, v, j, id
        <5> QED BY <2>2, <5>1, <5>3
      <4> QED BY <4>2, <4>3
    <3> QED BY <3>1, <3>2 DEF RingInv
  <2> QED BY <2>5, <2>6, <2>7, <2>8, BoundsAssumption
<1>2. CASE ResultStored
  <2>1. writing.slot \in Ring
    BY <1>0, <1>2 DEF ResultStored, TypeOK
  <2>2. \A s \in Ring : history'[s].id = history[s].id
    BY <1>0, <1>2, <2>1 DEF ResultStored, TypeOK, Job
  <2> QED BY <1>0, <1>2, <2>2 DEF ResultStored, RingInv
<1>3. CASE UNCHANGED <<history, history_write, history_count, next_job_id>>
  BY <1>0, <1>3 DEF RingInv
<1> QED BY <1>1, <1>2, <1>3 DEF Next, vars, LoadChanges, LoadReport, LoadExpires,
           SubmitManual, PeerExecutes, ResultArrives

\* While the ids are aligned a result finds its own job.
LEMMA RouteStep == Inv /\ [Next]_vars => RouteInv'
<1> SUFFICES ASSUME Inv, [Next]_vars PROVE RouteInv'
  OBVIOUS
<1>0. TypeOK /\ CounterInv /\ RingInv /\ RouteInv
  BY DEF Inv
<1>1. CASE Submit
  <2>1. ASSUME NEW target \in Target, NEW status \in Status, NEW result \in Payload,
               RecordJob(target, status, result),
               status = "COMPLETED" => result = next_job_id,
               net \subseteq net',
               \A m \in net' : m \in net \/ m.kind = "submit"
        PROVE  RouteInv'
    <3>1. next_job_id <= MaxJobs /\ writing' = writing /\ next_job_id' = next_job_id + 1
      BY <1>0, <1>1, <2>1, SubmitCases DEF RecordJob
    <3>2. \A s \in Ring : history'[s] =
             IF s = history_write
             THEN [id |-> next_job_id, status |-> status, result |-> result, target |-> target]
             ELSE history[s]
      BY <1>0, <2>1, <3>1, RecordFact
    <3>3. \A r \in net' : r.kind = "result" =>
             \E m \in net' : m.kind = "submit" /\ m.cid = r.cid /\ m.payload = r.value
      BY <1>0, <2>1 DEF RouteInv
    <3>4. ASSUME Aligned' PROVE Aligned /\ history[history_write].id = 0
      <4>1. Aligned /\ next_job_id <= MaxHistory
        BY <1>0, <2>1, <3>1, <3>4, BoundsAssumption DEF Aligned, TypeOK
      <4>2. history_count < MaxHistory
        BY <1>0, <4>1, BoundsAssumption DEF RingInv, TypeOK
      <4> QED BY <1>0, <4>1, <4>2, BoundsAssumption DEF RingInv, TypeOK, Ring
    <3>5. Aligned' /\ writing' # NotWriting =>
             writing'.value # 0 /\ history'[writing'.slot].id = writing'.value
      BY <1>0, <3>1, <3>2, <3>4 DEF RouteInv, TypeOK
    <3>6. AlignedResultsMatch'
      <4> SUFFICES ASSUME Aligned', NEW s \in Ring,
                          history'[s].id # 0, history'[s].status = "COMPLETED"
                   PROVE  history'[s].result = history'[s].id
        BY DEF AlignedResultsMatch, ResultsMatch
      <4> QED BY <1>0, <2>1, <3>2, <3>4 DEF RouteInv, AlignedResultsMatch, ResultsMatch
    <3> QED BY <3>3, <3>5, <3>6 DEF RouteInv
  <2>2. CASE RecordJob(Local, "COMPLETED", next_job_id) /\ UNCHANGED <<cluster_next, net>>
    <3>1. Local \in Target /\ "COMPLETED" \in Status /\ next_job_id \in Payload
      BY <1>0, <1>1, SubmitCases DEF Target, Status, Payload, TypeOK
    <3> QED BY <2>1, <2>2, <3>1
  <2>3. ASSUME NEW target \in Peers, NEW sent \in BOOLEAN,
               ClusterSubmit(next_job_id, sent),
               RecordJob(target, IF sent THEN "RUNNING" ELSE "FAILED", 0)
        PROVE  RouteInv'
    <3>1. /\ target \in Target /\ (IF sent THEN "RUNNING" ELSE "FAILED") \in Status
          /\ (IF sent THEN "RUNNING" ELSE "FAILED") # "COMPLETED"
          /\ 0 \in Payload /\ next_job_id \in Payload
          /\ cluster_next <= MaxJobs + MaxManual
      BY <1>0, <1>1, SubmitCases, BoundsAssumption DEF Target, Status, Payload, TypeOK, CounterInv
    <3>2. net \subseteq net' /\ \A m \in net' : m \in net \/ m.kind = "submit"
      BY <1>0, <2>3, <3>1, ClusterSubmitFact
    <3> QED BY <2>1, <2>3, <3>1, <3>2
  <2> QED BY <1>0, <1>1, <2>2, <2>3, SubmitCases
<1>2. ASSUME net \subseteq net',
             \A r \in net' : r.kind = "result" =>
                \E m \in net' : m.kind = "submit" /\ m.cid = r.cid /\ m.payload = r.value,
             UNCHANGED <<history, next_job_id, writing>>
      PROVE  RouteInv'
  <2>1. Aligned' => Aligned
    BY <1>2 DEF Aligned
  <2> QED BY <1>0, <1>2, <2>1 DEF RouteInv, AlignedResultsMatch, ResultsMatch
<1>3. CASE UNCHANGED <<history, next_job_id, writing, net>>
  BY <1>0, <1>2, <1>3 DEF RouteInv
<1>4. CASE SubmitManual
  <2>1. PICK sent \in BOOLEAN : ClusterSubmit(Manual, sent)
    BY <1>4 DEF SubmitManual
  <2>2. cluster_next <= MaxJobs + MaxManual /\ Manual \in Payload
    BY <1>0, <1>4, BoundsAssumption DEF SubmitManual, TypeOK, Manual, Payload
  <2>3. net \subseteq net' /\ \A m \in net' : m \in net \/ m.kind = "submit"
    BY <1>0, <2>1, <2>2, ClusterSubmitFact
  <2>4. \A r \in net' : r.kind = "result" =>
           \E m \in net' : m.kind = "submit" /\ m.cid = r.cid /\ m.payload = r.value
    BY <1>0, <2>3 DEF RouteInv
  <2> QED BY <1>2, <1>4, <2>3, <2>4 DEF SubmitManual
<1>5. ASSUME NEW m \in net, PeerExecutes(m) PROVE RouteInv'
  <2> DEFINE res == [kind |-> "result", cid |-> m.cid, value |-> m.payload]
  <2>1. net' = net \cup {res} /\ m \in net' /\ m.kind = "submit"
    BY <1>5 DEF PeerExecutes
  <2>2. res.cid = m.cid /\ res.value = m.payload
    OBVIOUS
  <2> HIDE DEF res
  <2>3. \A r \in net' : r.kind = "result" =>
           \E q \in net' : q.kind = "submit" /\ q.cid = r.cid /\ q.payload = r.value
    BY <1>0, <2>1, <2>2 DEF RouteInv
  <2>4. UNCHANGED <<history, next_job_id, writing>>
    BY <1>5 DEF PeerExecutes
  <2> QED BY <1>2, <2>1, <2>3, <2>4
<1>6. ASSUME NEW r \in net, ResultArrives(r) PROVE RouteInv'
  <2>1. UNCHANGED <<history, next_job_id, net>> /\ r.kind = "result"
    BY <1>6 DEF ResultArrives
  <2>2. ASSUME Aligned', writing' # NotWriting
        PROVE  writing'.value # 0 /\ history'[writing'.slot].id = writing'.value
    <3>1. Aligned
      BY <2>1, <2>2 DEF Aligned
    <3>2. r.cid = r.value
      <4>1. PICK m \in net : m.kind = "submit" /\ m.cid = r.cid /\ m.payload = r.value
        BY <1>0, <2>1 DEF RouteInv
      <4> QED BY <3>1, <4>1 DEF Aligned
    <3>3. \E s \in FindJob(r.cid) : history[s].status = "RUNNING"
      BY <1>6, <2>2 DEF ResultArrives
    <3>4. (CHOOSE s \in FindJob(r.cid) : TRUE) \in FindJob(r.cid)
      BY <3>3
    <3>5. writing' = [slot |-> CHOOSE s \in FindJob(r.cid) : TRUE, value |-> r.value]
      BY <1>6, <3>3 DEF ResultArrives
    <3>6. history[writing'.slot].id = r.cid /\ r.cid # 0
      BY <3>4, <3>5 DEF FindJob
    <3> QED BY <2>1, <3>2, <3>5, <3>6
  <2>3. AlignedResultsMatch'
    BY <1>0, <2>1 DEF RouteInv, AlignedResultsMatch, Aligned, ResultsMatch
  <2> QED BY <1>0, <2>1, <2>2, <2>3 DEF RouteInv
<1>7. CASE ResultStored
  <2>1. writing.slot \in Ring /\ writing # NotWriting /\ writing' = NotWriting /\ UNCHANGED <<next_job_id, net>>
    BY <1>0, <1>7 DEF ResultStored, TypeOK
  <2>2. \A s \in Ring : /\ history'[s].id = history[s].id
                        /\ s # writing.slot => history'[s] = history[s]
    BY <1>0, <1>7, <2>1 DEF ResultStored, TypeOK, Job
  <2>3. history'[writing.slot].result = writing.value
    BY <1>0, <1>7, <2>1 DEF ResultStored, TypeOK, Job
  <2>4. Aligned' => Aligned
    BY <2>1 DEF Aligned
  <2>5. AlignedResultsMatch'
    <3> SUFFICES ASSUME Aligned', NEW s \in Ring,
                        history'[s].id # 0, history'[s].status = "COMPLETED"
                 PROVE  history'[s].result = history'[s].id
      BY DEF AlignedResultsMatch, ResultsMatch
    <3>0. Aligned
      BY <2>4
    <3>1. history[writing.slot].id = writing.value
      BY <1>0, <2>1, <3>0 DEF RouteInv
    <3>2. ResultsMatch
      BY <1>0, <3>0 DEF RouteInv, AlignedResultsMatch
    <3>3. CASE s = writing.slot
      BY <2>1, <2>2, <2>3, <3>1, <3>3
    <3>4. CASE s # writing.slot
      <4>1. history'[s] = history[s]
        BY <2>2, <3>4
      <4> QED BY <3>2, <4>1 DEF ResultsMatch
    <3> QED BY <3>3, <3>4
  <2> QED BY <1>0, <2>1, <2>5 DEF RouteInv
<1> QED BY <1>1, <1>3, <1>4, <1>5, <1>6, <1>7 DEF Next, vars, LoadChanges, LoadReport, LoadExpires

\* Inv is an invariant of the specification.
LEMMA Invariance == Spec => []Inv
<1>1. Inv /\ [Next]_vars => Inv'
  BY TypeStep, RingStep, RouteStep DEF Inv
<1> QED BY InitInv, <1>1, PTL DEF Spec

-----------------------------------------------------------------------------

\* The ring, the load table, the counters and net-poll's pointer stay within
\* their types: in particular record_job never writes outside history.
THEOREM TypeCorrect == Spec => []TypeOK
<1>1. Inv => TypeOK
  BY DEF Inv
<1> QED BY <1>1, Invariance, PTL

\* The `jobs' listing is the last history_count jobs, oldest first, for every
\* ring size and after any number of wraps.
THEOREM HistoryOrdered == Spec => []HistoryInOrder
<1>1. Inv => HistoryInOrder
  <2> SUFFICES ASSUME Inv, NEW idx \in 0 .. history_count - 1
               PROVE  GetHistory(idx).id + history_count = next_job_id + idx
    BY DEF HistoryInOrder
  <2>1. /\ history_write \in Ring /\ history_count \in 0 .. MaxHistory /\ next_job_id \in Nat
        /\ \A s \in Ring : history[s].id \in Nat
    BY BoundsAssumption DEF Inv, TypeOK, Job, JobId
  <2>2. CASE history_count < MaxHistory
    BY <2>1, <2>2, BoundsAssumption DEF Inv, RingInv, GetHistory, Ring
  <2>3. CASE history_count = MaxHistory
    <3>1. idx \in 0 .. MaxHistory
      BY <2>3, BoundsAssumption
    <3>2. (history_write + idx) % MaxHistory =
            IF history_write + idx < MaxHistory THEN history_write + idx
            ELSE history_write + idx - MaxHistory
      BY <2>1, <3>1, RingMod
    <3> DEFINE s == (history_write + idx) % MaxHistory
    <3>3. s \in Ring /\ s = IF history_write + idx < MaxHistory THEN history_write + idx
                             ELSE history_write + idx - MaxHistory
      BY <2>1, <2>3, <3>2, BoundsAssumption DEF Ring
    <3>4. GetHistory(idx) = history[s]
      BY <2>1, <2>3, BoundsAssumption DEF GetHistory
    <3> HIDE DEF s
    <3>5. history[s].id + history_write =
             IF s < history_write THEN next_job_id + s ELSE next_job_id + s - MaxHistory
      BY <2>3, <3>3, BoundsAssumption DEF Inv, RingInv
    <3> QED BY <2>1, <2>3, <3>3, <3>4, <3>5, BoundsAssumption DEF Ring
  <2> QED BY <2>1, <2>2, <2>3, BoundsAssumption
<1> QED BY <1>1, Invariance, PTL

\* However the network treats the datagrams, and wherever a command interrupts
\* net-poll, results reach their own job while the two id counters agree.
THEOREM AlignedRouting == Spec => []AlignedResultsMatch
<1>1. Inv => AlignedResultsMatch
  BY DEF Inv, RouteInv
<1> QED BY <1>1, Invariance, PTL

-----------------------------------------------------------------------------
(* What the loops over the ring and over the load table find *)

\* A non-empty set of numbers has a least one.
LEMMA LeastExists ==
    ASSUME NEW S \in SUBSET Nat, S # {}
    PROVE  \E x \in S : \A y \in S : x <= y
<1> DEFINE R == OpToRel(<, Nat)
<1>1. IsWellFoundedOn(R, Nat)
  BY NatLessThanWellFounded
<1> HIDE DEF R
<1>2. PICK x \in S : \A y \in S : <<y, x>> \notin R
  BY <1>1, WFMin
<1>3. \A y \in S : x <= y
  <2> SUFFICES ASSUME NEW y \in S, y < x PROVE FALSE
    OBVIOUS
  <2>1. y \in Nat /\ x \in Nat
    OBVIOUS
  <2>2. <<y, x>> \in R
    BY <2>1 DEF R, OpToRel
  <2> QED BY <1>2, <2>2
<1> QED BY <1>3

\* The slot that is k steps past history_write
Past(k) == (history_write + k) % MaxHistory

\* Going round the ring from history_write visits every slot, in the order of
\* the ids of the jobs there.
LEMMA RoundTheRing ==
    ASSUME TypeOK, RingInv
    PROVE  /\ \A k \in Ring : Past(k) \in Ring
           /\ \A t \in Ring : \E k \in Ring : t = Past(k)
           /\ \A i, k \in Ring : i < k /\ history[Past(i)].id # 0 => history[Past(i)].id < history[Past(k)].id
<1> DEFINE w == history_write
           M == MaxHistory
<1>1. w \in Ring /\ M \in Nat \ {0} /\ next_job_id \in Nat /\ history_count \in 0 .. M
  BY BoundsAssumption DEF TypeOK
<1>2. \A k \in Ring : Past(k) = IF w + k < M THEN w + k ELSE w + k - M
  <2>1. \A k \in Ring : k \in 0 .. MaxHistory
    BY <1>1 DEF Ring
  <2> QED BY <1>1, <2>1, RingMod DEF Past
<1>3. \A k \in Ring : Past(k) \in Ring
  <2> SUFFICES ASSUME NEW k \in Ring PROVE Past(k) \in Ring
    OBVIOUS
  <2>1. k \in 0 .. M - 1 /\ w \in 0 .. M - 1
    BY <1>1 DEF Ring
  <2>2. (IF w + k < M THEN w + k ELSE w + k - M) \in 0 .. M - 1
    BY <1>1, <2>1
  <2> QED BY <1>2, <2>2 DEF Ring
<1>4. ASSUME NEW t \in Ring PROVE \E k \in Ring : t = Past(k)
  <2>1. t \in 0 .. M - 1 /\ w \in 0 .. M - 1
    BY <1>1, <1>4 DEF Ring
  <2>2. CASE t >= w
    <3>1. t - w \in 0 .. M - 1 /\ w + (t - w) < M /\ w + (t - w) = t
      BY <1>1, <2>1, <2>2
    <3> QED BY <1>2, <3>1 DEF Ring
  <2>3. CASE t < w
    <3>1. t - w + M \in 0 .. M - 1 /\ ~(w + (t - w + M) < M) /\ w + (t - w + M) - M = t
      BY <1>1, <2>1, <2>3
    <3> QED BY <1>2, <3>1 DEF Ring
  <2> QED BY <1>1, <2>1, <2>2, <2>3
<1>5. ASSUME NEW i \in Ring, NEW k \in Ring, i < k, history[Past(i)].id # 0
      PROVE  history[Past(i)].id < history[Past(k)].id
  <2> DEFINE x == Past(i)
             y == Past(k)
             X == history[x].id
             Y == history[y].id
  <2>1. /\ x \in Ring /\ y \in Ring /\ X \in Nat /\ Y \in Nat
    BY <1>3 DEF TypeOK, Job, JobId
  <2>2. /\ x = IF w + i < M THEN w + i ELSE w + i - M
        /\ y = IF w + k < M THEN w + k ELSE w + k - M
    BY <1>2
  <2>3. /\ i \in 0 .. M - 1 /\ k \in 0 .. M - 1 /\ w \in 0 .. M - 1
        /\ x \in 0 .. M - 1 /\ y \in 0 .. M - 1 /\ X # 0
    BY <1>1, <1>5, <2>1 DEF Ring
  <2>4. CASE history_count < M
    <3>1. /\ w = history_count
          /\ X = IF x < history_count THEN x + 1 ELSE 0
          /\ Y = IF y < history_count THEN y + 1 ELSE 0
      BY <2>1, <2>4 DEF RingInv
    <3> HIDE DEF x, y, X, Y, w, M
    <3>2. x < w /\ X = x + 1
      BY <1>1, <2>3, <3>1
    <3>3. ~(w + i < M) /\ x = w + i - M
      BY <1>1, <2>2, <2>3, <3>2
    <3>4. ~(w + k < M) /\ y = w + k - M /\ y < w
      BY <1>1, <1>5, <2>2, <2>3, <3>3
    <3>5. X < Y
      BY <1>1, <1>5, <2>3, <3>1, <3>2, <3>3, <3>4
    <3> QED BY <3>5 DEF X, Y, x, y
  <2>5. CASE ~(history_count < M)
    <3>1. /\ X + w = IF x < w THEN next_job_id + x ELSE next_job_id + x - M
          /\ Y + w = IF y < w THEN next_job_id + y ELSE next_job_id + y - M
      BY <2>1, <2>5 DEF RingInv
    <3> HIDE DEF x, y, X, Y, w, M
    <3>2. X = next_job_id + i - M /\ Y = next_job_id + k - M
      BY <1>1, <2>1, <2>2, <2>3, <3>1
    <3>3. X < Y
      BY <1>1, <1>5, <2>1, <2>3, <3>2
    <3> QED BY <3>3 DEF X, Y, x, y
  <2> QED BY <2>4, <2>5
<1> QED BY <1>3, <1>4, <1>5

\* get_last_completed walks the ring back from its end and so finds the latest
\* completed job, before and after any number of wraps, and never misses one.
THEOREM LatestIsFound == Spec => []LastCompletedIsLatest
<1>1. Inv => LastCompletedIsLatest
  <2> SUFFICES ASSUME Inv PROVE LastCompletedIsLatest
    OBVIOUS
  <2> DEFINE Done(s) == history[s].id # 0 /\ history[s].status = "COMPLETED"
  <2>1. /\ \A k \in Ring : Past(k) \in Ring
        /\ \A t \in Ring : \E k \in Ring : t = Past(k)
        /\ \A i, k \in Ring : i < k /\ history[Past(i)].id # 0 => history[Past(i)].id < history[Past(k)].id
    BY RoundTheRing DEF Inv
  <2>2. \A s \in Ring : LastCompleted(s) <=>
           \E i \in Ring : s = Past(i) /\ Done(s) /\ \A k \in i + 1 .. MaxHistory - 1 : ~Done(Past(k))
    BY DEF LastCompleted, Past
  <2>3. \A s \in Ring : history[s].id \in Nat
    BY DEF Inv, TypeOK, Job, JobId
  <2>4. MaxHistory \in Nat \ {0}
    BY BoundsAssumption
  <2> HIDE DEF Done
  <2>5. ASSUME NEW s \in Ring, LastCompleted(s), NEW t \in Ring, Done(t) PROVE history[t].id <= history[s].id
    <3>1. PICK i \in Ring : s = Past(i) /\ Done(s) /\ \A k \in i + 1 .. MaxHistory - 1 : ~Done(Past(k))
      BY <2>2, <2>5
    <3>2. PICK k \in Ring : t = Past(k)
      BY <2>1, <2>5
    <3>3. k \notin i + 1 .. MaxHistory - 1
      BY <2>5, <3>1, <3>2
    <3>4. k < i \/ k = i
      BY <2>4, <3>3 DEF Ring
    <3>5. CASE k < i
      <4>1. history[t].id < history[s].id
        BY <2>1, <2>5, <3>1, <3>2, <3>5 DEF Done
      <4> QED BY <2>3, <2>5, <4>1
    <3>6. CASE k = i
      BY <2>3, <2>5, <3>1, <3>2, <3>6
    <3> QED BY <3>4, <3>5, <3>6
  <2>6. ASSUME NEW t \in Ring, Done(t) PROVE \E s \in Ring : Done(s) /\ LastCompleted(s)
    <3> DEFINE S == {j \in Ring : Done(Past(MaxHistory - 1 - j))}
    <3>1. S \in SUBSET Nat
      BY DEF Ring
    <3>2. \A k \in Ring : MaxHistory - 1 - k \in Ring /\ MaxHistory - 1 - (MaxHistory - 1 - k) = k
      BY <2>4 DEF Ring
    <3>3. S # {}
      <4>1. PICK k \in Ring : t = Past(k)
        BY <2>1
      <4>2. MaxHistory - 1 - k \in S
        BY <2>6, <3>2, <4>1
      <4> QED BY <4>2
    <3>4. PICK j \in S : \A y \in S : j <= y
      <4> HIDE DEF S
      <4> QED BY <3>1, <3>3, LeastExists
    <3> DEFINE i == MaxHistory - 1 - j
    <3>5. i \in Ring /\ Done(Past(i)) /\ Past(i) \in Ring
      BY <2>1, <3>2, <3>4
    <3>6. ASSUME NEW k \in i + 1 .. MaxHistory - 1, Done(Past(k)) PROVE FALSE
      <4>1. k \in Ring /\ MaxHistory - 1 - k < j /\ j \in Nat /\ MaxHistory - 1 - k \in Nat
        BY <2>4, <3>4, <3>5, <3>6 DEF Ring
      <4>2. MaxHistory - 1 - k \in S
        BY <3>2, <3>6, <4>1
      <4>3. j <= MaxHistory - 1 - k
        BY <3>4, <4>2
      <4> HIDE DEF S, i
      <4> QED BY <4>1, <4>3
    <3> HIDE DEF i, S
    <3> QED BY <2>2, <3>5, <3>6
  <2> QED BY <2>5, <2>6 DEF LastCompletedIsLatest, Done
<1> QED BY <1>1, Invariance, PTL

\* pick_target looks at fresh reports only, and prefers a less loaded node
\* whenever the table shows one, wherever in the table it is.
THEOREM JobsGoToIdler == Spec => TargetIsFreshAndIdler
<1> DEFINE target == history'[history_write].target
           idler == {i \in Candidates : node_loads[i].load < load}
           Good == next_job_id' # next_job_id =>
                     /\ target # Local => \E i \in Candidates : node_loads[i].ip = target
                     /\ idler # {} => \E i \in idler : node_loads[i].ip = target
<1>1. Inv /\ [Next]_vars => [Good]_vars
  <2> SUFFICES ASSUME Inv, Next PROVE Good
    OBVIOUS
  <2>1. CASE Submit
    <3>1. PICK tg \in Target, rr \in {round_robin, round_robin + 1} :
            /\ PickTarget(tg, rr)
            /\ \E status, result : RecordJob(tg, status, result)
      BY <2>1 DEF Submit
    <3>2. history_write \in Ring /\ history \in [Ring -> Job]
      BY DEF Inv, TypeOK
    <3>3. target = tg
      BY <3>1, <3>2 DEF RecordJob
    <3>4. tg # Local => \E i \in Candidates : node_loads[i].ip = tg
      BY <3>1 DEF PickTarget
    <3>5. ASSUME idler # {} PROVE \E i \in idler : node_loads[i].ip = tg
      <4>1. idler \in SUBSET Nat /\ Candidates \in SUBSET Nat
        BY DEF Candidates
      <4>2. PICK i \in idler : \A j \in idler : i <= j
        <5> HIDE DEF idler
        <5> QED BY <3>5, <4>1, LeastExists
      <4>3. \A j \in Candidates : node_loads[j].load \in Nat
        <5>1. \A j \in 1 .. Len(node_loads) : node_loads[j] \in NodeLoad
          BY DEF Inv, TypeOK
        <5> QED BY <5>1, LoadsAssumption DEF NodeLoad, Candidates
      <4>4. load \in Nat
        BY LoadsAssumption DEF Inv, TypeOK
      <4>5. \A j \in Candidates : j < i => node_loads[j].load >= load
        <5> SUFFICES ASSUME NEW j \in Candidates, j < i, ~(node_loads[j].load >= load) PROVE FALSE
          OBVIOUS
        <5>1. j \in idler
          BY <4>3, <4>4
        <5>2. i <= j /\ i \in Nat /\ j \in Nat
          BY <4>1, <4>2, <5>1
        <5> QED BY <5>2
      <4>6. i \in Candidates /\ FirstIdler(i)
        BY <4>2, <4>5 DEF FirstIdler
      <4>7. \E j \in Candidates : FirstIdler(j) /\ tg = node_loads[j].ip
        BY <3>1, <4>6 DEF PickTarget
      <4> QED BY <4>7 DEF FirstIdler
    <3> QED BY <3>3, <3>4, <3>5
  <2>2. ASSUME UNCHANGED next_job_id PROVE Good
    BY <2>2
  <2> QED BY <2>1, <2>2 DEF Next, LoadChanges, LoadReport, LoadExpires, SubmitManual, PeerExecutes,
                            ResultArrives, ResultStored
<1>2. [Good]_vars => [next_job_id' # next_job_id =>
         LET tgt == history'[history_write].target
             fresh == {i \in 1 .. Len(node_loads) : node_loads[i].fresh}
             idle == {i \in fresh : node_loads[i].load < load}
         IN  /\ tgt # Local => \E i \in fresh : node_loads[i].ip = tgt
             /\ idle # {} => \E i \in idle : node_loads[i].ip = tgt]_vars
  BY DEF Candidates
<1> QED BY <1>1, <1>2, Invariance, PTL DEF Spec, TargetIsFreshAndIdler
=============================================================================
