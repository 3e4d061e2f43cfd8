------------------------------ MODULE Cluster ------------------------------
(***************************************************************************)
(* The membership part of the cluster protocol (kernel/cluster.cpp): the   *)
(* table of peers of one node.  net-poll adds and refreshes entries when a *)
(* discovery message or its answer comes in, cluster-hb announces the      *)
(* node, reports its load and drops the peers that fell silent.  Both run  *)
(* with interrupts on, so that each access to the table that the other     *)
(* can see is a step.                                                      *)
(*                                                                         *)
(* Time is relative: an entry keeps how long ago last_seen is.  One tick   *)
(* of the model stands for seconds; how long cluster-hb sleeps is left     *)
(* open.  Names and the console output are left out.                       *)
(***************************************************************************)
EXTENDS Integers, FiniteSets

CONSTANTS
    Hosts,       \* the nodes that messages come from
    Self,        \* local_ip, which one's own broadcast may carry back
    Watched,     \* the host that the history variables follow
    NoOne,       \* the address of an entry that is not active, which nobody reads
    MaxNodes,    \* MAX_NODES
    Expiry,      \* the 10000 ticks without a message
    MaxDelay     \* how long the scheduler keeps cluster-hb off the CPU at most

Entries == 1 .. MaxNodes

ASSUME HostAssumption == Watched \in Hosts /\ NoOne \notin Hosts /\ Self \notin Hosts \cup {NoOne}
ASSUME BoundAssumption == MaxNodes \in Nat \ {0} /\ Expiry \in Nat /\ MaxDelay \in Nat

VARIABLES
    peers,       \* peers[i]: ip, active, and the ticks since last_seen
    peer_count,  \* peer_count
    np,          \* net-poll: where it is, whose message it handles, the entry, a register
    hb,          \* cluster-hb: where it is, the entry, a register, the ticks since it read ticks
    resolved,    \* the ARP table of Network has Watched, and keeps it
    sent,        \* history: what cluster-hb's last step sent to Watched
    silence,     \* history: ticks since Watched was last noted in the table
    raced        \* history: the two tasks met on an entry or on peer_count

vars == <<peers, peer_count, np, hb, resolved, sent, silence, raced>>

\* Times above this are not told apart.
Longest == Expiry + MaxDelay + 1
Times == 0 .. Longest
Older(t) == IF t < Longest THEN t + 1 ELSE t

Active == {i \in Entries : peers[i].active}

TypeOK ==
    /\ peers \in [Entries -> [ip : Hosts \cup {NoOne}, active : BOOLEAN, age : Times]]
    /\ peer_count \in Nat
    /\ np \in [pc : {"idle", "find", "free", "touch", "activate", "seen", "count", "count_store"},
               ip : Hosts \cup {NoOne, Self}, i : Entries, reg : Nat]
    /\ hb \in [pc : {"sleep", "report", "send", "look", "check", "drop", "count", "count_store"},
               i : Entries, reg : Nat, since : 0 .. MaxDelay]
    /\ resolved \in BOOLEAN
    /\ sent \in {"nothing", "request", "report"}
    /\ silence \in Times
    /\ raced \in BOOLEAN

-----------------------------------------------------------------------------

\* init, and the two tasks before their first loop
Init ==
    /\ peers = [i \in Entries |-> [ip |-> NoOne, active |-> FALSE, age |-> 0]]
    /\ peer_count = 0
    /\ np = [pc |-> "idle", ip |-> NoOne, i |-> 1, reg |-> 0]
    /\ hb = [pc |-> "sleep", i |-> 1, reg |-> 0, since |-> 0]
    /\ resolved = FALSE
    /\ sent = "nothing"
    /\ silence = Longest
    /\ raced = FALSE

\* The keeper of time: last_seen moves into the past.  The scheduler runs
\* cluster-hb again long before Expiry has passed.
Tick ==
    /\ hb.pc = "check" => hb.since < MaxDelay
    /\ peers' = [i \in Entries |-> [peers[i] EXCEPT !.age = Older(@)]]
    /\ hb' = IF hb.pc = "check" THEN [hb EXCEPT !.since = @ + 1] ELSE hb
    /\ silence' = Older(silence)
    /\ UNCHANGED <<peer_count, np, resolved, sent, raced>>

-----------------------------------------------------------------------------
(* net-poll: cluster_udp_handler and add_or_update_peer *)

\* A DISCOVER or DISCOVER_ACK from h
Receive(h) ==
    /\ np.pc = "idle"
    /\ np' = [np EXCEPT !.pc = "find", !.ip = h]
    /\ UNCHANGED <<peers, peer_count, hb, resolved, sent, silence, raced>>

\* An ARP packet from Watched: arp_store keeps its address for good, unless the
\* table is full.
HandleArp ==
    /\ np.pc = "idle"
    /\ resolved' = TRUE
    /\ UNCHANGED <<peers, peer_count, np, hb, sent, silence, raced>>

\* Back to Network::poll, which the answer to a DISCOVER goes out from
Done == [pc |-> "idle", ip |-> NoOne, i |-> 1, reg |-> 0]

\* Mutated form: the search ends at the first hole.
FoundBeforeHole(i, ip) == peers[i].active /\ peers[i].ip = ip /\ \A j \in 1 .. i - 1 : peers[j].active

\* The entry that is refreshed
Found(i, ip) == peers[i].active /\ peers[i].ip = ip

FindExisting ==
    /\ np.pc = "find"
    /\ \/ np.ip = Self /\ np' = Done
       \/ \E i \in Entries : Found(i, np.ip) /\ np' = [np EXCEPT !.pc = "touch", !.i = i]
       \/ /\ np.ip # Self
          /\ ~\E i \in Entries : Found(i, np.ip)
          /\ np' = [np EXCEPT !.pc = "free"]
    /\ UNCHANGED <<peers, peer_count, hb, resolved, sent, silence, raced>>

Noted == IF np.ip = Watched THEN 0 ELSE silence

Touch ==
    /\ np.pc = "touch"
    /\ peers' = [peers EXCEPT ![np.i].age = 0]
    /\ np' = Done
    /\ silence' = Noted
    /\ raced' = (raced \/ ~peers[np.i].active \/ (hb.pc = "drop" /\ hb.i = np.i))
    /\ UNCHANGED <<peer_count, hb, resolved, sent>>

FirstFree(i) ==
    /\ ~peers[i].active
    /\ \A j \in 1 .. i - 1 : peers[j].active

\* The first free entry gets the address; without one the host is forgotten.
FindFree ==
    /\ np.pc = "free"
    /\ \/ \E i \in Entries :
            /\ FirstFree(i)
            /\ peers' = [peers EXCEPT ![i].ip = np.ip]
            /\ np' = [np EXCEPT !.pc = "activate", !.i = i]
       \/ Active = Entries /\ np' = Done /\ peers' = peers
    /\ UNCHANGED <<peer_count, hb, resolved, sent, silence, raced>>

Activate ==
    /\ np.pc = "activate"
    /\ peers' = [peers EXCEPT ![np.i].active = TRUE]
    /\ np' = [np EXCEPT !.pc = "seen"]
    /\ UNCHANGED <<peer_count, hb, resolved, sent, silence, raced>>

\* Mutated form: a new entry keeps the last_seen of the peer that it had before.
SeenBefore(p) == p

\* last_seen = ticks
SeenNow(p) == [p EXCEPT !.age = 0]

Seen ==
    /\ np.pc = "seen"
    /\ peers' = [peers EXCEPT ![np.i] = SeenNow(@)]
    /\ np' = [np EXCEPT !.pc = "count"]
    /\ silence' = Noted
    /\ UNCHANGED <<peer_count, hb, resolved, sent, raced>>

\* peer_count++
CountLoad ==
    /\ np.pc = "count"
    /\ np' = [np EXCEPT !.pc = "count_store", !.reg = peer_count]
    /\ raced' = (raced \/ hb.pc = "count_store")
    /\ UNCHANGED <<peers, peer_count, hb, resolved, sent, silence>>

CountStore ==
    /\ np.pc = "count_store"
    /\ peer_count' = np.reg + 1
    /\ np' = Done
    /\ UNCHANGED <<peers, hb, resolved, sent, silence, raced>>

NetPoll == FindExisting \/ Touch \/ FindFree \/ Activate \/ Seen \/ CountLoad \/ CountStore

-----------------------------------------------------------------------------
(* cluster-hb: heartbeat_task_entry *)

\* sleep_ms ends; send_discover broadcasts
Wake ==
    /\ hb.pc = "sleep"
    /\ hb' = [hb EXCEPT !.pc = "report"]
    /\ UNCHANGED <<peers, peer_count, np, resolved, sent, silence, raced>>

\* Mutated form: one peer alone gets no report.
NobodyThere == peer_count <= 1

\* send_load_report returns at once
NoPeers == peer_count = 0

SendLoadReport ==
    /\ hb.pc = "report"
    /\ hb' = [hb EXCEPT !.pc = IF NoPeers THEN "look" ELSE "send"]
    /\ UNCHANGED <<peers, peer_count, np, resolved, sent, silence, raced>>

\* Mutated form: the loop ends before the last entry.
StopsEarly == hb.i >= MaxNodes - 1

\* The loop over the entries ends.
AtLast == hb.i = MaxNodes

\* send_udp to the peer in an entry: the report, or without a MAC for it only
\* an ARP request
SendUdp ==
    /\ hb.pc = "send"
    /\ sent' = IF peers[hb.i].active /\ peers[hb.i].ip = Watched
               THEN IF resolved THEN "report" ELSE "request"
               ELSE "nothing"
    /\ hb' = IF AtLast THEN [hb EXCEPT !.pc = "look", !.i = 1] ELSE [hb EXCEPT !.i = @ + 1]
    /\ UNCHANGED <<peers, peer_count, np, resolved, silence, raced>>

\* To the next entry, or to sleep_ms
Continue ==
    /\ hb' = [pc |-> IF AtLast THEN "sleep" ELSE "look", i |-> IF AtLast THEN 1 ELSE hb.i + 1,
              reg |-> 0, since |-> 0]
    /\ sent' = "nothing"

\* active and ticks are read
Look ==
    /\ hb.pc = "look"
    /\ \/ peers[hb.i].active /\ hb' = [hb EXCEPT !.pc = "check", !.since = 0] /\ sent' = "nothing"
       \/ ~peers[hb.i].active /\ Continue
    /\ UNCHANGED <<peers, peer_count, np, resolved, silence, raced>>

\* net-poll has not finished a new entry.
Adding == np.pc \in {"seen", "count", "count_store"}

\* ticks - last_seen, unsigned: a last_seen that was stored after ticks was
\* read, on a later tick, gives a number close to 2^64.
Wraps(i) == peers[i].age < hb.since
Expired(i) == Wraps(i) \/ peers[i].age - hb.since > Expiry

Check ==
    /\ hb.pc = "check"
    /\ \/ /\ Expired(hb.i)
          /\ hb' = [hb EXCEPT !.pc = "drop", !.since = 0]
          /\ raced' = (raced \/ Wraps(hb.i) \/ (Adding /\ np.i = hb.i))
          /\ sent' = sent
       \/ ~Expired(hb.i) /\ Continue /\ raced' = raced
    /\ UNCHANGED <<peers, peer_count, np, resolved, silence>>

Drop ==
    /\ hb.pc = "drop"
    /\ peers' = [peers EXCEPT ![hb.i].active = FALSE, ![hb.i].ip = NoOne]
    /\ hb' = [hb EXCEPT !.pc = "count"]
    /\ UNCHANGED <<peer_count, np, resolved, sent, silence, raced>>

\* if (peer_count > 0) peer_count--
UncountLoad ==
    /\ hb.pc = "count"
    /\ \/ peer_count > 0 /\ hb' = [hb EXCEPT !.pc = "count_store", !.reg = peer_count] /\ sent' = sent
       \/ peer_count = 0 /\ Continue
    /\ raced' = (raced \/ np.pc = "count_store")
    /\ UNCHANGED <<peers, peer_count, np, resolved, silence>>

\* Mutated form: the count is left as it is.
CountKept == hb.reg

CountLess == hb.reg - 1

UncountStore ==
    /\ hb.pc = "count_store"
    /\ peer_count' = CountLess
    /\ Continue
    /\ UNCHANGED <<peers, np, resolved, silence, raced>>

HeartBeat == Wake \/ SendLoadReport \/ SendUdp \/ Look \/ Check \/ Drop \/ UncountLoad \/ UncountStore

Next == Tick \/ HandleArp \/ (\E h \in Hosts \cup {Self} : Receive(h)) \/ NetPoll \/ HeartBeat

Spec == Init /\ [][Next]_vars

\* Time passes and the scheduler keeps dispatching both tasks (module
\* Scheduler: ReadyIsDispatched, SleeperWakes).  Nobody has to send anything.
FairSpec == Spec /\ WF_vars(Tick) /\ WF_vars(NetPoll) /\ WF_vars(HeartBeat)

-----------------------------------------------------------------------------
(* Properties *)

Listed(h) == \E i \in Active : peers[i].ip = h

\* No host has two entries and the node never lists itself, whatever
\* cluster-hb drops while net-poll searches the table.
PeersUnique ==
    \A i \in Active : /\ peers[i].ip \in Hosts
                      /\ \A j \in Active : peers[j].ip = peers[i].ip => i = j

\* peer_count is the number of active entries, up to the one that each task
\* is about to count, unless the two updates overlapped.
PeerCount ==
    LET adding == IF Adding THEN 1 ELSE 0
        dropping == IF hb.pc \in {"count", "count_store"} THEN 1 ELSE 0
    IN  ~raced => peer_count + adding - dropping = Cardinality(Active)

\* A peer is dropped only after more than Expiry without a message from it,
\* also in an entry that another peer had before, unless net-poll was at the
\* entry at the same time.
DropMeansSilent ==
    [][Listed(Watched) /\ ~Listed(Watched)' /\ ~raced' => silence > Expiry]_vars

\* A peer that stays silent is dropped.
Handling(h) == np.pc # "idle" /\ np.ip = h
SilentIsDropped == Listed(Watched) ~> (~Listed(Watched) \/ Handling(Watched) \/ raced)

\* As long as peer_count was not miscounted, a peer that stays listed is
\* served: cluster-hb asks for its MAC, and once the ARP table has it, hands
\* its load report to the driver.
ListedIsReported ==
    /\ Listed(Watched) ~> (sent # "nothing" \/ ~Listed(Watched) \/ raced)
    /\ Listed(Watched) /\ resolved ~> (sent = "report" \/ ~Listed(Watched) \/ raced)
=============================================================================
