--------------------------- MODULE ClusterProofs ---------------------------
(***************************************************************************)
(* Proofs about Cluster for every number of hosts and entries and every    *)
(* expiry: the table has one entry for a host, peer_count counts it, and   *)
(* only a silent peer is dropped.                                          *)
(***************************************************************************)
EXTENDS Cluster, FiniteSetTheorems, TLAPS

\* What net-poll knows of the entry that it is at.  Only net-poll activates
\* entries, so that what it found not to be there stays away, and an entry
\* that cluster-hb drops meanwhile is inactive for good.
NetInv ==
    /\ np.pc # "idle" => np.ip # NoOne
    /\ np.pc \notin {"idle", "find"} => np.ip \in Hosts
    /\ np.pc \in {"free", "activate"} => \A j \in Active : peers[j].ip # np.ip
    /\ np.pc = "activate" => ~peers[np.i].active /\ peers[np.i].ip = np.ip
    /\ np.pc = "touch" \/ Adding => (peers[np.i].active => peers[np.i].ip = np.ip)

\* What cluster-hb knows: nobody else drops the entry that it looks at.
HeartInv ==
    /\ hb.pc \in {"check", "drop"} => peers[hb.i].active
    /\ hb.pc = "count_store" => hb.reg > 0

\* What the two know of each other until they meet.
ApartInv == ~raced =>
    /\ Adding => peers[np.i].active /\ ~(hb.pc = "drop" /\ hb.i = np.i)
    /\ ~(np.pc = "count_store" /\ hb.pc = "count_store")
    /\ np.pc = "count_store" => np.reg = peer_count
    /\ hb.pc = "count_store" => hb.reg = peer_count

\* last_seen of the watched host is the time of its last message, and an
\* entry that is about to be dropped is too old.
AgeInv == ~raced =>
    /\ hb.pc = "drop" => peers[hb.i].age > Expiry
    /\ \A i \in Active : peers[i].ip = Watched /\ ~(np.pc = "seen" /\ np.i = i) => peers[i].age = silence

IInv == TypeOK /\ PeersUnique /\ NetInv /\ HeartInv /\ ApartInv /\ AgeInv /\ PeerCount

-----------------------------------------------------------------------------

Peer == [ip : Hosts \cup {NoOne}, active : BOOLEAN, age : Times]
NetState == [pc : {"idle", "find", "free", "touch", "activate", "seen", "count", "count_store"},
             ip : Hosts \cup {NoOne, Self}, i : Entries, reg : Nat]
Sent == {"nothing", "request", "report"}
HeartState == [pc : {"sleep", "report", "send", "look", "check", "drop", "count", "count_store"},
               i : Entries, reg : Nat, since : 0 .. MaxDelay]

\* TypeOK in these terms.
LEMMA TypeParts ==
    TypeOK <=> /\ peers \in [Entries -> Peer] /\ peer_count \in Nat
               /\ np \in NetState /\ hb \in HeartState
               /\ resolved \in BOOLEAN /\ sent \in Sent /\ silence \in Times /\ raced \in BOOLEAN
BY DEF TypeOK, Peer, NetState, HeartState, Sent

\* Times are natural numbers, and waiting leads to later ones.
LEMMA TimeFacts ==
    /\ 0 \in Times /\ Longest \in Times /\ Times \subseteq Nat
    /\ \A t \in Times : Older(t) \in Times /\ (t > Expiry => Older(t) > Expiry)
BY BoundAssumption DEF Times, Longest, Older

\* net-poll is done with a message.
LEMMA DoneFact == Done \in NetState /\ Done.pc = "idle"
BY BoundAssumption DEF Done, NetState, Entries

\* cluster-hb goes on to the next entry or to sleep.
LEMMA ContinueFact ==
    ASSUME TypeOK, Continue
    PROVE  hb' \in HeartState /\ hb'.pc \in {"sleep", "look"} /\ sent' \in Sent
<1>1. CASE AtLast
  BY <1>1, BoundAssumption DEF TypeOK, Continue, HeartState, Sent, Entries
<1>2. CASE ~AtLast
  <2>1. hb.i + 1 \in Entries
    BY <1>2, BoundAssumption DEF AtLast, TypeOK, Entries
  <2> QED BY <1>2, <2>1, BoundAssumption DEF TypeOK, Continue, HeartState, Sent
<1> QED BY <1>1, <1>2

\* What net-poll is about to do once it has searched the table.
LEMMA FindCases ==
    ASSUME TypeOK, NetInv, FindExisting
    PROVE  /\ UNCHANGED <<peers, peer_count, hb, resolved, sent, silence, raced>>
           /\ np' \in NetState /\ np.pc = "find"
           /\ \/ np'.pc = "idle"
              \/ /\ np'.pc = "free" /\ np'.ip = np.ip /\ np.ip \in Hosts
                 /\ \A j \in Active : peers[j].ip # np.ip
              \/ /\ np'.pc = "touch" /\ np'.ip = np.ip /\ np.ip \in Hosts
                 /\ peers[np'.i].active /\ peers[np'.i].ip = np.ip
<1>0. np \in NetState
  BY TypeParts
<1>1. CASE np' = Done
  BY <1>1, DoneFact DEF FindExisting
<1>2. CASE np.ip # Self /\ ~(\E i \in Entries : Found(i, np.ip)) /\ np' = [np EXCEPT !.pc = "free"]
  <2>1. np.ip \in Hosts
    BY <1>0, <1>2 DEF NetInv, FindExisting, NetState
  <2>2. np' \in NetState /\ np'.pc = "free" /\ np'.ip = np.ip
    BY <1>0, <1>2 DEF NetState
  <2> QED BY <1>2, <2>1, <2>2 DEF FindExisting, Found, Active
<1>3. ASSUME NEW i \in Entries, Found(i, np.ip), np' = [np EXCEPT !.pc = "touch", !.i = i]
      PROVE  /\ np' \in NetState
             /\ np'.pc = "touch" /\ np'.ip = np.ip /\ np.ip \in Hosts
             /\ peers[np'.i].active /\ peers[np'.i].ip = np.ip
  <2>1. np.ip \in Hosts
    BY <1>3, HostAssumption DEF Found, TypeOK, NetInv, FindExisting
  <2>2. np' \in NetState /\ np'.pc = "touch" /\ np'.ip = np.ip /\ np'.i = i
    BY <1>0, <1>3 DEF NetState
  <2> QED BY <1>3, <2>1, <2>2 DEF Found
<1> QED BY <1>1, <1>2, <1>3 DEF FindExisting

\* net-poll takes an inactive entry, or there is none.
LEMMA FreeCases ==
    ASSUME TypeOK, NetInv, FindFree
    PROVE  /\ UNCHANGED <<peer_count, hb, resolved, sent, silence, raced>>
           /\ np' \in NetState /\ np.pc = "free"
           /\ \/ np'.pc = "idle" /\ peers' = peers
              \/ /\ np'.pc = "activate" /\ np'.ip = np.ip /\ np.ip \in Hosts
                 /\ ~peers[np'.i].active
                 /\ peers' = [peers EXCEPT ![np'.i].ip = np.ip]
<1>0. np \in NetState
  BY TypeParts
<1>1. CASE np' = Done /\ peers' = peers
  BY <1>1, DoneFact DEF FindFree
<1>2. ASSUME NEW i \in Entries, FirstFree(i), np' = [np EXCEPT !.pc = "activate", !.i = i]
      PROVE  np' \in NetState /\ np'.pc = "activate" /\ np'.ip = np.ip /\ np'.i = i
  BY <1>0, <1>2 DEF NetState
<1>3. np.ip \in Hosts
  BY DEF NetInv, FindFree
<1> QED BY <1>1, <1>2, <1>3 DEF FindFree, FirstFree

\* cluster-hb looks at an entry.
LEMMA LookCases ==
    ASSUME TypeOK, Look
    PROVE  /\ UNCHANGED <<peers, peer_count, np, resolved, silence, raced>>
           /\ hb' \in HeartState /\ sent' \in Sent
           /\ \/ peers[hb.i].active /\ hb'.pc = "check" /\ hb'.i = hb.i
              \/ hb'.pc \in {"sleep", "look"}
<1>1. CASE peers[hb.i].active /\ hb' = [hb EXCEPT !.pc = "check", !.since = 0] /\ sent' = "nothing"
  <2>0. 0 \in 0 .. MaxDelay /\ hb \in HeartState
    BY TypeParts, BoundAssumption
  <2>1. hb' \in HeartState /\ hb'.pc = "check" /\ hb'.i = hb.i
    BY <1>1, <2>0 DEF HeartState
  <2>2. sent' \in Sent
    BY <1>1 DEF Sent
  <2> QED BY <1>1, <2>1, <2>2, TypeParts DEF Look
<1>2. CASE Continue
  BY <1>2, ContinueFact DEF Look
<1> QED BY <1>1, <1>2 DEF Look

\* cluster-hb decides whether a peer has been silent for too long.
LEMMA CheckCases ==
    ASSUME TypeOK, Check
    PROVE  /\ UNCHANGED <<peers, peer_count, np, resolved, silence>>
           /\ hb' \in HeartState /\ sent' \in Sent /\ raced' \in BOOLEAN
           /\ hb.pc = "check"
           /\ \/ /\ hb'.pc = "drop" /\ hb'.i = hb.i
                 /\ raced' = (raced \/ Wraps(hb.i) \/ (Adding /\ np.i = hb.i))
                 /\ Expired(hb.i)
              \/ hb'.pc \in {"sleep", "look"} /\ raced' = raced
<1>1. CASE /\ Expired(hb.i)
           /\ hb' = [hb EXCEPT !.pc = "drop", !.since = 0]
           /\ raced' = (raced \/ Wraps(hb.i) \/ (Adding /\ np.i = hb.i))
           /\ sent' = sent
  <2>0. 0 \in 0 .. MaxDelay /\ hb \in HeartState
    BY TypeParts, BoundAssumption
  <2>1. hb' \in HeartState /\ hb'.pc = "drop" /\ hb'.i = hb.i
    BY <1>1, <2>0 DEF HeartState
  <2>2. raced' \in BOOLEAN
    BY <1>1, TypeParts
  <2> QED BY <1>1, <2>1, <2>2, TypeParts DEF Check
<1>2. CASE Continue /\ raced' = raced
  BY <1>2, ContinueFact, TypeParts DEF Check
<1> QED BY <1>1, <1>2 DEF Check

\* cluster-hb has loaded peer_count.
LEMMA UncountCases ==
    ASSUME TypeOK, UncountLoad
    PROVE  /\ UNCHANGED <<peers, peer_count, np, resolved, silence>>
           /\ hb' \in HeartState /\ sent' \in Sent
           /\ hb.pc = "count" /\ raced' = (raced \/ np.pc = "count_store")
           /\ \/ peer_count > 0 /\ hb'.pc = "count_store" /\ hb'.reg = peer_count
              \/ peer_count = 0 /\ hb'.pc \in {"sleep", "look"}
<1>1. CASE /\ peer_count > 0 /\ hb' = [hb EXCEPT !.pc = "count_store", !.reg = peer_count]
           /\ sent' = sent
  <2>1. hb' \in HeartState /\ hb'.pc = "count_store" /\ hb'.reg = peer_count
    BY <1>1, TypeParts, BoundAssumption DEF HeartState
  <2> QED BY <1>1, <2>1, TypeParts DEF UncountLoad
<1>2. CASE peer_count = 0 /\ Continue
  BY <1>2, ContinueFact DEF UncountLoad
<1> QED BY <1>1, <1>2 DEF UncountLoad

\* cluster-hb has sent to one entry.
LEMMA SendCases ==
    ASSUME TypeOK, SendUdp
    PROVE  /\ UNCHANGED <<peers, peer_count, np, resolved, silence, raced>>
           /\ hb.pc = "send" /\ hb'.pc \in {"send", "look"}
           /\ hb' \in HeartState /\ sent' \in Sent
<1>0. hb \in HeartState /\ sent \in Sent
  BY TypeParts
<1>1. sent' \in Sent
  BY <1>0 DEF SendUdp, Sent
<1>2. CASE AtLast
  <2>1. 1 \in Entries
    BY BoundAssumption DEF Entries
  <2> QED BY <1>0, <1>1, <1>2, <2>1 DEF SendUdp, HeartState
<1>3. CASE ~AtLast
  <2>1. hb.i + 1 \in Entries
    BY <1>0, <1>3, BoundAssumption DEF AtLast, HeartState, Entries
  <2> QED BY <1>0, <1>1, <1>3, <2>1 DEF SendUdp, HeartState
<1> QED BY <1>2, <1>3

-----------------------------------------------------------------------------

\* Every step keeps the types.
LEMMA TypeStep == TypeOK /\ PeersUnique /\ NetInv /\ HeartInv /\ [Next]_vars => TypeOK'
<1> SUFFICES ASSUME TypeOK, PeersUnique, NetInv, HeartInv, [Next]_vars PROVE TypeOK'
  OBVIOUS
<1> DEFINE Typed == /\ peers' \in [Entries -> Peer] /\ peer_count' \in Nat
                    /\ np' \in NetState /\ hb' \in HeartState
                    /\ resolved' \in BOOLEAN /\ sent' \in Sent /\ silence' \in Times /\ raced' \in BOOLEAN
<1>0. /\ peers \in [Entries -> Peer] /\ peer_count \in Nat
      /\ np \in NetState /\ hb \in HeartState
      /\ resolved \in BOOLEAN /\ sent \in Sent /\ silence \in Times /\ raced \in BOOLEAN
  BY TypeParts
<1>1. ASSUME Tick PROVE Typed
  <2>1. peers' \in [Entries -> Peer] /\ silence' \in Times
    BY <1>0, <1>1, TimeFacts DEF Tick, Peer
  <2>2. ASSUME hb.pc = "check" PROVE hb.since + 1 \in 0 .. MaxDelay
    BY <1>0, <1>1, <2>2, BoundAssumption DEF Tick, HeartState
  <2>3. hb' \in HeartState
    BY <1>0, <1>1, <2>2 DEF Tick, HeartState
  <2> QED BY <1>0, <1>1, <2>1, <2>3 DEF Tick
<1>2. ASSUME NEW h \in Hosts \cup {Self}, Receive(h) PROVE Typed
  BY <1>0, <1>2 DEF Receive, NetState
<1>3. ASSUME FindExisting PROVE Typed
  BY <1>3, <1>0, FindCases
<1>4. ASSUME Touch PROVE Typed
  BY <1>4, <1>0, DoneFact, TimeFacts DEF Touch, Noted, Peer
<1>5. ASSUME FindFree PROVE Typed
  BY <1>5, <1>0, FreeCases DEF Peer
<1>6. ASSUME Activate PROVE Typed
  <2> DEFINE p == [peers[np.i] EXCEPT !.active = TRUE]
  <2>1. np.i \in Entries /\ peers' = [peers EXCEPT ![np.i] = p]
    BY <1>0, <1>6 DEF Activate, NetState
  <2>2. p \in Peer
    BY <1>0, <2>1 DEF Peer
  <2> HIDE DEF p
  <2>3. peers' \in [Entries -> Peer]
    BY <1>0, <2>1, <2>2
  <2>4. np' \in NetState
    BY <1>0, <1>6 DEF Activate, NetState
  <2> QED BY <1>0, <1>6, <2>3, <2>4 DEF Activate
<1>7. ASSUME Seen PROVE Typed
  BY <1>7, <1>0, TimeFacts DEF Seen, SeenNow, Noted, Peer, NetState
<1>8. ASSUME CountLoad PROVE Typed
  BY <1>8, <1>0 DEF CountLoad, NetState
<1>9. ASSUME CountStore PROVE Typed
  BY <1>9, <1>0, DoneFact DEF CountStore, NetState
<1>10. ASSUME Wake PROVE Typed
  BY <1>10, <1>0 DEF Wake, HeartState
<1>11. ASSUME SendLoadReport PROVE Typed
  BY <1>11, <1>0 DEF SendLoadReport, HeartState
<1>12. ASSUME Look PROVE Typed
  BY <1>12, <1>0, LookCases
<1>13. ASSUME Check PROVE Typed
  BY <1>13, <1>0, CheckCases
<1>14. ASSUME Drop PROVE Typed
  <2>1. hb.i \in Entries /\ hb' \in HeartState
    BY <1>0, <1>14 DEF Drop, HeartState
  <2>2. [peers[hb.i] EXCEPT !.active = FALSE, !.ip = NoOne] \in Peer
    BY <1>0, <2>1 DEF Peer
  <2>3. peers' = [peers EXCEPT ![hb.i] = [peers[hb.i] EXCEPT !.active = FALSE, !.ip = NoOne]]
    BY <1>0, <1>14, <2>1 DEF Drop
  <2> QED BY <1>0, <1>14, <2>1, <2>2, <2>3 DEF Drop
<1>15. ASSUME UncountLoad PROVE Typed
  BY <1>15, <1>0, UncountCases
<1>16. ASSUME UncountStore PROVE Typed
  BY <1>16, <1>0, ContinueFact DEF UncountStore, CountLess, HeartInv, HeartState
<1>17. ASSUME UNCHANGED vars PROVE Typed
  BY <1>0, <1>17 DEF vars
<1>19. ASSUME SendUdp PROVE Typed
  BY <1>19, <1>0, SendCases
<1>20. ASSUME HandleArp PROVE Typed
  BY <1>20, <1>0 DEF HandleArp
<1>18. Typed
  BY <1>19, <1>20, <1>1, <1>2, <1>3, <1>4, <1>5, <1>6, <1>7, <1>8, <1>9, <1>10, <1>11, <1>12, <1>13, <1>14, <1>15, <1>16, <1>17 DEF Next, NetPoll, HeartBeat
<1> QED BY <1>18 DEF TypeOK, Peer, NetState, HeartState, Sent

\* Every step keeps the entries apart and what the two tasks know of them.
LEMMA TableStep == TypeOK /\ PeersUnique /\ NetInv /\ HeartInv /\ [Next]_vars => (PeersUnique /\ NetInv /\ HeartInv)'
<1> SUFFICES ASSUME TypeOK, PeersUnique, NetInv, HeartInv, [Next]_vars PROVE (PeersUnique /\ NetInv /\ HeartInv)'
  OBVIOUS
<1> USE HostAssumption, BoundAssumption DEF TypeOK, PeersUnique, NetInv, HeartInv, Active, Adding
<1>1. CASE Tick
  BY <1>1, TimeFacts DEF Tick
<1>2. ASSUME NEW h \in Hosts \cup {Self}, Receive(h) PROVE (PeersUnique /\ NetInv /\ HeartInv)'
  BY <1>2 DEF Receive
<1>3. CASE FindExisting
  BY <1>3, FindCases, DoneFact
<1>4. CASE Touch
  BY <1>4, DoneFact DEF Touch, Noted
<1>5. CASE FindFree
  <2>1. CASE np'.pc = "idle" /\ peers' = peers
    BY <1>5, <2>1, FreeCases
  <2>2. CASE np'.pc # "idle"
    <3>1. np'.i \in Entries
      BY <1>5, FreeCases DEF NetState
    <3>2. Active' = Active /\ \A j \in Active : peers'[j] = peers[j]
      BY <1>5, <2>2, <3>1, FreeCases
    <3> QED BY <1>5, <2>2, <3>1, <3>2, FreeCases
  <2> QED BY <1>5, <2>1, <2>2, FreeCases
<1>6. CASE Activate
  BY <1>6 DEF Activate
<1>7. CASE Seen
  BY <1>7 DEF Seen, SeenNow, Noted
<1>8. CASE CountLoad
  BY <1>8 DEF CountLoad
<1>9. CASE CountStore
  BY <1>9, DoneFact DEF CountStore
<1>10. CASE Wake
  BY <1>10 DEF Wake
<1>11. CASE SendLoadReport
  BY <1>11 DEF SendLoadReport, NoPeers
<1>12. CASE Look
  BY <1>12, LookCases
<1>13. CASE Check
  BY <1>13, CheckCases DEF Expired, Wraps
<1>14. CASE Drop
  BY <1>14 DEF Drop
<1>15. CASE UncountLoad
  BY <1>15, UncountCases
<1>16. CASE UncountStore
  BY <1>16, ContinueFact DEF UncountStore, CountLess
<1>17. CASE UNCHANGED vars
  BY <1>17 DEF vars
<1>18. CASE SendUdp
  BY <1>18, SendCases
<1>19. CASE HandleArp
  BY <1>19 DEF HandleArp
<1> QED BY <1>18, <1>19, <1>1, <1>2, <1>3, <1>4, <1>5, <1>6, <1>7, <1>8, <1>9, <1>10, <1>11, <1>12, <1>13, <1>14, <1>15, <1>16, <1>17 DEF Next, NetPoll, HeartBeat

\* Every step keeps ApartInv.
LEMMA ApartStep == TypeOK /\ NetInv /\ HeartInv /\ ApartInv /\ [Next]_vars => ApartInv'
<1> SUFFICES ASSUME TypeOK, NetInv, HeartInv, ApartInv, [Next]_vars PROVE ApartInv'
  OBVIOUS
<1> USE HostAssumption, BoundAssumption DEF TypeOK, NetInv, HeartInv, ApartInv, Adding
<1>1. CASE Tick
  BY <1>1, TimeFacts DEF Tick
<1>2. ASSUME NEW h \in Hosts \cup {Self}, Receive(h) PROVE ApartInv'
  BY <1>2 DEF Receive
<1>3. CASE FindExisting
  BY <1>3, FindCases, DoneFact
<1>4. CASE Touch
  BY <1>4, DoneFact DEF Touch, Noted
<1>5. CASE FindFree
  BY <1>5, FreeCases, DoneFact
<1>6. CASE Activate
  BY <1>6 DEF Activate
<1>7. CASE Seen
  BY <1>7 DEF Seen, SeenNow, Noted
<1>8. CASE CountLoad
  BY <1>8 DEF CountLoad
<1>9. CASE CountStore
  BY <1>9, DoneFact DEF CountStore
<1>10. CASE Wake
  BY <1>10 DEF Wake
<1>11. CASE SendLoadReport
  BY <1>11 DEF SendLoadReport, NoPeers
<1>12. CASE Look
  BY <1>12, LookCases
<1>13. CASE Check
  BY <1>13, CheckCases DEF Expired, Wraps
<1>14. CASE Drop
  BY <1>14 DEF Drop
<1>15. CASE UncountLoad
  BY <1>15, UncountCases
<1>16. CASE UncountStore
  BY <1>16, ContinueFact DEF UncountStore, CountLess
<1>17. CASE UNCHANGED vars
  BY <1>17 DEF vars
<1>18. CASE SendUdp
  BY <1>18, SendCases
<1>19. CASE HandleArp
  BY <1>19 DEF HandleArp
<1> QED BY <1>18, <1>19, <1>1, <1>2, <1>3, <1>4, <1>5, <1>6, <1>7, <1>8, <1>9, <1>10, <1>11, <1>12, <1>13, <1>14, <1>15, <1>16, <1>17 DEF Next, NetPoll, HeartBeat

\* Every step keeps AgeInv.
LEMMA AgeStep == IInv /\ [Next]_vars => AgeInv'
<1> SUFFICES ASSUME IInv, [Next]_vars PROVE AgeInv'
  OBVIOUS
<1> USE HostAssumption, BoundAssumption DEF IInv, TypeOK, NetInv, HeartInv, ApartInv, AgeInv, PeersUnique, Active, Adding
<1>1. CASE Tick
  BY <1>1, TimeFacts DEF Tick
<1>2. ASSUME NEW h \in Hosts \cup {Self}, Receive(h) PROVE AgeInv'
  BY <1>2 DEF Receive
<1>3. CASE FindExisting
  BY <1>3, FindCases, DoneFact
<1>4. CASE Touch
  BY <1>4, DoneFact DEF Touch, Noted
<1>5. CASE FindFree
  BY <1>5, FreeCases, DoneFact
<1>6. CASE Activate
  BY <1>6 DEF Activate
<1>7. CASE Seen
  BY <1>7 DEF Seen, SeenNow, Noted
<1>8. CASE CountLoad
  BY <1>8 DEF CountLoad
<1>9. CASE CountStore
  BY <1>9, DoneFact DEF CountStore
<1>10. CASE Wake
  BY <1>10 DEF Wake
<1>11. CASE SendLoadReport
  BY <1>11 DEF SendLoadReport, NoPeers
<1>12. CASE Look
  BY <1>12, LookCases
<1>13. CASE Check
  <2>1. peers[hb.i].age \in Nat /\ hb.since \in Nat
    <3>1. hb.i \in Entries /\ hb.since \in 0 .. MaxDelay
      BY DEF TypeOK
    <3>2. peers[hb.i].age \in Times
      BY <3>1 DEF TypeOK
    <3>3. Times \subseteq Nat
      BY TimeFacts
    <3>4. hb.since \in Nat
      BY <3>1
    <3> QED BY <3>2, <3>3, <3>4
  <2>2. ~raced' /\ Expired(hb.i) /\ hb'.pc = "drop" => peers[hb.i].age > Expiry
    BY <1>13, <2>1, CheckCases DEF Expired
  <2> QED BY <1>13, <2>2, CheckCases
<1>14. CASE Drop
  BY <1>14 DEF Drop
<1>15. CASE UncountLoad
  BY <1>15, UncountCases
<1>16. CASE UncountStore
  BY <1>16, ContinueFact DEF UncountStore, CountLess
<1>17. CASE UNCHANGED vars
  BY <1>17 DEF vars
<1>18. CASE SendUdp
  BY <1>18, SendCases
<1>19. CASE HandleArp
  BY <1>19 DEF HandleArp
<1> QED BY <1>18, <1>19, <1>1, <1>2, <1>3, <1>4, <1>5, <1>6, <1>7, <1>8, <1>9, <1>10, <1>11, <1>12, <1>13, <1>14, <1>15, <1>16, <1>17 DEF Next, NetPoll, HeartBeat

\* The set of active entries and their number
LEMMA ActiveFinite == TypeOK => IsFiniteSet(Active) /\ Cardinality(Active) \in Nat
<1>1. IsFiniteSet(Entries)
  BY FS_Interval, BoundAssumption DEF Entries
<1> QED BY <1>1, FS_Subset, FS_CardinalityType DEF Active

\* Every step keeps PeerCount.
LEMMA CountStep == IInv /\ [Next]_vars => PeerCount'
<1> SUFFICES ASSUME IInv, [Next]_vars, ~raced' PROVE PeerCount'
  BY DEF PeerCount
<1> DEFINE adding == IF Adding THEN 1 ELSE 0
           dropping == IF hb.pc \in {"count", "count_store"} THEN 1 ELSE 0
           n == Cardinality(Active)
<1>0. IsFiniteSet(Active) /\ n \in Nat /\ peer_count \in Nat
  BY ActiveFinite DEF IInv, TypeOK
<1>1. ~raced => peer_count + adding - dropping = n
  BY DEF IInv, PeerCount
<1>2. ASSUME ~raced, Active' = Active, peer_count' + adding' - dropping' = peer_count + adding - dropping
      PROVE  PeerCount'
  BY <1>1, <1>2 DEF PeerCount
<1>3. ASSUME ~raced, Active' = Active, peer_count' = peer_count, Adding' = Adding,
             (hb'.pc \in {"count", "count_store"}) = (hb.pc \in {"count", "count_store"})
      PROVE  PeerCount'
  BY <1>2, <1>3
<1>4. TypeOK /\ NetInv /\ HeartInv /\ (~raced => ApartInv)
  BY DEF IInv
<1>5. CASE Tick
  <2>1. Active' = Active
    BY <1>4, <1>5 DEF Tick, Active, TypeOK
  <2> QED BY <1>3, <1>4, <1>5, <2>1 DEF Tick, Adding, TypeOK
<1>6. ASSUME NEW h \in Hosts \cup {Self}, Receive(h) PROVE PeerCount'
  BY <1>3, <1>4, <1>6 DEF Receive, Active, Adding, TypeOK
<1>7. CASE FindExisting
  BY <1>3, <1>4, <1>7, FindCases DEF Active, Adding
<1>8. CASE Touch
  <2>1. Active' = Active
    BY <1>4, <1>8 DEF Touch, Active, TypeOK
  <2>2. ~Adding /\ ~Adding' /\ ~raced
    BY <1>8, DoneFact DEF Touch, Adding
  <2>3. hb' = hb /\ peer_count' = peer_count
    BY <1>8 DEF Touch
  <2>4. Adding' = Adding
    BY <2>2, DoneFact, <1>8 DEF Touch, Adding
  <2> QED BY <1>3, <2>1, <2>2, <2>3, <2>4
<1>9. CASE FindFree
  <2>1. Active' = Active
    BY <1>4, <1>9, FreeCases DEF Active, TypeOK, NetState
  <2> QED BY <1>3, <1>4, <1>9, <2>1, FreeCases DEF Adding
<1>10. CASE Activate
  <2>1. Active' = Active \cup {np.i} /\ np.i \notin Active
    BY <1>4, <1>10 DEF Activate, Active, TypeOK, NetInv
  <2>2. Cardinality(Active') = n + 1
    BY <1>0, <2>1, FS_AddElement
  <2>3. ~Adding /\ Adding'
    BY <1>4, <1>10 DEF Activate, Adding, TypeOK
  <2> QED BY <1>0, <1>1, <1>10, <2>2, <2>3 DEF Activate, PeerCount
<1>11. CASE Seen
  <2>1. Active' = Active
    BY <1>4, <1>11 DEF Seen, SeenNow, Active, TypeOK
  <2> QED BY <1>3, <1>4, <1>11, <2>1 DEF Seen, Adding, TypeOK
<1>12. CASE CountLoad
  BY <1>3, <1>4, <1>12 DEF CountLoad, Active, Adding, TypeOK
<1>13. CASE CountStore
  <2>1. peer_count' = peer_count + 1 /\ Adding /\ ~Adding' /\ Active' = Active /\ ~raced
    BY <1>4, <1>13, DoneFact DEF CountStore, ApartInv, Adding, Active
  <2> QED BY <1>0, <1>2, <1>13, <2>1 DEF CountStore
<1>14. CASE Wake
  BY <1>3, <1>4, <1>14 DEF Wake, Active, Adding, TypeOK
<1>15. CASE SendLoadReport
  BY <1>3, <1>4, <1>15 DEF SendLoadReport, Active, Adding, TypeOK
<1>16. CASE Look
  BY <1>3, <1>4, <1>16, LookCases DEF Look, Active, Adding
<1>17. CASE Check
  BY <1>3, <1>4, <1>17, CheckCases DEF Active, Adding
<1>18. CASE Drop
  <2>1. Active' = Active \ {hb.i} /\ hb.i \in Active
    BY <1>4, <1>18 DEF Drop, Active, TypeOK, HeartInv
  <2>2. Cardinality(Active') = n - 1
    BY <1>0, <2>1, FS_RemoveElement
  <2>3. hb'.pc = "count" /\ Adding' = Adding
    BY <1>4, <1>18 DEF Drop, Adding, TypeOK
  <2> QED BY <1>0, <1>1, <1>18, <2>2, <2>3 DEF Drop, PeerCount
<1>19. CASE UncountLoad
  <2>1. ~raced /\ Active' = Active /\ Adding' = Adding
    BY <1>4, <1>19, UncountCases DEF Active, Adding
  <2>2. peer_count > 0
    <3> SUFFICES ASSUME peer_count = 0 PROVE FALSE
      BY <1>0
    <3>1. Adding /\ n = 0
      BY <1>0, <1>1, <1>4, <1>19, <2>1, UncountCases
    <3>2. np.i \in Active
      BY <1>4, <2>1, <3>1 DEF ApartInv, Active, TypeOK
    <3>3. Active = {}
      BY <1>0, <3>1, FS_EmptySet
    <3> QED BY <3>2, <3>3
  <2>3. hb'.pc = "count_store"
    BY <1>0, <1>4, <1>19, <2>2, UncountCases
  <2> QED BY <1>3, <1>4, <1>19, <2>1, <2>3, UncountCases
<1>20. CASE UncountStore
  <2>1. peer_count' = peer_count - 1 /\ Active' = Active /\ Adding' = Adding /\ ~raced
    BY <1>4, <1>20 DEF UncountStore, CountLess, ApartInv, Adding, Active
  <2>2. hb'.pc \in {"sleep", "look"}
    BY <1>4, <1>20, ContinueFact DEF UncountStore
  <2> QED BY <1>0, <1>2, <1>20, <2>1, <2>2 DEF UncountStore
<1>21. CASE UNCHANGED vars
  BY <1>3, <1>21 DEF vars, Active, Adding
<1>22. CASE SendUdp
  BY <1>3, <1>4, <1>22, SendCases DEF Active, Adding
<1>23. CASE HandleArp
  BY <1>3, <1>4, <1>23 DEF HandleArp, Active, Adding
<1> QED BY <1>22, <1>23, <1>5, <1>6, <1>7, <1>8, <1>9, <1>10, <1>11, <1>12, <1>13, <1>14, <1>15, <1>16, <1>17, <1>18, <1>19, <1>20, <1>21 DEF Next, NetPoll, HeartBeat

\* The table is empty and nobody was heard when the tasks start.
LEMMA InitInv == Init => IInv
<1> SUFFICES ASSUME Init PROVE IInv
  OBVIOUS
<1>1. TypeOK
  <2>1. 1 \in Entries /\ 0 \in 0 .. MaxDelay
    BY BoundAssumption DEF Entries
  <2> QED BY <2>1, TimeFacts DEF Init, TypeOK
<1>2. Active = {}
  BY DEF Init, Active
<1>3. PeerCount
  BY <1>2, FS_EmptySet DEF Init, PeerCount, Adding
<1> QED BY <1>1, <1>2, <1>3 DEF Init, IInv, PeersUnique, NetInv, HeartInv, ApartInv, AgeInv, Adding

\* IInv is inductive.
LEMMA InductiveStep == IInv /\ [Next]_vars => IInv'
BY TypeStep, TableStep, ApartStep, AgeStep, CountStep DEF IInv

LEMMA Invariance == Spec => []IInv
BY InitInv, InductiveStep, PTL DEF Spec

-----------------------------------------------------------------------------

\* Every variable of the membership protocol keeps its type; peer_count in
\* particular never runs below zero, although cluster-hb decrements what it
\* loaded before net-poll may have stored.
THEOREM TypeCorrect == Spec => []TypeOK
BY Invariance, PTL DEF IInv

\* add_or_update_peer never lists a host twice, nor the node itself, wherever
\* cluster-hb interrupts it, races included.
THEOREM OneEntryPerHost == Spec => []PeersUnique
BY Invariance, PTL DEF IInv

\* peer_count is the number of active entries until net-poll and cluster-hb
\* meet on an entry or in the middle of their updates of the count.
THEOREM CountIsRight == Spec => []PeerCount
BY Invariance, PTL DEF IInv

\* heartbeat_task_entry drops a peer only after it has been silent for longer
\* than the expiry, in whatever entry it is.
THEOREM OnlySilentDropped == Spec => DropMeansSilent
<1>1. IInv /\ [Next]_vars => [Listed(Watched) /\ ~Listed(Watched)' /\ ~raced' => silence > Expiry]_vars
  <2> SUFFICES ASSUME IInv, Next, Listed(Watched), ~Listed(Watched)', ~raced' PROVE silence > Expiry
    OBVIOUS
  <2>1. PICK i \in Active : peers[i].ip = Watched
    BY DEF Listed
  <2>2. CASE Drop
    <3>1. i = hb.i /\ ~raced
      BY <2>1, <2>2 DEF Drop, Listed, Active, IInv, TypeOK
    <3>2. ~(np.pc = "seen" /\ np.i = i) /\ hb.pc = "drop"
      BY <2>2, <3>1 DEF Drop, IInv, ApartInv, Adding
    <3> QED BY <2>1, <3>1, <3>2 DEF IInv, AgeInv
  <2>3. ASSUME i \in Active', peers'[i].ip = Watched PROVE FALSE
    BY <2>3 DEF Listed
  <2>4. ASSUME peers' = peers PROVE FALSE
    BY <2>1, <2>3, <2>4 DEF Active
  <2>5. CASE Tick
    BY <2>1, <2>3, <2>5 DEF Tick, Active, IInv, TypeOK
  <2>6. CASE NetPoll
    <3>1. CASE Touch
      BY <2>1, <2>3, <3>1 DEF Touch, Active, IInv, TypeOK
    <3>2. CASE FindFree
      BY <2>1, <2>3, <3>2, FreeCases DEF Active, IInv, TypeOK, NetState
    <3>3. CASE Activate
      BY <2>1, <2>3, <3>3 DEF Activate, Active, IInv, TypeOK
    <3>4. CASE Seen
      BY <2>1, <2>3, <3>4 DEF Seen, SeenNow, Active, IInv, TypeOK
    <3> QED BY <2>4, <2>6, <3>1, <3>2, <3>3, <3>4 DEF NetPoll, FindExisting, CountLoad, CountStore
  <2>7. CASE HeartBeat
    BY <2>2, <2>4, <2>7 DEF HeartBeat, Wake, SendLoadReport, SendUdp, Look, Check, UncountLoad, UncountStore
  <2>8. CASE \E h \in Hosts \cup {Self} : Receive(h)
    BY <2>4, <2>8 DEF Receive
  <2>9. CASE HandleArp
    BY <2>4, <2>9 DEF HandleArp
  <2> QED BY <2>5, <2>6, <2>7, <2>8, <2>9 DEF Next
<1> QED BY <1>1, Invariance, PTL DEF Spec, DropMeansSilent
=============================================================================
