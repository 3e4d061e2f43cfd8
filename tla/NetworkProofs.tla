--------------------------- MODULE NetworkProofs ---------------------------
(***************************************************************************)
(* Proofs about Network for every size of the rings and of the ARP table,  *)
(* every set of stations and every traffic: the ARP table is true, the     *)
(* driver and the card agree on the transmit ring, frames are whole, and   *)
(* the receive ring implements a queue.                                    *)
(***************************************************************************)
EXTENDS Network, FiniteSetTheorems, SequenceTheorems, TLAPS

\* Filled descriptors hold frames, and so does recv_buf while net-poll works
\* on what it received.
RecvInv ==
    /\ \A i \in RxRing : rx_ring[i].done => rx_ring[i].buf \in Arrivals
    /\ pc[Poller] \in {"return", "process", "mac", "valid", "answer", "handler"} => recv_buf \in Arrivals
    /\ pc[Heartbeat] \in Sending \cup {"idle"}

\* The entry that arp_store is writing is the only one for its address, and
\* has its MAC address before it is made valid.
ArpInv ==
    /\ ArpTableTrue
    /\ pc[Poller] \in {"mac", "valid"} =>
          /\ arp_table[slot].ip = recv_buf.from
          /\ \A j \in ArpTable \ {slot} : ~(arp_table[j].valid /\ arp_table[j].ip = recv_buf.from)
    /\ pc[Poller] = "valid" => ~arp_table[slot].valid /\ arp_table[slot].mac = recv_buf.from

\* A packet that goes to the station it is meant for
Addressed(p) == p.type # "request" => p.mac = p.ip

PacketInv ==
    \A a \in Tasks : /\ pc[a] \in Sending => packet[a] \in Packet /\ Addressed(packet[a])
                     /\ pc[a] = "build" => packet[a].type = "udp"

\* Until two packets are under way at once, one task at most is sending, and
\* what it copies into the free descriptor at tx_cur is its own packet.
SendInv == ~raced =>
    /\ \A a, b \in Tasks : pc[a] \in Sending /\ pc[b] \in Sending => a = b
    /\ \A a \in Tasks :
          /\ pc[a] \in {"wait", "copy_head", "copy_body"} /\ packet[a].type = "udp" => send_buf = Whole(packet[a])
          /\ pc[a] \in {"copy_head", "copy_body", "post"} => tx_ring[tx_cur].done
          /\ pc[a] = "copy_body" => tx_ring[tx_cur].buf.head = packet[a]
          /\ pc[a] = "post" => tx_ring[tx_cur].buf = Whole(packet[a])
    /\ \A i \in TxRing : ~tx_ring[i].done =>
          tx_ring[i].buf.head = tx_ring[i].buf.body /\ Addressed(tx_ring[i].buf.head)

\* How far i is ahead of h in a ring of n
Ahead(h, i, n) == IF h <= i THEN i - h ELSE i - h + n

\* The descriptor behind the last one that was posted, and whether the card
\* has not been told of that one
Kicking == \E a \in Tasks : pc[a] \in {"advance", "kick"}
Top == IF \E a \in Tasks : pc[a] = "advance" THEN NextTx(tx_cur) ELSE tx_cur

\* The descriptors of P are those from h up to t; when P is the whole ring
\* the two coincide.
Run(P, h, t) ==
    \/ t = h /\ P = TxRing
    \/ P = {i \in TxRing : Ahead(h, i, NumTx) < Ahead(h, t, NumTx)}

\* The posted descriptors are those from the card's head up to Top.
RingInv == ~raced =>
    /\ IF Kicking THEN NextTx(tdt) = Top /\ tdt \in Posted ELSE tdt = Top
    /\ Run(Posted, tdh, Top)

\* The filled descriptors are those from rx_cur up to the card's head, and
\* never all of them: the tail is right before rx_cur, or one further back
\* while poll_receive has not given a descriptor back.
Filled == {i \in RxRing : rx_ring[i].done}
RxInv ==
    /\ \A i \in RxRing : rx_ring[i].done <=> Ahead(rx_cur, i, NumRx) < Ahead(rx_cur, rdh, NumRx)
    /\ Cardinality(Filled) = Ahead(rx_cur, rdh, NumRx)
    /\ Ahead(rx_cur, rdt, NumRx) = IF pc[Poller] = "return" THEN NumRx - 2 ELSE NumRx - 1
    /\ Ahead(rx_cur, rdh, NumRx) <= Ahead(rx_cur, rdt, NumRx)

IInv == TypeOK /\ RecvInv /\ ArpInv /\ PacketInv /\ SendInv /\ RingInv /\ RxInv

-----------------------------------------------------------------------------
(* Arithmetic of a ring of n *)

LEMMA RingMod ==
    ASSUME NEW n \in Nat \ {0}, NEW h \in 0 .. n - 1, NEW i \in 0 .. n - 1
    PROVE  (i - h) % n = Ahead(h, i, n)
BY DEF Ahead

LEMMA RingNext ==
    ASSUME NEW n \in Nat \ {0}, NEW i \in 0 .. n - 1
    PROVE  /\ (i + 1) % n = IF i = n - 1 THEN 0 ELSE i + 1
           /\ (i - 1) % n = IF i = 0 THEN n - 1 ELSE i - 1
OBVIOUS

\* Two positions with the same successor are the same.
LEMMA RingInjective ==
    ASSUME NEW n \in Nat, NEW i \in 0 .. n - 1, NEW j \in 0 .. n - 1,
           (IF i = n - 1 THEN 0 ELSE i + 1) = (IF j = n - 1 THEN 0 ELSE j + 1)
    PROVE  i = j
OBVIOUS

LEMMA BelowNext ==
    ASSUME NEW a \in Int, NEW b \in Int
    PROVE  a < b + 1 <=> (a < b \/ a = b)
OBVIOUS

LEMMA RingPlus ==
    ASSUME NEW n \in Nat \ {0}, NEW i \in 0 .. n - 1, NEW k \in 0 .. n - 1
    PROVE  (i + k) % n = IF i + k < n THEN i + k ELSE i + k - n
OBVIOUS

-----------------------------------------------------------------------------
(* The steps, by what they touch *)

LEMMA TaskFacts ==
    /\ Heartbeat \in Tasks /\ Poller \in Tasks /\ Heartbeat # Poller
    /\ \A a \in Tasks : a = Heartbeat \/ a = Poller
BY DEF Tasks, Heartbeat, Poller

LEMMA GotoFact ==
    ASSUME TypeOK, NEW a \in Tasks, NEW l \in Label, Goto(a, l)
    PROVE  pc' \in [Tasks -> Label] /\ pc'[a] = l /\ \A b \in Tasks \ {a} : pc'[b] = pc[b]
BY DEF TypeOK, Goto

\* What send_udp sends is addressed to whom it is meant for.
LEMMA ChoiceFact ==
    ASSUME ArpTableTrue, NEW ip, NEW p \in Choices(ip)
    PROVE  p \in Packet /\ Addressed(p)
BY DEF Choices, Resolved, Addressed, ArpTableTrue, Lookup

\* A step that is no business of the senders
Quiet ==
    /\ UNCHANGED <<send_buf, tx_ring, tx_cur, tdt, tdh, packet, raced>>
    /\ pc' \in [Tasks -> Label]
    /\ \A a \in Tasks : pc'[a] = pc[a] \/ (pc[a] \notin Sending /\ pc'[a] \notin Sending)

\* A task begins to send.
Begins(a) ==
    /\ UNCHANGED <<send_buf, tx_ring, tx_cur, tdt, tdh>>
    /\ pc[a] \notin Sending
    /\ \E p \in Packet : Addressed(p) /\ Begin(a, p)

LEMMA QuietSteps ==
    ASSUME TypeOK,
           \/ PollReceive \/ ReturnDescriptor \/ ProcessArp \/ ArpStore("mac") \/ ArpStore("valid")
           \/ ProcessUdp \/ UNCHANGED vars \/ \E f \in Arrivals : CardReceives(f)
    PROVE  Quiet
<1> USE DEF TypeOK, Quiet, Goto, txVars, Label, Sending
<1>1. CASE PollReceive
  BY <1>1, TaskFacts DEF PollReceive
<1>2. CASE ReturnDescriptor
  BY <1>2, TaskFacts DEF ReturnDescriptor
<1>3. CASE ProcessArp
  BY <1>3, TaskFacts DEF ProcessArp
<1>4. ASSUME NEW l \in {"mac", "valid"}, ArpStore(l) PROVE Quiet
  BY <1>4, TaskFacts DEF ArpStore, StoreStep
<1>5. CASE ProcessUdp
  BY <1>5, TaskFacts DEF ProcessUdp
<1>6. CASE UNCHANGED vars
  BY <1>6 DEF vars
<1>7. CASE \E f \in Arrivals : CardReceives(f)
  BY <1>7 DEF CardReceives
<1> QED BY <1>1, <1>2, <1>3, <1>4, <1>5, <1>6, <1>7

LEMMA BeginSteps ==
    ASSUME TypeOK, RecvInv, ArpInv,
           \/ \E ip \in Peers \cup {Broadcast} : HeartbeatSends(ip)
           \/ ArpAnswer \/ HandlerDone
    PROVE  Quiet \/ \E a \in Tasks : Begins(a)
<1>0. ArpTableTrue
  BY DEF ArpInv
<1>1. ASSUME NEW ip \in Peers \cup {Broadcast}, HeartbeatSends(ip) PROVE Begins(Heartbeat)
  BY <1>0, <1>1, ChoiceFact DEF HeartbeatSends, Begins, txVars, Sending
<1>2. CASE ArpAnswer
  <2>1. CASE recv_buf.type = "request" /\ recv_buf.dst = "us"
    <3> DEFINE p == [type |-> "reply", ip |-> recv_buf.from, mac |-> recv_buf.from]
    <3>1. p \in Packet /\ Addressed(p)
      BY <1>2, ArrivalAssumption DEF ArpAnswer, RecvInv, Arrival, Packet, Addressed
    <3>2. Begin(Poller, p)
      BY <1>2, <2>1 DEF ArpAnswer
    <3>3. pc[Poller] \notin Sending
      BY <1>2 DEF ArpAnswer, Sending
    <3> HIDE DEF p
    <3> QED BY <1>2, <3>1, <3>2, <3>3, TaskFacts DEF ArpAnswer, Begins, txVars
  <2>2. CASE ~(recv_buf.type = "request" /\ recv_buf.dst = "us")
    BY <1>2, <2>2, TaskFacts DEF ArpAnswer, Quiet, Goto, txVars, TypeOK, Label, Sending
  <2> QED BY <2>1, <2>2
<1>3. CASE HandlerDone
  <2>1. CASE \E p \in Choices(recv_buf.from) : Begin(Poller, p)
    BY <1>0, <1>3, <2>1, ChoiceFact, TaskFacts DEF HandlerDone, Begins, txVars, Sending
  <2>2. CASE Goto(Poller, "idle") /\ UNCHANGED <<packet, raced>>
    BY <1>3, <2>2, TaskFacts DEF HandlerDone, Quiet, Goto, txVars, TypeOK, Label, Sending
  <2> QED BY <1>3, <2>1, <2>2 DEF HandlerDone
<1> QED BY <1>1, <1>2, <1>3, TaskFacts

\* The senders' view of a step
LEMMA SendingCases ==
    ASSUME TypeOK, RecvInv, ArpInv, [Next]_vars
    PROVE  \/ Quiet
           \/ \E a \in Tasks : Begins(a) \/ SendStep(a)
           \/ \E ip \in Peers \cup {Broadcast} : ShellSends(ip)
           \/ CardTransmits
BY QuietSteps, BeginSteps, TaskFacts DEF Next, PollerStep

Working == {"return", "process", "mac", "valid", "answer", "handler"}

\* A step that leaves the receive ring alone
RxQuiet ==
    /\ UNCHANGED <<rx_ring, rx_cur, rdt, rdh, recv_buf>>
    /\ pc'[Poller] \in Working => pc[Poller] \in Working
    /\ pc'[Poller] = "return" <=> pc[Poller] = "return"
    /\ pc'[Heartbeat] \in Sending \cup {"idle"}

\* A step that leaves the ARP table alone
ArpQuiet ==
    /\ UNCHANGED <<arp_table, slot>>
    /\ pc'[Poller] \in {"mac", "valid"} => pc'[Poller] = pc[Poller] /\ recv_buf' = recv_buf

LEMMA SenderQuiet ==
    ASSUME TypeOK, RecvInv, NEW a \in Tasks, SendStep(a)
    PROVE  RxQuiet /\ ArpQuiet
<1>1. pc[a] \in Sending /\ pc' \in [Tasks -> Label]
      /\ pc'[a] \in Sending \cup {"idle"} /\ \A b \in Tasks \ {a} : pc'[b] = pc[b]
  BY DEF SendStep, Build, WaitForDescriptor, CopyHead, CopyBody, Post, Advance, Kick,
         Return, Goto, TypeOK, Sending, Label
<1>2. UNCHANGED <<arp_table, slot, rx_ring, rx_cur, rdt, rdh, recv_buf>>
  BY DEF SendStep, Build, WaitForDescriptor, CopyHead, CopyBody, Post, Advance, Kick, rxVars
<1> QED BY <1>1, <1>2, TaskFacts DEF RxQuiet, ArpQuiet, RecvInv, Working, Sending

\* net-poll's view of a step, for the receive ring ...
LEMMA RxCases ==
    ASSUME TypeOK, RecvInv, [Next]_vars
    PROVE  RxQuiet \/ PollReceive \/ ReturnDescriptor \/ \E f \in Arrivals : CardReceives(f)
<1> USE DEF TypeOK, RecvInv, RxQuiet, Working, Goto, rxVars, Sending, Label
<1>1. ASSUME NEW ip \in Peers \cup {Broadcast}, HeartbeatSends(ip) PROVE RxQuiet
  BY <1>1, TaskFacts DEF HeartbeatSends, Begin
<1>2. ASSUME NEW ip \in Peers \cup {Broadcast}, ShellSends(ip) PROVE RxQuiet
  BY <1>2 DEF ShellSends
<1>3. CASE ProcessArp
  BY <1>3, TaskFacts DEF ProcessArp
<1>4. ASSUME NEW l \in {"mac", "valid"}, ArpStore(l) PROVE RxQuiet
  BY <1>4, TaskFacts DEF ArpStore, StoreStep
<1>5. CASE ProcessUdp
  BY <1>5, TaskFacts DEF ProcessUdp
<1>6. CASE ArpAnswer
  BY <1>6, TaskFacts DEF ArpAnswer, Begin
<1>7. CASE HandlerDone
  BY <1>7, TaskFacts DEF HandlerDone, Begin
<1>8. CASE CardTransmits
  BY <1>8 DEF CardTransmits
<1>9. CASE UNCHANGED vars
  BY <1>9 DEF vars
<1> QED BY <1>1, <1>2, <1>3, <1>4, <1>5, <1>6, <1>7, <1>8, <1>9, SenderQuiet, TaskFacts DEF Next, PollerStep

\* ... and for the ARP table
LEMMA ArpCases ==
    ASSUME TypeOK, RecvInv, [Next]_vars
    PROVE  ArpQuiet \/ ProcessArp \/ ArpStore("mac") \/ ArpStore("valid")
<1> USE DEF TypeOK, ArpQuiet, Goto, rxVars, Label
<1>1. ASSUME NEW ip \in Peers \cup {Broadcast}, HeartbeatSends(ip) PROVE ArpQuiet
  BY <1>1, TaskFacts DEF HeartbeatSends, Begin
<1>2. ASSUME NEW ip \in Peers \cup {Broadcast}, ShellSends(ip) PROVE ArpQuiet
  BY <1>2 DEF ShellSends
<1>3. CASE PollReceive
  BY <1>3, TaskFacts DEF PollReceive
<1>4. CASE ReturnDescriptor
  BY <1>4, TaskFacts DEF ReturnDescriptor
<1>5. CASE ProcessUdp
  BY <1>5, TaskFacts DEF ProcessUdp
<1>6. CASE ArpAnswer
  BY <1>6, TaskFacts DEF ArpAnswer, Begin
<1>7. CASE HandlerDone
  BY <1>7, TaskFacts DEF HandlerDone, Begin
<1>8. CASE CardTransmits
  BY <1>8 DEF CardTransmits
<1>9. CASE UNCHANGED vars
  BY <1>9 DEF vars
<1>10. ASSUME NEW f \in Arrivals, CardReceives(f) PROVE ArpQuiet
  BY <1>10 DEF CardReceives
<1> QED BY <1>1, <1>2, <1>3, <1>4, <1>5, <1>6, <1>7, <1>8, <1>9, <1>10, SenderQuiet, TaskFacts DEF Next, PollerStep

-----------------------------------------------------------------------------
(* Types *)

LEMMA PacketFacts ==
    /\ NoPacket \in Packet \cup {NoPacket} /\ NoFrame \in Frame
    /\ \A p \in Packet \cup {NoPacket} : Whole(p) \in Frame
    /\ \A f \in Frame, h \in Packet \cup {NoPacket} :
          [f EXCEPT !.head = h] \in Frame /\ [f EXCEPT !.body = h] \in Frame
BY DEF NoFrame, Whole, Frame

LEMMA NextTxFact == \A i \in TxRing : NextTx(i) \in TxRing /\ NextTx(i) = IF i = NumTx - 1 THEN 0 ELSE i + 1
<1> SUFFICES ASSUME NEW i \in TxRing PROVE NextTx(i) \in TxRing /\ NextTx(i) = IF i = NumTx - 1 THEN 0 ELSE i + 1
  OBVIOUS
<1>1. NumTx \in Nat \ {0} /\ i \in 0 .. NumTx - 1
  BY RingAssumption DEF TxRing
<1>2. NextTx(i) = IF i = NumTx - 1 THEN 0 ELSE i + 1
  BY <1>1, RingNext DEF NextTx
<1> QED BY <1>1, <1>2 DEF TxRing

Descriptor == [buf : Frame, done : BOOLEAN]

\* A step of a sender keeps the types.
LEMMA SendTypes ==
    ASSUME TypeOK, PacketInv, NEW a \in Tasks, SendStep(a)
    PROVE  /\ send_buf' \in Frame /\ tx_ring' \in [TxRing -> Descriptor]
           /\ tx_cur' \in TxRing /\ tdt' \in TxRing /\ tdh' \in TxRing
           /\ pc' \in [Tasks -> Label] /\ packet' \in [Tasks -> Packet \cup {NoPacket}]
           /\ raced' \in BOOLEAN
<1>0. /\ send_buf \in Frame /\ tx_ring \in [TxRing -> Descriptor]
      /\ tx_cur \in TxRing /\ tdt \in TxRing /\ tdh \in TxRing
      /\ pc \in [Tasks -> Label] /\ packet \in [Tasks -> Packet \cup {NoPacket}]
      /\ raced \in BOOLEAN
  BY DEF TypeOK, Descriptor
<1>1. Source(a) \in Frame
  BY <1>0, PacketFacts DEF Source
<1>2. Source(a).head \in Packet \cup {NoPacket} /\ Source(a).body \in Packet \cup {NoPacket}
  BY <1>1 DEF Frame
<1>3. CASE Build(a)
  BY <1>0, <1>3, PacketFacts DEF Build, Goto, Label, Sending
<1>4. CASE WaitForDescriptor(a)
  BY <1>0, <1>4 DEF WaitForDescriptor, Return, Goto, Label, Sending, txVars
<1>5. CASE CopyHead(a)
  <2>1. [tx_ring[tx_cur] EXCEPT !.buf.head = Source(a).head] \in Descriptor
    BY <1>0, <1>2, PacketFacts DEF Descriptor
  <2> QED BY <1>0, <1>5, <2>1 DEF CopyHead, Goto, Label, Sending
<1>6. CASE CopyBody(a)
  <2>1. [tx_ring[tx_cur] EXCEPT !.buf.body = Source(a).body] \in Descriptor
    BY <1>0, <1>2, PacketFacts DEF Descriptor
  <2> QED BY <1>0, <1>6, <2>1 DEF CopyBody, Goto, Label, Sending
<1>7. CASE Post(a)
  BY <1>0, <1>7 DEF Post, Goto, Label, Sending, Descriptor
<1>8. CASE Advance(a)
  BY <1>0, <1>8, NextTxFact DEF Advance, Goto, Label, Sending
<1>9. CASE Kick(a)
  BY <1>0, <1>9 DEF Kick, Return, Goto, Label
<1> QED BY <1>3, <1>4, <1>5, <1>6, <1>7, <1>8, <1>9 DEF SendStep

\* Every step keeps the types.
LEMMA TypeStep == TypeOK /\ RecvInv /\ ArpInv /\ PacketInv /\ [Next]_vars => TypeOK'
<1> SUFFICES ASSUME TypeOK, RecvInv, ArpInv, PacketInv, [Next]_vars PROVE TypeOK'
  OBVIOUS
<1> DEFINE
      Sent ==
          /\ send_buf' \in Frame /\ tx_ring' \in [TxRing -> Descriptor]
          /\ tx_cur' \in TxRing /\ tdt' \in TxRing /\ tdh' \in TxRing
          /\ pc' \in [Tasks -> Label] /\ packet' \in [Tasks -> Packet \cup {NoPacket}]
          /\ raced' \in BOOLEAN
      Received ==
          /\ rx_ring' \in [RxRing -> [buf : Arrivals \cup {NoOne}, done : BOOLEAN]]
          /\ rx_cur' \in RxRing /\ rdt' \in RxRing /\ rdh' \in RxRing /\ recv_buf' \in Arrivals \cup {NoOne}
      Stored ==
          /\ arp_table' \in [ArpTable -> [ip : Hosts \cup {NoOne}, mac : Hosts \cup {NoOne}, valid : BOOLEAN]]
          /\ slot' \in ArpTable
<1>1. Sent
  <2>1. CASE Quiet
    BY <2>1 DEF Quiet, TypeOK, Descriptor
  <2>2. ASSUME NEW a \in Tasks, Begins(a) PROVE Sent
    BY <2>2 DEF Begins, Begin, Goto, TypeOK, Descriptor, Label, Sending
  <2>3. ASSUME NEW ip \in Peers \cup {Broadcast}, ShellSends(ip) PROVE Sent
    <3>1. PICK p \in Choices(ip) :
             /\ send_buf' = IF p.type = "udp" THEN Whole(p) ELSE send_buf
             /\ IF IsFree(tx_cur)
                THEN /\ tx_ring' = [tx_ring EXCEPT ![tx_cur] = [buf |-> Whole(p), done |-> FALSE]]
                     /\ tx_cur' = NextTx(tx_cur)
                     /\ tdt' = NextTx(tx_cur)
                ELSE UNCHANGED <<tx_ring, tx_cur, tdt>>
      BY <2>3 DEF ShellSends
    <3>2. Whole(p) \in Frame
      BY ChoiceFact, PacketFacts DEF ArpInv
    <3>3. [buf |-> Whole(p), done |-> FALSE] \in Descriptor
      BY <3>2 DEF Descriptor
    <3>4. raced' \in BOOLEAN /\ pc' = pc /\ packet' = packet /\ tdh' = tdh
      BY <2>3 DEF ShellSends, TypeOK
    <3> QED BY <3>1, <3>2, <3>3, <3>4, NextTxFact DEF TypeOK, Descriptor
  <2>4. CASE CardTransmits
    <3>1. FreeTx \in Descriptor
      BY PacketFacts DEF FreeTx, Descriptor
    <3>2. (tdh + 1) % NumTx \in TxRing
      BY NextTxFact DEF NextTx, TypeOK
    <3> QED BY <2>4, <3>1, <3>2 DEF CardTransmits, TypeOK, Descriptor
  <2> QED BY <2>1, <2>2, <2>3, <2>4, SendingCases, SendTypes
<1>2. Received
  <2>1. ASSUME NEW i \in RxRing PROVE (i + 1) % NumRx \in RxRing /\ (i - 1) % NumRx \in RxRing
    BY RingNext, RingAssumption DEF RxRing
  <2>2. CASE RxQuiet
    BY <2>2 DEF RxQuiet, TypeOK
  <2>3. CASE PollReceive
    BY <2>1, <2>3 DEF PollReceive, TypeOK, EmptyRx
  <2>4. CASE ReturnDescriptor
    BY <2>1, <2>4 DEF ReturnDescriptor, Returned, TypeOK
  <2>5. ASSUME NEW f \in Arrivals, CardReceives(f) PROVE Received
    BY <2>1, <2>5 DEF CardReceives, TypeOK
  <2> QED BY <2>2, <2>3, <2>4, <2>5, RxCases
<1>3. Stored
  <2>1. CASE ArpQuiet
    BY <2>1 DEF ArpQuiet, TypeOK
  <2>2. CASE ProcessArp
    <3>1. recv_buf.from \in Hosts
      BY <2>2, ArrivalAssumption DEF ProcessArp, RecvInv, Arrival
    <3>2. ASSUME NEW i \in ArpTable, arp_table' = [arp_table EXCEPT ![i].ip = recv_buf.from], slot' = i PROVE Stored
      BY <3>1, <3>2 DEF TypeOK
    <3>3. ASSUME arp_table' = arp_table, slot' \in ArpTable PROVE Stored
      BY <3>3 DEF TypeOK
    <3>4. slot \in ArpTable /\ Lookup(recv_buf.from) \subseteq ArpTable
      BY DEF TypeOK, Lookup
    <3> HIDE DEF Stored
    <3> QED BY <2>2, <3>2, <3>3, <3>4 DEF ProcessArp
  <2>3. ASSUME NEW l \in {"mac", "valid"}, ArpStore(l) PROVE Stored
    <3>1. recv_buf.from \in Hosts
      BY <2>3, ArrivalAssumption DEF ArpStore, StoreStep, RecvInv, Arrival
    <3>2. slot \in ArpTable /\ slot' \in ArpTable
      BY <2>3 DEF ArpStore, TypeOK
    <3> DEFINE row == [ip : Hosts \cup {NoOne}, mac : Hosts \cup {NoOne}, valid : BOOLEAN]
               new == IF l = "mac" THEN [arp_table[slot] EXCEPT !.mac = recv_buf.from]
                                   ELSE [arp_table[slot] EXCEPT !.valid = TRUE]
    <3>3. arp_table \in [ArpTable -> row] /\ arp_table[slot] \in row
      BY <3>2 DEF TypeOK
    <3>4. new \in row
      BY <3>1, <3>3
    <3>5. arp_table' = [arp_table EXCEPT ![slot] = new]
      BY <2>3, <3>2 DEF ArpStore, StoreStep
    <3> HIDE DEF row, new
    <3>6. arp_table' \in [ArpTable -> row]
      BY <3>3, <3>4, <3>5
    <3> QED BY <3>2, <3>6 DEF row
  <2> QED BY <2>1, <2>2, <2>3, ArpCases
<1> QED BY <1>1, <1>2, <1>3 DEF TypeOK, Descriptor

-----------------------------------------------------------------------------
(* The invariant, part by part *)

LEMMA RecvStep == TypeOK /\ RecvInv /\ [Next]_vars => RecvInv'
<1> SUFFICES ASSUME TypeOK, RecvInv, [Next]_vars PROVE RecvInv'
  OBVIOUS
<1>1. CASE RxQuiet
  BY <1>1 DEF RxQuiet, RecvInv, Working
<1>2. CASE PollReceive
  BY <1>2, TaskFacts DEF PollReceive, RecvInv, TypeOK, Goto, EmptyRx
<1>3. CASE ReturnDescriptor
  BY <1>3, TaskFacts DEF ReturnDescriptor, RecvInv, TypeOK, Goto
<1>4. ASSUME NEW f \in Arrivals, CardReceives(f) PROVE RecvInv'
  BY <1>4 DEF CardReceives, RecvInv, TypeOK
<1> QED BY <1>1, <1>2, <1>3, <1>4, RxCases

LEMMA ArpStep == TypeOK /\ RecvInv /\ ArpInv /\ [Next]_vars => ArpInv'
<1> SUFFICES ASSUME TypeOK, RecvInv, ArpInv, [Next]_vars PROVE ArpInv'
  OBVIOUS
<1>1. CASE ArpQuiet
  BY <1>1 DEF ArpQuiet, ArpInv, ArpTableTrue
<1>2. CASE ProcessArp
  <2> DEFINE ip == recv_buf.from
  <2>0. recv_buf' = recv_buf
    BY <1>2 DEF ProcessArp, rxVars
  <2>1. ASSUME NEW i \in Lookup(ip), slot' = i, Goto(Poller, "mac"), arp_table' = arp_table PROVE ArpInv'
    <3>1. i \in ArpTable /\ arp_table[i].valid /\ arp_table[i].ip = ip
      BY <2>1 DEF Lookup
    <3>2. pc'[Poller] = "mac"
      BY <2>1, TaskFacts DEF Goto, TypeOK
    <3> QED BY <2>0, <2>1, <3>1, <3>2 DEF ArpInv, ArpTableTrue
  <2>2. ASSUME Lookup(ip) = {}, NEW i \in ArpTable, FirstInvalid(i), slot' = i,
               arp_table' = [arp_table EXCEPT ![i].ip = ip], Goto(Poller, "mac")
        PROVE  ArpInv'
    <3>1. \A j \in ArpTable : ~(arp_table[j].valid /\ arp_table[j].ip = ip)
      BY <2>2 DEF Lookup
    <3>2. pc'[Poller] = "mac"
      BY <2>2, TaskFacts DEF Goto, TypeOK
    <3>3. ~arp_table'[i].valid /\ arp_table'[i].ip = ip /\ \A j \in ArpTable \ {i} : arp_table'[j] = arp_table[j]
      BY <2>2 DEF FirstInvalid, TypeOK
    <3>4. ArpTableTrue'
      BY <3>3 DEF ArpInv, ArpTableTrue
    <3> QED BY <2>0, <2>2, <3>1, <3>2, <3>3, <3>4 DEF ArpInv
  <2>3. ASSUME Goto(Poller, "answer"), UNCHANGED <<arp_table, slot>> PROVE ArpInv'
    <3>1. pc'[Poller] = "answer"
      BY <2>3, TaskFacts DEF Goto, TypeOK
    <3> QED BY <2>3, <3>1 DEF ArpInv, ArpTableTrue
  <2> QED BY <1>2, <2>1, <2>2, <2>3 DEF ProcessArp
<1>3. CASE ArpStore("mac")
  <2>1. /\ pc[Poller] = "mac" /\ recv_buf' = recv_buf /\ slot' = slot
        /\ arp_table' = [arp_table EXCEPT ![slot] = [@ EXCEPT !.mac = recv_buf.from]]
        /\ Goto(Poller, IF ~arp_table[slot].valid THEN "valid" ELSE "answer")
    BY <1>3 DEF ArpStore, StoreStep, rxVars
  <2>2. pc'[Poller] = IF ~arp_table[slot].valid THEN "valid" ELSE "answer"
    BY <2>1, TaskFacts DEF Goto, TypeOK
  <2>3. /\ arp_table'[slot].mac = recv_buf.from
        /\ arp_table'[slot].ip = arp_table[slot].ip /\ arp_table'[slot].valid = arp_table[slot].valid
        /\ \A j \in ArpTable \ {slot} : arp_table'[j] = arp_table[j]
    BY <2>1 DEF TypeOK
  <2>4. arp_table[slot].ip = recv_buf.from /\ slot \in ArpTable
    BY <2>1 DEF ArpInv, TypeOK
  <2>5. ArpTableTrue'
    BY <2>3, <2>4 DEF ArpInv, ArpTableTrue
  <2> QED BY <2>1, <2>2, <2>3, <2>4, <2>5 DEF ArpInv
<1>4. CASE ArpStore("valid")
  <2>1. /\ pc[Poller] = "valid" /\ recv_buf' = recv_buf /\ slot' = slot
        /\ arp_table' = [arp_table EXCEPT ![slot] = [@ EXCEPT !.valid = TRUE]]
        /\ Goto(Poller, "answer")
    BY <1>4 DEF ArpStore, StoreStep, rxVars
  <2>2. pc'[Poller] = "answer"
    BY <2>1, TaskFacts DEF Goto, TypeOK
  <2>3. /\ arp_table'[slot].mac = arp_table[slot].mac
        /\ arp_table'[slot].ip = arp_table[slot].ip /\ arp_table'[slot].valid
        /\ \A j \in ArpTable \ {slot} : arp_table'[j] = arp_table[j]
    BY <2>1 DEF TypeOK
  <2>4. /\ arp_table[slot].ip = recv_buf.from /\ arp_table[slot].mac = recv_buf.from /\ slot \in ArpTable
        /\ \A j \in ArpTable \ {slot} : ~(arp_table[j].valid /\ arp_table[j].ip = recv_buf.from)
    BY <2>1 DEF ArpInv, TypeOK
  <2>5. ArpTableTrue'
    BY <2>3, <2>4 DEF ArpInv, ArpTableTrue
  <2> QED BY <2>2, <2>5 DEF ArpInv
<1> QED BY <1>1, <1>2, <1>3, <1>4, ArpCases

\* What a step of a sender does to its own packet
LEMMA PacketStep == TypeOK /\ RecvInv /\ ArpInv /\ PacketInv /\ [Next]_vars => PacketInv'
<1> SUFFICES ASSUME TypeOK, RecvInv, ArpInv, PacketInv, [Next]_vars PROVE PacketInv'
  OBVIOUS
<1>1. CASE Quiet
  BY <1>1 DEF Quiet, PacketInv, Sending
<1>2. ASSUME NEW a \in Tasks, Begins(a) PROVE PacketInv'
  <2>1. PICK p \in Packet : Addressed(p) /\ Begin(a, p)
    BY <1>2 DEF Begins
  <2>2. /\ packet'[a] = p /\ pc'[a] = (IF p.type = "udp" THEN "build" ELSE "wait")
        /\ \A b \in Tasks \ {a} : packet'[b] = packet[b] /\ pc'[b] = pc[b]
    BY <2>1 DEF Begin, Goto, TypeOK
  <2> QED BY <2>1, <2>2 DEF PacketInv
<1>3. ASSUME NEW a \in Tasks, SendStep(a) PROVE PacketInv'
  <2>1. /\ pc[a] \in Sending /\ pc'[a] \in (Sending \ {"build"}) \cup {"idle"}
        /\ pc'[a] \in Sending => packet'[a] = packet[a]
        /\ \A b \in Tasks \ {a} : packet'[b] = packet[b] /\ pc'[b] = pc[b]
    BY <1>3 DEF SendStep, Build, WaitForDescriptor, CopyHead, CopyBody, Post, Advance, Kick,
                Return, Goto, TypeOK, Sending
  <2> QED BY <2>1 DEF PacketInv, Sending
<1>4. ASSUME NEW ip \in Peers \cup {Broadcast}, ShellSends(ip) PROVE PacketInv'
  BY <1>4 DEF ShellSends, PacketInv
<1>5. CASE CardTransmits
  BY <1>5 DEF CardTransmits, PacketInv
<1> QED BY <1>1, <1>2, <1>3, <1>4, <1>5, SendingCases

-----------------------------------------------------------------------------
(* The receive ring *)

LEMMA AheadFacts ==
    ASSUME NEW n \in Nat \ {0}, NEW h \in 0 .. n - 1, NEW i \in 0 .. n - 1
    PROVE  /\ Ahead(h, i, n) \in 0 .. n - 1
           /\ Ahead(h, i, n) = 0 <=> i = h
           /\ \A j \in 0 .. n - 1 : Ahead(h, i, n) = Ahead(h, j, n) => i = j
BY DEF Ahead

\* One step further, at either end
LEMMA AheadNext ==
    ASSUME NEW n \in Nat \ {0}, NEW h \in 0 .. n - 1, NEW i \in 0 .. n - 1
    PROVE  /\ Ahead((h + 1) % n, i, n) = IF i = h THEN n - 1 ELSE Ahead(h, i, n) - 1
           /\ Ahead(h, (i + 1) % n, n) = IF Ahead(h, i, n) = n - 1 THEN 0 ELSE Ahead(h, i, n) + 1
<1>1. (h + 1) % n = (IF h = n - 1 THEN 0 ELSE h + 1) /\ (i + 1) % n = IF i = n - 1 THEN 0 ELSE i + 1
  BY RingNext
<1>2. Ahead((h + 1) % n, i, n) = IF i = h THEN n - 1 ELSE Ahead(h, i, n) - 1
  BY <1>1 DEF Ahead
<1>3. Ahead(h, (i + 1) % n, n) = IF Ahead(h, i, n) = n - 1 THEN 0 ELSE Ahead(h, i, n) + 1
  BY <1>1 DEF Ahead
<1> QED BY <1>2, <1>3

LEMMA RxRingFinite == IsFiniteSet(Filled) /\ NumRx \in Nat \ {0, 1} /\ RxRing = 0 .. NumRx - 1
<1>1. IsFiniteSet(RxRing) /\ Filled \subseteq RxRing
  BY FS_Interval, RingAssumption DEF RxRing, Filled
<1> QED BY <1>1, FS_Subset, RingAssumption DEF RxRing

LEMMA RxStep == TypeOK /\ RecvInv /\ RxInv /\ [Next]_vars => RxInv'
<1> SUFFICES ASSUME TypeOK, RecvInv, RxInv, [Next]_vars PROVE RxInv'
  OBVIOUS
<1> DEFINE n == NumRx
<1>0. /\ n \in Nat \ {0, 1} /\ RxRing = 0 .. n - 1
      /\ rx_cur \in 0 .. n - 1 /\ rdt \in 0 .. n - 1 /\ rdh \in 0 .. n - 1
  BY RxRingFinite DEF TypeOK
<1>1. CASE RxQuiet
  BY <1>1 DEF RxQuiet, RxInv, Filled
<1>2. CASE PollReceive
  <2>1. /\ rx_ring[rx_cur].done /\ rx_ring' = [rx_ring EXCEPT ![rx_cur] = EmptyRx]
        /\ rx_cur' = (rx_cur + 1) % n /\ rdt' = rdt /\ rdh' = rdh
        /\ pc[Poller] = "idle" /\ pc'[Poller] = "return"
    BY <1>2, TaskFacts DEF PollReceive, Goto, TypeOK
  <2>2. ~rx_ring'[rx_cur].done /\ \A i \in RxRing \ {rx_cur} : rx_ring'[i] = rx_ring[i]
    BY <2>1 DEF TypeOK, EmptyRx
  <2>3. rdh # rx_cur /\ rdt # rx_cur /\ Ahead(rx_cur, rdt, n) = n - 1
    BY <1>0, <2>1, AheadFacts DEF RxInv, Ahead
  <2>4. \A i \in RxRing : Ahead(rx_cur', i, n) = IF i = rx_cur THEN n - 1 ELSE Ahead(rx_cur, i, n) - 1
    BY <1>0, <2>1, AheadNext
  <2>5. \A i \in RxRing : Ahead(rx_cur, i, n) \in 0 .. n - 1
    BY <1>0, AheadFacts
  <2>6. Ahead(rx_cur', rdt', n) = n - 2 /\ Ahead(rx_cur', rdh', n) = Ahead(rx_cur, rdh, n) - 1
    BY <1>0, <2>1, <2>3, <2>4
  <2>7. \A i \in RxRing : rx_ring'[i].done <=> Ahead(rx_cur', i, n) < Ahead(rx_cur', rdh', n)
    <3> SUFFICES ASSUME NEW i \in RxRing
                 PROVE  rx_ring'[i].done <=> Ahead(rx_cur', i, n) < Ahead(rx_cur', rdh', n)
      OBVIOUS
    <3>1. CASE i = rx_cur
      <4>1. ~rx_ring'[i].done
        BY <2>2, <3>1
      <4>2. Ahead(rx_cur', i, n) = n - 1
        BY <2>4, <3>1
      <4>3. Ahead(rx_cur, rdh, n) \in 0 .. n - 1
        BY <1>0, <2>5
      <4> HIDE DEF n
      <4>4. ~(Ahead(rx_cur', i, n) < Ahead(rx_cur', rdh', n))
        BY <1>0, <2>6, <4>2, <4>3
      <4> QED BY <4>1, <4>4
    <3>2. CASE i # rx_cur
      <4>1. rx_ring'[i].done <=> rx_ring[i].done
        BY <2>2, <3>2
      <4>2. rx_ring[i].done <=> Ahead(rx_cur, i, n) < Ahead(rx_cur, rdh, n)
        BY DEF RxInv
      <4>3. Ahead(rx_cur', i, n) = Ahead(rx_cur, i, n) - 1
        BY <2>4, <3>2
      <4>4. Ahead(rx_cur, i, n) \in Int /\ Ahead(rx_cur, rdh, n) \in Int
        BY <1>0, <2>5
      <4>5. Ahead(rx_cur', rdh', n) = Ahead(rx_cur, rdh, n) - 1
        BY <2>6
      <4> HIDE DEF n
      <4> QED BY <4>1, <4>2, <4>3, <4>4, <4>5
    <3> QED BY <3>1, <3>2
  <2>8. Cardinality(Filled') = Cardinality(Filled) - 1
    <3>1. rx_cur \in Filled /\ Filled' = Filled \ {rx_cur}
      BY <1>0, <2>1, <2>2 DEF Filled
    <3> QED BY <3>1, RxRingFinite, FS_RemoveElement
  <2>9. Cardinality(Filled') = Ahead(rx_cur', rdh', n)
    BY <2>6, <2>8 DEF RxInv
  <2>10. Ahead(rx_cur', rdh', n) <= n - 2
    BY <1>0, <2>5, <2>6
  <2> QED BY <2>1, <2>6, <2>7, <2>9, <2>10 DEF RxInv
<1>3. CASE ReturnDescriptor
  <2>1. /\ rx_ring' = rx_ring /\ rx_cur' = rx_cur /\ rdh' = rdh /\ rdt' = (rx_cur - 1) % n
        /\ pc[Poller] = "return" /\ pc'[Poller] = "process"
    BY <1>3, TaskFacts DEF ReturnDescriptor, Returned, Goto, TypeOK
  <2>2. rdt' = IF rx_cur = 0 THEN n - 1 ELSE rx_cur - 1
    BY <1>0, <2>1, RingNext
  <2>3. Ahead(rx_cur, rdt', n) = n - 1
    BY <1>0, <2>2 DEF Ahead
  <2>4. Ahead(rx_cur, rdh, n) \in 0 .. n - 1
    BY <1>0, AheadFacts
  <2>5. Ahead(rx_cur', rdh', n) <= Ahead(rx_cur', rdt', n)
    BY <1>0, <2>1, <2>3, <2>4
  <2>6. Filled' = Filled
    BY <2>1 DEF Filled
  <2> QED BY <2>1, <2>3, <2>5, <2>6 DEF RxInv
<1>4. ASSUME NEW f \in Arrivals, CardReceives(f) PROVE RxInv'
  <2>1. /\ rdh # rdt /\ rx_ring' = [rx_ring EXCEPT ![rdh] = [buf |-> f, done |-> TRUE]]
        /\ rdh' = (rdh + 1) % n /\ rdt' = rdt /\ rx_cur' = rx_cur /\ pc' = pc
    BY <1>4 DEF CardReceives
  <2>2. rx_ring'[rdh].done /\ \A i \in RxRing \ {rdh} : rx_ring'[i] = rx_ring[i]
    BY <1>0, <2>1 DEF TypeOK
  <2>3. \A i \in RxRing : Ahead(rx_cur, i, n) \in 0 .. n - 1
    BY <1>0, AheadFacts
  <2>4. Ahead(rx_cur, rdh, n) < Ahead(rx_cur, rdt, n)
    <3>1. Ahead(rx_cur, rdh, n) # Ahead(rx_cur, rdt, n)
      BY <1>0, <2>1, AheadFacts
    <3>2. Ahead(rx_cur, rdh, n) <= Ahead(rx_cur, rdt, n)
      BY DEF RxInv
    <3> HIDE DEF n
    <3> QED BY <1>0, <2>3, <3>1, <3>2
  <2>5. Ahead(rx_cur', rdh', n) = Ahead(rx_cur, rdh, n) + 1
    <3>1. Ahead(rx_cur, rdh, n) # n - 1
      BY <1>0, <2>3, <2>4
    <3> QED BY <1>0, <2>1, <3>1, AheadNext
  <2>6. \A i \in RxRing : rx_ring'[i].done <=> Ahead(rx_cur', i, n) < Ahead(rx_cur', rdh', n)
    <3> SUFFICES ASSUME NEW i \in RxRing
                 PROVE  rx_ring'[i].done <=> Ahead(rx_cur', i, n) < Ahead(rx_cur', rdh', n)
      OBVIOUS
    <3>1. CASE i = rdh
      <4>1. rx_ring'[i].done
        BY <2>2, <3>1
      <4>2. Ahead(rx_cur', i, n) = Ahead(rx_cur, rdh, n)
        BY <2>1, <3>1
      <4>3. Ahead(rx_cur, rdh, n) \in Int
        BY <1>0, <2>3
      <4> HIDE DEF n
      <4>4. Ahead(rx_cur', i, n) < Ahead(rx_cur', rdh', n)
        BY <2>5, <4>2, <4>3
      <4> QED BY <4>1, <4>4
    <3>2. CASE i # rdh
      <4>1. rx_ring'[i].done <=> rx_ring[i].done
        BY <2>2, <3>2
      <4>2. rx_ring[i].done <=> Ahead(rx_cur, i, n) < Ahead(rx_cur, rdh, n)
        BY DEF RxInv
      <4>3. Ahead(rx_cur, i, n) # Ahead(rx_cur, rdh, n)
        BY <1>0, <3>2, AheadFacts
      <4>4. Ahead(rx_cur', i, n) = Ahead(rx_cur, i, n)
        BY <2>1
      <4>5. Ahead(rx_cur, i, n) \in Int /\ Ahead(rx_cur, rdh, n) \in Int
        BY <1>0, <2>3
      <4> HIDE DEF n
      <4>6. Ahead(rx_cur', i, n) < Ahead(rx_cur', rdh', n) <=> Ahead(rx_cur, i, n) < Ahead(rx_cur, rdh, n)
        <5>1. Ahead(rx_cur, i, n) < Ahead(rx_cur, rdh, n) + 1
                <=> (Ahead(rx_cur, i, n) < Ahead(rx_cur, rdh, n) \/ Ahead(rx_cur, i, n) = Ahead(rx_cur, rdh, n))
          BY <4>5, BelowNext
        <5> QED BY <2>5, <4>3, <4>4, <5>1
      <4> QED BY <4>1, <4>2, <4>6
    <3> QED BY <3>1, <3>2
  <2>7. Cardinality(Filled') = Cardinality(Filled) + 1
    <3>1. rdh \notin Filled /\ Filled' = Filled \cup {rdh}
      <4>1. ~rx_ring[rdh].done
        BY <1>0, <2>3 DEF RxInv
      <4> QED BY <1>0, <2>2, <4>1 DEF Filled
    <3> QED BY <3>1, RxRingFinite, FS_AddElement
  <2>8. Cardinality(Filled') = Ahead(rx_cur', rdh', n)
    BY <2>5, <2>7 DEF RxInv
  <2>9. Ahead(rx_cur', rdh', n) <= Ahead(rx_cur', rdt', n)
    BY <1>0, <2>1, <2>3, <2>4, <2>5
  <2>10. Ahead(rx_cur', rdt', n) = IF pc'[Poller] = "return" THEN n - 2 ELSE n - 1
    BY <2>1 DEF RxInv
  <2> QED BY <2>6, <2>8, <2>9, <2>10 DEF RxInv
<1> QED BY <1>1, <1>2, <1>3, <1>4, RxCases

-----------------------------------------------------------------------------
(* The transmit ring *)

LEMMA TxRingFacts == NumTx \in Nat \ {0, 1} /\ NumTx \in Nat \ {0} /\ TxRing = 0 .. NumTx - 1
BY RingAssumption DEF TxRing

\* The driver posts the descriptor behind the last one.
LEMMA RunAdd ==
    ASSUME NEW P, NEW h \in TxRing, NEW t \in TxRing, Run(P, h, t), t \notin P
    PROVE  Run(P \cup {t}, h, NextTx(t))
<1> DEFINE A(i) == Ahead(h, i, NumTx)
<1>1. P = {i \in TxRing : A(i) < A(t)}
  BY DEF Run
<1>2. \A i \in TxRing : A(i) \in 0 .. NumTx - 1
  BY TxRingFacts, AheadFacts
<1>3. \A i \in TxRing : A(i) = A(t) => i = t
  BY TxRingFacts, AheadFacts
<1>4. NextTx(t) \in TxRing /\ A(NextTx(t)) = IF A(t) = NumTx - 1 THEN 0 ELSE A(t) + 1
  BY TxRingFacts, AheadNext, NextTxFact DEF NextTx
<1>5. CASE A(t) = NumTx - 1
  <2>1. NextTx(t) = h
    BY <1>4, <1>5, TxRingFacts, AheadFacts
  <2>2. \A i \in TxRing : A(i) < A(t) \/ i = t
    <3> HIDE DEF A
    <3> QED BY <1>2, <1>3, <1>5, TxRingFacts
  <2>3. P \cup {t} = TxRing
    BY <1>1, <2>2
  <2> QED BY <2>1, <2>3 DEF Run
<1>6. CASE A(t) # NumTx - 1
  <2>1. \A i \in TxRing : A(i) < A(NextTx(t)) <=> (A(i) < A(t) \/ i = t)
    <3> HIDE DEF A
    <3> SUFFICES ASSUME NEW i \in TxRing PROVE A(i) < A(NextTx(t)) <=> (A(i) < A(t) \/ i = t)
      OBVIOUS
    <3>1. A(i) \in Int /\ A(t) \in Int /\ (A(i) = A(t) <=> i = t)
      BY <1>2, <1>3, TxRingFacts
    <3>2. A(NextTx(t)) = A(t) + 1
      BY <1>4, <1>6
    <3>3. A(i) < A(t) + 1 <=> (A(i) < A(t) \/ A(i) = A(t))
      BY <3>1, BelowNext
    <3> QED BY <3>1, <3>2, <3>3
  <2>2. P \cup {t} = {i \in TxRing : A(i) < A(NextTx(t))}
    BY <1>1, <2>1
  <2> QED BY <2>2 DEF Run
<1> QED BY <1>5, <1>6

\* The card takes the first one.
LEMMA RunTake ==
    ASSUME NEW P, NEW h \in TxRing, NEW t \in TxRing, Run(P, h, t), h \in P
    PROVE  Run(P \ {h}, NextTx(h), t)
<1> DEFINE A(i) == Ahead(h, i, NumTx)
           B(i) == Ahead(NextTx(h), i, NumTx)
<1>1. \A i \in TxRing : A(i) \in 0 .. NumTx - 1
  BY TxRingFacts, AheadFacts
<1>2. \A i \in TxRing : B(i) = IF i = h THEN NumTx - 1 ELSE A(i) - 1
  BY TxRingFacts, AheadNext DEF NextTx
<1>3. A(h) = 0
  BY TxRingFacts, AheadFacts
<1>4. CASE t = h /\ P = TxRing
  <2>1. \A i \in TxRing : B(i) < B(t) <=> i # h
    <3> HIDE DEF A, B
    <3> QED BY <1>1, <1>2, <1>4, TxRingFacts
  <2>2. P \ {h} = {i \in TxRing : B(i) < B(t)}
    BY <1>4, <2>1
  <2> QED BY <2>2 DEF Run
<1>5. CASE P = {i \in TxRing : A(i) < A(t)}
  <2>0. A(h) < A(t)
    BY <1>5
  <2>1. \A i \in TxRing : B(i) < B(t) <=> (A(i) < A(t) /\ i # h)
    <3>1. t # h
      BY <1>3, <2>0
    <3> HIDE DEF A, B
    <3>2. A(t) \in 0 .. NumTx - 1 /\ B(t) = A(t) - 1
      BY <1>1, <1>2, <3>1
    <3> SUFFICES ASSUME NEW i \in TxRing PROVE B(i) < B(t) <=> (A(i) < A(t) /\ i # h)
      OBVIOUS
    <3>3. A(i) \in 0 .. NumTx - 1 /\ B(i) = IF i = h THEN NumTx - 1 ELSE A(i) - 1
      BY <1>1, <1>2
    <3> QED BY <3>2, <3>3, TxRingFacts
  <2>2. P \ {h} = {i \in TxRing : B(i) < B(t)}
    BY <1>5, <2>1
  <2> QED BY <2>2 DEF Run
<1> QED BY <1>4, <1>5 DEF Run

LEMMA NextTxInjective == \A i, j \in TxRing : NextTx(i) = NextTx(j) => i = j
<1> SUFFICES ASSUME NEW i \in TxRing, NEW j \in TxRing, NextTx(i) = NextTx(j) PROVE i = j
  OBVIOUS
<1>1. /\ NextTx(i) = (IF i = NumTx - 1 THEN 0 ELSE i + 1)
      /\ NextTx(j) = (IF j = NumTx - 1 THEN 0 ELSE j + 1)
  BY NextTxFact
<1>2. i \in 0 .. NumTx - 1 /\ j \in 0 .. NumTx - 1 /\ NumTx \in Nat
  BY TxRingFacts
<1>3. (IF i = NumTx - 1 THEN 0 ELSE i + 1) = (IF j = NumTx - 1 THEN 0 ELSE j + 1)
  BY <1>1
<1> QED BY <1>2, <1>3, RingInjective

\* A sender takes its step alone, unless packets were mixed up.
LEMMA Alone ==
    ASSUME TypeOK, SendInv, NEW a \in Tasks, SendStep(a), ~raced'
    PROVE  /\ ~raced /\ pc[a] \in Sending /\ pc'[a] \in Sending \cup {"idle"}
           /\ pc'[a] \in Sending => packet'[a] = packet[a]
           /\ \A b \in Tasks \ {a} : pc[b] \notin Sending /\ pc'[b] = pc[b]
<1>1. /\ ~raced /\ pc[a] \in Sending /\ pc'[a] \in Sending \cup {"idle"}
      /\ pc'[a] \in Sending => packet'[a] = packet[a]
      /\ \A b \in Tasks \ {a} : pc'[b] = pc[b]
  BY DEF SendStep, Build, WaitForDescriptor, CopyHead, CopyBody, Post, Advance, Kick,
         Return, Goto, TypeOK, Sending
<1> QED BY <1>1 DEF SendInv

LEMMA SendInvStep ==
    TypeOK /\ RecvInv /\ ArpInv /\ PacketInv /\ SendInv /\ RingInv /\ [Next]_vars => SendInv'
<1> SUFFICES ASSUME TypeOK, RecvInv, ArpInv, PacketInv, SendInv, RingInv, [Next]_vars, ~raced'
             PROVE  SendInv'
  BY DEF SendInv
<1> DEFINE
      Own(a) ==
          /\ pc[a] \in {"wait", "copy_head", "copy_body"} /\ packet[a].type = "udp" => send_buf = Whole(packet[a])
          /\ pc[a] \in {"copy_head", "copy_body", "post"} => tx_ring[tx_cur].done
          /\ pc[a] = "copy_body" => tx_ring[tx_cur].buf.head = packet[a]
          /\ pc[a] = "post" => tx_ring[tx_cur].buf = Whole(packet[a])
      Good(i) == ~tx_ring[i].done =>
          tx_ring[i].buf.head = tx_ring[i].buf.body /\ Addressed(tx_ring[i].buf.head)
<1>0. ASSUME ~raced
      PROVE  /\ \A a, b \in Tasks : pc[a] \in Sending /\ pc[b] \in Sending => a = b
             /\ \A a \in Tasks : Own(a)
             /\ \A i \in TxRing : Good(i)
  BY <1>0 DEF SendInv
<1>00. ASSUME \A a, b \in Tasks : pc'[a] \in Sending /\ pc'[b] \in Sending => a = b,
              \A a \in Tasks : Own(a)', \A i \in TxRing : Good(i)'
       PROVE  SendInv'
  BY <1>00 DEF SendInv
<1>1. CASE Quiet
  <2>1. ~raced /\ UNCHANGED <<send_buf, tx_ring, tx_cur, packet>>
    BY <1>1 DEF Quiet
  <2>2. \A a \in Tasks : pc'[a] = pc[a] \/ (pc[a] \notin Sending /\ pc'[a] \notin Sending)
    BY <1>1 DEF Quiet
  <2>3. \A a \in Tasks : Own(a)'
    BY <1>0, <2>1, <2>2 DEF Sending
  <2>4. \A i \in TxRing : Good(i)'
    BY <1>0, <2>1
  <2>5. \A a, b \in Tasks : pc'[a] \in Sending /\ pc'[b] \in Sending => a = b
    BY <1>0, <2>1, <2>2
  <2> HIDE DEF Own, Good
  <2> QED BY <1>00, <2>3, <2>4, <2>5
<1>2. ASSUME NEW a \in Tasks, Begins(a) PROVE SendInv'
  <2>1. PICK p \in Packet : Begin(a, p)
    BY <1>2 DEF Begins
  <2>2. /\ UNCHANGED <<send_buf, tx_ring, tx_cur>> /\ ~raced
        /\ \A b \in Tasks \ {a} : pc[b] \notin Sending
        /\ packet'[a] = p /\ pc'[a] = (IF p.type = "udp" THEN "build" ELSE "wait")
        /\ \A b \in Tasks \ {a} : packet'[b] = packet[b] /\ pc'[b] = pc[b]
    BY <1>2, <2>1 DEF Begins, Begin, Goto, TypeOK
  <2>3. \A b \in Tasks : Own(b)'
    BY <2>2 DEF Sending
  <2>4. \A i \in TxRing : Good(i)'
    BY <1>0, <2>2
  <2>5. \A b, c \in Tasks : pc'[b] \in Sending /\ pc'[c] \in Sending => b = c
    BY <2>2
  <2> HIDE DEF Own, Good
  <2> QED BY <1>00, <2>3, <2>4, <2>5
<1>3. ASSUME NEW a \in Tasks, SendStep(a) PROVE SendInv'
  <2>1. /\ ~raced /\ pc[a] \in Sending
        /\ \A b \in Tasks \ {a} : pc[b] \notin Sending /\ pc'[b] = pc[b]
    BY <1>3, Alone
  <2>2. \A b, c \in Tasks : pc'[b] \in Sending /\ pc'[c] \in Sending => b = c
    BY <2>1
  <2>3. SUFFICES Own(a)' /\ \A i \in TxRing : Good(i)'
    <3>1. \A b \in Tasks \ {a} : Own(b)'
      BY <2>1 DEF Sending
    <3> HIDE DEF Own, Good
    <3> QED BY <1>00, <2>2, <2>3, <3>1
  <2>4. Own(a) /\ \A i \in TxRing : Good(i)
    BY <1>0, <2>1
  <2>5. /\ tx_cur \in TxRing /\ tx_ring \in [TxRing -> [buf : Frame, done : BOOLEAN]]
        /\ pc \in [Tasks -> Label] /\ packet \in [Tasks -> Packet \cup {NoPacket}]
    BY DEF TypeOK
  <2>6. packet[a] \in Packet /\ Addressed(packet[a])
    BY <2>1 DEF PacketInv
  <2>7. CASE Build(a)
    BY <2>4, <2>5, <2>7 DEF Build, Goto
  <2>8. CASE WaitForDescriptor(a)
    <3>1. /\ UNCHANGED <<send_buf, tx_ring, tx_cur>>
          /\ \/ pc'[a] = "copy_head" /\ tx_ring[tx_cur].done /\ packet' = packet
             \/ pc'[a] = "idle"
      BY <2>5, <2>8 DEF WaitForDescriptor, Return, Goto, IsFree, txVars
    <3>2. pc[a] = "wait"
      BY <2>8 DEF WaitForDescriptor
    <3> QED BY <2>4, <3>1, <3>2
  <2>9. CASE CopyHead(a)
    <3>1. /\ UNCHANGED <<send_buf, tx_cur, packet>> /\ pc[a] = "copy_head" /\ pc'[a] = "copy_body"
          /\ tx_ring'[tx_cur].done = tx_ring[tx_cur].done
          /\ tx_ring'[tx_cur].buf.head = Source(a).head
          /\ \A i \in TxRing \ {tx_cur} : tx_ring'[i] = tx_ring[i]
      BY <2>5, <2>9 DEF CopyHead, Goto, Frame
    <3>2. Source(a) = Whole(packet[a])
      BY <2>4, <3>1 DEF Source
    <3> QED BY <2>4, <2>5, <3>1, <3>2 DEF Whole
  <2>10. CASE CopyBody(a)
    <3>1. /\ UNCHANGED <<send_buf, tx_cur, packet>> /\ pc[a] = "copy_body" /\ pc'[a] = "post"
          /\ tx_ring'[tx_cur].done = tx_ring[tx_cur].done
          /\ tx_ring'[tx_cur].buf = [tx_ring[tx_cur].buf EXCEPT !.body = Source(a).body]
          /\ \A i \in TxRing \ {tx_cur} : tx_ring'[i] = tx_ring[i]
      BY <2>5, <2>10 DEF CopyBody, Goto
    <3>2. Source(a) = Whole(packet[a])
      BY <2>4, <3>1 DEF Source
    <3>3. tx_ring[tx_cur].buf \in Frame /\ tx_ring[tx_cur].buf.head = packet[a]
      BY <2>4, <2>5, <3>1
    <3>4. tx_ring'[tx_cur].buf = Whole(packet[a])
      BY <3>1, <3>2, <3>3 DEF Whole, Frame
    <3> QED BY <2>4, <2>5, <3>1, <3>4
  <2>11. CASE Post(a)
    <3>1. /\ UNCHANGED <<send_buf, tx_cur, packet>> /\ pc[a] = "post" /\ pc'[a] = "advance"
          /\ tx_ring'[tx_cur].buf = tx_ring[tx_cur].buf
          /\ \A i \in TxRing \ {tx_cur} : tx_ring'[i] = tx_ring[i]
      BY <2>5, <2>11 DEF Post, Goto
    <3>2. tx_ring'[tx_cur].buf.head = packet[a] /\ tx_ring'[tx_cur].buf.body = packet[a]
      BY <2>4, <3>1 DEF Whole
    <3>3. \A i \in TxRing : Good(i)'
      BY <2>4, <2>6, <3>1, <3>2
    <3> QED BY <3>1, <3>3
  <2>12. CASE Advance(a)
    BY <2>4, <2>5, <2>12 DEF Advance, Goto
  <2>13. CASE Kick(a)
    BY <2>4, <2>5, <2>13 DEF Kick, Return, Goto
  <2> QED BY <1>3, <2>7, <2>8, <2>9, <2>10, <2>11, <2>12, <2>13 DEF SendStep
<1>4. ASSUME NEW ip \in Peers \cup {Broadcast}, ShellSends(ip) PROVE SendInv'
  <2>1. ~raced /\ pc' = pc /\ \A b \in Tasks : pc[b] \notin Sending
    BY <1>4 DEF ShellSends
  <2>2. PICK p \in Choices(ip) :
          \/ tx_ring' = [tx_ring EXCEPT ![tx_cur] = [buf |-> Whole(p), done |-> FALSE]]
          \/ tx_ring' = tx_ring
    BY <1>4 DEF ShellSends
  <2>3. Addressed(p)
    BY ChoiceFact DEF ArpInv
  <2>4. ASSUME NEW i \in TxRing PROVE Good(i)'
    <3>1. \/ tx_ring'[i] = tx_ring[i]
          \/ tx_ring'[i].buf.head = p /\ tx_ring'[i].buf.body = p
      BY <2>2 DEF Whole, TypeOK
    <3> QED BY <1>0, <2>1, <2>3, <3>1
  <2>5. \A a \in Tasks : Own(a)'
    BY <2>1 DEF Sending
  <2>6. \A b, c \in Tasks : pc'[b] \in Sending /\ pc'[c] \in Sending => b = c
    BY <2>1
  <2> HIDE DEF Own, Good
  <2> QED BY <1>00, <2>4, <2>5, <2>6
<1>5. CASE CardTransmits
  <2>1. /\ ~raced /\ UNCHANGED <<send_buf, tx_cur, packet, pc>> /\ tdh # tdt
        /\ tx_ring' = [tx_ring EXCEPT ![tdh] = FreeTx]
    BY <1>5 DEF CardTransmits
  <2>2. tx_ring'[tdh].done /\ \A i \in TxRing \ {tdh} : tx_ring'[i] = tx_ring[i]
    BY <2>1 DEF TypeOK, FreeTx
  <2>3. \A i \in TxRing : Good(i)'
    BY <1>0, <2>1, <2>2
  <2>4. ASSUME NEW a \in Tasks PROVE Own(a)'
    <3>1. CASE pc[a] \in {"copy_head", "copy_body", "post"}
      <4>1. ~Kicking
        BY <1>0, <2>1, <3>1 DEF Kicking, Sending
      <4>2. tdt = tx_cur
        BY <2>1, <4>1 DEF RingInv, Top, Kicking
      <4> QED BY <1>0, <2>1, <2>2, <4>2 DEF TypeOK
    <3>2. CASE pc[a] \notin {"copy_head", "copy_body", "post"}
      BY <1>0, <2>1, <3>2
    <3> QED BY <3>1, <3>2
  <2>5. \A b, c \in Tasks : pc'[b] \in Sending /\ pc'[c] \in Sending => b = c
    BY <1>0, <2>1
  <2> HIDE DEF Own, Good
  <2> QED BY <1>00, <2>3, <2>4, <2>5
<1> QED BY <1>1, <1>2, <1>3, <1>4, <1>5, SendingCases

\* Where the tasks are decides Kicking and Top, for a given tx_cur.
LEMMA PostedFacts == TypeOK => /\ tx_cur \in TxRing /\ tdt \in TxRing /\ tdh \in TxRing /\ Top \in TxRing
                               /\ \A i \in TxRing : i \in Posted <=> ~tx_ring[i].done
BY NextTxFact DEF TypeOK, Top, Posted

LEMMA RingStep ==
    TypeOK /\ RecvInv /\ ArpInv /\ SendInv /\ RingInv /\ [Next]_vars => RingInv'
<1> SUFFICES ASSUME TypeOK, RecvInv, ArpInv, SendInv, RingInv, [Next]_vars, ~raced'
             PROVE  RingInv'
  BY DEF RingInv
<1>0. ASSUME ~raced
      PROVE  /\ IF Kicking THEN NextTx(tdt) = Top /\ tdt \in Posted ELSE tdt = Top
             /\ Run(Posted, tdh, Top)
  BY <1>0 DEF RingInv
<1>00. ASSUME ~raced, UNCHANGED <<Posted, tdh, tdt, Top>>, Kicking' <=> Kicking
       PROVE  RingInv'
  BY <1>0, <1>00 DEF RingInv, Run
<1>1. CASE Quiet
  <2>1. /\ ~raced /\ UNCHANGED <<tx_ring, tx_cur, tdt, tdh>>
        /\ \A a \in Tasks : pc'[a] = pc[a] \/ (pc[a] \notin Sending /\ pc'[a] \notin Sending)
    BY <1>1 DEF Quiet
  <2>2. Kicking' <=> Kicking
    BY <2>1 DEF Kicking, Sending
  <2>3. Top' = Top
    BY <2>1 DEF Top, Sending, NextTx
  <2>4. Posted' = Posted
    BY <2>1 DEF Posted
  <2> QED BY <1>00, <2>1, <2>2, <2>3, <2>4
<1>2. ASSUME NEW a \in Tasks, Begins(a) PROVE RingInv'
  <2>1. PICK p \in Packet : Begin(a, p)
    BY <1>2 DEF Begins
  <2>2. /\ ~raced /\ UNCHANGED <<tx_ring, tx_cur, tdt, tdh>>
        /\ pc[a] \notin Sending /\ pc'[a] \in {"build", "wait"}
        /\ \A b \in Tasks \ {a} : pc'[b] = pc[b]
    BY <1>2, <2>1 DEF Begins, Begin, Goto, TypeOK
  <2>3. Kicking' <=> Kicking
    BY <2>2 DEF Kicking, Sending
  <2>4. Top' = Top
    BY <2>2 DEF Top, Sending, NextTx
  <2>5. Posted' = Posted
    BY <2>2 DEF Posted
  <2> QED BY <1>00, <2>2, <2>3, <2>4, <2>5
<1>3. ASSUME NEW a \in Tasks, SendStep(a) PROVE RingInv'
  <2>1. /\ ~raced /\ pc[a] \in Sending
        /\ \A b \in Tasks \ {a} : pc[b] \notin Sending /\ pc'[b] = pc[b]
    BY <1>3, Alone
  <2>2. /\ Kicking <=> pc[a] \in {"advance", "kick"}
        /\ Kicking' <=> pc'[a] \in {"advance", "kick"}
    BY <2>1 DEF Kicking, Sending
  <2>3. /\ Top = IF pc[a] = "advance" THEN NextTx(tx_cur) ELSE tx_cur
        /\ Top' = IF pc'[a] = "advance" THEN NextTx(tx_cur') ELSE tx_cur'
    BY <2>1 DEF Top, Sending, NextTx
  <2>4. pc \in [Tasks -> Label] /\ tx_cur \in TxRing /\ tx_ring \in [TxRing -> [buf : Frame, done : BOOLEAN]]
    BY DEF TypeOK
  <2>5. CASE Build(a) \/ WaitForDescriptor(a) \/ CopyHead(a) \/ CopyBody(a)
    <3>1. /\ UNCHANGED <<tx_cur, tdt, tdh>>
          /\ pc[a] \notin {"advance", "kick"} /\ pc'[a] \notin {"advance", "kick"}
      BY <2>4, <2>5 DEF Build, WaitForDescriptor, CopyHead, CopyBody, Return, Goto, txVars
    <3>2. \A i \in TxRing : tx_ring'[i].done = tx_ring[i].done
      BY <2>4, <2>5 DEF Build, WaitForDescriptor, CopyHead, CopyBody, txVars
    <3>3. Posted' = Posted
      BY <3>2 DEF Posted
    <3> QED BY <1>00, <2>1, <2>2, <2>3, <3>1, <3>3
  <2>6. CASE Post(a)
    <3>1. /\ UNCHANGED <<tx_cur, tdt, tdh>> /\ pc[a] = "post" /\ pc'[a] = "advance"
          /\ tx_ring' = [tx_ring EXCEPT ![tx_cur].done = FALSE]
      BY <2>4, <2>6 DEF Post, Goto
    <3>2. tx_ring[tx_cur].done
      BY <2>1, <3>1 DEF SendInv
    <3>3. tx_cur \notin Posted /\ Posted' = Posted \cup {tx_cur}
      BY <2>4, <3>1, <3>2 DEF Posted
    <3>4. Top = tx_cur /\ tdt = tx_cur /\ Run(Posted, tdh, tx_cur)
      BY <1>0, <2>1, <2>2, <2>3, <3>1
    <3>5. Run(Posted', tdh, NextTx(tx_cur))
      BY <3>3, <3>4, RunAdd, PostedFacts
    <3>6. Top' = NextTx(tx_cur) /\ NextTx(tdt)' = NextTx(tdt)
      BY <2>3, <3>1 DEF NextTx
    <3>7. Run(Posted, tdh, Top)'
      BY <3>1, <3>5, <3>6 DEF Run
    <3> QED BY <2>2, <3>1, <3>3, <3>4, <3>6, <3>7 DEF RingInv
  <2>7. CASE Advance(a)
    <3>1. /\ UNCHANGED <<tx_ring, tdt, tdh>> /\ pc[a] = "advance" /\ pc'[a] = "kick"
          /\ tx_cur' = NextTx(tx_cur)
      BY <2>4, <2>7 DEF Advance, Goto
    <3>2. Posted' = Posted
      BY <3>1 DEF Posted
    <3> QED BY <1>00, <2>1, <2>2, <2>3, <3>1, <3>2
  <2>8. CASE Kick(a)
    <3>1. /\ UNCHANGED <<tx_ring, tx_cur, tdh>> /\ pc[a] = "kick" /\ pc'[a] = "idle" /\ tdt' = tx_cur
      BY <2>4, <2>8 DEF Kick, Return, Goto
    <3>2. Posted' = Posted
      BY <3>1 DEF Posted
    <3>3. Top' = Top /\ tdt' = Top'
      BY <2>3, <3>1
    <3>4. Run(Posted, tdh, Top)'
      BY <1>0, <2>1, <3>1, <3>2, <3>3 DEF Run
    <3> QED BY <2>2, <3>1, <3>3, <3>4 DEF RingInv
  <2> QED BY <1>3, <2>5, <2>6, <2>7, <2>8 DEF SendStep
<1>4. ASSUME NEW ip \in Peers \cup {Broadcast}, ShellSends(ip) PROVE RingInv'
  <2>1. /\ ~raced /\ pc' = pc /\ tdh' = tdh /\ \A b \in Tasks : pc[b] \notin Sending
    BY <1>4 DEF ShellSends
  <2>2. ~Kicking /\ ~Kicking' /\ Top = tx_cur /\ Top' = tx_cur'
    BY <2>1 DEF Kicking, Top, Sending
  <2>3. PICK p \in Choices(ip) :
          IF IsFree(tx_cur)
          THEN /\ tx_ring' = [tx_ring EXCEPT ![tx_cur] = [buf |-> Whole(p), done |-> FALSE]]
               /\ tx_cur' = NextTx(tx_cur)
               /\ tdt' = NextTx(tx_cur)
          ELSE UNCHANGED <<tx_ring, tx_cur, tdt>>
    BY <1>4 DEF ShellSends
  <2>4. CASE IsFree(tx_cur)
    <3>1. tx_cur \notin Posted /\ Posted' = Posted \cup {tx_cur}
      BY <2>3, <2>4 DEF IsFree, Posted, TypeOK
    <3>2. Run(Posted', tdh, NextTx(tx_cur))
      BY <1>0, <2>1, <2>2, <3>1, RunAdd, PostedFacts
    <3>3. Run(Posted, tdh, Top)'
      BY <2>1, <2>2, <2>3, <2>4, <3>2 DEF Run
    <3> QED BY <2>2, <2>3, <2>4, <3>3 DEF RingInv
  <2>5. CASE ~IsFree(tx_cur)
    <3>1. Posted' = Posted
      BY <2>3, <2>5 DEF Posted
    <3> QED BY <1>00, <2>1, <2>2, <2>3, <2>5, <3>1
  <2> QED BY <2>4, <2>5
<1>5. CASE CardTransmits
  <2>1. /\ ~raced /\ UNCHANGED <<tx_cur, tdt, pc>> /\ tdh # tdt
        /\ tx_ring' = [tx_ring EXCEPT ![tdh] = FreeTx] /\ tdh' = NextTx(tdh)
    BY <1>5 DEF CardTransmits, NextTx
  <2>2. Posted' = Posted \ {tdh}
    BY <2>1 DEF Posted, TypeOK, FreeTx
  <2>3. (Kicking' <=> Kicking) /\ Top' = Top /\ NextTx(tdt)' = NextTx(tdt)
    BY <2>1 DEF Kicking, Top, NextTx
  <2>4. tdh \in Posted
    <3>1. CASE Posted = TxRing
      BY <3>1, PostedFacts
    <3>2. CASE Posted # TxRing
      <4>1. Posted = {i \in TxRing : Ahead(tdh, i, NumTx) < Ahead(tdh, Top, NumTx)}
        BY <1>0, <2>1, <3>2 DEF Run
      <4>2. Ahead(tdh, tdh, NumTx) = 0
        BY PostedFacts, TxRingFacts, AheadFacts
      <4>3. \A i \in TxRing : Ahead(tdh, i, NumTx) \in 0 .. NumTx - 1
        BY PostedFacts, TxRingFacts, AheadFacts
      <4>4. Top # tdh
        <5>1. CASE Kicking
          BY <1>0, <2>1, <4>1, <4>2, <4>3, <5>1, PostedFacts, TxRingFacts
        <5>2. CASE ~Kicking
          BY <1>0, <2>1, <5>2
        <5> QED BY <5>1, <5>2
      <4>5. Ahead(tdh, Top, NumTx) # 0
        BY <4>4, PostedFacts, TxRingFacts, AheadFacts
      <4> QED BY <4>1, <4>2, <4>3, <4>5, PostedFacts, TxRingFacts
    <3> QED BY <3>1, <3>2
  <2>5. Run(Posted \ {tdh}, NextTx(tdh), Top)
    BY <1>0, <2>1, <2>4, RunTake, PostedFacts
  <2>6. Run(Posted, tdh, Top)'
    BY <2>1, <2>2, <2>3, <2>5 DEF Run
  <2>7. tdt \in Posted => tdt' \in Posted'
    BY <2>1, <2>2
  <2> QED BY <1>0, <2>1, <2>3, <2>6, <2>7 DEF RingInv
<1> QED BY <1>1, <1>2, <1>3, <1>4, <1>5, SendingCases

-----------------------------------------------------------------------------
(* The invariant holds, and the properties follow *)

LEMMA InitInv == Init => IInv
<1> SUFFICES ASSUME Init PROVE IInv
  OBVIOUS
<1> USE DEF Init
<1>0. 0 \in TxRing /\ 0 \in RxRing /\ NumRx - 1 \in RxRing /\ 1 \in ArpTable /\ "idle" \in Label
  BY RingAssumption DEF TxRing, RxRing, ArpTable, Label
<1>1. TypeOK
  <2>1. FreeTx \in [buf : Frame, done : BOOLEAN]
    BY PacketFacts DEF FreeTx
  <2> QED BY <1>0, <2>1, PacketFacts DEF TypeOK, EmptyRx
<1>2. RecvInv /\ PacketInv
  BY TaskFacts DEF RecvInv, PacketInv, EmptyRx, Sending
<1>3. ArpInv
  BY TaskFacts DEF ArpInv, ArpTableTrue
<1>4. SendInv
  BY DEF SendInv, FreeTx, Sending
<1>5. RingInv
  <2>1. ~Kicking /\ Top = 0 /\ Posted = {}
    BY DEF Kicking, Top, Posted, FreeTx
  <2>2. \A i \in TxRing : ~(Ahead(0, i, NumTx) < Ahead(0, 0, NumTx))
    BY TxRingFacts DEF Ahead
  <2> QED BY <2>1, <2>2 DEF RingInv, Run
<1>6. RxInv
  <2>1. Filled = {}
    BY DEF Filled, EmptyRx
  <2>2. Cardinality(Filled) = 0
    BY <2>1, FS_EmptySet
  <2>3. \A i \in RxRing : ~rx_ring[i].done /\ ~(Ahead(0, i, NumRx) < Ahead(0, 0, NumRx))
    BY RxRingFinite DEF Ahead, EmptyRx
  <2>4. Ahead(0, 0, NumRx) = 0 /\ Ahead(0, NumRx - 1, NumRx) = NumRx - 1 /\ 0 <= NumRx - 1
    BY RingAssumption DEF Ahead
  <2>5. pc[Poller] = "idle"
    BY TaskFacts
  <2> QED BY <2>2, <2>3, <2>4, <2>5 DEF RxInv
<1> QED BY <1>1, <1>2, <1>3, <1>4, <1>5, <1>6 DEF IInv

LEMMA InductiveStep == IInv /\ [Next]_vars => IInv'
BY TypeStep, RecvStep, ArpStep, PacketStep, SendInvStep, RingStep, RxStep DEF IInv

\* Everything below rests on this invariant of E1000::send, poll_receive,
\* arp_store and the card.
THEOREM Invariance == Spec => []IInv
BY InitInv, InductiveStep, PTL DEF Spec

\* Every step of the stack, the driver and the card keeps its indices within
\* the rings and its tables well typed.
THEOREM TypeCorrect == Spec => []TypeOK
<1>1. IInv => TypeOK
  BY DEF IInv
<1> QED BY <1>1, Invariance, PTL

\* arp_store publishes only complete, correct entries, one for an address, at
\* every interleaving with the senders that look into the table.
THEOREM ArpIsTrue == Spec => []ArpTableTrue
<1>1. IInv => ArpTableTrue
  BY DEF IInv, ArpInv
<1> QED BY <1>1, Invariance, PTL

\* What the card sees is what E1000::send has posted and told it of, unless
\* the whole ring is posted.
LEMMA VisiblePosted ==
    ASSUME IInv, ~raced, Posted # TxRing
    PROVE  Visible = Posted \ Unkicked
<1> DEFINE A(i) == Ahead(tdh, i, NumTx)
<1>0. tx_cur \in TxRing /\ tdt \in TxRing /\ tdh \in TxRing /\ Top \in TxRing
  BY PostedFacts DEF IInv
<1>1. Visible = {i \in TxRing : A(i) < A(tdt)}
  BY <1>0, RingMod, TxRingFacts DEF Visible
<1>2. Posted = {i \in TxRing : A(i) < A(Top)}
  BY DEF IInv, RingInv, Run
<1>3. CASE ~Kicking
  <2>1. Unkicked = {} /\ tdt = Top
    BY <1>3 DEF IInv, RingInv, Unkicked, Kicking
  <2> HIDE DEF A
  <2> QED BY <1>1, <1>2, <2>1
<1>4. CASE Kicking
  <2>1. NextTx(tdt) = Top /\ tdt \in Posted
    BY <1>4 DEF IInv, RingInv
  <2>2. Unkicked = {tdt}
    <3>1. PICK a \in Tasks : pc[a] \in {"advance", "kick"}
      BY <1>4 DEF Kicking
    <3>2. \A b \in Tasks : pc[b] \in {"advance", "kick"} => b = a
      BY <3>1 DEF IInv, SendInv, Sending
    <3>3. CASE pc[a] = "advance"
      <4>1. Top = NextTx(tx_cur) /\ Unkicked = {tx_cur}
        BY <1>0, <3>2, <3>3 DEF Top, Unkicked
      <4> QED BY <1>0, <2>1, <4>1, NextTxInjective
    <3>4. CASE pc[a] = "kick"
      <4>1. Top = tx_cur /\ Unkicked = {i \in TxRing : NextTx(i) = tx_cur}
        BY <1>0, <3>2, <3>4 DEF Top, Unkicked
      <4> QED BY <1>0, <2>1, <4>1, NextTxInjective
    <3> QED BY <3>1, <3>3, <3>4
  <2>3. \A i \in TxRing : A(i) \in 0 .. NumTx - 1 /\ (A(i) = A(tdt) => i = tdt)
    <3> SUFFICES ASSUME NEW i \in TxRing PROVE A(i) \in 0 .. NumTx - 1 /\ (A(i) = A(tdt) => i = tdt)
      OBVIOUS
    <3>1. NumTx \in Nat \ {0} /\ tdh \in 0 .. NumTx - 1 /\ tdt \in 0 .. NumTx - 1 /\ i \in 0 .. NumTx - 1
      BY <1>0, TxRingFacts
    <3> QED BY <3>1, AheadFacts
  <2>4. A(Top) = IF A(tdt) = NumTx - 1 THEN 0 ELSE A(tdt) + 1
    BY <1>0, <2>1, TxRingFacts, AheadNext DEF NextTx
  <2>5. A(tdt) < A(Top)
    BY <1>2, <2>1
  <2> HIDE DEF A
  <2>6. \A i \in TxRing : A(i) < A(tdt) <=> (A(i) < A(Top) /\ i # tdt)
    <3>1. A(tdt) \in Int /\ A(Top) = A(tdt) + 1
      BY <1>0, <2>3, <2>4, <2>5, TxRingFacts
    <3> SUFFICES ASSUME NEW i \in TxRing PROVE A(i) < A(tdt) <=> (A(i) < A(Top) /\ i # tdt)
      OBVIOUS
    <3>2. A(i) \in Int /\ (A(i) = A(tdt) <=> i = tdt)
      BY <2>3
    <3>3. A(i) < A(tdt) <=> (A(i) < A(tdt) + 1 /\ A(i) # A(tdt))
      BY <3>1, <3>2
    <3> QED BY <3>1, <3>2, <3>3
  <2> QED BY <1>1, <1>2, <2>2, <2>6
<1> QED BY <1>3, <1>4

\* The DD bits and tx_cur of E1000::send agree with the card's head and tail,
\* at every interleaving of the senders and the card.
THEOREM RingsAgree == Spec => []CardSeesPosted
<1>1. IInv => CardSeesPosted
  BY VisiblePosted DEF CardSeesPosted
<1> QED BY <1>1, Invariance, PTL

\* E1000::send and send_udp hand the card only frames whose headers and
\* payload belong together and that are addressed to whom they are meant for.
THEOREM SentWhole == Spec => []FramesWhole
<1>1. IInv => FramesWhole
  <2> SUFFICES ASSUME IInv, ~raced, NEW i \in Visible
               PROVE  /\ tx_ring[i].buf.head = tx_ring[i].buf.body
                      /\ tx_ring[i].buf.head.type # "request" => tx_ring[i].buf.head.mac = tx_ring[i].buf.head.ip
    BY DEF FramesWhole
  <2>1. i \in TxRing /\ i \in Posted
    BY VisiblePosted DEF Visible
  <2> QED BY <2>1 DEF IInv, SendInv, Posted, Addressed
<1> QED BY <1>1, Invariance, PTL

-----------------------------------------------------------------------------
(* The receive ring implements Fifo *)

\* The descriptor at position k of the queue
At(k) == (rx_cur + k - 1) % NumRx

LEMMA AtFacts ==
    ASSUME TypeOK, NEW k \in 1 .. NumRx
    PROVE  At(k) \in RxRing /\ Ahead(rx_cur, At(k), NumRx) = k - 1
<1>1. NumRx \in Nat \ {0} /\ rx_cur \in 0 .. NumRx - 1 /\ k - 1 \in 0 .. NumRx - 1 /\ RxRing = 0 .. NumRx - 1
  BY RxRingFinite DEF TypeOK
<1>2. At(k) = IF rx_cur + (k - 1) < NumRx THEN rx_cur + (k - 1) ELSE rx_cur + (k - 1) - NumRx
  BY <1>1, RingPlus DEF At
<1> QED BY <1>1, <1>2 DEF Ahead

\* Positions as the reader moves on
LEMMA AtNext ==
    ASSUME TypeOK, TypeOK', rx_cur' = (rx_cur + 1) % NumRx, NEW k \in 1 .. NumRx - 1
    PROVE  At(k)' = At(k + 1)
<1>1. NumRx \in Nat \ {0} /\ rx_cur \in 0 .. NumRx - 1 /\ rx_cur' \in 0 .. NumRx - 1
      /\ k - 1 \in 0 .. NumRx - 1 /\ k \in 0 .. NumRx - 1
  BY RxRingFinite DEF TypeOK
<1>2. rx_cur' = IF rx_cur = NumRx - 1 THEN 0 ELSE rx_cur + 1
  BY <1>1, RingNext
<1>3. At(k)' = (rx_cur' + (k - 1)) % NumRx /\ At(k + 1) = (rx_cur + k) % NumRx
  BY <1>1 DEF At
<1>4. (rx_cur' + (k - 1)) % NumRx = IF rx_cur' + (k - 1) < NumRx THEN rx_cur' + (k - 1) ELSE rx_cur' + (k - 1) - NumRx
  BY <1>1, RingPlus
<1>5. (rx_cur + k) % NumRx = IF rx_cur + k < NumRx THEN rx_cur + k ELSE rx_cur + k - NumRx
  BY <1>1, RingPlus
<1> QED BY <1>1, <1>2, <1>3, <1>4, <1>5

Waiting == Cardinality(Filled)

LEMMA QueueFacts ==
    ASSUME IInv
    PROVE  /\ Waiting \in 0 .. NumRx - 1
           /\ RxQueue = [k \in 1 .. Waiting |-> rx_ring[At(k)].buf]
           /\ RxQueue \in Seq(Arrivals) /\ Len(RxQueue) = Waiting
<1>1. Waiting \in 0 .. NumRx - 1
  BY AheadFacts, RxRingFinite DEF IInv, RxInv, TypeOK, Waiting
<1>2. RxQueue = [k \in 1 .. Waiting |-> rx_ring[At(k)].buf]
  BY DEF RxQueue, At, Waiting, Filled
<1>3. \A k \in 1 .. Waiting : rx_ring[At(k)].buf \in Arrivals
  <2> SUFFICES ASSUME NEW k \in 1 .. Waiting PROVE rx_ring[At(k)].buf \in Arrivals
    OBVIOUS
  <2>1. k \in 1 .. NumRx
    BY <1>1, RxRingFinite
  <2>2. At(k) \in RxRing /\ Ahead(rx_cur, At(k), NumRx) = k - 1
    BY <2>1, AtFacts DEF IInv
  <2>3. k - 1 < Ahead(rx_cur, rdh, NumRx)
    BY <1>1 DEF IInv, RxInv, Waiting
  <2> QED BY <2>2, <2>3 DEF IInv, RxInv, RecvInv
<1> QED BY <1>1, <1>2, <1>3

LEMMA GetStep == IInv /\ IInv' /\ PollReceive => Rx!Get
<1> SUFFICES ASSUME IInv, IInv', PollReceive PROVE Rx!Get
  OBVIOUS
<1>1. /\ rx_ring[rx_cur].done /\ rx_ring' = [rx_ring EXCEPT ![rx_cur] = EmptyRx]
      /\ rx_cur' = (rx_cur + 1) % NumRx /\ recv_buf' = rx_ring[rx_cur].buf
  BY DEF PollReceive
<1>2. TypeOK /\ TypeOK' /\ NumRx \in Nat \ {0, 1} /\ rx_cur \in RxRing
  BY RxRingFinite DEF IInv, TypeOK
<1>3. Waiting' = Waiting - 1 /\ Waiting \in 1 .. NumRx - 1
  <2>1. rx_cur \in Filled /\ Filled' = Filled \ {rx_cur}
    BY <1>1, <1>2 DEF Filled, TypeOK, EmptyRx
  <2>2. Waiting' = Waiting - 1
    BY <2>1, RxRingFinite, FS_RemoveElement DEF Waiting
  <2>3. (Waiting \in 0 .. NumRx - 1)'
    BY QueueFacts, PTL
  <2>4. Waiting' \in 0 .. NumRx - 1
    BY <2>3
  <2> QED BY <1>2, <2>2, <2>4, QueueFacts
<1>4. At(1) = rx_cur
  <2>1. 1 \in 1 .. NumRx /\ RxRing = 0 .. NumRx - 1
    BY <1>2, RxRingFinite
  <2>2. At(1) \in RxRing /\ Ahead(rx_cur, At(1), NumRx) = 0
    BY <1>2, <2>1, AtFacts
  <2> QED BY <1>2, <2>1, <2>2, AheadFacts
<1>5. RxQueue # <<>> /\ Head(RxQueue) = rx_ring[rx_cur].buf
  BY <1>2, <1>3, <1>4, QueueFacts
<1>6. RxQueue' = [k \in 1 .. Waiting' |-> rx_ring'[At(k)'].buf] /\ RxQueue' \in Seq(Arrivals) /\ Len(RxQueue') = Waiting'
  <2>1. (RxQueue = [k \in 1 .. Waiting |-> rx_ring[At(k)].buf] /\ RxQueue \in Seq(Arrivals) /\ Len(RxQueue) = Waiting)'
    BY QueueFacts, PTL
  <2> QED BY <2>1
<1>7. \A k \in 1 .. Waiting - 1 : rx_ring'[At(k)'].buf = RxQueue[k + 1]
  <2> SUFFICES ASSUME NEW k \in 1 .. Waiting - 1 PROVE rx_ring'[At(k)'].buf = RxQueue[k + 1]
    OBVIOUS
  <2>1. k \in 1 .. NumRx - 1 /\ k + 1 \in 1 .. NumRx /\ k + 1 \in 1 .. Waiting /\ k # 0
    BY <1>2, <1>3
  <2>2. At(k)' = At(k + 1)
    BY <1>1, <1>2, <2>1, AtNext
  <2>3. At(k + 1) \in RxRing /\ Ahead(rx_cur, At(k + 1), NumRx) = k + 1 - 1
    BY <1>2, <2>1, AtFacts
  <2>4. At(k + 1) # rx_cur
    BY <1>2, <2>1, <2>3 DEF Ahead, RxRing
  <2>5. rx_ring'[At(k + 1)] = rx_ring[At(k + 1)]
    BY <1>1, <2>3, <2>4 DEF IInv, TypeOK
  <2> QED BY <2>1, <2>2, <2>5, QueueFacts
<1>8. /\ Tail(RxQueue) \in Seq(Arrivals) /\ Len(Tail(RxQueue)) = Waiting - 1
      /\ \A k \in 1 .. Waiting - 1 : Tail(RxQueue)[k] = RxQueue[k + 1]
  BY <1>5, QueueFacts, HeadTailProperties
<1>9. RxQueue' = Tail(RxQueue)
  <2>1. \A k \in 1 .. Waiting - 1 : RxQueue'[k] = Tail(RxQueue)[k]
    BY <1>3, <1>6, <1>7, <1>8
  <2> QED BY <1>3, <1>6, <1>8, <2>1, SeqEqual
<1> QED BY <1>1, <1>5, <1>9 DEF Rx!Get

LEMMA PutStep == \A f \in Arrivals : IInv /\ IInv' /\ CardReceives(f) => Rx!Put(f)
<1> SUFFICES ASSUME NEW f \in Arrivals, IInv, IInv', CardReceives(f) PROVE Rx!Put(f)
  OBVIOUS
<1>1. /\ rdh # rdt /\ rx_ring' = [rx_ring EXCEPT ![rdh] = [buf |-> f, done |-> TRUE]]
      /\ rx_cur' = rx_cur /\ recv_buf' = recv_buf
  BY DEF CardReceives
<1>2. TypeOK /\ NumRx \in Nat \ {0, 1} /\ RxRing = 0 .. NumRx - 1 /\ rx_cur \in RxRing /\ rdh \in RxRing /\ rdt \in RxRing
  BY RxRingFinite DEF IInv, TypeOK
<1>3. Ahead(rx_cur, rdh, NumRx) = Waiting
  BY DEF IInv, RxInv, Waiting
<1>4. ~rx_ring[rdh].done /\ Waiting' = Waiting + 1
  <2>1. ~rx_ring[rdh].done
    BY <1>2, <1>3, QueueFacts DEF IInv, RxInv
  <2>2. rdh \notin Filled /\ Filled' = Filled \cup {rdh}
    BY <1>1, <1>2, <2>1 DEF Filled, TypeOK
  <2>3. Waiting' = Waiting + 1
    BY <2>2, RxRingFinite, FS_AddElement DEF Waiting
  <2> QED BY <2>1, <2>3
<1>5. Waiting' \in 0 .. NumRx - 1
  <2>1. (Waiting \in 0 .. NumRx - 1)'
    BY QueueFacts, PTL
  <2> QED BY <2>1
<1>6. Waiting \in Nat /\ Waiting < NumRx - 1
  BY <1>2, <1>4, <1>5, QueueFacts
<1>7. \A k \in 1 .. Waiting + 1 : At(k) \in RxRing /\ (At(k) = rdh <=> k = Waiting + 1) /\ At(k)' = At(k)
  <2> SUFFICES ASSUME NEW k \in 1 .. Waiting + 1
               PROVE  At(k) \in RxRing /\ (At(k) = rdh <=> k = Waiting + 1) /\ At(k)' = At(k)
    OBVIOUS
  <2>1. k \in 1 .. NumRx
    BY <1>2, <1>6
  <2>2. At(k) \in RxRing /\ Ahead(rx_cur, At(k), NumRx) = k - 1
    BY <1>2, <2>1, AtFacts
  <2>3. At(k) = rdh <=> Ahead(rx_cur, At(k), NumRx) = Ahead(rx_cur, rdh, NumRx)
    <3>1. NumRx \in Nat \ {0} /\ At(k) \in 0 .. NumRx - 1 /\ rdh \in 0 .. NumRx - 1 /\ rx_cur \in 0 .. NumRx - 1
      BY <1>2, <2>2
    <3>2. Ahead(rx_cur, At(k), NumRx) = Ahead(rx_cur, rdh, NumRx) => At(k) = rdh
      BY <3>1, AheadFacts
    <3> QED BY <3>2
  <2>4. At(k)' = At(k)
    BY <1>1 DEF At
  <2> QED BY <1>3, <1>6, <2>1, <2>2, <2>3, <2>4
<1>8. RxQueue' = [k \in 1 .. Waiting + 1 |-> rx_ring'[At(k)].buf] /\ RxQueue' \in Seq(Arrivals) /\ Len(RxQueue') = Waiting + 1
  <2>1. (RxQueue = [k \in 1 .. Waiting |-> rx_ring[At(k)].buf] /\ RxQueue \in Seq(Arrivals) /\ Len(RxQueue) = Waiting)'
    BY QueueFacts, PTL
  <2>2. RxQueue' = [k \in 1 .. Waiting + 1 |-> rx_ring'[At(k)'].buf]
    BY <1>4, <2>1
  <2> QED BY <1>4, <1>7, <2>1, <2>2
<1>9. \A k \in 1 .. Waiting + 1 : rx_ring'[At(k)].buf = IF k = Waiting + 1 THEN f ELSE RxQueue[k]
  <2> SUFFICES ASSUME NEW k \in 1 .. Waiting + 1
               PROVE  rx_ring'[At(k)].buf = IF k = Waiting + 1 THEN f ELSE RxQueue[k]
    OBVIOUS
  <2>1. CASE k = Waiting + 1
    BY <1>1, <1>2, <1>7, <2>1 DEF TypeOK
  <2>2. CASE k # Waiting + 1
    <3>1. k \in 1 .. Waiting
      BY <1>6, <2>2
    <3>2. rx_ring'[At(k)] = rx_ring[At(k)]
      BY <1>1, <1>2, <1>7, <2>2 DEF TypeOK
    <3> QED BY <2>2, <3>1, <3>2, QueueFacts
  <2> QED BY <2>1, <2>2
<1>10. /\ Append(RxQueue, f) \in Seq(Arrivals) /\ Len(Append(RxQueue, f)) = Waiting + 1
       /\ \A k \in 1 .. Waiting + 1 : Append(RxQueue, f)[k] = IF k = Waiting + 1 THEN f ELSE RxQueue[k]
  <2>1. /\ Append(RxQueue, f) \in Seq(Arrivals) /\ Len(Append(RxQueue, f)) = Waiting + 1
        /\ \A k \in 1 .. Waiting : Append(RxQueue, f)[k] = RxQueue[k]
        /\ Append(RxQueue, f)[Waiting + 1] = f
    BY QueueFacts, AppendProperties
  <2> QED BY <1>6, <2>1
<1>11. RxQueue' = Append(RxQueue, f)
  <2>1. \A k \in 1 .. Waiting + 1 : RxQueue'[k] = Append(RxQueue, f)[k]
    BY <1>8, <1>9, <1>10
  <2> QED BY <1>8, <1>10, <2>1, SeqEqual
<1> QED BY <1>1, <1>6, <1>11, QueueFacts DEF Rx!Put

\* process_packet gets the frames that the card took, each once, in order and
\* whole: every step of the stack, the driver and the card is a step of a
\* queue of NUM_RX - 1 frames, or changes nothing of it.
THEOREM RxImplementsFifo == Spec => Rx!Spec
<1>1. Init => Rx!Init
  <2> SUFFICES ASSUME Init PROVE Rx!Init
    OBVIOUS
  <2>1. Waiting = 0 /\ recv_buf = NoOne
    BY FS_EmptySet DEF Init, Filled, EmptyRx, Waiting
  <2>2. RxQueue = <<>>
    BY <2>1, InitInv, QueueFacts
  <2> QED BY <2>1, <2>2 DEF Rx!Init
<1>2. IInv /\ IInv' /\ [Next]_vars => [Rx!Next]_(Rx!vars)
  <2> SUFFICES ASSUME IInv, IInv', [Next]_vars PROVE [Rx!Next]_(Rx!vars)
    OBVIOUS
  <2>1. CASE RxQuiet
    BY <2>1 DEF RxQuiet, RxQueue, Rx!vars
  <2>2. CASE PollReceive
    BY <2>2, GetStep DEF Rx!Next
  <2>3. CASE ReturnDescriptor
    BY <2>3 DEF ReturnDescriptor, RxQueue, Rx!vars
  <2>4. CASE \E f \in Arrivals : CardReceives(f)
    BY <2>4, PutStep DEF Rx!Next
  <2> QED BY <2>1, <2>2, <2>3, <2>4, RxCases DEF IInv
<1> QED BY <1>1, <1>2, Invariance, PTL DEF Spec, Rx!Spec
=============================================================================
