------------------------------ MODULE Network ------------------------------
(***************************************************************************)
(* The network stack (kernel/network.cpp) on top of the E1000 driver       *)
(* (kernel/e1000.cpp): ARP table, UDP send path, transmit and receive      *)
(* ring.                                                                   *)
(*                                                                         *)
(* Two tasks send with interrupts on, so that each of their accesses to    *)
(* shared memory is a step: cluster-hb, and net-poll when it answers what  *)
(* it polled.  A shell command sends inside the keyboard interrupt, in one *)
(* step.  The card runs beside them.                                       *)
(*                                                                         *)
(* A station stands for its IP and its MAC address; a frame is its headers *)
(* and its payload, each tagged with the packet that it was written for.   *)
(* Length checks, checksums, ids and the packet counters are left out;     *)
(* send_raw is never called.                                               *)
(***************************************************************************)
EXTENDS Integers, Sequences, FiniteSets

CONSTANTS
    Hosts,       \* the other stations
    Peers,       \* the ones that cluster-hb and the shell send to
    Broadcast,   \* 0xFFFFFFFF, the subnet's broadcast address, and BROADCAST_MAC
    NoOne,       \* an address of zeros
    NumTx,       \* NUM_TX
    NumRx,       \* NUM_RX
    ArpSize,     \* ARP_TABLE_SIZE
    Ports,       \* ports that handlers are registered for
    Arrivals     \* the frames that reach the card

Heartbeat == "cluster-hb"
Poller == "net-poll"
Tasks == {Heartbeat, Poller}
TxRing == 0 .. NumTx - 1
RxRing == 0 .. NumRx - 1
ArpTable == 1 .. ArpSize

\* What the stack tells apart about a frame that it receives: `dst' is the
\* address that the sender asks for (ARP) or sends to (IPv4).
Arrival == [type : {"request", "reply", "udp"}, from : Hosts,
            dst : {"us", "all", "other"}, port : Ports \cup {"unbound"}]

ASSUME HostAssumption == Peers \subseteq Hosts /\ {Broadcast, NoOne} \cap Hosts = {} /\ Broadcast # NoOne
ASSUME RingAssumption == NumTx \in Nat \ {0, 1} /\ NumRx \in Nat \ {0, 1} /\ ArpSize \in Nat \ {0}
ASSUME ArrivalAssumption == Arrivals \subseteq Arrival /\ NoOne \notin Arrivals

VARIABLES
    arp_table,   \* arp_table[i]
    send_buf,    \* the static buffer in which send_udp assembles
    recv_buf,    \* the static buffer into which net-poll receives
    tx_ring,     \* descriptor and buffer i of the transmit ring
    tx_cur,      \* tx_cur
    tdt, tdh,    \* the card's registers: tail (written by the driver) and head
    rx_ring,     \* descriptor and buffer i of the receive ring
    rx_cur,      \* rx_cur
    rdt, rdh,    \* the card's registers
    pc,          \* where a task is
    packet,      \* the packet that a task is sending
    slot,        \* the entry that arp_store writes
    raced        \* history: a packet was begun while another one was not finished

txVars == <<send_buf, tx_ring, tx_cur, tdt>>
rxVars == <<rx_ring, rx_cur, rdt, rdh, recv_buf>>
vars == <<arp_table, txVars, tdh, rxVars, pc, packet, slot, raced>>

Packet == [type : {"udp", "request", "reply"}, ip : Hosts \cup {Broadcast}, mac : Hosts \cup {Broadcast, NoOne}]
NoPacket == [type |-> "none", ip |-> NoOne, mac |-> NoOne]
Frame == [head : Packet \cup {NoPacket}, body : Packet \cup {NoPacket}]
Whole(p) == [head |-> p, body |-> p]
NoFrame == Whole(NoPacket)

\* A buffer that is overwritten before it is read again counts as empty.
FreeTx == [buf |-> NoFrame, done |-> TRUE]
EmptyRx == [buf |-> NoOne, done |-> FALSE]

Sending == {"build", "wait", "copy_head", "copy_body", "post", "advance", "kick"}
Label == Sending \cup {"idle", "return", "process", "mac", "valid", "answer", "handler"}

TypeOK ==
    /\ arp_table \in [ArpTable -> [ip : Hosts \cup {NoOne}, mac : Hosts \cup {NoOne}, valid : BOOLEAN]]
    /\ send_buf \in Frame
    /\ recv_buf \in Arrivals \cup {NoOne}
    /\ tx_ring \in [TxRing -> [buf : Frame, done : BOOLEAN]]
    /\ rx_ring \in [RxRing -> [buf : Arrivals \cup {NoOne}, done : BOOLEAN]]
    /\ tx_cur \in TxRing /\ tdt \in TxRing /\ tdh \in TxRing
    /\ rx_cur \in RxRing /\ rdt \in RxRing /\ rdh \in RxRing
    /\ pc \in [Tasks -> Label]
    /\ packet \in [Tasks -> Packet \cup {NoPacket}]
    /\ slot \in ArpTable
    /\ raced \in BOOLEAN

-----------------------------------------------------------------------------
(* After E1000::init and Network::init, and the registration of handlers *)

Init ==
    /\ arp_table = [i \in ArpTable |-> [ip |-> NoOne, mac |-> NoOne, valid |-> FALSE]]
    /\ send_buf = NoFrame /\ recv_buf = NoOne
    /\ tx_ring = [i \in TxRing |-> FreeTx]
    /\ tx_cur = 0 /\ tdt = 0 /\ tdh = 0
    /\ rx_ring = [i \in RxRing |-> EmptyRx]
    /\ rx_cur = 0 /\ rdh = 0 /\ rdt = NumRx - 1
    /\ pc = [a \in Tasks |-> "idle"]
    /\ packet = [a \in Tasks |-> NoPacket]
    /\ slot = 1
    /\ raced = FALSE

-----------------------------------------------------------------------------
(* ARP *)

Lookup(ip) == {i \in ArpTable : arp_table[i].valid /\ arp_table[i].ip = ip}

FirstInvalid(i) ==
    /\ ~arp_table[i].valid
    /\ \A j \in 1 .. i - 1 : arp_table[j].valid

\* What send_udp sends for a datagram to `ip': the datagram, or a request for
\* the address that it does not know.
Resolved(ip, p) ==
    \/ ip = Broadcast /\ p = [type |-> "udp", ip |-> ip, mac |-> Broadcast]
    \/ \E i \in Lookup(ip) : p = [type |-> "udp", ip |-> ip, mac |-> arp_table[i].mac]
    \/ /\ ip # Broadcast /\ Lookup(ip) = {}
       /\ p = [type |-> "request", ip |-> ip, mac |-> Broadcast]

Choices(ip) == {p \in Packet : Resolved(ip, p)}

-----------------------------------------------------------------------------
(* Sending, for a task *)

Goto(a, l) == pc' = [pc EXCEPT ![a] = l]

\* A task begins to send p: datagrams are assembled in send_buf first, ARP
\* packets are on the sender's own stack.
Begin(a, p) ==
    /\ packet' = [packet EXCEPT ![a] = p]
    /\ Goto(a, IF p.type = "udp" THEN "build" ELSE "wait")
    /\ raced' = (raced \/ \E b \in Tasks \ {a} : pc[b] \in Sending)

\* send_udp and E1000::send return.
Return(a) ==
    /\ Goto(a, "idle")
    /\ packet' = [packet EXCEPT ![a] = NoPacket]

\* send_udp assembles the packet in send_buf.
Build(a) ==
    /\ pc[a] = "build"
    /\ send_buf' = Whole(packet[a])
    /\ Goto(a, "wait")
    /\ UNCHANGED <<arp_table, tx_ring, tx_cur, tdt, tdh, rxVars, packet, slot, raced>>

\* The buffer that E1000::send copies from
Source(a) == IF packet[a].type = "udp" THEN send_buf ELSE Whole(packet[a])

\* E1000::send: the descriptor's status has DD.
IsFree(i) == tx_ring[i].done

\* E1000::send: the wait ends with a free descriptor, or by its timeout.
WaitForDescriptor(a) ==
    /\ pc[a] = "wait"
    /\ \/ IsFree(tx_cur) /\ Goto(a, "copy_head") /\ packet' = packet
       \/ ~IsFree(tx_cur) /\ Return(a)
    /\ UNCHANGED <<arp_table, txVars, tdh, rxVars, slot, raced>>

\* Mutated form: the copy loop stops before the payload.
CopyHeadOnly(a) ==
    /\ pc[a] = "copy_head"
    /\ tx_ring' = [tx_ring EXCEPT ![tx_cur].buf.head = Source(a).head]
    /\ Goto(a, "post")
    /\ UNCHANGED <<arp_table, send_buf, tx_cur, tdt, tdh, rxVars, packet, slot, raced>>

\* The copy into the DMA buffer: headers, then payload
CopyHead(a) ==
    /\ pc[a] = "copy_head"
    /\ tx_ring' = [tx_ring EXCEPT ![tx_cur].buf.head = Source(a).head]
    /\ Goto(a, "copy_body")
    /\ UNCHANGED <<arp_table, send_buf, tx_cur, tdt, tdh, rxVars, packet, slot, raced>>

CopyBody(a) ==
    /\ pc[a] = "copy_body"
    /\ tx_ring' = [tx_ring EXCEPT ![tx_cur].buf.body = Source(a).body]
    /\ Goto(a, "post")
    /\ UNCHANGED <<arp_table, send_buf, tx_cur, tdt, tdh, rxVars, packet, slot, raced>>

\* length, cmd and status = 0
Post(a) ==
    /\ pc[a] = "post"
    /\ tx_ring' = [tx_ring EXCEPT ![tx_cur].done = FALSE]
    /\ Goto(a, "advance")
    /\ UNCHANGED <<arp_table, send_buf, tx_cur, tdt, tdh, rxVars, packet, slot, raced>>

\* Mutated form: the index runs on without wrapping at the last descriptor.
StaysAtLast(i) == IF i = NumTx - 1 THEN i ELSE i + 1

\* (tx_cur + 1) % NUM_TX
NextTx(i) == (i + 1) % NumTx

Advance(a) ==
    /\ pc[a] = "advance"
    /\ tx_cur' = NextTx(tx_cur)
    /\ Goto(a, "kick")
    /\ UNCHANGED <<arp_table, send_buf, tx_ring, tdt, tdh, rxVars, packet, slot, raced>>

\* Mutated form: the tail is the descriptor just filled, not the one behind it.
KickTooEarly(a) ==
    /\ pc[a] = "kick"
    /\ tdt' = (tx_cur - 1) % NumTx
    /\ Return(a)
    /\ UNCHANGED <<arp_table, send_buf, tx_ring, tx_cur, tdh, rxVars, slot, raced>>

\* wr(REG_TDT, tx_cur)
Kick(a) ==
    /\ pc[a] = "kick"
    /\ tdt' = tx_cur
    /\ Return(a)
    /\ UNCHANGED <<arp_table, send_buf, tx_ring, tx_cur, tdh, rxVars, slot, raced>>

SendStep(a) ==
    \/ Build(a) \/ WaitForDescriptor(a)
    \/ CopyHead(a) \/ CopyBody(a) \/ Post(a) \/ Advance(a) \/ Kick(a)

\* cluster-hb: send_discover, or a load report to a peer
HeartbeatSends(ip) ==
    /\ pc[Heartbeat] = "idle"
    /\ \E p \in Choices(ip) : Begin(Heartbeat, p)
    /\ UNCHANGED <<arp_table, txVars, tdh, rxVars, slot>>

\* A command sends to a peer or broadcasts, inside the keyboard interrupt.
ShellSends(ip) ==
    /\ \E p \in Choices(ip) :
         /\ send_buf' = IF p.type = "udp" THEN Whole(p) ELSE send_buf
         /\ IF IsFree(tx_cur)
            THEN /\ tx_ring' = [tx_ring EXCEPT ![tx_cur] = [buf |-> Whole(p), done |-> FALSE]]
                 /\ tx_cur' = NextTx(tx_cur)
                 /\ tdt' = NextTx(tx_cur)
            ELSE UNCHANGED <<tx_ring, tx_cur, tdt>>
    /\ raced' = (raced \/ \E b \in Tasks : pc[b] \in Sending)
    /\ UNCHANGED <<arp_table, tdh, rxVars, pc, packet, slot>>

-----------------------------------------------------------------------------
(* Receiving, in net-poll *)

\* poll_receive, up to the register: a frame is there, rx_cur moves on
PollReceive ==
    /\ pc[Poller] = "idle"
    /\ rx_ring[rx_cur].done
    /\ recv_buf' = rx_ring[rx_cur].buf
    /\ rx_ring' = [rx_ring EXCEPT ![rx_cur] = EmptyRx]
    /\ rx_cur' = (rx_cur + 1) % NumRx
    /\ Goto(Poller, "return")
    /\ UNCHANGED <<arp_table, txVars, tdh, rdt, rdh, packet, slot, raced>>

\* Mutated form: the card also gets the descriptor that is read next.
ReturnedTooFar == rx_cur

\* poll_receive gives the descriptor that it has read back: `old'
Returned == (rx_cur - 1) % NumRx

ReturnDescriptor ==
    /\ pc[Poller] = "return"
    /\ rdt' = Returned
    /\ Goto(Poller, "process")
    /\ UNCHANGED <<arp_table, txVars, tdh, rx_ring, rx_cur, rdh, recv_buf, packet, slot, raced>>

\* process_packet with an ARP packet: arp_store looks for the entry.  A new
\* one gets its address first; when the table is full nothing is stored.
ProcessArp ==
    LET ip == recv_buf.from
    IN  /\ pc[Poller] = "process"
        /\ recv_buf.type # "udp"
        /\ \/ \E i \in Lookup(ip) : slot' = i /\ Goto(Poller, "mac") /\ arp_table' = arp_table
           \/ /\ Lookup(ip) = {}
              /\ \E i \in ArpTable :
                   /\ FirstInvalid(i)
                   /\ slot' = i
                   /\ arp_table' = [arp_table EXCEPT ![i].ip = ip]
                   /\ Goto(Poller, "mac")
           \/ /\ Lookup(ip) = {}
              /\ \A i \in ArpTable : arp_table[i].valid
              /\ Goto(Poller, "answer")
              /\ UNCHANGED <<arp_table, slot>>
        /\ UNCHANGED <<txVars, tdh, rxVars, packet, raced>>

\* Mutated form: the entry counts before its MAC address is there.
ValidThenMac(l) ==
    /\ pc[Poller] = l
    /\ arp_table' = [arp_table EXCEPT ![slot] =
         IF l = "mac" THEN [@ EXCEPT !.valid = TRUE] ELSE [@ EXCEPT !.mac = recv_buf.from]]
    /\ Goto(Poller, IF l = "mac" THEN "valid" ELSE "answer")

\* arp_store: the MAC address, and for a new entry its valid flag after that
StoreStep(l) ==
    /\ pc[Poller] = l
    /\ arp_table' = [arp_table EXCEPT ![slot] =
         IF l = "mac" THEN [@ EXCEPT !.mac = recv_buf.from] ELSE [@ EXCEPT !.valid = TRUE]]
    /\ Goto(Poller, IF l = "mac" /\ ~arp_table[slot].valid THEN "valid" ELSE "answer")

ArpStore(l) ==
    /\ StoreStep(l)
    /\ UNCHANGED <<txVars, tdh, rxVars, packet, slot, raced>>

\* handle_arp: a request for our address is answered to the one who asks
ArpAnswer ==
    /\ pc[Poller] = "answer"
    /\ IF recv_buf.type = "request" /\ recv_buf.dst = "us"
       THEN Begin(Poller, [type |-> "reply", ip |-> recv_buf.from, mac |-> recv_buf.from])
       ELSE Goto(Poller, "idle") /\ UNCHANGED <<packet, raced>>
    /\ UNCHANGED <<arp_table, txVars, tdh, rxVars, slot>>

\* process_packet with a datagram: handle_ipv4 drops what is for others,
\* handle_udp what has no handler
ProcessUdp ==
    /\ pc[Poller] = "process"
    /\ recv_buf.type = "udp"
    /\ Goto(Poller, IF recv_buf.dst # "other" /\ recv_buf.port \in Ports THEN "handler" ELSE "idle")
    /\ UNCHANGED <<arp_table, txVars, tdh, rxVars, packet, slot, raced>>

\* The handler answers to the sender or not, depending on the message.
HandlerDone ==
    /\ pc[Poller] = "handler"
    /\ \/ \E p \in Choices(recv_buf.from) : Begin(Poller, p)
       \/ Goto(Poller, "idle") /\ UNCHANGED <<packet, raced>>
    /\ UNCHANGED <<arp_table, txVars, tdh, rxVars, slot>>

-----------------------------------------------------------------------------
(* The card *)

\* It sends from its head up to, not including, its tail.
CardTransmits ==
    /\ tdh # tdt
    /\ tx_ring' = [tx_ring EXCEPT ![tdh] = FreeTx]
    /\ tdh' = (tdh + 1) % NumTx
    /\ UNCHANGED <<arp_table, send_buf, tx_cur, tdt, rxVars, pc, packet, slot, raced>>

\* It fills descriptors up to, not including, its tail; what arrives when
\* there is none is lost.
CardReceives(f) ==
    /\ rdh # rdt
    /\ rx_ring' = [rx_ring EXCEPT ![rdh] = [buf |-> f, done |-> TRUE]]
    /\ rdh' = (rdh + 1) % NumRx
    /\ UNCHANGED <<arp_table, txVars, tdh, rx_cur, rdt, recv_buf, pc, packet, slot, raced>>

-----------------------------------------------------------------------------

PollerStep ==
    \/ PollReceive \/ ReturnDescriptor
    \/ ProcessArp \/ ArpStore("mac") \/ ArpStore("valid") \/ ArpAnswer
    \/ ProcessUdp \/ HandlerDone
    \/ SendStep(Poller)

Next ==
    \/ \E ip \in Peers \cup {Broadcast} : HeartbeatSends(ip) \/ ShellSends(ip)
    \/ SendStep(Heartbeat)
    \/ PollerStep
    \/ CardTransmits
    \/ \E f \in Arrivals : CardReceives(f)

Spec == Init /\ [][Next]_vars

\* The scheduler keeps dispatching both tasks (ReadyIsDispatched and
\* SleeperWakes of module Scheduler) and the card keeps working.  Nothing
\* makes anyone send.
FairSpec ==
    /\ Spec
    /\ WF_vars(PollerStep)
    /\ WF_vars(SendStep(Heartbeat))
    /\ WF_vars(CardTransmits)

-----------------------------------------------------------------------------
(* Properties *)

\* The descriptors between the card's head and tail
Visible == {i \in TxRing : (i - tdh) % NumTx < (tdt - tdh) % NumTx}
Posted == {i \in TxRing : ~tx_ring[i].done}
Unkicked == {i \in TxRing : \/ i = tx_cur /\ \E a \in Tasks : pc[a] = "advance"
                            \/ NextTx(i) = tx_cur /\ \E a \in Tasks : pc[a] = "kick"}

\* The ring that the driver keeps by DD bits and tx_cur and the ring that the
\* card keeps by head and tail agree, unless all descriptors are posted at
\* once: E1000::send leaves none free, so that tail meets head and the card
\* takes the full ring for an empty one.
CardSeesPosted == ~raced /\ Posted # TxRing => Visible = Posted \ Unkicked

\* Every frame that the card can send has headers and payload of one packet
\* and goes to the station it is meant for, whatever was sent from the same
\* buffers before, as long as no two packets are under way at a time.
FramesWhole ==
    ~raced => \A i \in Visible : LET f == tx_ring[i].buf
                                 IN  /\ f.head = f.body
                                     /\ f.head.type # "request" => f.head.mac = f.head.ip

\* The ARP table never gives a wrong or half-written address to a sender that
\* looks into it between two stores of arp_store, and has one entry for an
\* address.
ArpTableTrue ==
    \A i, j \in ArpTable : arp_table[i].valid =>
        /\ arp_table[i].mac = arp_table[i].ip
        /\ arp_table[j].valid /\ arp_table[j].ip = arp_table[i].ip => i = j

\* The receive ring is a queue of NUM_RX - 1 frames that net-poll empties:
\* process_packet gets every frame that the card took, once and in order.
RxQueue == [k \in 1 .. Cardinality({i \in RxRing : rx_ring[i].done}) |->
              rx_ring[(rx_cur + k - 1) % NumRx].buf]
Rx == INSTANCE Fifo WITH queue <- RxQueue, last <- recv_buf, Items <- Arrivals,
                         Nothing <- NoOne, Capacity <- NumRx - 1
RxIsFifo == Rx!FairSpec

\* A posted frame leaves, unless packets were mixed up or the ring was full
\* (see CardSeesPosted), from which it does not recover.  Descriptor 0 stands
\* for all of them: the ring looks the same from each.
Stalled == tdh = tdt /\ Posted = TxRing
PostedLeaves == ~tx_ring[0].done ~> (tx_ring[0].done \/ Stalled \/ raced)
=============================================================================
