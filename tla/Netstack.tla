------------------------------ MODULE Netstack ------------------------------
(***************************************************************************)
(* netstack.rs: one thread owns a smoltcp interface, its sockets and two   *)
(* tables, and obeys a channel of control messages; the SOCKS threads hold *)
(* TunnelTcpConnection and TunnelUdpAssociation handles, which are an id   *)
(* and the two ends of channels.  A client here is one such handle, from   *)
(* the request that opens it on.                                           *)
(*                                                                         *)
(* smoltcp is external.  A TCP socket is its state, the fill of its two    *)
(* buffers and its local port; a UDP socket is whether it is bound and the *)
(* fill of its buffers.  FIN-WAIT-1, FIN-WAIT-2 and CLOSING are one state, *)
(* "FinWait".  The network acts on the sockets inside iface.poll, when a   *)
(* tunnel packet is there to be consumed.                                  *)
(*                                                                         *)
(* A chunk is the interval <<from, to>> of the bytes from+1 .. to of its   *)
(* client's upload.                                                        *)
(*                                                                         *)
(* Not modelled because no execution reaches them: the Disconnected arms   *)
(* of the control channel (CONTROL_TX is a static), the Err arm of the TCP *)
(* send_slice (guarded by can_send), a failing bind (the port is not 0),   *)
(* and the overflow of the 64-bit id.                                      *)
(***************************************************************************)
EXTENDS Naturals, Sequences, FiniteSets

CONSTANTS TcpClients, UdpClients,
          Handles,            \* slots of the SocketSet (bound: it grows at need)
          MAX_CONTROL_BATCH,
          FirstPort, LastPort,
          ChunkLen,           \* bytes in a chunk the client sends
          TxCapacity,         \* bytes a TCP, datagrams a UDP send buffer holds
          MaxSent,            \* bound: bytes or datagrams a client sends
          MaxGot,             \* bound: chunks or datagrams that reach a client
          MaxQueue,           \* bound: messages in the control channel
          NoId

ASSUME NetstackAssumption ==
    /\ TcpClients \cap UdpClients = {}
    /\ MAX_CONTROL_BATCH \in Nat \ {0}
    /\ FirstPort \in Nat /\ LastPort \in Nat /\ FirstPort <= LastPort
    /\ ChunkLen \in Nat \ {0} /\ TxCapacity \in Nat \ {0}
    /\ MaxSent \in Nat /\ MaxGot \in Nat /\ MaxQueue \in Nat \ {0}
    /\ NoId \notin Nat

VARIABLES control,           \* the control channel
          phase, id,         \* of a client: what open_* has come to, its id
          sent, closed,      \* of a client: bytes sent, close() called
          listening,         \* of a client: its receiver is not dropped
          spoiled,           \* history: UDP clients a datagram of which was refused
          got,               \* history: chunks smoltcp received for a client
          delivered,         \* chunks put into the client's uplink channel
          pc, handled,       \* of the loop: place, messages in this batch
          arrived,           \* TunnelDevice.rx_queue is not empty
          todo,              \* ids that drive_* has still to visit in this turn
          connections, udp_associations,
          next_conn_id, next_local_port,
          allocations,       \* history: local ports handed out so far
          sockets            \* the SocketSet

clientVars == <<phase, id, sent, closed, listening, spoiled>>
flowVars == <<got, delivered>>
loopVars == <<pc, handled, arrived, todo>>
tableVars == <<connections, udp_associations, sockets>>
allocVars == <<next_conn_id, next_local_port, allocations>>
vars == <<control, clientVars, flowVars, loopVars, tableVars, allocVars>>

Clients == TcpClients \cup UdpClients
Chunk == Nat \X Nat
Datagram == {"good", "bad"}    \* bad: smoltcp never takes it (port 0, too large)

Messages ==
    [op : {"Open"}, client : TcpClients] \cup [op : {"OpenUdp"}, client : UdpClients]
    \cup [op : {"Send"}, id : Nat, data : Chunk]
    \cup [op : {"SendUdp"}, id : Nat, data : Datagram]
    \cup [op : {"Close", "CloseUdp"}, id : Nat]
    \cup [op : {"TunnelPacket"}]

(* `taken` is the last byte of the upload the socket has accepted; `born`  *)
(* says the how-manieth allocation gave it its port.                       *)
TcpSocket ==
    [state : {"SynSent", "Established", "CloseWait", "FinWait", "LastAck", "TimeWait", "Closed"},
     tx : 0 .. TxCapacity, rx : Nat, taken : Nat, port : FirstPort .. LastPort, born : Nat]
UdpSocket ==
    [tx : 0 .. TxCapacity, rx : Nat, port : FirstPort .. LastPort, born : Nat]

ConnectionState ==
    [handle : Handles, owner : TcpClients, pending_send : Seq(Chunk), close_requested : BOOLEAN]
UdpAssociationState ==
    [handle : Handles, owner : UdpClients, pending_send : Seq(Datagram), close_requested : BOOLEAN]

Phases == {"idle", "opening", "replied", "open", "refused", "gaveUp"}

TypeOK ==
    /\ control \in Seq(Messages)
    /\ phase \in [Clients -> Phases]
    /\ id \in [Clients -> Nat \cup {NoId}]
    /\ sent \in [Clients -> Nat]
    /\ closed \in [Clients -> BOOLEAN]
    /\ listening \in [Clients -> BOOLEAN]
    /\ spoiled \subseteq UdpClients
    /\ got \in [Clients -> Nat] /\ delivered \in [Clients -> Nat]
    /\ pc \in {"wait", "batch", "poll", "drive"}
    /\ handled \in 0 .. MAX_CONTROL_BATCH
    /\ arrived \in BOOLEAN
    /\ todo \subseteq DOMAIN connections \cup DOMAIN udp_associations
    /\ connections \in [DOMAIN connections -> ConnectionState]
    /\ udp_associations \in [DOMAIN udp_associations -> UdpAssociationState]
    /\ sockets \in [DOMAIN sockets -> TcpSocket \cup UdpSocket]
    /\ DOMAIN connections \cup DOMAIN udp_associations \subseteq 1 .. next_conn_id - 1
    /\ DOMAIN sockets \subseteq Handles
    /\ next_conn_id \in Nat \ {0}
    /\ next_local_port \in FirstPort .. LastPort
    /\ allocations \in Nat

Init ==
    /\ control = <<>>
    /\ phase = [c \in Clients |-> "idle"]
    /\ id = [c \in Clients |-> NoId]
    /\ sent = [c \in Clients |-> 0]
    /\ closed = [c \in Clients |-> FALSE]
    /\ listening = [c \in Clients |-> FALSE]
    /\ spoiled = {}
    /\ got = [c \in Clients |-> 0] /\ delivered = [c \in Clients |-> 0]
    /\ pc = "wait" /\ handled = 0 /\ arrived = FALSE /\ todo = {}
    /\ connections = <<>> /\ udp_associations = <<>> /\ sockets = <<>>
    /\ next_conn_id = 1 /\ next_local_port = FirstPort /\ allocations = 0

With(f, x, v) == [y \in DOMAIN f \cup {x} |-> IF y = x THEN v ELSE f[y]]
Without(f, x) == [y \in DOMAIN f \ {x} |-> f[y]]
-----------------------------------------------------------------------------
(* What the SOCKS threads and the tunnel forwarder do.                     *)
Post(message) ==
    /\ Len(control) < MaxQueue
    /\ control' = Append(control, message)

(* open_tcp_connection, open_udp_association: the request ...              *)
RequestOpen(c) ==
    /\ phase[c] = "idle"
    /\ Post([op |-> IF c \in TcpClients THEN "Open" ELSE "OpenUdp", client |-> c])
    /\ phase' = [phase EXCEPT ![c] = "opening"]
    /\ listening' = [listening EXCEPT ![c] = TRUE]
    /\ UNCHANGED <<id, sent, closed, spoiled, flowVars, loopVars, tableVars, allocVars>>

(* ... the answer ...                                                      *)
OpenReturns(c) ==
    /\ phase[c] = "replied"
    /\ phase' = [phase EXCEPT ![c] = "open"]
    /\ UNCHANGED <<control, id, sent, closed, listening, spoiled,
                   flowVars, loopVars, tableVars, allocVars>>

(* ... or OPEN_CONN_TIMEOUT: the reply channel is dropped, and a reply     *)
(* that is in it, or comes later, with the receiver in it.                 *)
OpenTimesOut(c) ==
    /\ phase[c] \in {"opening", "replied"}
    /\ phase' = [phase EXCEPT ![c] = "gaveUp"]
    /\ id' = [id EXCEPT ![c] = NoId]
    /\ listening' = [listening EXCEPT ![c] = FALSE]
    /\ UNCHANGED <<control, sent, closed, spoiled, flowVars, loopVars, tableVars, allocVars>>

(* TunnelTcpSender::send, TunnelUdpSender::send.                           *)
ClientSend(c) ==
    /\ phase[c] = "open" /\ ~closed[c] /\ sent[c] < MaxSent
    /\ \/ /\ c \in TcpClients
          /\ Post([op |-> "Send", id |-> id[c], data |-> <<sent[c], sent[c] + ChunkLen>>])
          /\ sent' = [sent EXCEPT ![c] = @ + ChunkLen]
       \/ /\ c \in UdpClients
          /\ \E d \in Datagram : Post([op |-> "SendUdp", id |-> id[c], data |-> d])
          /\ sent' = [sent EXCEPT ![c] = @ + 1]
    /\ UNCHANGED <<phase, id, closed, listening, spoiled,
                   flowVars, loopVars, tableVars, allocVars>>

(* TunnelTcpSender::close, TunnelUdpSender::close: once, after the sends.  *)
ClientClose(c) ==
    /\ phase[c] = "open" /\ ~closed[c]
    /\ Post([op |-> IF c \in TcpClients THEN "Close" ELSE "CloseUdp", id |-> id[c]])
    /\ closed' = [closed EXCEPT ![c] = TRUE]
    /\ UNCHANGED <<phase, id, sent, listening, spoiled, flowVars, loopVars, tableVars, allocVars>>

(* A TCP relay drops its receiver when its SOCKS client is gone, without a *)
(* close() if the SOCKS reply could not be written; a UDP relay closes     *)
(* first.                                                                  *)
DropReceiver(c) ==
    /\ phase[c] = "open" /\ listening[c]
    /\ c \in UdpClients => closed[c]
    /\ listening' = [listening EXCEPT ![c] = FALSE]
    /\ UNCHANGED <<control, phase, id, sent, closed, spoiled,
                   flowVars, loopVars, tableVars, allocVars>>

(* The forwarding thread of start_runtime.                                 *)
ForwardTunnelPacket ==
    /\ Post([op |-> "TunnelPacket"])
    /\ UNCHANGED <<clientVars, flowVars, loopVars, tableVars, allocVars>>
-----------------------------------------------------------------------------
(* The loop takes messages, at most MAX_CONTROL_BATCH of them in a turn.   *)
Receive(op) ==
    /\ pc \in {"wait", "batch"}
    /\ handled < MAX_CONTROL_BATCH
    /\ control # <<>> /\ Head(control).op = op
    /\ control' = Tail(control)
    /\ pc' = "batch"
    /\ handled' = handled + 1
    /\ UNCHANGED todo

HandleTunnelPacket ==
    /\ Receive("TunnelPacket")
    /\ arrived' = TRUE
    /\ UNCHANGED <<clientVars, flowVars, tableVars, allocVars>>

\* mutant: the last port is never used
AllocLocalPortWrapsEarly ==
    /\ next_local_port' = IF next_local_port >= LastPort - 1 THEN FirstPort
                          ELSE next_local_port + 1
    /\ allocations' = allocations + 1

(* alloc_local_port. *)
AllocLocalPort ==
    /\ next_local_port' = IF next_local_port >= LastPort THEN FirstPort
                          ELSE next_local_port + 1
    /\ allocations' = allocations + 1

(* reply.send(result): nobody gets it after the timeout.                   *)
Reply(c, answer, i) ==
    IF phase[c] = "opening"
    THEN /\ phase' = [phase EXCEPT ![c] = answer]
         /\ id' = [id EXCEPT ![c] = i]
    ELSE UNCHANGED <<phase, id>>

NewId == next_conn_id

NewEntry(h, c) ==
    [handle |-> h, owner |-> c, pending_send |-> <<>>, close_requested |-> FALSE]

(* open_connection: connect() refuses port 0 and the unspecified address,  *)
(* and the socket that was added is removed again.                         *)
HandleOpen ==
    /\ Receive("Open")
    /\ AllocLocalPort
    /\ LET c == Head(control).client IN
       \E h \in Handles \ DOMAIN sockets :
          \/ /\ sockets' = With(sockets, h,
                     [state |-> "SynSent", tx |-> 0, rx |-> 0, taken |-> 0,
                      port |-> next_local_port, born |-> allocations])
             /\ connections' = With(connections, NewId, NewEntry(h, c))
             /\ next_conn_id' = next_conn_id + 1
             /\ Reply(c, "replied", NewId)
          \/ /\ Reply(c, "refused", NoId)
             /\ UNCHANGED <<sockets, connections, next_conn_id>>
    /\ UNCHANGED <<sent, closed, listening, spoiled, flowVars, arrived, udp_associations>>

(* open_udp_association_inner. *)
HandleOpenUdp ==
    /\ Receive("OpenUdp")
    /\ AllocLocalPort
    /\ LET c == Head(control).client IN
       \E h \in Handles \ DOMAIN sockets :
          /\ sockets' = With(sockets, h,
                  [tx |-> 0, rx |-> 0, port |-> next_local_port, born |-> allocations])
          /\ udp_associations' = With(udp_associations, NewId, NewEntry(h, c))
          /\ next_conn_id' = next_conn_id + 1
          /\ Reply(c, "replied", NewId)
    /\ UNCHANGED <<sent, closed, listening, spoiled, flowVars, arrived, connections>>

(* A Send, SendUdp, Close or CloseUdp whose id is not in the table is      *)
(* ignored.                                                                *)
HandleSend ==
    /\ Receive("Send")
    /\ LET i == Head(control).id IN
       connections' = IF i \in DOMAIN connections
                      THEN [connections EXCEPT ![i].pending_send = Append(@, Head(control).data)]
                      ELSE connections
    /\ UNCHANGED <<clientVars, flowVars, arrived, udp_associations, sockets, allocVars>>

HandleSendUdp ==
    /\ Receive("SendUdp")
    /\ LET i == Head(control).id IN
       udp_associations' =
           IF i \in DOMAIN udp_associations
           THEN [udp_associations EXCEPT ![i].pending_send = Append(@, Head(control).data)]
           ELSE udp_associations
    /\ UNCHANGED <<clientVars, flowVars, arrived, connections, sockets, allocVars>>

\* mutant: the socket is closed here and now, if it can be
HandleCloseAtOnce ==
    /\ Receive("Close")
    /\ LET i == Head(control).id IN
       sockets' = IF i \in DOMAIN connections
                     /\ sockets[connections[i].handle].state = "Established"
                  THEN [sockets EXCEPT ![connections[i].handle].state = "FinWait"]
                  ELSE sockets
    /\ UNCHANGED <<clientVars, flowVars, arrived, connections, udp_associations, allocVars>>

HandleClose ==
    /\ Receive("Close")
    /\ LET i == Head(control).id IN
       connections' = IF i \in DOMAIN connections
                      THEN [connections EXCEPT ![i].close_requested = TRUE]
                      ELSE connections
    /\ UNCHANGED <<clientVars, flowVars, arrived, udp_associations, sockets, allocVars>>

HandleCloseUdp ==
    /\ Receive("CloseUdp")
    /\ LET i == Head(control).id IN
       udp_associations' = IF i \in DOMAIN udp_associations
                           THEN [udp_associations EXCEPT ![i].close_requested = TRUE]
                           ELSE udp_associations
    /\ UNCHANGED <<clientVars, flowVars, arrived, connections, sockets, allocVars>>

(* wait_control_message returns None: smoltcp has a timer to serve.        *)
WaitTimesOut ==
    /\ pc = "wait" /\ control = <<>>
    /\ pc' = "poll"
    /\ UNCHANGED <<control, clientVars, flowVars, handled, arrived, todo, tableVars, allocVars>>

BatchEnds ==
    /\ pc = "batch"
    /\ control = <<>> \/ handled = MAX_CONTROL_BATCH
    /\ pc' = "poll" /\ handled' = 0
    /\ UNCHANGED <<control, clientVars, flowVars, arrived, todo, tableVars, allocVars>>
-----------------------------------------------------------------------------
(* iface.poll: smoltcp consumes what has arrived ...                       *)
Polled(i) == /\ pc = "poll" /\ arrived
             /\ i \in DOMAIN connections

TcpStep(i, from, to) ==
    /\ Polled(i)
    /\ sockets[connections[i].handle].state \in from
    /\ sockets' = [sockets EXCEPT ![connections[i].handle].state = to]
    /\ UNCHANGED <<control, clientVars, flowVars, loopVars,
                   connections, udp_associations, allocVars>>

Drained(i) == i \in DOMAIN connections /\ sockets[connections[i].handle].tx = 0

PeerAccepts(i) == TcpStep(i, {"SynSent"}, "Established")
PeerFinishes(i) == TcpStep(i, {"Established"}, "CloseWait")
PeerResets(i) ==
    TcpStep(i, {"SynSent", "Established", "CloseWait", "FinWait", "LastAck"}, "Closed")
PeerAnswersFin(i) ==
    /\ Drained(i)
    /\ TcpStep(i, {"FinWait"}, "TimeWait") \/ TcpStep(i, {"LastAck"}, "Closed")

PeerAcks(i) ==
    /\ Polled(i)
    /\ LET h == connections[i].handle IN
       /\ sockets[h].state \notin {"SynSent", "TimeWait", "Closed"}
       /\ \E n \in 0 .. TxCapacity :
             /\ n < sockets[h].tx
             /\ sockets' = [sockets EXCEPT ![h].tx = n]
    /\ UNCHANGED <<control, clientVars, flowVars, loopVars,
                   connections, udp_associations, allocVars>>

PeerSends(i) ==
    /\ Polled(i)
    /\ LET h == connections[i].handle
           c == connections[i].owner
       IN /\ sockets[h].state \in {"Established", "FinWait"}
          /\ got[c] < MaxGot
          /\ got' = [got EXCEPT ![c] = @ + 1]
          /\ sockets' = [sockets EXCEPT ![h].rx = @ + 1]
    /\ UNCHANGED <<control, clientVars, delivered, loopVars,
                   connections, udp_associations, allocVars>>

PeerSendsUdp(i) ==
    /\ pc = "poll" /\ arrived
    /\ i \in DOMAIN udp_associations
    /\ LET h == udp_associations[i].handle
           c == udp_associations[i].owner
       IN /\ got[c] < MaxGot
          /\ got' = [got EXCEPT ![c] = @ + 1]
          /\ sockets' = [sockets EXCEPT ![h].rx = @ + 1]
    /\ UNCHANGED <<control, clientVars, delivered, loopVars,
                   connections, udp_associations, allocVars>>

(* ... and has sent every datagram when it returns.                        *)
PollEnds ==
    /\ pc = "poll"
    /\ pc' = "drive" /\ arrived' = FALSE
    /\ todo' = DOMAIN connections \cup DOMAIN udp_associations
    /\ LET udpHandles == {udp_associations[i].handle : i \in DOMAIN udp_associations} IN
       sockets' = [h \in DOMAIN sockets |->
                      IF h \in udpHandles THEN [sockets[h] EXCEPT !.tx = 0] ELSE sockets[h]]
    /\ UNCHANGED <<control, clientVars, flowVars, handled,
                   connections, udp_associations, allocVars>>
-----------------------------------------------------------------------------
MaySend(s) == s.state \in {"Established", "CloseWait"}
IsOpen(state) == state \notin {"Closed", "TimeWait"}
CanSend(s) == MaySend(s) /\ s.tx < TxCapacity

\* mutant: send_slice is only called when the whole chunk fits
CanPumpWhole(i) ==
    /\ connections[i].pending_send # <<>>
    /\ CanSend(sockets[connections[i].handle])
    /\ LET chunk == Head(connections[i].pending_send) IN
       chunk[2] - chunk[1] <= TxCapacity - sockets[connections[i].handle].tx

CanPump(i) == /\ connections[i].pending_send # <<>>
              /\ CanSend(sockets[connections[i].handle])

\* mutant: what does not fit goes to the back
PutBackLast(part, rest) == Append(rest, part)

PutBack(part, rest) == <<part>> \o rest

(* One round of pump_pending_sends: what does not fit goes back in front.  *)
PumpPendingSend(i) ==
    /\ pc = "drive" /\ i \in todo \cap DOMAIN connections
    /\ CanPump(i)
    /\ LET h == connections[i].handle
           chunk == Head(connections[i].pending_send)
           room == TxCapacity - sockets[h].tx
           n == IF chunk[2] - chunk[1] <= room THEN chunk[2] - chunk[1] ELSE room
           rest == Tail(connections[i].pending_send)
       IN /\ sockets' = [sockets EXCEPT ![h].tx = @ + n, ![h].taken = chunk[1] + n]
          /\ connections' = [connections EXCEPT ![i].pending_send =
                 IF chunk[1] + n = chunk[2] THEN rest
                 ELSE PutBack(<<chunk[1] + n, chunk[2]>>, rest)]
    /\ UNCHANGED <<control, clientVars, flowVars, loopVars, udp_associations, allocVars>>

(* pump_uplink_reads and pump_udp_reads move what was received into the    *)
(* uplink channel; they fail when the receiver is gone.                    *)
UplinkFails(entry, s) == s.rx > 0 /\ ~listening[entry.owner]

\* mutant: nothing is read from a socket that is no longer open
PumpUplinkReadsIfOpen(entry, s) ==
    delivered' = IF listening[entry.owner] /\ (s \in TcpSocket => IsOpen(s.state))
                 THEN [delivered EXCEPT ![entry.owner] = @ + s.rx]
                 ELSE delivered

PumpUplinkReads(entry, s) ==
    delivered' = IF listening[entry.owner] THEN [delivered EXCEPT ![entry.owner] = @ + s.rx]
                 ELSE delivered

WantsClose(entry, s) == entry.close_requested \/ UplinkFails(entry, s)

\* mutant: the close comes before the reads
ClosesBeforeReads(conn, s) == conn.close_requested /\ MaySend(s)

Closes(conn, s) == WantsClose(conn, s) /\ MaySend(s)

\* mutant: the entry goes and the socket stays
RemoveSocketNever(h) == sockets

RemoveSocket(h) == Without(sockets, h)

(* The rest of drive_connections for one connection: pump_uplink_reads,    *)
(* the close, the removal.                                                 *)
FinishConnection(i) ==
    /\ pc = "drive" /\ i \in todo \cap DOMAIN connections
    /\ ~CanPump(i)
    /\ LET conn == connections[i]
           h == conn.handle
           s == sockets[h]
           state == IF ~Closes(conn, s) THEN s.state
                    ELSE IF s.state = "Established" THEN "FinWait" ELSE "LastAck"
       IN /\ PumpUplinkReads(conn, s)
          /\ IF IsOpen(state)
             THEN /\ connections' = [connections EXCEPT ![i].close_requested = WantsClose(conn, s)]
                  /\ sockets' = [sockets EXCEPT
                         ![h].state = state,
                         ![h].rx = IF UplinkFails(conn, s) THEN s.rx - 1 ELSE 0]
             ELSE /\ connections' = Without(connections, i)
                  /\ sockets' = RemoveSocket(h)
    /\ todo' = todo \ {i}
    /\ UNCHANGED <<control, clientVars, got, pc, handled, arrived, udp_associations, allocVars>>

CanPumpUdp(i) == /\ udp_associations[i].pending_send # <<>>
                 /\ sockets[udp_associations[i].handle].tx < TxCapacity

(* drive_udp_associations comes second.                                    *)
DrivesUdp(i) == /\ pc = "drive" /\ todo \cap DOMAIN connections = {}
                /\ i \in todo

(* One round of pump_pending_udp_sends with a datagram smoltcp takes.      *)
PumpPendingUdpSend(i) ==
    /\ DrivesUdp(i)
    /\ CanPumpUdp(i) /\ Head(udp_associations[i].pending_send) = "good"
    /\ sockets' = [sockets EXCEPT ![udp_associations[i].handle].tx = @ + 1]
    /\ udp_associations' = [udp_associations EXCEPT ![i].pending_send = Tail(@)]
    /\ UNCHANGED <<control, clientVars, flowVars, loopVars, connections, allocVars>>

(* The round that ends its loop: nothing can be sent, or smoltcp refuses   *)
(* the datagram.  can_send() only promises room for one more datagram, not *)
(* for its bytes: a good one is refused when those before it leave it too  *)
(* little room.                                                            *)
PumpEndsUdp(i, refused) ==
    IF refused
    THEN CanPumpUdp(i) /\ \/ Head(udp_associations[i].pending_send) = "bad"
                          \/ sockets[udp_associations[i].handle].tx > 0
    ELSE ~CanPumpUdp(i)

\* mutant: a full send buffer is taken for a refused datagram
AbandonsOnFull(i, refused) ==
    refused \/ sockets[udp_associations[i].handle].tx = TxCapacity

Abandons(i, refused) == refused

(* The rest of drive_udp_associations for one association.                 *)
FinishAssociation(i) ==
    /\ DrivesUdp(i)
    /\ \E refused \in BOOLEAN :
          LET assoc == udp_associations[i]
              h == assoc.handle
              s == sockets[h]
          IN /\ PumpEndsUdp(i, refused)
             /\ spoiled' = IF refused THEN spoiled \cup {assoc.owner} ELSE spoiled
             /\ PumpUplinkReads(assoc, s)
             /\ IF Abandons(i, refused) \/ WantsClose(assoc, s)
                THEN /\ udp_associations' = Without(udp_associations, i)
                     /\ sockets' = RemoveSocket(h)
                ELSE /\ sockets' = [sockets EXCEPT ![h].rx = 0]
                     /\ UNCHANGED udp_associations
    /\ todo' = todo \ {i}
    /\ UNCHANGED <<control, phase, id, sent, closed, listening, got, pc, handled, arrived,
                   connections, allocVars>>

DriveEnds ==
    /\ pc = "drive" /\ todo = {}
    /\ pc' = "wait"
    /\ UNCHANGED <<control, clientVars, flowVars, handled, arrived, todo, tableVars, allocVars>>
-----------------------------------------------------------------------------
Ids == 1 .. Cardinality(Clients)   \* each client opens once

ClientStep(c) == \/ RequestOpen(c) \/ OpenReturns(c) \/ OpenTimesOut(c)
                 \/ ClientSend(c) \/ ClientClose(c) \/ DropReceiver(c)

HandleMessage == \/ HandleTunnelPacket \/ HandleOpen \/ HandleOpenUdp
                 \/ HandleSend \/ HandleSendUdp \/ HandleClose \/ HandleCloseUdp

PeerStep(i) == \/ PeerAccepts(i) \/ PeerFinishes(i) \/ PeerResets(i) \/ PeerAnswersFin(i)
               \/ PeerAcks(i) \/ PeerSends(i) \/ PeerSendsUdp(i)

Drive(i) == \/ PumpPendingSend(i) \/ FinishConnection(i)
            \/ PumpPendingUdpSend(i) \/ FinishAssociation(i)

LoopStep == \/ HandleMessage \/ WaitTimesOut \/ BatchEnds \/ PollEnds
            \/ \E i \in todo : Drive(i)
            \/ DriveEnds

Next == \/ \E c \in Clients : ClientStep(c)
        \/ ForwardTunnelPacket
        \/ LoopStep
        \/ \E i \in DOMAIN connections \cup DOMAIN udp_associations : PeerStep(i)

Spec == Init /\ [][Next]_vars

(* The loop's thread runs whenever it has something to do.  Nothing is     *)
(* promised about anyone else: that packets come through the tunnel, that  *)
(* smoltcp has a timer that wakes the loop, what clients do, or that a     *)
(* peer answers our SYN, our data or our FIN (no timeout is set on a       *)
(* socket, open_connection 393-437).                                       *)
Fairness == WF_vars(LoopStep /\ (pc = "wait" => control # <<>>))

FairSpec == Spec /\ Fairness
-----------------------------------------------------------------------------
Handle(i) == IF i \in DOMAIN connections THEN connections[i].handle
             ELSE udp_associations[i].handle
Live == DOMAIN connections \cup DOMAIN udp_associations

(* Every socket of the set belongs to exactly one entry of one table, and  *)
(* to the table of its kind (open_connection 393-437, drive_connections    *)
(* 475-496, drive_udp_associations): no socket leaks, no entry uses a      *)
(* removed handle, on which SocketSet::get_mut panics.                     *)
SocketsBelongToEntries ==
    /\ DOMAIN connections \cap DOMAIN udp_associations = {}
    /\ \A i, j \in Live : i # j => Handle(i) # Handle(j)
    /\ DOMAIN sockets = {Handle(i) : i \in Live}
    /\ \A i \in DOMAIN connections : sockets[Handle(i)] \in TcpSocket
    /\ \A i \in DOMAIN udp_associations : sockets[Handle(i)] \in UdpSocket

(* A client whose open timed out, whose connection was reset or who is     *)
(* slow to close never touches another client's entry: the id it holds is  *)
(* its own entry's or nobody's (handle_control_message 349-368), and an    *)
(* entry is asked to close by its owner, or for want of a receiver.  An    *)
(* open UDP association goes away for one more reason, a datagram that     *)
(* smoltcp refused (530-532).                                              *)
CloseHasACause ==
    /\ \A c \in Clients : id[c] \in Live =>
           c = IF id[c] \in DOMAIN connections THEN connections[id[c]].owner
               ELSE udp_associations[id[c]].owner
    /\ \A i \in DOMAIN connections : connections[i].close_requested =>
           closed[connections[i].owner] \/ ~listening[connections[i].owner]
    /\ \A i \in DOMAIN udp_associations : ~udp_associations[i].close_requested
                                          \/ closed[udp_associations[i].owner]
    /\ \A c \in UdpClients : phase[c] = "open" /\ id[c] \notin DOMAIN udp_associations =>
           closed[c] \/ c \in spoiled

(* The chunks p follow the byte t and one another; EndOf is where they end.*)
Chain(p, t) == \A k \in DOMAIN p : p[k][1] = IF k = 1 THEN t ELSE p[k - 1][2]
EndOf(p, t) == IF p = <<>> THEN t ELSE p[Len(p)][2]

(* The Sends of a connection in the channel q lead from the byte `from` to *)
(* the byte `upto`: of two places with none of them between, the second    *)
(* begins where the first ends.                                            *)
SendsIn(q, i) == {k \in DOMAIN q : q[k].op = "Send" /\ q[k].id = i}
Leads(q, i, from, upto) ==
    \A j \in SendsIn(q, i) \cup {0}, k \in SendsIn(q, i) \cup {Len(q) + 1} :
        j < k /\ (\A l \in SendsIn(q, i) : l <= j \/ k <= l) =>
            (IF j = 0 THEN from ELSE q[j].data[2])
                = (IF k = Len(q) + 1 THEN upto ELSE q[k].data[1])

(* The upload of a live connection: what its socket has taken, what is     *)
(* pending and what is still in the control channel follow one another     *)
(* without gap or repetition up to the last byte the client sent (Send,    *)
(* 349-353, and the partial sends of pump_pending_sends, 558-576).         *)
UploadInOrder ==
    \A i \in DOMAIN connections :
        LET pending == connections[i].pending_send
            taken == sockets[connections[i].handle].taken
        IN /\ Chain(pending, taken)
           /\ Leads(control, i, EndOf(pending, taken), sent[connections[i].owner])

PortCount == LastPort - FirstPort + 1

(* Two sockets that are alive together have the same local port only if    *)
(* the whole range was handed out in between (alloc_local_port 606-610).   *)
PortsAreNotReusedEarly ==
    \A h, g \in DOMAIN sockets :
        h # g /\ sockets[h].port = sockets[g].port =>
            \/ sockets[h].born >= sockets[g].born + PortCount
            \/ sockets[g].born >= sockets[h].born + PortCount

(* What smoltcp has received, and so acknowledged, for a client that still *)
(* listens reaches it, also when the connection is reset or finished in    *)
(* the meantime (drive_connections 480-488: reads before the removal).     *)
NothingReceivedIsLost ==
    \A c \in Clients : listening[c] =>
        \/ got[c] = delivered[c]
        \/ \E i \in DOMAIN connections : /\ connections[i].owner = c
                                         /\ got[c] = delivered[c] + sockets[Handle(i)].rx
        \/ \E i \in DOMAIN udp_associations : /\ udp_associations[i].owner = c
                                              /\ got[c] = delivered[c] + sockets[Handle(i)].rx

(* When the loop goes back to sleep it leaves nothing it could have done:  *)
(* no sendable chunk, no unread data, no close to carry out, no dead       *)
(* socket.  It may sleep until the next message, so what it forgets here   *)
(* waits for an unrelated event (run_netstack_loop 280-302).               *)
NothingLeftUndone ==
    pc = "wait" =>
        /\ \A i \in DOMAIN connections :
              LET s == sockets[connections[i].handle] IN
              /\ ~CanPump(i)
              /\ IsOpen(s.state)
              /\ s.rx > 0 => connections[i].close_requested
              /\ connections[i].close_requested => ~MaySend(s)
        /\ \A i \in DOMAIN udp_associations :
              /\ ~CanPumpUdp(i)
              /\ sockets[udp_associations[i].handle].rx = 0
              /\ ~udp_associations[i].close_requested

(* The connection i is at the mercy of its peer: smoltcp waits for the     *)
(* answer to the SYN, or for the acknowledgement of our FIN and the peer's *)
(* own FIN, and it waits without a limit.                                  *)
AwaitsPeer(i) == /\ i \in DOMAIN connections
                 /\ sockets[Handle(i)].state \in {"SynSent", "FinWait", "LastAck"}

(* A close() is never forgotten, be the socket still in the handshake      *)
(* (SYN-SENT may not send, so the request is remembered, 359-363 and       *)
(* 483-485): the entry goes, or from some moment on nothing but an answer  *)
(* of the peer is missing.  The code promises no more: a destination that  *)
(* drops our SYN, or that never sends a FIN of its own, keeps the entry    *)
(* for ever.                                                               *)
CloseEndsConnection ==
    \A c \in Clients : closed[c] ~> (id[c] \notin Live \/ []AwaitsPeer(id[c]))

Pending(i) == i \in DOMAIN connections /\ connections[i].pending_send # <<>>
InHandshake(i) == i \in DOMAIN connections /\ sockets[Handle(i)].state = "SynSent"
BufferFull(i) == i \in DOMAIN connections /\ sockets[Handle(i)].tx = TxCapacity

(* What a client sent is sent on, however little fits into the socket at a *)
(* time and however fast messages come (pump_pending_sends 558-576,        *)
(* process_control_batch 305-322), unless the client closes or is gone, or *)
(* the peer leaves our SYN, or a full send buffer, unanswered for ever.    *)
UploadProceeds ==
    \A i \in Ids :
        Pending(i) ~>
            \/ ~Pending(i)
            \/ closed[connections[i].owner] \/ ~listening[connections[i].owner]
            \/ []InHandshake(i)
            \/ []BufferFull(i)
=============================================================================
