--------------------------- MODULE Netstack_proofs ---------------------------
(***************************************************************************)
(* What the netstack's loop keeps true of its tables, its sockets, its     *)
(* local ports and its clients, for any number of clients and handles, any *)
(* range of ports and any sizes.  The first half proves IInv inductive:    *)
(* which entry owns which socket, and what ports, ids and closes mean.     *)
(* The second half rests on it and follows the data: what the loop has     *)
(* served (Driven), whose an entry is (Ownership), the download (Received) *)
(* and the upload (UploadInOrder).                                         *)
(***************************************************************************)
EXTENDS Netstack, SequenceTheorems, TLAPS

OrderedChunk == {chunk \in Chunk : chunk[1] <= chunk[2]}
SoundMessage == {m \in Messages : m.op = "Send" => m.data \in OrderedChunk}
Connection == {entry \in ConnectionState : entry.pending_send \in Seq(OrderedChunk)}

(* An entry's handle is its own, and its socket is of the table's kind.    *)
Entries ==
    /\ next_conn_id \in Nat \ {0}
    /\ connections \in [DOMAIN connections -> Connection]
    /\ udp_associations \in [DOMAIN udp_associations -> UdpAssociationState]
    /\ DOMAIN connections \subseteq 1 .. next_conn_id - 1
    /\ DOMAIN udp_associations \subseteq 1 .. next_conn_id - 1
    /\ DOMAIN connections \cap DOMAIN udp_associations = {}

Owned ==
    /\ \A i, j \in DOMAIN connections :
          i # j => connections[i].handle # connections[j].handle
    /\ \A i, j \in DOMAIN udp_associations :
          i # j => udp_associations[i].handle # udp_associations[j].handle
    /\ \A i \in DOMAIN connections, j \in DOMAIN udp_associations :
          connections[i].handle # udp_associations[j].handle
    /\ \A h \in DOMAIN sockets :
          \/ \E i \in DOMAIN connections : connections[i].handle = h
          \/ \E i \in DOMAIN udp_associations : udp_associations[i].handle = h
    /\ \A i \in DOMAIN connections :
          connections[i].handle \in DOMAIN sockets /\ sockets[connections[i].handle] \in TcpSocket
    /\ \A i \in DOMAIN udp_associations :
          udp_associations[i].handle \in DOMAIN sockets
          /\ sockets[udp_associations[i].handle] \in UdpSocket
    /\ sockets \in [DOMAIN sockets -> TcpSocket \cup UdpSocket]

(* A socket's port was handed out 1, 2, ... allocations ago; the next one  *)
(* to be handed out is as far round the range from it.                     *)
Aged(s, count, next) ==
    /\ s.born \in Nat /\ s.born < count
    /\ \/ count - s.born > PortCount
       \/ s.port + (count - s.born) = next
       \/ s.port + (count - s.born) = next + PortCount

Ports ==
    /\ allocations \in Nat /\ next_local_port \in FirstPort .. LastPort
    /\ \A h \in DOMAIN sockets : sockets[h].port \in FirstPort .. LastPort /\ Aged(sockets[h], allocations, next_local_port)
    /\ PortsAreNotReusedEarly

-----------------------------------------------------------------------------
LEMMA OrderedSeq ==
  ASSUME NEW q \in Seq(OrderedChunk)
  PROVE  q \in Seq(Chunk)
<1>1. Len(q) \in Nat /\ q \in [1 .. Len(q) -> OrderedChunk]
  BY LenProperties
<1>2. q \in [1 .. Len(q) -> Chunk]
  BY <1>1 DEF OrderedChunk
<1> QED BY <1>1, <1>2, SeqDef

LEMMA WithPending ==
  ASSUME NEW entry \in Connection, NEW q \in Seq(OrderedChunk)
  PROVE  /\ [entry EXCEPT !.pending_send = q] \in Connection
         /\ [entry EXCEPT !.pending_send = q].handle = entry.handle
         /\ [entry EXCEPT !.pending_send = q].owner = entry.owner
         /\ [entry EXCEPT !.pending_send = q].close_requested = entry.close_requested
<1>1. q \in Seq(Chunk)
  BY OrderedSeq
<1> QED BY <1>1 DEF Connection, ConnectionState

LEMMA WithClose ==
  ASSUME NEW entry \in Connection, NEW b \in BOOLEAN
  PROVE  /\ [entry EXCEPT !.close_requested = b] \in Connection
         /\ [entry EXCEPT !.close_requested = b].handle = entry.handle
         /\ [entry EXCEPT !.close_requested = b].owner = entry.owner
         /\ [entry EXCEPT !.close_requested = b].close_requested = b
BY DEF Connection, ConnectionState

LEMMA WithPendingUdp ==
  ASSUME NEW entry \in UdpAssociationState, NEW q \in Seq(Datagram)
  PROVE  /\ [entry EXCEPT !.pending_send = q] \in UdpAssociationState
         /\ [entry EXCEPT !.pending_send = q].handle = entry.handle
         /\ [entry EXCEPT !.pending_send = q].owner = entry.owner
         /\ [entry EXCEPT !.pending_send = q].close_requested = entry.close_requested
BY DEF UdpAssociationState

LEMMA WithCloseUdp ==
  ASSUME NEW entry \in UdpAssociationState
  PROVE  /\ [entry EXCEPT !.close_requested = TRUE] \in UdpAssociationState
         /\ [entry EXCEPT !.close_requested = TRUE].handle = entry.handle
         /\ [entry EXCEPT !.close_requested = TRUE].owner = entry.owner
BY DEF UdpAssociationState

LEMMA NewConnection ==
  ASSUME NEW h \in Handles, NEW c \in TcpClients
  PROVE  /\ NewEntry(h, c) \in Connection /\ NewEntry(h, c).handle = h
         /\ NewEntry(h, c).owner = c /\ NewEntry(h, c).close_requested = FALSE
<1>1. <<>> \in Seq(OrderedChunk) /\ <<>> \in Seq(Chunk)
  OBVIOUS
<1> QED BY <1>1 DEF NewEntry, Connection, ConnectionState

LEMMA NewAssociation ==
  ASSUME NEW h \in Handles, NEW c \in UdpClients
  PROVE  /\ NewEntry(h, c) \in UdpAssociationState /\ NewEntry(h, c).handle = h
         /\ NewEntry(h, c).owner = c /\ NewEntry(h, c).close_requested = FALSE
<1>1. <<>> \in Seq(Datagram)
  OBVIOUS
<1> QED BY <1>1 DEF NewEntry, UdpAssociationState

LEMMA WithIs ==
  ASSUME NEW f, NEW x, NEW v
  PROVE  /\ DOMAIN With(f, x, v) = DOMAIN f \cup {x}
         /\ With(f, x, v)[x] = v
         /\ \A y \in DOMAIN f : y # x => With(f, x, v)[y] = f[y]
BY DEF With

LEMMA WithoutIs ==
  ASSUME NEW f, NEW x
  PROVE  /\ DOMAIN Without(f, x) = DOMAIN f \ {x}
         /\ \A y \in DOMAIN f : y # x => Without(f, x)[y] = f[y]
BY DEF Without

LEMMA WithType ==
  ASSUME NEW T, NEW f, f \in [DOMAIN f -> T], NEW x, NEW v \in T
  PROVE  With(f, x, v) \in [DOMAIN With(f, x, v) -> T]
BY DEF With

LEMMA WithoutType ==
  ASSUME NEW T, NEW f, f \in [DOMAIN f -> T], NEW x
  PROVE  Without(f, x) \in [DOMAIN Without(f, x) -> T]
BY DEF Without
-----------------------------------------------------------------------------
(* Steps that add and remove nothing.                                      *)
EntriesKept ==
    /\ UNCHANGED <<next_conn_id, allocations, next_local_port>>
    /\ connections' \in [DOMAIN connections -> Connection]
    /\ \A i \in DOMAIN connections : connections'[i].handle = connections[i].handle
    /\ udp_associations' \in [DOMAIN udp_associations -> UdpAssociationState]
    /\ \A i \in DOMAIN udp_associations :
          udp_associations'[i].handle = udp_associations[i].handle

SameKind(s, t) ==
    /\ s \in TcpSocket => t \in TcpSocket
    /\ s \in UdpSocket => t \in UdpSocket
    /\ t.port = s.port /\ t.born = s.born

SocketsKept ==
    /\ sockets' \in [DOMAIN sockets -> TcpSocket \cup UdpSocket]
    /\ \A h \in DOMAIN sockets : SameKind(sockets[h], sockets'[h])

Tables == Entries /\ Owned /\ Ports

LEMMA KeptKeeps ==
  ASSUME Tables, EntriesKept, SocketsKept
  PROVE  Tables'
<1>1. /\ DOMAIN connections' = DOMAIN connections
      /\ DOMAIN udp_associations' = DOMAIN udp_associations
      /\ DOMAIN sockets' = DOMAIN sockets
  BY DEF EntriesKept, SocketsKept
<1>2. Entries'
  BY <1>1 DEF Tables, Entries, EntriesKept
<1>3. Owned'
  <2>1. \A i, j \in DOMAIN connections' : i # j => connections'[i].handle # connections'[j].handle
    BY <1>1 DEF Tables, Owned, EntriesKept
  <2>2. \A i, j \in DOMAIN udp_associations' :
           i # j => udp_associations'[i].handle # udp_associations'[j].handle
    BY <1>1 DEF Tables, Owned, EntriesKept
  <2>3. \A i \in DOMAIN connections', j \in DOMAIN udp_associations' :
          connections'[i].handle # udp_associations'[j].handle
    BY <1>1 DEF Tables, Owned, EntriesKept
  <2>4. \A h \in DOMAIN sockets' :
          \/ \E i \in DOMAIN connections' : connections'[i].handle = h
          \/ \E i \in DOMAIN udp_associations' : udp_associations'[i].handle = h
    BY <1>1 DEF Tables, Owned, EntriesKept
  <2>5. \A i \in DOMAIN connections' : connections'[i].handle \in DOMAIN sockets'
                                       /\ sockets'[connections'[i].handle] \in TcpSocket
    BY <1>1 DEF Tables, Owned, EntriesKept, SocketsKept, SameKind
  <2>6. \A i \in DOMAIN udp_associations' :
          udp_associations'[i].handle \in DOMAIN sockets'
          /\ sockets'[udp_associations'[i].handle] \in UdpSocket
    BY <1>1 DEF Tables, Owned, EntriesKept, SocketsKept, SameKind
  <2> QED BY <1>1, <2>1, <2>2, <2>3, <2>4, <2>5, <2>6 DEF Owned, SocketsKept
<1>4. Ports'
  <2>1. \A h \in DOMAIN sockets : /\ sockets'[h].port = sockets[h].port
                                  /\ sockets'[h].born = sockets[h].born
    BY DEF SocketsKept, SameKind
  <2>2. PortsAreNotReusedEarly'
    BY <1>1, <2>1 DEF Tables, Ports, PortsAreNotReusedEarly
  <2>3. \A h \in DOMAIN sockets' : sockets'[h].port \in FirstPort .. LastPort /\ Aged(sockets'[h], allocations', next_local_port')
    BY <1>1, <2>1 DEF Tables, Ports, Aged, EntriesKept
  <2> QED BY <2>2, <2>3 DEF Tables, Ports, EntriesKept
<1> QED BY <1>2, <1>3, <1>4 DEF Tables

LEMMA NoChangeKeeps ==
  ASSUME Tables, UNCHANGED <<connections, udp_associations, sockets,
                             next_conn_id, next_local_port, allocations>>
  PROVE  Tables'
<1>1. EntriesKept
  BY DEF Tables, Entries, EntriesKept
<1>2. SocketsKept
  BY DEF Tables, Owned, SocketsKept, SameKind
<1> QED BY <1>1, <1>2, KeptKeeps

(* One socket changes.                                                     *)
LEMMA OneSocket ==
  ASSUME Owned, NEW h \in DOMAIN sockets, NEW s \in TcpSocket \cup UdpSocket,
         SameKind(sockets[h], s), sockets' = [sockets EXCEPT ![h] = s]
  PROVE  SocketsKept
<1>1. sockets' \in [DOMAIN sockets -> TcpSocket \cup UdpSocket]
  BY DEF Owned
<1>2. \A g \in DOMAIN sockets : sockets'[g] = IF g = h THEN s ELSE sockets[g]
  OBVIOUS
<1> QED BY <1>1, <1>2 DEF SocketsKept, SameKind

(* An entry goes with its socket.                                          *)
LEMMA LessPorts ==
  ASSUME Ports, UNCHANGED <<allocations, next_local_port>>,
         DOMAIN sockets' \subseteq DOMAIN sockets,
         \A h \in DOMAIN sockets' : sockets'[h] = sockets[h]
  PROVE  Ports'
<1>1. PortsAreNotReusedEarly'
  BY DEF Ports, PortsAreNotReusedEarly
<1>2. \A h \in DOMAIN sockets' : sockets'[h].port \in FirstPort .. LastPort /\ Aged(sockets'[h], allocations', next_local_port')
  BY DEF Ports, Aged
<1> QED BY <1>1, <1>2 DEF Ports

LEMMA RemoveConnection ==
  ASSUME Tables, NEW i \in DOMAIN connections,
         connections' = Without(connections, i),
         sockets' = Without(sockets, connections[i].handle),
         UNCHANGED <<udp_associations, next_conn_id, allocations, next_local_port>>
  PROVE  Tables'
<1>1. /\ DOMAIN connections' = DOMAIN connections \ {i}
      /\ \A j \in DOMAIN connections' : connections'[j] = connections[j]
      /\ DOMAIN sockets' = DOMAIN sockets \ {connections[i].handle}
      /\ \A h \in DOMAIN sockets' : sockets'[h] = sockets[h]
  BY ZenonT(30), WithoutIs
<1>2. /\ connections' \in [DOMAIN connections' -> Connection]
      /\ sockets' \in [DOMAIN sockets' -> TcpSocket \cup UdpSocket]
  BY WithoutType DEF Tables, Entries, Owned
<1>3. Entries'
  BY <1>1, <1>2 DEF Tables, Entries
<1>4. Owned'
  <2>1. \A h \in DOMAIN sockets' :
          \/ \E j \in DOMAIN connections' : connections'[j].handle = h
          \/ \E j \in DOMAIN udp_associations' : udp_associations'[j].handle = h
    BY <1>1 DEF Tables, Owned
  <2>2. \A j \in DOMAIN connections' : connections'[j].handle \in DOMAIN sockets'
                                       /\ sockets'[connections'[j].handle] \in TcpSocket
    BY <1>1 DEF Tables, Owned
  <2>3. \A j \in DOMAIN udp_associations' :
          udp_associations'[j].handle \in DOMAIN sockets'
          /\ sockets'[udp_associations'[j].handle] \in UdpSocket
    BY <1>1 DEF Tables, Owned
  <2> QED BY <1>1, <1>2, <2>1, <2>2, <2>3 DEF Tables, Owned
<1>5. Ports'
  BY <1>1, LessPorts DEF Tables
<1> QED BY <1>3, <1>4, <1>5 DEF Tables

LEMMA RemoveAssociation ==
  ASSUME Tables, NEW i \in DOMAIN udp_associations,
         udp_associations' = Without(udp_associations, i),
         sockets' = Without(sockets, udp_associations[i].handle),
         UNCHANGED <<connections, next_conn_id, allocations, next_local_port>>
  PROVE  Tables'
<1>1. /\ DOMAIN udp_associations' = DOMAIN udp_associations \ {i}
      /\ \A j \in DOMAIN udp_associations' : udp_associations'[j] = udp_associations[j]
      /\ DOMAIN sockets' = DOMAIN sockets \ {udp_associations[i].handle}
      /\ \A h \in DOMAIN sockets' : sockets'[h] = sockets[h]
  BY ZenonT(30), WithoutIs
<1>2. /\ udp_associations' \in [DOMAIN udp_associations' -> UdpAssociationState]
      /\ sockets' \in [DOMAIN sockets' -> TcpSocket \cup UdpSocket]
  BY WithoutType DEF Tables, Entries, Owned
<1>3. Entries'
  BY <1>1, <1>2 DEF Tables, Entries
<1>4. Owned'
  <2>1. \A h \in DOMAIN sockets' :
          \/ \E j \in DOMAIN connections' : connections'[j].handle = h
          \/ \E j \in DOMAIN udp_associations' : udp_associations'[j].handle = h
    BY <1>1 DEF Tables, Owned
  <2>2. \A j \in DOMAIN connections' : connections'[j].handle \in DOMAIN sockets'
                                       /\ sockets'[connections'[j].handle] \in TcpSocket
    BY <1>1 DEF Tables, Owned
  <2>3. \A j \in DOMAIN udp_associations' :
          udp_associations'[j].handle \in DOMAIN sockets'
          /\ sockets'[udp_associations'[j].handle] \in UdpSocket
    BY <1>1 DEF Tables, Owned
  <2> QED BY <1>1, <1>2, <2>1, <2>2, <2>3 DEF Tables, Owned
<1>5. Ports'
  BY <1>1, LessPorts DEF Tables
<1> QED BY <1>3, <1>4, <1>5 DEF Tables

(* A port is handed out, and an entry with a new socket may come of it.    *)
LEMMA Allocation ==
  ASSUME Ports, AllocLocalPort
  PROVE  /\ allocations' \in Nat /\ next_local_port' \in FirstPort .. LastPort
         /\ \A s : s.port \in FirstPort .. LastPort /\ Aged(s, allocations, next_local_port) => Aged(s, allocations', next_local_port')
         /\ \A s : s.port = next_local_port /\ s.born = allocations => Aged(s, allocations', next_local_port')
         /\ \A s : s.port = next_local_port /\ Aged(s, allocations, next_local_port) => allocations >= s.born + PortCount
<1>1. /\ allocations \in Nat /\ next_local_port \in Nat /\ FirstPort \in Nat /\ LastPort \in Nat
      /\ FirstPort <= next_local_port /\ next_local_port <= LastPort
      /\ allocations' = allocations + 1
      /\ next_local_port' = IF next_local_port >= LastPort THEN FirstPort ELSE next_local_port + 1
  BY NetstackAssumption DEF Ports, AllocLocalPort
<1>2. next_local_port' \in FirstPort .. LastPort
  BY <1>1
<1>3. ASSUME NEW s, s.port \in FirstPort .. LastPort, Aged(s, allocations, next_local_port) PROVE Aged(s, allocations', next_local_port')
  <2>1. PICK b, p : b = s.born /\ p = s.port
    OBVIOUS
  <2>2. /\ b \in Nat /\ p \in Nat /\ b < allocations /\ FirstPort <= p /\ p <= LastPort
        /\ \/ allocations - b > LastPort - FirstPort + 1
           \/ p + (allocations - b) = next_local_port
           \/ p + (allocations - b) = next_local_port + (LastPort - FirstPort + 1)
    BY <1>1, <1>3, <2>1 DEF Aged, PortCount
  <2>3. \/ allocations' - b > LastPort - FirstPort + 1
        \/ p + (allocations' - b) = next_local_port'
        \/ p + (allocations' - b) = next_local_port' + (LastPort - FirstPort + 1)
    BY <1>1, <2>2
  <2>4. b < allocations'
    BY <1>1, <2>2
  <2> QED BY <2>1, <2>2, <2>3, <2>4 DEF Aged, PortCount
<1>4. ASSUME NEW s, s.port = next_local_port, s.born = allocations PROVE Aged(s, allocations', next_local_port')
  <2>1. PICK b, p : b = s.born /\ p = s.port /\ b = allocations /\ p = next_local_port
    BY <1>4
  <2>2. \/ p + (allocations' - b) = next_local_port'
        \/ p + (allocations' - b) = next_local_port' + (LastPort - FirstPort + 1)
    BY <1>1, <2>1
  <2>3. b \in Nat /\ b < allocations'
    BY <1>1, <2>1
  <2> QED BY <2>1, <2>2, <2>3 DEF Aged, PortCount
<1>5. ASSUME NEW s, s.port = next_local_port, Aged(s, allocations, next_local_port)
      PROVE  allocations >= s.born + PortCount
  <2>1. PICK b : b = s.born
    OBVIOUS
  <2> QED BY <1>1, <1>5, <2>1 DEF Aged, PortCount
<1> QED BY <1>1, <1>2, <1>3, <1>4, <1>5

LEMMA MorePorts ==
  ASSUME Ports, AllocLocalPort, NEW h, h \notin DOMAIN sockets, NEW s,
         s.port = next_local_port, s.born = allocations, sockets' = With(sockets, h, s)
  PROVE  Ports'
<1>1. /\ DOMAIN sockets' = DOMAIN sockets \cup {h} /\ sockets'[h] = s
      /\ \A g \in DOMAIN sockets : sockets'[g] = sockets[g]
  <2>1. \A g \in DOMAIN sockets : g # h
    OBVIOUS
  <2>2. /\ DOMAIN With(sockets, h, s) = DOMAIN sockets \cup {h}
        /\ With(sockets, h, s)[h] = s
        /\ \A g \in DOMAIN sockets : g # h => With(sockets, h, s)[g] = sockets[g]
    BY DEF With
  <2> QED BY <2>1, <2>2
<1>2. \A g \in DOMAIN sockets' : sockets'[g].port \in FirstPort .. LastPort
                                 /\ Aged(sockets'[g], allocations', next_local_port')
  <2>1. s.port \in FirstPort .. LastPort /\ Aged(s, allocations', next_local_port')
    BY Allocation DEF Ports
  <2>2. \A g \in DOMAIN sockets : sockets[g].port \in FirstPort .. LastPort
                                 /\ Aged(sockets[g], allocations', next_local_port')
    BY Allocation DEF Ports
  <2> QED BY <1>1, <2>1, <2>2
<1>3. PortsAreNotReusedEarly'
  <2> SUFFICES ASSUME NEW g \in DOMAIN sockets', NEW k \in DOMAIN sockets', g # k,
                      sockets'[g].port = sockets'[k].port
               PROVE  \/ sockets'[g].born >= sockets'[k].born + PortCount
                      \/ sockets'[k].born >= sockets'[g].born + PortCount
    BY DEF PortsAreNotReusedEarly
  <2>1. CASE g # h /\ k # h
    BY <1>1, <2>1 DEF Ports, PortsAreNotReusedEarly
  <2>2. CASE g = h
    <3>1. k \in DOMAIN sockets /\ sockets[k].port = next_local_port /\ Aged(sockets[k], allocations, next_local_port)
      BY <1>1, <2>2 DEF Ports
    <3>2. allocations >= sockets[k].born + PortCount
      BY <3>1, Allocation
    <3> QED BY <1>1, <2>2, <3>1, <3>2
  <2>3. CASE k = h
    <3>1. g \in DOMAIN sockets /\ sockets[g].port = next_local_port /\ Aged(sockets[g], allocations, next_local_port)
      BY <1>1, <2>3 DEF Ports
    <3>2. allocations >= sockets[g].born + PortCount
      BY <3>1, Allocation
    <3> QED BY <1>1, <2>3, <3>1, <3>2
  <2> QED BY <2>1, <2>2, <2>3
<1> QED BY <1>2, <1>3, Allocation DEF Ports

LEMMA MoreOwned ==
  ASSUME Tables, NEW h \in Handles \ DOMAIN sockets, NEW s, sockets' = With(sockets, h, s)
  PROVE  /\ DOMAIN sockets' = DOMAIN sockets \cup {h} /\ sockets'[h] = s
         /\ \A g \in DOMAIN sockets : sockets'[g] = sockets[g] /\ g # h
         /\ s \in TcpSocket \cup UdpSocket =>
               sockets' \in [DOMAIN sockets' -> TcpSocket \cup UdpSocket]
BY DEF With, Tables, Owned

LEMMA AddConnection ==
  ASSUME Tables, NEW h \in Handles \ DOMAIN sockets, NEW c \in TcpClients,
         NEW s \in TcpSocket, s.port = next_local_port, s.born = allocations,
         sockets' = With(sockets, h, s), connections' = With(connections, NewId, NewEntry(h, c)),
         next_conn_id' = next_conn_id + 1, AllocLocalPort, UNCHANGED udp_associations
  PROVE  Tables'
<1>1. /\ DOMAIN sockets' = DOMAIN sockets \cup {h} /\ sockets'[h] = s
      /\ \A g \in DOMAIN sockets : sockets'[g] = sockets[g] /\ g # h
      /\ sockets' \in [DOMAIN sockets' -> TcpSocket \cup UdpSocket]
  BY MoreOwned
<1>2. NewEntry(h, c) \in Connection /\ NewEntry(h, c).handle = h
  BY NewConnection
<1>3. /\ next_conn_id \in Nat \ {0}
      /\ NewId \notin DOMAIN connections /\ NewId \notin DOMAIN udp_associations
  BY DEF Tables, Entries, NewId
<1>4. /\ DOMAIN connections' = DOMAIN connections \cup {NewId}
      /\ connections'[NewId] = NewEntry(h, c)
      /\ \A j \in DOMAIN connections : connections'[j] = connections[j]
      /\ connections' \in [DOMAIN connections' -> Connection]
  BY <1>2, <1>3 DEF With, Tables, Entries
<1>5. Entries'
  BY <1>3, <1>4 DEF Tables, Entries, NewId
<1>6. Owned'
  <2>1. \A i \in DOMAIN connections : connections[i].handle # h
    BY <1>1 DEF Tables, Owned
  <2>2. \A i \in DOMAIN udp_associations : udp_associations[i].handle # h
    BY <1>1 DEF Tables, Owned
  <2>3. \A i, j \in DOMAIN connections' : i # j => connections'[i].handle # connections'[j].handle
    BY <1>2, <1>4, <2>1 DEF Tables, Owned
  <2>4. \A i \in DOMAIN connections', j \in DOMAIN udp_associations' :
          connections'[i].handle # udp_associations'[j].handle
    BY <1>2, <1>4, <2>2 DEF Tables, Owned
  <2>5. \A g \in DOMAIN sockets' :
          \/ \E j \in DOMAIN connections' : connections'[j].handle = g
          \/ \E j \in DOMAIN udp_associations' : udp_associations'[j].handle = g
    BY <1>1, <1>2, <1>4 DEF Tables, Owned
  <2>6. \A j \in DOMAIN connections' : connections'[j].handle \in DOMAIN sockets'
                                       /\ sockets'[connections'[j].handle] \in TcpSocket
    BY <1>1, <1>2, <1>4 DEF Tables, Owned
  <2>7. \A j \in DOMAIN udp_associations' :
          udp_associations'[j].handle \in DOMAIN sockets'
          /\ sockets'[udp_associations'[j].handle] \in UdpSocket
    BY <1>1 DEF Tables, Owned
  <2> QED BY <1>1, <2>3, <2>4, <2>5, <2>6, <2>7 DEF Tables, Owned
<1>7. Ports'
  BY MorePorts DEF Tables
<1> QED BY <1>5, <1>6, <1>7 DEF Tables

LEMMA AddAssociation ==
  ASSUME Tables, NEW h \in Handles \ DOMAIN sockets, NEW c \in UdpClients,
         NEW s \in UdpSocket, s.port = next_local_port, s.born = allocations,
         sockets' = With(sockets, h, s),
         udp_associations' = With(udp_associations, NewId, NewEntry(h, c)),
         next_conn_id' = next_conn_id + 1, AllocLocalPort, UNCHANGED connections
  PROVE  Tables'
<1>1. /\ DOMAIN sockets' = DOMAIN sockets \cup {h} /\ sockets'[h] = s
      /\ \A g \in DOMAIN sockets : sockets'[g] = sockets[g] /\ g # h
      /\ sockets' \in [DOMAIN sockets' -> TcpSocket \cup UdpSocket]
  BY MoreOwned
<1>2. NewEntry(h, c) \in UdpAssociationState /\ NewEntry(h, c).handle = h
  BY NewAssociation
<1>3. /\ next_conn_id \in Nat \ {0}
      /\ NewId \notin DOMAIN connections /\ NewId \notin DOMAIN udp_associations
  BY DEF Tables, Entries, NewId
<1>4. /\ DOMAIN udp_associations' = DOMAIN udp_associations \cup {NewId}
      /\ udp_associations'[NewId] = NewEntry(h, c)
      /\ \A j \in DOMAIN udp_associations : udp_associations'[j] = udp_associations[j]
      /\ udp_associations' \in [DOMAIN udp_associations' -> UdpAssociationState]
  BY <1>2, <1>3 DEF With, Tables, Entries
<1>5. Entries'
  BY <1>3, <1>4 DEF Tables, Entries, NewId
<1>6. Owned'
  <2>1. \A i \in DOMAIN connections : connections[i].handle # h
    BY <1>1 DEF Tables, Owned
  <2>2. \A i \in DOMAIN udp_associations : udp_associations[i].handle # h
    BY <1>1 DEF Tables, Owned
  <2>3. \A i, j \in DOMAIN udp_associations' :
          i # j => udp_associations'[i].handle # udp_associations'[j].handle
    BY <1>2, <1>4, <2>2 DEF Tables, Owned
  <2>4. \A i \in DOMAIN connections', j \in DOMAIN udp_associations' :
          connections'[i].handle # udp_associations'[j].handle
    BY <1>2, <1>4, <2>1 DEF Tables, Owned
  <2>5. \A g \in DOMAIN sockets' :
          \/ \E j \in DOMAIN connections' : connections'[j].handle = g
          \/ \E j \in DOMAIN udp_associations' : udp_associations'[j].handle = g
    BY <1>1, <1>2, <1>4 DEF Tables, Owned
  <2>6. \A j \in DOMAIN connections' : connections'[j].handle \in DOMAIN sockets'
                                       /\ sockets'[connections'[j].handle] \in TcpSocket
    BY <1>1 DEF Tables, Owned
  <2>7. \A j \in DOMAIN udp_associations' :
          udp_associations'[j].handle \in DOMAIN sockets'
          /\ sockets'[udp_associations'[j].handle] \in UdpSocket
    BY <1>1, <1>2, <1>4 DEF Tables, Owned
  <2> QED BY <1>1, <2>3, <2>4, <2>5, <2>6, <2>7 DEF Tables, Owned
<1>7. Ports'
  BY MorePorts DEF Tables
<1> QED BY <1>5, <1>6, <1>7 DEF Tables

-----------------------------------------------------------------------------
(* The steps, seen from the tables.                                        *)
Sound == control \in Seq(SoundMessage)

LEMMA HeadIsSound ==
  ASSUME Sound, NEW op, Receive(op)
  PROVE  /\ Head(control) \in SoundMessage /\ Head(control).op = op
         /\ control' = Tail(control) /\ control' \in Seq(SoundMessage)
<1>1. control # <<>> /\ Head(control).op = op /\ control' = Tail(control)
  BY DEF Receive
<1>2. Head(control) \in SoundMessage /\ Tail(control) \in Seq(SoundMessage)
  BY <1>1, HeadTailProperties DEF Sound
<1> QED BY <1>1, <1>2

(* A message says of itself whom it is from and what it carries.           *)
LEMMA MessageFields ==
  ASSUME NEW m \in SoundMessage
  PROVE  /\ m.op = "Open" => m.client \in TcpClients
         /\ m.op = "OpenUdp" => m.client \in UdpClients
         /\ m.op = "Send" => m.id \in Nat /\ m.data \in OrderedChunk
         /\ m.op = "SendUdp" => m.id \in Nat /\ m.data \in Datagram
         /\ m.op \in {"Close", "CloseUdp"} => m.id \in Nat
BY DEF SoundMessage, Messages

LEMMA SendTables ==
  ASSUME Tables, Sound, HandleSend
  PROVE  Tables'
<1>1. PICK i, data : i = Head(control).id /\ data = Head(control).data
  OBVIOUS
<1>2. data \in OrderedChunk
  BY <1>1, HeadIsSound, MessageFields DEF HandleSend
<1>3. UNCHANGED <<udp_associations, sockets, next_conn_id, next_local_port, allocations>>
  BY DEF HandleSend, allocVars
<1>4. CASE i \notin DOMAIN connections
  BY <1>1, <1>3, <1>4, NoChangeKeeps DEF HandleSend
<1>5. CASE i \in DOMAIN connections
  <2>1. PICK entry : entry = connections[i]
    OBVIOUS
  <2>2. entry \in Connection /\ entry.pending_send \in Seq(OrderedChunk)
    BY <1>5, <2>1 DEF Tables, Entries, Connection
  <2>3. PICK q : q = Append(entry.pending_send, data)
    OBVIOUS
  <2>4. q \in Seq(OrderedChunk)
    BY <1>2, <2>2, <2>3
  <2>5. PICK new : new = [entry EXCEPT !.pending_send = q]
    OBVIOUS
  <2>6. new \in Connection /\ new.handle = entry.handle
    BY <2>2, <2>4, <2>5, WithPending
  <2>7. connections' = [connections EXCEPT ![i] = new]
    BY <1>1, <1>5, <2>1, <2>3, <2>5 DEF HandleSend
  <2>8. EntriesKept
    BY <1>3, <1>5, <2>1, <2>6, <2>7 DEF Tables, Entries, EntriesKept
  <2>9. SocketsKept
    BY <1>3 DEF Tables, Owned, SocketsKept, SameKind
  <2> QED BY <2>8, <2>9, KeptKeeps
<1> QED BY <1>4, <1>5

LEMMA SendUdpTables ==
  ASSUME Tables, Sound, HandleSendUdp
  PROVE  Tables'
<1>1. PICK i, data : i = Head(control).id /\ data = Head(control).data
  OBVIOUS
<1>2. data \in Datagram
  BY <1>1, HeadIsSound, MessageFields DEF HandleSendUdp
<1>3. UNCHANGED <<connections, sockets, next_conn_id, next_local_port, allocations>>
  BY DEF HandleSendUdp, allocVars
<1>4. CASE i \notin DOMAIN udp_associations
  BY <1>1, <1>3, <1>4, NoChangeKeeps DEF HandleSendUdp
<1>5. CASE i \in DOMAIN udp_associations
  <2>1. PICK entry : entry = udp_associations[i]
    OBVIOUS
  <2>2. entry \in UdpAssociationState /\ entry.pending_send \in Seq(Datagram)
    BY <1>5, <2>1 DEF Tables, Entries, UdpAssociationState
  <2>3. PICK q : q = Append(entry.pending_send, data)
    OBVIOUS
  <2>4. q \in Seq(Datagram)
    BY <1>2, <2>2, <2>3
  <2>5. PICK new : new = [entry EXCEPT !.pending_send = q]
    OBVIOUS
  <2>6. new \in UdpAssociationState /\ new.handle = entry.handle
    BY <2>2, <2>4, <2>5, WithPendingUdp
  <2>7. udp_associations' = [udp_associations EXCEPT ![i] = new]
    BY <1>1, <1>5, <2>1, <2>3, <2>5 DEF HandleSendUdp
  <2>8. EntriesKept
    BY <1>3, <1>5, <2>1, <2>6, <2>7 DEF Tables, Entries, EntriesKept
  <2>9. SocketsKept
    BY <1>3 DEF Tables, Owned, SocketsKept, SameKind
  <2> QED BY <2>8, <2>9, KeptKeeps
<1> QED BY <1>4, <1>5

LEMMA CloseTables ==
  ASSUME Tables, HandleClose
  PROVE  Tables'
<1>1. PICK i : i = Head(control).id
  OBVIOUS
<1>2. UNCHANGED <<udp_associations, sockets, next_conn_id, next_local_port, allocations>>
  BY DEF HandleClose, allocVars
<1>3. CASE i \notin DOMAIN connections
  BY <1>1, <1>2, <1>3, NoChangeKeeps DEF HandleClose
<1>4. CASE i \in DOMAIN connections
  <2>1. PICK entry, new : entry = connections[i] /\ new = [entry EXCEPT !.close_requested = TRUE]
    OBVIOUS
  <2>2. entry \in Connection
    BY <1>4, <2>1 DEF Tables, Entries
  <2>3. new \in Connection /\ new.handle = entry.handle
    BY <2>1, <2>2, WithClose
  <2>4. connections' = [connections EXCEPT ![i] = new]
    BY <1>1, <1>4, <2>1 DEF HandleClose
  <2>5. EntriesKept
    BY <1>2, <1>4, <2>1, <2>3, <2>4 DEF Tables, Entries, EntriesKept
  <2>6. SocketsKept
    BY <1>2 DEF Tables, Owned, SocketsKept, SameKind
  <2> QED BY <2>5, <2>6, KeptKeeps
<1> QED BY <1>3, <1>4

LEMMA CloseUdpTables ==
  ASSUME Tables, HandleCloseUdp
  PROVE  Tables'
<1>1. PICK i : i = Head(control).id
  OBVIOUS
<1>2. UNCHANGED <<connections, sockets, next_conn_id, next_local_port, allocations>>
  BY DEF HandleCloseUdp, allocVars
<1>3. CASE i \notin DOMAIN udp_associations
  BY <1>1, <1>2, <1>3, NoChangeKeeps DEF HandleCloseUdp
<1>4. CASE i \in DOMAIN udp_associations
  <2>1. PICK entry, new :
            entry = udp_associations[i] /\ new = [entry EXCEPT !.close_requested = TRUE]
    OBVIOUS
  <2>2. entry \in UdpAssociationState
    BY <1>4, <2>1 DEF Tables, Entries
  <2>3. new \in UdpAssociationState /\ new.handle = entry.handle
    BY <2>1, <2>2, WithCloseUdp
  <2>4. udp_associations' = [udp_associations EXCEPT ![i] = new]
    BY <1>1, <1>4, <2>1 DEF HandleCloseUdp
  <2>5. EntriesKept
    BY <1>2, <1>4, <2>1, <2>3, <2>4 DEF Tables, Entries, EntriesKept
  <2>6. SocketsKept
    BY <1>2 DEF Tables, Owned, SocketsKept, SameKind
  <2> QED BY <2>5, <2>6, KeptKeeps
<1> QED BY <1>3, <1>4

LEMMA PortsAlone ==
  ASSUME Tables, AllocLocalPort,
         UNCHANGED <<connections, udp_associations, sockets, next_conn_id>>
  PROVE  Tables'
<1>1. \A h \in DOMAIN sockets' : sockets'[h].port \in FirstPort .. LastPort
                                 /\ Aged(sockets'[h], allocations', next_local_port')
  BY Allocation DEF Tables, Ports
<1>2. Ports'
  BY <1>1, Allocation DEF Tables, Ports, PortsAreNotReusedEarly
<1> QED BY <1>2 DEF Tables, Entries, Owned

LEMMA OpenTables ==
  ASSUME Tables, Sound, HandleOpen
  PROVE  Tables'
<1>1. PICK c : c = Head(control).client /\ c \in TcpClients
  BY HeadIsSound, MessageFields DEF HandleOpen
<1>2. AllocLocalPort /\ UNCHANGED udp_associations
  BY DEF HandleOpen
<1>3. PICK h \in Handles \ DOMAIN sockets :
          \/ /\ sockets' = With(sockets, h,
                     [state |-> "SynSent", tx |-> 0, rx |-> 0, taken |-> 0,
                      port |-> next_local_port, born |-> allocations])
             /\ connections' = With(connections, NewId, NewEntry(h, c))
             /\ next_conn_id' = next_conn_id + 1
          \/ UNCHANGED <<sockets, connections, next_conn_id>>
  BY <1>1 DEF HandleOpen
<1>4. CASE UNCHANGED <<sockets, connections, next_conn_id>>
  BY <1>2, <1>4, PortsAlone
<1>5. PICK s : s = [state |-> "SynSent", tx |-> 0, rx |-> 0, taken |-> 0,
                    port |-> next_local_port, born |-> allocations]
  OBVIOUS
<1>6. s \in TcpSocket /\ s.port = next_local_port /\ s.born = allocations
  BY <1>5, NetstackAssumption DEF Tables, Ports, TcpSocket
<1>7. CASE /\ sockets' = With(sockets, h, s)
           /\ connections' = With(connections, NewId, NewEntry(h, c))
           /\ next_conn_id' = next_conn_id + 1
  BY <1>1, <1>2, <1>6, <1>7, AddConnection
<1> QED BY <1>3, <1>4, <1>5, <1>7

LEMMA OpenUdpTables ==
  ASSUME Tables, Sound, HandleOpenUdp
  PROVE  Tables'
<1>1. PICK c : c = Head(control).client /\ c \in UdpClients
  BY HeadIsSound, MessageFields DEF HandleOpenUdp
<1>2. AllocLocalPort /\ UNCHANGED connections
  BY DEF HandleOpenUdp
<1>3. PICK s : s = [tx |-> 0, rx |-> 0, port |-> next_local_port, born |-> allocations]
  OBVIOUS
<1>4. s \in UdpSocket /\ s.port = next_local_port /\ s.born = allocations
  BY <1>3, NetstackAssumption DEF Tables, Ports, UdpSocket
<1>5. PICK h \in Handles \ DOMAIN sockets :
          /\ sockets' = With(sockets, h, s)
          /\ udp_associations' = With(udp_associations, NewId, NewEntry(h, c))
          /\ next_conn_id' = next_conn_id + 1
  BY <1>1, <1>3 DEF HandleOpenUdp
<1> QED BY <1>1, <1>2, <1>4, <1>5, AddAssociation

(* One socket changes, and its entry perhaps.                              *)
LEMMA SocketOf ==
  ASSUME Tables, NEW i \in DOMAIN connections
  PROVE  /\ connections[i] \in Connection /\ connections[i].handle \in DOMAIN sockets
         /\ sockets[connections[i].handle] \in TcpSocket
BY DEF Tables, Entries, Owned

LEMMA SocketOfUdp ==
  ASSUME Tables, NEW i \in DOMAIN udp_associations
  PROVE  /\ udp_associations[i] \in UdpAssociationState
         /\ udp_associations[i].handle \in DOMAIN sockets
         /\ sockets[udp_associations[i].handle] \in UdpSocket
BY DEF Tables, Entries, Owned

LEMMA KindsDiffer == \A s : ~(s \in TcpSocket /\ s \in UdpSocket)
<1> SUFFICES ASSUME NEW s \in TcpSocket, s \in UdpSocket PROVE FALSE
  OBVIOUS
<1>1. "state" \in DOMAIN s
  BY DEF TcpSocket
<1>2. "state" \notin DOMAIN s
  BY DEF UdpSocket
<1> QED BY <1>1, <1>2

LEMMA EntriesStay ==
  ASSUME Tables, UNCHANGED <<connections, udp_associations, allocVars>>
  PROVE  EntriesKept
BY DEF Tables, Entries, EntriesKept, allocVars

LEMMA TcpStepTables ==
  ASSUME Tables, NEW i, NEW from,
         NEW to \in {"Established", "CloseWait", "TimeWait", "Closed"}, TcpStep(i, from, to)
  PROVE  Tables'
<1>1. i \in DOMAIN connections /\ UNCHANGED <<connections, udp_associations, allocVars>>
  BY DEF TcpStep, Polled
<1>2. PICK h, s, t : /\ h = connections[i].handle /\ s = sockets[h]
                     /\ t = [s EXCEPT !.state = to]
  OBVIOUS
<1>3. h \in DOMAIN sockets /\ s \in TcpSocket
  BY <1>1, <1>2, SocketOf
<1>4. t \in TcpSocket /\ t.port = s.port /\ t.born = s.born
  BY <1>2, <1>3 DEF TcpSocket
<1>5. sockets' = [sockets EXCEPT ![h] = t]
  BY <1>2, <1>3 DEF TcpStep
<1>6. SameKind(s, t)
  BY <1>3, <1>4, KindsDiffer DEF SameKind
<1>7. SocketsKept
  BY <1>2, <1>3, <1>4, <1>5, <1>6, OneSocket DEF Tables
<1> QED BY <1>1, <1>7, EntriesStay, KeptKeeps

LEMMA AcksTables ==
  ASSUME Tables, NEW i, PeerAcks(i)
  PROVE  Tables'
<1>1. i \in DOMAIN connections /\ UNCHANGED <<connections, udp_associations, allocVars>>
  BY DEF PeerAcks, Polled
<1>2. PICK h, s : h = connections[i].handle /\ s = sockets[h]
  OBVIOUS
<1>3. h \in DOMAIN sockets /\ s \in TcpSocket
  BY <1>1, <1>2, SocketOf
<1>4. PICK n \in 0 .. TxCapacity : sockets' = [sockets EXCEPT ![h].tx = n]
  BY <1>2 DEF PeerAcks
<1>5. PICK t : t = [s EXCEPT !.tx = n]
  OBVIOUS
<1>6. t \in TcpSocket /\ t.port = s.port /\ t.born = s.born
  BY <1>3, <1>5 DEF TcpSocket
<1>7. sockets' = [sockets EXCEPT ![h] = t]
  BY <1>2, <1>3, <1>4, <1>5
<1>8. SameKind(s, t)
  BY <1>3, <1>6, KindsDiffer DEF SameKind
<1>9. SocketsKept
  BY <1>2, <1>3, <1>6, <1>7, <1>8, OneSocket DEF Tables
<1> QED BY <1>1, <1>9, EntriesStay, KeptKeeps

LEMMA PeerSendsTables ==
  ASSUME Tables, NEW i, PeerSends(i) \/ PeerSendsUdp(i)
  PROVE  Tables'
<1>1. UNCHANGED <<connections, udp_associations, allocVars>>
  BY DEF PeerSends, PeerSendsUdp
<1>2. CASE PeerSends(i)
  <2>1. PICK h, s, t : /\ h = connections[i].handle /\ s = sockets[h]
                       /\ t = [s EXCEPT !.rx = @ + 1]
    OBVIOUS
  <2>2. h \in DOMAIN sockets /\ s \in TcpSocket
    BY <1>2, <2>1, SocketOf DEF PeerSends, Polled
  <2>3. t \in TcpSocket /\ t.port = s.port /\ t.born = s.born
    BY <2>1, <2>2 DEF TcpSocket
  <2>4. sockets' = [sockets EXCEPT ![h] = t]
    BY <1>2, <2>1, <2>2 DEF PeerSends
  <2>5. SameKind(s, t)
    BY <2>2, <2>3, KindsDiffer DEF SameKind
  <2>6. SocketsKept
    BY <2>1, <2>2, <2>3, <2>4, <2>5, OneSocket DEF Tables
  <2> QED BY <1>1, <2>6, EntriesStay, KeptKeeps
<1>3. CASE PeerSendsUdp(i)
  <2>1. PICK h, s, t : /\ h = udp_associations[i].handle /\ s = sockets[h]
                       /\ t = [s EXCEPT !.rx = @ + 1]
    OBVIOUS
  <2>2. h \in DOMAIN sockets /\ s \in UdpSocket
    BY <1>3, <2>1, SocketOfUdp DEF PeerSendsUdp
  <2>3. t \in UdpSocket /\ t.port = s.port /\ t.born = s.born
    BY <2>1, <2>2 DEF UdpSocket
  <2>4. sockets' = [sockets EXCEPT ![h] = t]
    BY <1>3, <2>1, <2>2 DEF PeerSendsUdp
  <2>5. SameKind(s, t)
    BY <2>2, <2>3, KindsDiffer DEF SameKind
  <2>6. SocketsKept
    BY <2>1, <2>2, <2>3, <2>4, <2>5, OneSocket DEF Tables
  <2> QED BY <1>1, <2>6, EntriesStay, KeptKeeps
<1> QED BY <1>2, <1>3

LEMMA PollEndsTables ==
  ASSUME Tables, PollEnds
  PROVE  Tables'
<1> DEFINE udpHandles == {udp_associations[i].handle : i \in DOMAIN udp_associations}
<1>1. UNCHANGED <<connections, udp_associations, allocVars>>
  BY DEF PollEnds
<1>2. sockets' = [h \in DOMAIN sockets |->
                     IF h \in udpHandles THEN [sockets[h] EXCEPT !.tx = 0] ELSE sockets[h]]
  BY DEF PollEnds
<1>3. \A h \in DOMAIN sockets : /\ sockets'[h] \in TcpSocket \cup UdpSocket
                                /\ SameKind(sockets[h], sockets'[h])
  <2> SUFFICES ASSUME NEW h \in DOMAIN sockets
               PROVE  /\ sockets'[h] \in TcpSocket \cup UdpSocket
                      /\ SameKind(sockets[h], sockets'[h])
    OBVIOUS
  <2>1. CASE h \notin udpHandles
    BY <1>2, <2>1 DEF Tables, Owned, SameKind
  <2>2. CASE h \in udpHandles
    <3>1. PICK s, t : s = sockets[h] /\ t = [s EXCEPT !.tx = 0]
      OBVIOUS
    <3>2. s \in UdpSocket
      BY <2>2, <3>1, SocketOfUdp
    <3>3. t \in UdpSocket /\ t.port = s.port /\ t.born = s.born
      BY <3>1, <3>2, NetstackAssumption DEF UdpSocket
    <3>4. sockets'[h] = t
      BY <1>2, <2>2, <3>1
    <3> QED BY <3>1, <3>2, <3>3, <3>4, KindsDiffer DEF SameKind
  <2> QED BY <2>1, <2>2
<1>4. SocketsKept
  BY <1>2, <1>3 DEF SocketsKept
<1> QED BY <1>1, <1>4, EntriesStay, KeptKeeps

(* A partial send: what fits is a number of bytes, and what is left is an  *)
(* ordered chunk again.                                                    *)
LEMMA PartialSend ==
  ASSUME NEW chunk \in OrderedChunk, NEW tx \in 0 .. TxCapacity, NEW n,
         n = IF chunk[2] - chunk[1] <= TxCapacity - tx THEN chunk[2] - chunk[1] ELSE TxCapacity - tx
  PROVE  /\ n \in Nat /\ tx + n \in 0 .. TxCapacity /\ chunk[1] + n \in Nat
         /\ <<chunk[1] + n, chunk[2]>> \in OrderedChunk
<1>1. PICK a \in Nat, b \in Nat : chunk = <<a, b>> /\ a <= b
  BY DEF OrderedChunk, Chunk
<1>2. chunk[1] = a /\ chunk[2] = b
  BY <1>1
<1>3. TxCapacity \in Nat
  BY NetstackAssumption
<1>4. n \in Nat /\ tx + n \in 0 .. TxCapacity /\ a + n \in Nat /\ a + n <= b
  BY <1>1, <1>2, <1>3
<1>5. <<a + n, b>> \in Chunk /\ <<a + n, b>>[1] <= <<a + n, b>>[2]
  BY <1>1, <1>4 DEF Chunk
<1> QED BY <1>2, <1>4, <1>5 DEF OrderedChunk

LEMMA PumpTables ==
  ASSUME Tables, NEW i, PumpPendingSend(i)
  PROVE  Tables'
<1>1. i \in DOMAIN connections /\ UNCHANGED <<udp_associations, allocVars>> /\ CanPump(i)
  BY DEF PumpPendingSend
<1>2. PICK entry, h, s, q : /\ entry = connections[i] /\ h = entry.handle /\ s = sockets[h]
                            /\ q = entry.pending_send
  OBVIOUS
<1>3. /\ entry \in Connection /\ h \in DOMAIN sockets /\ s \in TcpSocket
      /\ q \in Seq(OrderedChunk) /\ q # <<>> /\ s.tx \in 0 .. TxCapacity
  BY <1>1, <1>2, SocketOf DEF CanPump, Connection, TcpSocket
<1>4. PICK chunk, rest : chunk = Head(q) /\ rest = Tail(q)
  OBVIOUS
<1>5. chunk \in OrderedChunk /\ rest \in Seq(OrderedChunk)
  BY <1>3, <1>4, HeadTailProperties
<1>6. PICK n : n = IF chunk[2] - chunk[1] <= TxCapacity - s.tx
                   THEN chunk[2] - chunk[1] ELSE TxCapacity - s.tx
  OBVIOUS
<1>7. /\ s.tx + n \in 0 .. TxCapacity /\ chunk[1] + n \in Nat
      /\ <<chunk[1] + n, chunk[2]>> \in OrderedChunk
  BY <1>3, <1>5, <1>6, PartialSend
<1>8. PICK t : t = [s EXCEPT !.tx = @ + n, !.taken = chunk[1] + n]
  OBVIOUS
<1>9. t \in TcpSocket /\ t.port = s.port /\ t.born = s.born
  BY <1>3, <1>7, <1>8 DEF TcpSocket
<1>10. sockets' = [sockets EXCEPT ![h].tx = @ + n, ![h].taken = chunk[1] + n]
  BY <1>1, <1>2, <1>4, <1>6 DEF PumpPendingSend
<1>11. sockets' = [sockets EXCEPT ![h] = t]
  BY <1>2, <1>3, <1>8, <1>10
<1>12. SocketsKept
  <2>1. SameKind(s, t)
    BY <1>3, <1>9, KindsDiffer DEF SameKind
  <2> QED BY <1>2, <1>3, <1>9, <1>11, <2>1, OneSocket DEF Tables
<1>13. PICK left : left = IF chunk[1] + n = chunk[2] THEN rest
                          ELSE PutBack(<<chunk[1] + n, chunk[2]>>, rest)
  OBVIOUS
<1>14. left \in Seq(OrderedChunk)
  <2>1. \A part \in OrderedChunk : <<part>> \in Seq(OrderedChunk)
    OBVIOUS
  <2>2. PutBack(<<chunk[1] + n, chunk[2]>>, rest) \in Seq(OrderedChunk)
    BY <1>5, <1>7, <2>1, ConcatProperties DEF PutBack
  <2> QED BY <1>5, <1>13, <2>2
<1>15. PICK new : new = [entry EXCEPT !.pending_send = left]
  OBVIOUS
<1>16. new \in Connection /\ new.handle = entry.handle
  BY <1>3, <1>14, <1>15, WithPending
<1>17. connections' = [connections EXCEPT ![i].pending_send = left]
  BY <1>2, <1>4, <1>6, <1>13 DEF PumpPendingSend
<1>18. connections' = [connections EXCEPT ![i] = new]
  BY <1>1, <1>2, <1>15, <1>17
<1>19. EntriesKept
  BY <1>1, <1>2, <1>16, <1>18 DEF Tables, Entries, EntriesKept, allocVars
<1> QED BY <1>12, <1>19, KeptKeeps

LEMMA FinishTables ==
  ASSUME Tables, listening \in [Clients -> BOOLEAN], NEW i, FinishConnection(i)
  PROVE  Tables'
<1>1. i \in DOMAIN connections /\ UNCHANGED <<udp_associations, allocVars>>
  BY DEF FinishConnection
<1>2. PICK entry, h, s : entry = connections[i] /\ h = entry.handle /\ s = sockets[h]
  OBVIOUS
<1>3. entry \in Connection /\ h \in DOMAIN sockets /\ s \in TcpSocket
  BY <1>1, <1>2, SocketOf
<1>4. PICK state : state = IF ~Closes(entry, s) THEN s.state
                           ELSE IF s.state = "Established" THEN "FinWait" ELSE "LastAck"
  OBVIOUS
<1>5. CASE ~IsOpen(state)
  <2>1. connections' = Without(connections, i) /\ sockets' = Without(sockets, h)
    BY <1>2, <1>4, <1>5 DEF FinishConnection, RemoveSocket
  <2> QED BY <1>1, <1>2, <2>1, RemoveConnection DEF allocVars
<1>6. CASE IsOpen(state)
  <2>1. PICK b, r : /\ b = WantsClose(entry, s)
                    /\ r = IF UplinkFails(entry, s) THEN s.rx - 1 ELSE 0
    OBVIOUS
  <2>2. /\ connections' = [connections EXCEPT ![i].close_requested = b]
        /\ sockets' = [sockets EXCEPT ![h].state = state, ![h].rx = r]
    BY <1>2, <1>4, <1>6, <2>1 DEF FinishConnection
  <2>3. PICK t, new : /\ t = [s EXCEPT !.state = state, !.rx = r]
                      /\ new = [entry EXCEPT !.close_requested = b]
    OBVIOUS
  <2>4. b \in BOOLEAN
    <3>1. entry.close_requested \in BOOLEAN /\ entry.owner \in Clients
      BY <1>3 DEF Connection, ConnectionState, Clients
    <3>2. UplinkFails(entry, s) \in BOOLEAN
      BY DEF UplinkFails
    <3> QED BY <2>1, <3>1, <3>2 DEF WantsClose
  <2>5. r \in Nat
    BY <1>3, <2>1 DEF UplinkFails, TcpSocket
  <2>6. state \in {"SynSent", "Established", "CloseWait", "FinWait", "LastAck", "TimeWait", "Closed"}
    BY <1>3, <1>4 DEF TcpSocket
  <2>7. t \in TcpSocket /\ t.port = s.port /\ t.born = s.born
    BY <1>3, <2>3, <2>5, <2>6 DEF TcpSocket
  <2>8. new \in Connection /\ new.handle = entry.handle
    BY <1>3, <2>3, <2>4, WithClose
  <2>9. sockets' = [sockets EXCEPT ![h] = t] /\ connections' = [connections EXCEPT ![i] = new]
    BY <1>1, <1>2, <1>3, <2>2, <2>3
  <2>10. SocketsKept
    <3>1. SameKind(s, t)
      BY <1>3, <2>7, KindsDiffer DEF SameKind
    <3> QED BY <1>2, <1>3, <2>7, <2>9, <3>1, OneSocket DEF Tables
  <2>11. EntriesKept
    BY <1>1, <1>2, <2>8, <2>9 DEF Tables, Entries, EntriesKept, allocVars
  <2> QED BY <2>10, <2>11, KeptKeeps
<1> QED BY <1>5, <1>6

LEMMA PumpUdpTables ==
  ASSUME Tables, NEW i, i \in Live, todo \cap DOMAIN connections = {}, PumpPendingUdpSend(i)
  PROVE  Tables'
<1>1. i \in DOMAIN udp_associations /\ UNCHANGED <<connections, allocVars>> /\ CanPumpUdp(i)
  BY DEF PumpPendingUdpSend, Live, DrivesUdp
<1>2. PICK entry, h, s, q : /\ entry = udp_associations[i] /\ h = entry.handle /\ s = sockets[h]
                            /\ q = entry.pending_send
  OBVIOUS
<1>3. /\ entry \in UdpAssociationState /\ h \in DOMAIN sockets /\ s \in UdpSocket
      /\ q \in Seq(Datagram) /\ q # <<>> /\ s.tx \in 0 .. TxCapacity /\ s.tx < TxCapacity
  BY <1>1, <1>2, SocketOfUdp DEF CanPumpUdp, UdpAssociationState, UdpSocket
<1>4. PICK rest, t, new : /\ rest = Tail(q) /\ t = [s EXCEPT !.tx = @ + 1]
                          /\ new = [entry EXCEPT !.pending_send = rest]
  OBVIOUS
<1>5. rest \in Seq(Datagram)
  BY <1>3, <1>4, HeadTailProperties
<1>6. t \in UdpSocket /\ t.port = s.port /\ t.born = s.born
  <2>1. PICK n : n = s.tx + 1
    OBVIOUS
  <2>2. n \in 0 .. TxCapacity
    BY <1>3, <2>1, NetstackAssumption
  <2>3. t = [s EXCEPT !.tx = n]
    BY <1>3, <1>4, <2>1 DEF UdpSocket
  <2> QED BY <1>3, <2>2, <2>3 DEF UdpSocket
<1>7. new \in UdpAssociationState /\ new.handle = entry.handle
  BY <1>3, <1>4, <1>5, WithPendingUdp
<1>8. sockets' = [sockets EXCEPT ![h] = t]
  BY <1>2, <1>3, <1>4 DEF PumpPendingUdpSend
<1>9. udp_associations' = [udp_associations EXCEPT ![i] = new]
  BY <1>1, <1>2, <1>4 DEF PumpPendingUdpSend
<1>10. SocketsKept
  <2>1. SameKind(s, t)
    BY <1>3, <1>6, KindsDiffer DEF SameKind
  <2> QED BY <1>2, <1>3, <1>6, <1>8, <2>1, OneSocket DEF Tables
<1>11. EntriesKept
  BY <1>1, <1>2, <1>7, <1>9 DEF Tables, Entries, EntriesKept, allocVars
<1> QED BY <1>10, <1>11, KeptKeeps

LEMMA FinishUdpTables ==
  ASSUME Tables, NEW i, i \in Live, todo \cap DOMAIN connections = {}, FinishAssociation(i)
  PROVE  Tables'
<1>1. i \in DOMAIN udp_associations /\ UNCHANGED <<connections, allocVars>>
  BY DEF FinishAssociation, Live, DrivesUdp
<1>2. PICK entry, h, s : entry = udp_associations[i] /\ h = entry.handle /\ s = sockets[h]
  OBVIOUS
<1>3. entry \in UdpAssociationState /\ h \in DOMAIN sockets /\ s \in UdpSocket
  BY <1>1, <1>2, SocketOfUdp
<1>4. \/ udp_associations' = Without(udp_associations, i) /\ sockets' = Without(sockets, h)
      \/ sockets' = [sockets EXCEPT ![h].rx = 0] /\ udp_associations' = udp_associations
  BY <1>2 DEF FinishAssociation, RemoveSocket
<1>5. CASE udp_associations' = Without(udp_associations, i) /\ sockets' = Without(sockets, h)
  BY <1>1, <1>2, <1>5, RemoveAssociation DEF allocVars
<1>6. CASE sockets' = [sockets EXCEPT ![h].rx = 0] /\ udp_associations' = udp_associations
  <2>1. PICK t : t = [s EXCEPT !.rx = 0]
    OBVIOUS
  <2>2. t \in UdpSocket /\ t.port = s.port /\ t.born = s.born
    BY <1>3, <2>1 DEF UdpSocket
  <2>3. sockets' = [sockets EXCEPT ![h] = t]
    BY <1>2, <1>3, <1>6, <2>1
  <2>4. SocketsKept
    <3>1. SameKind(s, t)
      BY <1>3, <2>2, KindsDiffer DEF SameKind
    <3> QED BY <1>2, <1>3, <2>2, <2>3, <3>1, OneSocket DEF Tables
  <2> QED BY <1>1, <1>6, <2>4, EntriesStay, KeptKeeps
<1> QED BY <1>4, <1>5, <1>6

-----------------------------------------------------------------------------
(* The clients, their messages and their entries.                          *)
HasId == {"replied", "open"}

ClientsOK ==
    /\ phase \in [Clients -> Phases] /\ id \in [Clients -> Nat \cup {NoId}]
    /\ sent \in [Clients -> Nat]
    /\ closed \in [Clients -> BOOLEAN] /\ listening \in [Clients -> BOOLEAN]
    /\ spoiled \subseteq UdpClients
    /\ \A c \in Clients :
          /\ phase[c] \in HasId => id[c] \in Nat /\ id[c] < next_conn_id
          /\ phase[c] \notin HasId => id[c] = NoId
          /\ closed[c] => phase[c] = "open"
          /\ c \in UdpClients /\ phase[c] \in HasId \cup {"opening"} /\ ~closed[c] => listening[c]

(* What a message in the channel says of its sender.                       *)
Honest(m) ==
    /\ m.op \in {"Open", "OpenUdp"} => phase[m.client] # "idle"
    /\ m.op = "Close" => \E c \in TcpClients : closed[c] /\ id[c] = m.id
    /\ m.op = "CloseUdp" => \E c \in UdpClients : closed[c] /\ id[c] = m.id

Mail == Sound /\ \A k \in DOMAIN control : Honest(control[k])

(* An entry is its owner's alone, and is asked to close for a reason.      *)
Causes ==
    /\ \A i \in DOMAIN connections :
          /\ phase[connections[i].owner] # "idle"
          /\ connections[i].close_requested =>
                closed[connections[i].owner] \/ ~listening[connections[i].owner]
    /\ \A i \in DOMAIN udp_associations :
          /\ phase[udp_associations[i].owner] # "idle"
          /\ udp_associations[i].close_requested => closed[udp_associations[i].owner]
    /\ \A c \in Clients : id[c] \in DOMAIN connections => connections[id[c]].owner = c
    /\ \A c \in Clients : id[c] \in DOMAIN udp_associations => udp_associations[id[c]].owner = c
    /\ \A c \in UdpClients :
          phase[c] \in HasId /\ ~closed[c] /\ c \notin spoiled => id[c] \in DOMAIN udp_associations

LoopOK ==
    /\ got \in [Clients -> Nat] /\ delivered \in [Clients -> Nat]
    /\ pc \in {"wait", "batch", "poll", "drive"}
    /\ handled \in 0 .. MAX_CONTROL_BATCH
    /\ arrived \in BOOLEAN
    /\ todo \subseteq Live

IInv == Tables /\ ClientsOK /\ Mail /\ Causes /\ LoopOK

(* What no step takes back.                                                *)
Onward ==
    \A c \in Clients :
        /\ phase[c] # "idle" => phase'[c] # "idle"
        /\ closed[c] => closed'[c] /\ id'[c] = id[c]

LEMMA OwnersAre ==
  ASSUME Tables
  PROVE  /\ \A i \in DOMAIN connections : connections[i].owner \in TcpClients /\ i \in Nat
         /\ \A i \in DOMAIN udp_associations : udp_associations[i].owner \in UdpClients /\ i \in Nat
BY DEF Tables, Entries, Connection, ConnectionState, UdpAssociationState

LEMMA HonestStays ==
  ASSUME Onward, NEW m \in SoundMessage, Honest(m)
  PROVE  Honest(m)'
<1>1. m.op \in {"Open", "OpenUdp"} => m.client \in Clients
  BY MessageFields DEF Clients
<1>2. m.op \in {"Open", "OpenUdp"} => phase'[m.client] # "idle"
  BY <1>1 DEF Onward, Honest
<1>3. m.op = "Close" => \E c \in TcpClients : closed'[c] /\ id'[c] = m.id
  BY DEF Onward, Honest, Clients
<1>4. m.op = "CloseUdp" => \E c \in UdpClients : closed'[c] /\ id'[c] = m.id
  BY DEF Onward, Honest, Clients
<1> QED BY <1>2, <1>3, <1>4 DEF Honest

LEMMA MailStays ==
  ASSUME Mail, Onward, control' = control
  PROVE  Mail'
<1>1. \A m \in SoundMessage : Honest(m) => Honest(m)'
  BY HonestStays
<1>2. \A k \in DOMAIN control : control[k] \in SoundMessage
  BY DEF Mail, Sound
<1>3. ASSUME NEW k \in DOMAIN control PROVE Honest(control[k])'
  <2>1. PICK m : m = control[k] /\ m = control'[k]
    OBVIOUS
  <2>2. Honest(m)'
    BY <1>1, <1>2, <2>1 DEF Mail
  <2> QED BY <2>1, <2>2 DEF Honest
<1> QED BY <1>3 DEF Mail, Sound

LEMMA MailPosted ==
  ASSUME Mail, Onward, NEW m \in SoundMessage, Post(m), Honest(m)'
  PROVE  Mail'
<1>1. \A x \in SoundMessage : Honest(x) => Honest(x)'
  BY HonestStays
<1>2. control' = Append(control, m) /\ control \in Seq(SoundMessage)
  BY DEF Post, Mail, Sound
<1>3. control' \in Seq(SoundMessage)
  BY <1>2
<1>4. /\ DOMAIN control' = DOMAIN control \cup {Len(control) + 1}
      /\ \A k \in DOMAIN control : control'[k] = control[k]
      /\ control'[Len(control) + 1] = m
  BY <1>2
<1>5. ASSUME NEW k \in DOMAIN control' PROVE Honest(control[k])'
  <2>1. PICK x : x = control'[k]
    OBVIOUS
  <2>2. Honest(x)'
    <3>1. CASE k \in DOMAIN control
      BY <1>1, <1>2, <1>4, <2>1, <3>1 DEF Mail
    <3>2. CASE k \notin DOMAIN control
      BY <1>4, <1>5, <2>1, <3>2
    <3> QED BY <3>1, <3>2
  <2> QED BY <2>1, <2>2 DEF Honest
<1> QED BY <1>3, <1>5 DEF Mail, Sound

LEMMA MailReceived ==
  ASSUME Mail, Onward, NEW op, Receive(op)
  PROVE  Mail'
<1>1. \A x \in SoundMessage : Honest(x) => Honest(x)'
  BY HonestStays
<1>2. control # <<>> /\ control' = Tail(control) /\ control \in Seq(SoundMessage)
  BY DEF Receive, Mail, Sound
<1>3. control' \in Seq(SoundMessage)
  BY <1>2, HeadTailProperties
<1>4. \A k \in DOMAIN control' : k + 1 \in DOMAIN control /\ control'[k] = control[k + 1]
  BY <1>2
<1>5. ASSUME NEW k \in DOMAIN control' PROVE Honest(control[k])'
  <2>1. PICK x : x = control'[k]
    OBVIOUS
  <2>2. Honest(x)'
    BY <1>1, <1>2, <1>4, <2>1 DEF Mail
  <2> QED BY <2>1, <2>2 DEF Honest
<1> QED BY <1>3, <1>5 DEF Mail, Sound

LEMMA HeadIsHonest ==
  ASSUME Mail, NEW op, Receive(op)
  PROVE  Honest(Head(control))
<1>1. control # <<>> /\ control \in Seq(SoundMessage)
  BY DEF Receive, Mail, Sound
<1>2. 1 \in DOMAIN control /\ Head(control) = control[1]
  BY <1>1
<1> QED BY <1>2 DEF Mail

(* Steps of the clients: the tables stay.                                  *)
LEMMA CausesStay ==
  ASSUME Tables, Causes, UNCHANGED <<connections, udp_associations>>, spoiled \subseteq spoiled',
         Onward,
         \A c \in Clients :
            /\ phase[c] # "idle" /\ ~listening[c] => ~listening'[c]
            /\ id'[c] = id[c] \/ id'[c] = NoId
            /\ phase'[c] \in HasId => phase[c] \in HasId /\ id'[c] = id[c]
  PROVE  Causes'
<1>1. NoId \notin Nat
  BY NetstackAssumption
<1>2. \A c \in TcpClients \cup UdpClients : c \in Clients
  BY DEF Clients
<1>3. \A i \in DOMAIN connections :
          /\ phase'[connections[i].owner] # "idle"
          /\ connections[i].close_requested =>
                closed'[connections[i].owner] \/ ~listening'[connections[i].owner]
  BY <1>2, OwnersAre DEF Causes, Onward
<1>4. \A i \in DOMAIN udp_associations :
          /\ phase'[udp_associations[i].owner] # "idle"
          /\ udp_associations[i].close_requested => closed'[udp_associations[i].owner]
  BY <1>2, OwnersAre DEF Causes, Onward
<1>5. \A c \in Clients : id'[c] \in DOMAIN connections => connections[id'[c]].owner = c
  BY <1>1, OwnersAre DEF Causes
<1>6. \A c \in Clients : id'[c] \in DOMAIN udp_associations => udp_associations[id'[c]].owner = c
  BY <1>1, OwnersAre DEF Causes
<1>7. \A c \in UdpClients :
          phase'[c] \in HasId /\ ~closed'[c] /\ c \notin spoiled' => id'[c] \in DOMAIN udp_associations
  BY <1>2 DEF Causes, Onward
<1> QED BY <1>3, <1>4, <1>5, <1>6, <1>7 DEF Causes

(* Steps of the loop: the clients stay.                                    *)
LEMMA CausesKept ==
  ASSUME Causes, UNCHANGED <<phase, id, closed, listening>>, spoiled \subseteq spoiled',
         DOMAIN connections' \subseteq DOMAIN connections,
         DOMAIN udp_associations' \subseteq DOMAIN udp_associations,
         \A i \in DOMAIN connections' :
            /\ connections'[i].owner = connections[i].owner
            /\ connections'[i].close_requested =>
                  \/ connections[i].close_requested
                  \/ closed[connections[i].owner] \/ ~listening[connections[i].owner],
         \A i \in DOMAIN udp_associations' :
            /\ udp_associations'[i].owner = udp_associations[i].owner
            /\ udp_associations'[i].close_requested =>
                  udp_associations[i].close_requested \/ closed[udp_associations[i].owner],
         \A c \in UdpClients :
            phase[c] \in HasId /\ ~closed[c] /\ c \notin spoiled' /\ id[c] \in DOMAIN udp_associations
               => id[c] \in DOMAIN udp_associations'
  PROVE  Causes'
<1>1. \A i \in DOMAIN connections' :
          /\ phase'[connections'[i].owner] # "idle"
          /\ connections'[i].close_requested =>
                closed'[connections'[i].owner] \/ ~listening'[connections'[i].owner]
  BY DEF Causes
<1>2. \A i \in DOMAIN udp_associations' :
          /\ phase'[udp_associations'[i].owner] # "idle"
          /\ udp_associations'[i].close_requested => closed'[udp_associations'[i].owner]
  BY DEF Causes
<1>3. \A c \in Clients : id'[c] \in DOMAIN connections' => connections'[id'[c]].owner = c
  BY DEF Causes
<1>4. \A c \in Clients : id'[c] \in DOMAIN udp_associations' => udp_associations'[id'[c]].owner = c
  BY DEF Causes
<1>5. \A c \in UdpClients :
          phase'[c] \in HasId /\ ~closed'[c] /\ c \notin spoiled' => id'[c] \in DOMAIN udp_associations'
  BY DEF Causes
<1> QED BY <1>1, <1>2, <1>3, <1>4, <1>5 DEF Causes

LEMMA LoopStays ==
  ASSUME LoopOK, UNCHANGED <<got, delivered, pc, handled, arrived, todo>>, Live \subseteq Live'
  PROVE  LoopOK'
BY DEF LoopOK

(* What the steps of clients have in common.                               *)
LEMMA ClientKeeps ==
  ASSUME IInv, UNCHANGED <<flowVars, loopVars, tableVars, allocVars>>, UNCHANGED spoiled,
         ClientsOK', Mail',
         \A c \in Clients :
            /\ phase[c] # "idle" => phase'[c] # "idle"
            /\ closed[c] => closed'[c] /\ id'[c] = id[c]
            /\ phase[c] # "idle" /\ ~listening[c] => ~listening'[c]
            /\ id'[c] = id[c] \/ id'[c] = NoId
            /\ phase'[c] \in HasId => phase[c] \in HasId /\ id'[c] = id[c]
  PROVE  IInv'
<1>1. /\ UNCHANGED <<connections, udp_associations, sockets>>
      /\ UNCHANGED <<next_conn_id, next_local_port, allocations>>
      /\ UNCHANGED <<got, delivered, pc, handled, arrived, todo>>
  BY DEF flowVars, loopVars, tableVars, allocVars
<1>2. Tables'
  BY <1>1, NoChangeKeeps DEF IInv
<1>3. Onward
  BY DEF Onward
<1>4. Causes'
  BY <1>1, <1>3, CausesStay DEF IInv
<1>5. LoopOK'
  BY <1>1, LoopStays DEF IInv, Live
<1> QED BY <1>2, <1>4, <1>5 DEF IInv

LEMMA RequestOpenKeeps ==
  ASSUME IInv, NEW c \in Clients, RequestOpen(c)
  PROVE  IInv'
<1>1. /\ UNCHANGED <<flowVars, loopVars, tableVars, allocVars>>
      /\ UNCHANGED <<id, sent, closed, spoiled>> /\ phase[c] = "idle"
      /\ phase' = [phase EXCEPT ![c] = "opening"] /\ listening' = [listening EXCEPT ![c] = TRUE]
  BY DEF RequestOpen
<1>2. PICK m : m = [op |-> IF c \in TcpClients THEN "Open" ELSE "OpenUdp", client |-> c]
  OBVIOUS
<1>3. m \in SoundMessage /\ Post(m) /\ m.op \in {"Open", "OpenUdp"} /\ m.client = c
  BY <1>2 DEF SoundMessage, Messages, RequestOpen, Clients
<1>4. /\ phase \in [Clients -> Phases] /\ listening \in [Clients -> BOOLEAN]
      /\ next_conn_id' = next_conn_id
  BY <1>1 DEF IInv, ClientsOK, allocVars
<1>5. /\ phase' \in [Clients -> Phases] /\ listening' \in [Clients -> BOOLEAN]
      /\ phase'[c] = "opening" /\ listening'[c] = TRUE
      /\ \A d \in Clients \ {c} : phase'[d] = phase[d] /\ listening'[d] = listening[d]
  BY <1>1, <1>4 DEF Phases
<1>6. ClientsOK'
  BY <1>1, <1>4, <1>5 DEF IInv, ClientsOK, HasId
<1>7. Onward
  BY <1>1, <1>5 DEF Onward
<1>8. Honest(m)'
  BY <1>3, <1>5 DEF Honest
<1>9. Mail'
  BY <1>3, <1>7, <1>8, MailPosted DEF IInv
<1> QED BY <1>1, <1>5, <1>6, <1>9, ClientKeeps DEF HasId

LEMMA OpenReturnsKeeps ==
  ASSUME IInv, NEW c \in Clients, OpenReturns(c)
  PROVE  IInv'
<1>1. /\ UNCHANGED <<flowVars, loopVars, tableVars, allocVars>>
      /\ UNCHANGED <<control, id, sent, closed, listening, spoiled>> /\ phase[c] = "replied"
      /\ phase' = [phase EXCEPT ![c] = "open"]
  BY DEF OpenReturns
<1>2. phase \in [Clients -> Phases] /\ next_conn_id' = next_conn_id
  BY <1>1 DEF IInv, ClientsOK, allocVars
<1>3. /\ phase' \in [Clients -> Phases] /\ phase'[c] = "open"
      /\ \A d \in Clients \ {c} : phase'[d] = phase[d]
  BY <1>1, <1>2 DEF Phases
<1>4. ClientsOK'
  BY <1>1, <1>2, <1>3 DEF IInv, ClientsOK, HasId
<1>5. Onward
  BY <1>1, <1>3 DEF Onward
<1>6. Mail'
  BY <1>1, <1>5, MailStays DEF IInv
<1> QED BY <1>1, <1>3, <1>4, <1>6, ClientKeeps DEF HasId

LEMMA OpenTimesOutKeeps ==
  ASSUME IInv, NEW c \in Clients, OpenTimesOut(c)
  PROVE  IInv'
<1>1. /\ UNCHANGED <<flowVars, loopVars, tableVars, allocVars>>
      /\ UNCHANGED <<control, sent, closed, spoiled>> /\ phase[c] \in {"opening", "replied"}
      /\ phase' = [phase EXCEPT ![c] = "gaveUp"] /\ id' = [id EXCEPT ![c] = NoId]
      /\ listening' = [listening EXCEPT ![c] = FALSE]
  BY DEF OpenTimesOut
<1>2. /\ phase \in [Clients -> Phases] /\ listening \in [Clients -> BOOLEAN]
      /\ id \in [Clients -> Nat \cup {NoId}] /\ next_conn_id' = next_conn_id
      /\ ~closed[c]
  BY <1>1 DEF IInv, ClientsOK, allocVars
<1>3. /\ phase' \in [Clients -> Phases] /\ listening' \in [Clients -> BOOLEAN]
      /\ id' \in [Clients -> Nat \cup {NoId}]
      /\ phase'[c] = "gaveUp" /\ id'[c] = NoId /\ listening'[c] = FALSE
      /\ \A d \in Clients \ {c} :
            phase'[d] = phase[d] /\ id'[d] = id[d] /\ listening'[d] = listening[d]
  BY <1>1, <1>2 DEF Phases
<1>4. ClientsOK'
  <2>1. \A d \in Clients :
          /\ phase'[d] \in HasId => id'[d] \in Nat /\ id'[d] < next_conn_id'
          /\ phase'[d] \notin HasId => id'[d] = NoId
          /\ closed'[d] => phase'[d] = "open"
          /\ d \in UdpClients /\ phase'[d] \in HasId \cup {"opening"} /\ ~closed'[d] => listening'[d]
    BY <1>1, <1>2, <1>3 DEF IInv, ClientsOK, HasId
  <2> QED BY <1>1, <1>3, <2>1 DEF IInv, ClientsOK
<1>5. Onward
  BY <1>1, <1>2, <1>3 DEF Onward
<1>6. Mail'
  BY <1>1, <1>5, MailStays DEF IInv
<1> QED BY <1>1, <1>2, <1>3, <1>4, <1>6, ClientKeeps DEF HasId

LEMMA ClientSendKeeps ==
  ASSUME IInv, NEW c \in Clients, ClientSend(c)
  PROVE  IInv'
<1>1. /\ UNCHANGED <<flowVars, loopVars, tableVars, allocVars>>
      /\ UNCHANGED <<phase, id, closed, listening, spoiled>> /\ phase[c] = "open"
  BY DEF ClientSend
<1>2. /\ sent \in [Clients -> Nat] /\ id[c] \in Nat /\ next_conn_id' = next_conn_id
      /\ ChunkLen \in Nat
  BY <1>1, NetstackAssumption DEF IInv, ClientsOK, allocVars, HasId
<1>3. sent' \in [Clients -> Nat]
  BY <1>2 DEF ClientSend
<1>4. ClientsOK'
  BY <1>1, <1>2, <1>3 DEF IInv, ClientsOK
<1>5. Onward
  BY <1>1 DEF Onward
<1>6. \E m \in SoundMessage : Post(m) /\ m.op \in {"Send", "SendUdp"}
  <2>1. CASE c \in TcpClients /\ Post([op |-> "Send", id |-> id[c],
                                       data |-> <<sent[c], sent[c] + ChunkLen>>])
    <3>1. PICK a, b : a = sent[c] /\ b = sent[c] + ChunkLen /\ a \in Nat /\ b \in Nat /\ a <= b
      BY <1>2
    <3>2. <<a, b>> \in OrderedChunk
      BY <3>1 DEF OrderedChunk, Chunk
    <3>3. [op |-> "Send", id |-> id[c], data |-> <<a, b>>] \in SoundMessage
      BY <1>2, <3>2 DEF SoundMessage, Messages, OrderedChunk
    <3> QED BY <2>1, <3>1, <3>3
  <2>2. ASSUME NEW d \in Datagram, Post([op |-> "SendUdp", id |-> id[c], data |-> d])
        PROVE  \E m \in SoundMessage : Post(m) /\ m.op \in {"Send", "SendUdp"}
    <3>1. [op |-> "SendUdp", id |-> id[c], data |-> d] \in SoundMessage
      BY <1>2 DEF SoundMessage, Messages
    <3> QED BY <2>2, <3>1
  <2> QED BY <2>1, <2>2 DEF ClientSend
<1>7. Mail'
  <2>1. PICK m \in SoundMessage : Post(m) /\ m.op \in {"Send", "SendUdp"}
    BY <1>6
  <2>2. Honest(m)'
    BY <2>1 DEF Honest
  <2> QED BY <1>5, <2>1, <2>2, MailPosted DEF IInv
<1> QED BY <1>1, <1>4, <1>7, ClientKeeps

LEMMA ClientCloseKeeps ==
  ASSUME IInv, NEW c \in Clients, ClientClose(c)
  PROVE  IInv'
<1>1. /\ UNCHANGED <<flowVars, loopVars, tableVars, allocVars>>
      /\ UNCHANGED <<phase, id, sent, listening, spoiled>> /\ phase[c] = "open" /\ ~closed[c]
      /\ closed' = [closed EXCEPT ![c] = TRUE]
  BY DEF ClientClose
<1>2. closed \in [Clients -> BOOLEAN] /\ id[c] \in Nat /\ next_conn_id' = next_conn_id
  BY <1>1 DEF IInv, ClientsOK, allocVars, HasId
<1>3. /\ closed' \in [Clients -> BOOLEAN] /\ closed'[c] = TRUE
      /\ \A d \in Clients \ {c} : closed'[d] = closed[d]
  BY <1>1, <1>2
<1>4. ClientsOK'
  BY <1>1, <1>2, <1>3 DEF IInv, ClientsOK
<1>5. Onward
  BY <1>1, <1>3 DEF Onward
<1>6. PICK m : m = [op |-> IF c \in TcpClients THEN "Close" ELSE "CloseUdp", id |-> id[c]]
  OBVIOUS
<1>7. /\ m \in SoundMessage /\ Post(m) /\ m.id = id[c]
      /\ m.op = IF c \in TcpClients THEN "Close" ELSE "CloseUdp"
  BY <1>2, <1>6 DEF SoundMessage, Messages, ClientClose
<1>8. Honest(m)'
  <2>1. id'[c] = m.id /\ closed'[c]
    BY <1>1, <1>3, <1>7
  <2>2. c \in TcpClients \/ c \in UdpClients
    BY DEF Clients
  <2> QED BY <1>7, <2>1, <2>2 DEF Honest
<1>9. Mail'
  BY <1>5, <1>7, <1>8, MailPosted DEF IInv
<1> QED BY <1>1, <1>3, <1>4, <1>9, ClientKeeps

LEMMA DropReceiverKeeps ==
  ASSUME IInv, NEW c \in Clients, DropReceiver(c)
  PROVE  IInv'
<1>1. /\ UNCHANGED <<flowVars, loopVars, tableVars, allocVars>>
      /\ UNCHANGED <<control, phase, id, sent, closed, spoiled>>
      /\ phase[c] = "open" /\ (c \in UdpClients => closed[c])
      /\ listening' = [listening EXCEPT ![c] = FALSE]
  BY DEF DropReceiver
<1>2. listening \in [Clients -> BOOLEAN] /\ next_conn_id' = next_conn_id
  BY <1>1 DEF IInv, ClientsOK, allocVars
<1>3. /\ listening' \in [Clients -> BOOLEAN] /\ listening'[c] = FALSE
      /\ \A d \in Clients \ {c} : listening'[d] = listening[d]
  BY <1>1, <1>2
<1>4. ClientsOK'
  BY <1>1, <1>2, <1>3 DEF IInv, ClientsOK
<1>5. Onward
  BY <1>1 DEF Onward
<1>6. Mail'
  BY <1>1, <1>5, MailStays DEF IInv
<1> QED BY <1>1, <1>3, <1>4, <1>6, ClientKeeps

LEMMA ForwardKeeps ==
  ASSUME IInv, ForwardTunnelPacket
  PROVE  IInv'
<1>1. /\ UNCHANGED <<flowVars, loopVars, tableVars, allocVars>>
      /\ UNCHANGED <<phase, id, sent, closed, listening, spoiled>>
  BY DEF ForwardTunnelPacket, clientVars
<1>2. ClientsOK'
  BY <1>1 DEF IInv, ClientsOK, allocVars
<1>3. Onward
  BY <1>1 DEF Onward
<1>4. PICK m : m = [op |-> "TunnelPacket"]
  OBVIOUS
<1>5. m \in SoundMessage /\ Post(m) /\ m.op = "TunnelPacket"
  BY <1>4 DEF SoundMessage, Messages, ForwardTunnelPacket
<1>6. Honest(m)'
  BY <1>5 DEF Honest
<1>7. Mail'
  BY <1>3, <1>5, <1>6, MailPosted DEF IInv
<1> QED BY <1>1, <1>2, <1>7, ClientKeeps
-----------------------------------------------------------------------------
(* The steps of the loop.                                                  *)
LEMMA LoopKeeps ==
  ASSUME IInv, UNCHANGED <<phase, id, sent, closed, listening, next_conn_id>>,
         spoiled' \subseteq UdpClients, Tables', Mail', Causes', LoopOK'
  PROVE  IInv'
<1>1. ClientsOK'
  BY DEF IInv, ClientsOK
<1> QED BY <1>1 DEF IInv

(* Steps that leave entries, clients and messages alone.                   *)
LEMMA QuietKeeps ==
  ASSUME IInv, UNCHANGED <<control, clientVars, connections, udp_associations, allocVars>>,
         Tables', LoopOK'
  PROVE  IInv'
<1>1. UNCHANGED <<phase, id, sent, closed, listening, spoiled, next_conn_id>>
  BY DEF clientVars, allocVars
<1>2. Onward
  BY <1>1 DEF Onward
<1>3. Mail'
  BY <1>2, MailStays DEF IInv
<1>4. Causes'
  BY <1>1 DEF IInv, Causes
<1>5. spoiled' \subseteq UdpClients
  BY <1>1 DEF IInv, ClientsOK
<1> QED BY <1>1, <1>3, <1>4, <1>5, LoopKeeps

LEMMA ReceivedLoop ==
  ASSUME LoopOK, NEW op, Receive(op), UNCHANGED flowVars, arrived' \in BOOLEAN,
         Live \subseteq Live'
  PROVE  LoopOK'
<1>1. handled' \in 0 .. MAX_CONTROL_BATCH
  BY NetstackAssumption DEF LoopOK, Receive
<1> QED BY <1>1 DEF LoopOK, Receive, flowVars

LEMMA HandleTunnelPacketKeeps ==
  ASSUME IInv, HandleTunnelPacket
  PROVE  IInv'
<1>1. /\ Receive("TunnelPacket") /\ arrived' = TRUE
      /\ UNCHANGED <<phase, id, sent, closed, listening, spoiled>> /\ UNCHANGED flowVars
      /\ UNCHANGED <<connections, udp_associations, sockets>>
      /\ UNCHANGED <<next_conn_id, next_local_port, allocations>>
  BY DEF HandleTunnelPacket, clientVars, tableVars, allocVars
<1>2. Tables'
  BY <1>1, NoChangeKeeps DEF IInv
<1>3. Onward
  BY <1>1 DEF Onward
<1>4. Mail'
  BY <1>1, <1>3, MailReceived DEF IInv
<1>5. Causes'
  BY <1>1 DEF IInv, Causes
<1>6. LoopOK'
  BY <1>1, ReceivedLoop DEF IInv, Live
<1>7. spoiled' \subseteq UdpClients
  BY <1>1 DEF IInv, ClientsOK
<1> QED BY <1>1, <1>2, <1>4, <1>5, <1>6, <1>7, LoopKeeps

LEMMA WaitTimesOutKeeps ==
  ASSUME IInv, WaitTimesOut \/ BatchEnds \/ DriveEnds
  PROVE  IInv'
<1>1. /\ UNCHANGED <<control, clientVars, connections, udp_associations, allocVars>>
      /\ UNCHANGED <<sockets, flowVars, arrived, todo>>
      /\ pc' \in {"poll", "wait"} /\ handled' \in {0, handled}
  BY DEF WaitTimesOut, BatchEnds, DriveEnds, tableVars
<1>2. Tables'
  BY <1>1, NoChangeKeeps DEF IInv, allocVars
<1>3. handled' \in 0 .. MAX_CONTROL_BATCH
  BY <1>1, NetstackAssumption DEF IInv, LoopOK
<1>4. LoopOK'
  BY <1>1, <1>3 DEF IInv, LoopOK, Live, flowVars
<1> QED BY <1>1, <1>2, <1>4, QuietKeeps

LEMMA PollEndsKeeps ==
  ASSUME IInv, PollEnds
  PROVE  IInv'
<1>1. /\ UNCHANGED <<control, clientVars, connections, udp_associations, allocVars>>
      /\ UNCHANGED <<flowVars, handled>>
      /\ pc' = "drive" /\ arrived' = FALSE /\ todo' = Live
  BY DEF PollEnds, Live
<1>2. Tables'
  BY PollEndsTables DEF IInv
<1>3. LoopOK'
  BY <1>1 DEF IInv, LoopOK, Live, flowVars
<1> QED BY <1>1, <1>2, <1>3, QuietKeeps

LEMMA TcpStepKeeps ==
  ASSUME IInv, NEW i, NEW from,
         NEW to \in {"Established", "CloseWait", "TimeWait", "Closed"}, TcpStep(i, from, to)
  PROVE  IInv'
<1>1. /\ UNCHANGED <<control, clientVars, connections, udp_associations, allocVars>>
      /\ UNCHANGED <<flowVars, loopVars>>
  BY DEF TcpStep
<1>2. Tables'
  BY TcpStepTables DEF IInv
<1>3. LoopOK'
  BY <1>1 DEF IInv, LoopOK, Live, flowVars, loopVars
<1> QED BY <1>1, <1>2, <1>3, QuietKeeps

LEMMA PeerKeeps ==
  ASSUME IInv, NEW i, PeerStep(i)
  PROVE  IInv'
<1>1. CASE PeerAccepts(i)
  BY <1>1, TcpStepKeeps DEF PeerAccepts
<1>2. CASE PeerFinishes(i)
  BY <1>2, TcpStepKeeps DEF PeerFinishes
<1>3. CASE PeerResets(i)
  BY <1>3, TcpStepKeeps DEF PeerResets
<1>4. CASE PeerAnswersFin(i)
  <2>1. TcpStep(i, {"FinWait"}, "TimeWait") \/ TcpStep(i, {"LastAck"}, "Closed")
    BY <1>4 DEF PeerAnswersFin
  <2> QED BY <2>1, TcpStepKeeps
<1>5. CASE PeerAcks(i)
  <2>1. /\ UNCHANGED <<control, clientVars, connections, udp_associations, allocVars>>
        /\ UNCHANGED <<flowVars, loopVars>>
    BY <1>5 DEF PeerAcks
  <2>2. Tables'
    BY <1>5, AcksTables DEF IInv
  <2>3. LoopOK'
    BY <2>1 DEF IInv, LoopOK, Live, flowVars, loopVars
  <2> QED BY <2>1, <2>2, <2>3, QuietKeeps
<1>6. CASE PeerSends(i) \/ PeerSendsUdp(i)
  <2>1. /\ UNCHANGED <<control, clientVars, connections, udp_associations, allocVars>>
        /\ UNCHANGED <<delivered, loopVars>>
    BY <1>6 DEF PeerSends, PeerSendsUdp
  <2>2. Tables'
    BY <1>6, PeerSendsTables DEF IInv
  <2>3. \E c \in Clients : got' = [got EXCEPT ![c] = @ + 1]
    BY <1>6, OwnersAre DEF PeerSends, PeerSendsUdp, Polled, IInv, Clients
  <2>4. got' \in [Clients -> Nat]
    BY <2>3 DEF IInv, LoopOK
  <2>5. LoopOK'
    BY <2>1, <2>4 DEF IInv, LoopOK, Live, loopVars
  <2> QED BY <2>1, <2>2, <2>5, QuietKeeps
<1> QED BY <1>1, <1>2, <1>3, <1>4, <1>5, <1>6 DEF PeerStep

(* What the four handlers that change an entry have in common.             *)
LEMMA HandledKeeps ==
  ASSUME IInv, NEW op, Receive(op), UNCHANGED <<clientVars, flowVars, arrived, allocVars>>,
         Tables', Causes',
         DOMAIN connections' = DOMAIN connections,
         DOMAIN udp_associations' = DOMAIN udp_associations
  PROVE  IInv'
<1>1. /\ UNCHANGED <<phase, id, sent, closed, listening, spoiled, next_conn_id>>
      /\ UNCHANGED <<flowVars, arrived>>
  BY DEF clientVars, allocVars
<1>2. Onward
  BY <1>1 DEF Onward
<1>3. Mail'
  BY <1>2, MailReceived DEF IInv
<1>4. arrived' \in BOOLEAN /\ Live \subseteq Live' /\ spoiled' \subseteq UdpClients
  BY <1>1 DEF IInv, LoopOK, Live, ClientsOK
<1>5. LoopOK'
  BY <1>1, <1>4, ReceivedLoop DEF IInv
<1> QED BY <1>1, <1>3, <1>4, <1>5, LoopKeeps

LEMMA HandleSendKeeps ==
  ASSUME IInv, HandleSend
  PROVE  IInv'
<1>1. /\ Receive("Send")
      /\ UNCHANGED <<clientVars, flowVars, arrived, allocVars>> /\ UNCHANGED udp_associations
  BY DEF HandleSend
<1>2. PICK i, q : /\ i = Head(control).id
                  /\ i \in DOMAIN connections =>
                        q = Append(connections[i].pending_send, Head(control).data)
  OBVIOUS
<1>3. \/ connections' = connections
      \/ /\ i \in DOMAIN connections
         /\ connections' = [connections EXCEPT ![i].pending_send = q]
  BY <1>2 DEF HandleSend
<1>4. /\ DOMAIN connections' = DOMAIN connections
      /\ \A j \in DOMAIN connections :
            /\ connections'[j].owner = connections[j].owner
            /\ connections'[j].close_requested = connections[j].close_requested
  BY SMTT(30), <1>3 DEF IInv, Tables, Entries, Connection, ConnectionState
<1>5. Tables'
  BY SendTables DEF IInv, Mail
<1>6. Causes'
  BY <1>1, <1>4, CausesKept DEF IInv, clientVars
<1> QED BY <1>1, <1>4, <1>5, <1>6, HandledKeeps

LEMMA HandleSendUdpKeeps ==
  ASSUME IInv, HandleSendUdp
  PROVE  IInv'
<1>1. /\ Receive("SendUdp")
      /\ UNCHANGED <<clientVars, flowVars, arrived, allocVars>> /\ UNCHANGED connections
  BY DEF HandleSendUdp
<1>2. PICK i, q : /\ i = Head(control).id
                  /\ i \in DOMAIN udp_associations =>
                        q = Append(udp_associations[i].pending_send, Head(control).data)
  OBVIOUS
<1>3. \/ udp_associations' = udp_associations
      \/ /\ i \in DOMAIN udp_associations
         /\ udp_associations' = [udp_associations EXCEPT ![i].pending_send = q]
  BY <1>2 DEF HandleSendUdp
<1>4. /\ DOMAIN udp_associations' = DOMAIN udp_associations
      /\ \A j \in DOMAIN udp_associations :
            /\ udp_associations'[j].owner = udp_associations[j].owner
            /\ udp_associations'[j].close_requested = udp_associations[j].close_requested
  <2>1. \A j \in DOMAIN udp_associations : udp_associations[j] \in UdpAssociationState
    BY DEF IInv, Tables, Entries
  <2>2. CASE udp_associations' = udp_associations
    BY <2>2
  <2>3. CASE /\ i \in DOMAIN udp_associations
             /\ udp_associations' = [udp_associations EXCEPT ![i].pending_send = q]
    <3>1. PICK entry, new : entry = udp_associations[i] /\ new = [entry EXCEPT !.pending_send = q]
      OBVIOUS
    <3>2. new.owner = entry.owner /\ new.close_requested = entry.close_requested
      BY <2>1, <2>3, <3>1 DEF UdpAssociationState
    <3>3. udp_associations' = [udp_associations EXCEPT ![i] = new]
      BY <2>3, <3>1
    <3> QED BY <2>3, <3>1, <3>2, <3>3
  <2> QED BY <1>3, <2>2, <2>3
<1>5. Tables'
  BY SendUdpTables DEF IInv, Mail
<1>6. Causes'
  BY <1>1, <1>4, CausesKept DEF IInv, clientVars
<1> QED BY <1>1, <1>4, <1>5, <1>6, HandledKeeps

(* A Close comes from the client whose entry it names.                     *)
LEMMA HandleCloseKeeps ==
  ASSUME IInv, HandleClose
  PROVE  IInv'
<1>1. /\ Receive("Close")
      /\ UNCHANGED <<clientVars, flowVars, arrived, allocVars>> /\ UNCHANGED udp_associations
  BY DEF HandleClose
<1>2. PICK i : i = Head(control).id
  OBVIOUS
<1>3. PICK c \in TcpClients : closed[c] /\ id[c] = i
  BY <1>1, <1>2, HeadIsHonest DEF IInv, Honest, Receive
<1>4. i \in DOMAIN connections => connections[i].owner = c
  BY <1>3 DEF IInv, Causes, Clients
<1>5. \/ connections' = connections
      \/ /\ i \in DOMAIN connections
         /\ connections' = [connections EXCEPT ![i].close_requested = TRUE]
  BY <1>2 DEF HandleClose
<1>6. /\ DOMAIN connections' = DOMAIN connections
      /\ \A j \in DOMAIN connections :
            /\ connections'[j].owner = connections[j].owner
            /\ connections'[j].close_requested = connections[j].close_requested \/ j = i
  BY <1>5 DEF IInv, Tables, Entries, Connection, ConnectionState
<1>7. Tables'
  BY CloseTables DEF IInv
<1>8. Causes'
  BY <1>1, <1>3, <1>4, <1>6, CausesKept DEF IInv, clientVars
<1> QED BY <1>1, <1>6, <1>7, <1>8, HandledKeeps

LEMMA HandleCloseUdpKeeps ==
  ASSUME IInv, HandleCloseUdp
  PROVE  IInv'
<1>1. /\ Receive("CloseUdp")
      /\ UNCHANGED <<clientVars, flowVars, arrived, allocVars>> /\ UNCHANGED connections
  BY DEF HandleCloseUdp
<1>2. PICK i : i = Head(control).id
  OBVIOUS
<1>3. PICK c \in UdpClients : closed[c] /\ id[c] = i
  BY <1>1, <1>2, HeadIsHonest DEF IInv, Honest, Receive
<1>4. i \in DOMAIN udp_associations => udp_associations[i].owner = c
  BY <1>3 DEF IInv, Causes, Clients
<1>5. \/ udp_associations' = udp_associations
      \/ /\ i \in DOMAIN udp_associations
         /\ udp_associations' = [udp_associations EXCEPT ![i].close_requested = TRUE]
  BY <1>2 DEF HandleCloseUdp
<1>6. /\ DOMAIN udp_associations' = DOMAIN udp_associations
      /\ \A j \in DOMAIN udp_associations :
            /\ udp_associations'[j].owner = udp_associations[j].owner
            /\ udp_associations'[j].close_requested = udp_associations[j].close_requested \/ j = i
  BY <1>5 DEF IInv, Tables, Entries, UdpAssociationState
<1>7. Tables'
  BY CloseUdpTables DEF IInv
<1>8. Causes'
  BY <1>1, <1>3, <1>4, <1>6, CausesKept DEF IInv, clientVars
<1> QED BY <1>1, <1>6, <1>7, <1>8, HandledKeeps

(* An answer reaches the client that still waits for it, and no other.     *)
LEMMA ReplyKeeps ==
  ASSUME IInv, NEW c \in Clients, NEW answer, NEW i, Reply(c, answer, i),
         UNCHANGED <<sent, closed, listening, spoiled>>,
         next_conn_id' \in Nat, next_conn_id <= next_conn_id',
         \/ answer = "replied" /\ i \in Nat /\ i < next_conn_id'
         \/ answer = "refused" /\ i = NoId
  PROVE  /\ ClientsOK' /\ Onward
         /\ \A d \in Clients :
               /\ id'[d] = id[d] \/ (d = c /\ id'[d] = i)
               /\ phase'[d] \in HasId =>
                     \/ phase[d] \in HasId /\ id'[d] = id[d]
                     \/ d = c /\ answer = "replied" /\ id'[d] = i
<1>1. ClientsOK /\ next_conn_id \in Nat
  BY DEF IInv, Tables, Entries
<1>2. CASE phase[c] # "opening"
  <2>1. UNCHANGED <<phase, id>>
    BY <1>2 DEF Reply
  <2>2. ClientsOK'
    BY <1>1, <2>1 DEF ClientsOK
  <2> QED BY <2>1, <2>2 DEF Onward
<1>3. CASE phase[c] = "opening"
  <2>1. phase' = [phase EXCEPT ![c] = answer] /\ id' = [id EXCEPT ![c] = i]
    BY <1>3 DEF Reply
  <2>2. phase \in [Clients -> Phases] /\ id \in [Clients -> Nat \cup {NoId}] /\ ~closed[c]
    BY <1>1, <1>3 DEF ClientsOK
  <2>3. answer \in Phases /\ i \in Nat \cup {NoId}
    BY DEF Phases
  <2>4. /\ phase' \in [Clients -> Phases] /\ id' \in [Clients -> Nat \cup {NoId}]
        /\ phase'[c] = answer /\ id'[c] = i
        /\ \A d \in Clients \ {c} : phase'[d] = phase[d] /\ id'[d] = id[d]
    BY <2>1, <2>2, <2>3
  <2>5. \A d \in Clients :
          /\ phase'[d] \in HasId => id'[d] \in Nat /\ id'[d] < next_conn_id'
          /\ phase'[d] \notin HasId => id'[d] = NoId
    <3> SUFFICES ASSUME NEW d \in Clients
                 PROVE  /\ phase'[d] \in HasId => id'[d] \in Nat /\ id'[d] < next_conn_id'
                        /\ phase'[d] \notin HasId => id'[d] = NoId
      OBVIOUS
    <3>1. CASE d = c
      BY <2>4, <3>1 DEF HasId
    <3>2. CASE d # c
      BY <1>1, <2>4, <3>2 DEF ClientsOK
    <3> QED BY <3>1, <3>2
  <2>6. \A d \in Clients :
          /\ closed'[d] => phase'[d] = "open"
          /\ d \in UdpClients /\ phase'[d] \in HasId \cup {"opening"} /\ ~closed'[d] => listening'[d]
    BY <1>1, <1>3, <2>2, <2>4 DEF ClientsOK, HasId
  <2>7. ClientsOK'
    BY <1>1, <2>4, <2>5, <2>6 DEF ClientsOK
  <2>8. Onward
    BY <1>3, <2>2, <2>4 DEF Onward
  <2> QED BY <2>4, <2>7, <2>8 DEF HasId
<1> QED BY <1>2, <1>3

LEMMA HandleOpenKeeps ==
  ASSUME IInv, HandleOpen
  PROVE  IInv'
<1>1. PICK c : c = Head(control).client /\ c \in TcpClients
  BY HeadIsSound, MessageFields DEF HandleOpen, IInv, Mail
<1>2. /\ Receive("Open") /\ UNCHANGED udp_associations
      /\ UNCHANGED <<sent, closed, listening, spoiled>> /\ UNCHANGED <<flowVars, arrived>>
  BY DEF HandleOpen
<1>3. phase[c] # "idle" /\ c \in Clients /\ c \notin UdpClients
  BY <1>1, <1>2, HeadIsHonest, NetstackAssumption DEF IInv, Honest, Receive, Clients
<1>4. /\ next_conn_id \in Nat \ {0} /\ NoId \notin Nat
      /\ NewId = next_conn_id
      /\ NewId \notin DOMAIN connections /\ NewId \notin DOMAIN udp_associations
  BY NetstackAssumption DEF IInv, Tables, Entries, NewId
<1>5. Tables'
  BY OpenTables DEF IInv, Mail
<1>6. \A d \in Clients : id[d] # NewId
  BY <1>4 DEF IInv, ClientsOK
<1>7. PICK h \in Handles :
          \/ /\ connections' = With(connections, NewId, NewEntry(h, c))
             /\ next_conn_id' = next_conn_id + 1
             /\ Reply(c, "replied", NewId)
          \/ /\ Reply(c, "refused", NoId)
             /\ UNCHANGED <<connections, next_conn_id>>
  BY <1>1 DEF HandleOpen
<1>8. /\ ClientsOK' /\ Onward
      /\ \A d \in Clients :
            /\ \/ id'[d] = id[d]
               \/ d = c /\ id'[d] = NewId /\ NewId \in DOMAIN connections'
               \/ d = c /\ id'[d] = NoId
            /\ phase'[d] \in HasId => d = c \/ (phase[d] \in HasId /\ id'[d] = id[d])
  <2>1. CASE /\ connections' = With(connections, NewId, NewEntry(h, c))
             /\ next_conn_id' = next_conn_id + 1
             /\ Reply(c, "replied", NewId)
    <3>1. /\ next_conn_id' \in Nat /\ next_conn_id <= next_conn_id'
          /\ NewId \in Nat /\ NewId < next_conn_id'
      BY <1>4, <2>1
    <3>2. NewId \in DOMAIN connections'
      BY <2>1 DEF With
    <3>3. /\ ClientsOK' /\ Onward
          /\ \A d \in Clients :
               /\ id'[d] = id[d] \/ (d = c /\ id'[d] = NewId)
               /\ phase'[d] \in HasId =>
                     \/ phase[d] \in HasId /\ id'[d] = id[d]
                     \/ d = c /\ "replied" = "replied" /\ id'[d] = NewId
      BY <1>2, <1>3, <2>1, <3>1, ReplyKeeps
    <3> QED BY <3>2, <3>3
  <2>2. CASE Reply(c, "refused", NoId) /\ UNCHANGED <<connections, next_conn_id>>
    <3>1. next_conn_id' \in Nat /\ next_conn_id <= next_conn_id'
      BY <1>4, <2>2
    <3>2. /\ ClientsOK' /\ Onward
          /\ \A d \in Clients :
               /\ id'[d] = id[d] \/ (d = c /\ id'[d] = NoId)
               /\ phase'[d] \in HasId =>
                     \/ phase[d] \in HasId /\ id'[d] = id[d]
                     \/ d = c /\ "refused" = "replied" /\ id'[d] = NoId
      BY <1>2, <1>3, <2>2, <3>1, ReplyKeeps
    <3> QED BY <3>2
  <2> QED BY <1>7, <2>1, <2>2
<1>9. /\ DOMAIN connections \subseteq DOMAIN connections'
      /\ \A i \in DOMAIN connections : connections'[i] = connections[i]
      /\ \A i \in DOMAIN connections' : i \notin DOMAIN connections =>
            i = NewId /\ connections'[i].owner = c /\ ~connections'[i].close_requested
  <2>1. CASE connections' = connections
    BY <2>1
  <2>2. CASE connections' = With(connections, NewId, NewEntry(h, c))
    <3>1. NewEntry(h, c).owner = c /\ NewEntry(h, c).close_requested = FALSE
      BY <1>1, NewConnection
    <3>2. /\ DOMAIN connections' = DOMAIN connections \cup {NewId}
          /\ connections'[NewId] = NewEntry(h, c)
          /\ \A i \in DOMAIN connections : connections'[i] = connections[i]
      BY <1>4, <2>2 DEF With
    <3> QED BY <3>1, <3>2
  <2> QED BY <1>7, <2>1, <2>2
<1>10. Causes'
  <2>1. \A i \in DOMAIN connections' :
          /\ phase'[connections'[i].owner] # "idle"
          /\ connections'[i].close_requested =>
                closed'[connections'[i].owner] \/ ~listening'[connections'[i].owner]
    <3>1. \A d \in TcpClients : d \in Clients
      BY DEF Clients
    <3> QED BY <1>2, <1>3, <1>8, <1>9, <3>1, OwnersAre DEF IInv, Causes, Onward
  <2>2. \A i \in DOMAIN udp_associations' :
          /\ phase'[udp_associations'[i].owner] # "idle"
          /\ udp_associations'[i].close_requested => closed'[udp_associations'[i].owner]
    <3>1. \A d \in UdpClients : d \in Clients
      BY DEF Clients
    <3> QED BY <1>2, <1>8, <3>1, OwnersAre DEF IInv, Causes, Onward
  <2>3. \A d \in Clients : id'[d] \in DOMAIN connections' => connections'[id'[d]].owner = d
    <3> SUFFICES ASSUME NEW d \in Clients, id'[d] \in DOMAIN connections'
                 PROVE  connections'[id'[d]].owner = d
      OBVIOUS
    <3>1. CASE id'[d] = id[d]
      BY <1>6, <1>9, <3>1 DEF IInv, Causes
    <3>2. CASE d = c /\ id'[d] = NewId
      BY <1>4, <1>9, <3>2
    <3>3. id'[d] # NoId
      BY <1>4, <1>5, OwnersAre DEF Tables, Entries
    <3> QED BY <1>8, <3>1, <3>2, <3>3
  <2>4. \A d \in Clients :
           id'[d] \in DOMAIN udp_associations' => udp_associations'[id'[d]].owner = d
    <3> SUFFICES ASSUME NEW d \in Clients, id'[d] \in DOMAIN udp_associations
                 PROVE  udp_associations[id'[d]].owner = d
      BY <1>2
    <3>1. id'[d] # NewId /\ id'[d] # NoId
      BY <1>4, OwnersAre DEF IInv
    <3> QED BY <1>8, <3>1 DEF IInv, Causes
  <2>5. \A d \in UdpClients :
          phase'[d] \in HasId /\ ~closed'[d] /\ d \notin spoiled' => id'[d] \in DOMAIN udp_associations'
    <3>1. \A d \in UdpClients : d \in Clients /\ d # c
      BY <1>3 DEF Clients
    <3> QED BY <1>2, <1>8, <3>1 DEF IInv, Causes
  <2> QED BY <2>1, <2>2, <2>3, <2>4, <2>5 DEF Causes
<1>11. Mail'
  BY <1>2, <1>8, MailReceived DEF IInv
<1>12. LoopOK'
  BY <1>2, <1>9, ReceivedLoop DEF IInv, LoopOK, Live
<1> QED BY <1>5, <1>8, <1>10, <1>11, <1>12 DEF IInv

LEMMA HandleOpenUdpKeeps ==
  ASSUME IInv, HandleOpenUdp
  PROVE  IInv'
<1>1. PICK c : c = Head(control).client /\ c \in UdpClients
  BY HeadIsSound, MessageFields DEF HandleOpenUdp, IInv, Mail
<1>2. /\ Receive("OpenUdp") /\ UNCHANGED connections
      /\ UNCHANGED <<sent, closed, listening, spoiled>> /\ UNCHANGED <<flowVars, arrived>>
  BY DEF HandleOpenUdp
<1>3. phase[c] # "idle" /\ c \in Clients
  BY <1>1, <1>2, HeadIsHonest DEF IInv, Honest, Receive, Clients
<1>4. /\ next_conn_id \in Nat \ {0} /\ NoId \notin Nat
      /\ NewId = next_conn_id
      /\ NewId \notin DOMAIN connections /\ NewId \notin DOMAIN udp_associations
  BY NetstackAssumption DEF IInv, Tables, Entries, NewId
<1>5. Tables'
  BY OpenUdpTables DEF IInv, Mail
<1>6. \A d \in Clients : id[d] # NewId
  BY <1>4 DEF IInv, ClientsOK
<1>7. PICK h \in Handles :
          /\ udp_associations' = With(udp_associations, NewId, NewEntry(h, c))
          /\ next_conn_id' = next_conn_id + 1
          /\ Reply(c, "replied", NewId)
  BY <1>1 DEF HandleOpenUdp
<1>8. /\ ClientsOK' /\ Onward
      /\ \A d \in Clients :
            /\ id'[d] = id[d] \/ (d = c /\ id'[d] = NewId)
            /\ phase'[d] \in HasId =>
                  \/ phase[d] \in HasId /\ id'[d] = id[d]
                  \/ d = c /\ id'[d] = NewId
  <2>1. /\ next_conn_id' \in Nat /\ next_conn_id <= next_conn_id'
        /\ NewId \in Nat /\ NewId < next_conn_id'
    BY <1>4, <1>7
  <2>2. /\ ClientsOK' /\ Onward
        /\ \A d \in Clients :
             /\ id'[d] = id[d] \/ (d = c /\ id'[d] = NewId)
             /\ phase'[d] \in HasId =>
                   \/ phase[d] \in HasId /\ id'[d] = id[d]
                   \/ d = c /\ "replied" = "replied" /\ id'[d] = NewId
    BY <1>2, <1>3, <1>7, <2>1, ReplyKeeps
  <2> QED BY <2>2
<1>9. /\ DOMAIN udp_associations' = DOMAIN udp_associations \cup {NewId}
      /\ \A i \in DOMAIN udp_associations : udp_associations'[i] = udp_associations[i]
      /\ udp_associations'[NewId].owner = c /\ ~udp_associations'[NewId].close_requested
  <2>1. NewEntry(h, c).owner = c /\ NewEntry(h, c).close_requested = FALSE
    BY <1>1, NewAssociation
  <2>2. /\ DOMAIN udp_associations' = DOMAIN udp_associations \cup {NewId}
        /\ udp_associations'[NewId] = NewEntry(h, c)
        /\ \A i \in DOMAIN udp_associations : udp_associations'[i] = udp_associations[i]
    BY <1>4, <1>7 DEF With
  <2> QED BY <2>1, <2>2
<1>10. Causes'
  <2>1. \A i \in DOMAIN connections' :
          /\ phase'[connections'[i].owner] # "idle"
          /\ connections'[i].close_requested =>
                closed'[connections'[i].owner] \/ ~listening'[connections'[i].owner]
    <3>1. \A d \in TcpClients : d \in Clients
      BY DEF Clients
    <3> QED BY <1>2, <1>8, <3>1, OwnersAre DEF IInv, Causes, Onward
  <2>2. \A i \in DOMAIN udp_associations' :
          /\ phase'[udp_associations'[i].owner] # "idle"
          /\ udp_associations'[i].close_requested => closed'[udp_associations'[i].owner]
    <3>1. \A d \in UdpClients : d \in Clients
      BY DEF Clients
    <3> QED BY <1>2, <1>3, <1>8, <1>9, <3>1, OwnersAre DEF IInv, Causes, Onward
  <2>3. \A d \in Clients : id'[d] \in DOMAIN connections' => connections'[id'[d]].owner = d
    BY <1>2, <1>4, <1>8 DEF IInv, Causes
  <2>4. \A d \in Clients :
           id'[d] \in DOMAIN udp_associations' => udp_associations'[id'[d]].owner = d
    BY <1>6, <1>8, <1>9 DEF IInv, Causes
  <2>5. \A d \in UdpClients :
          phase'[d] \in HasId /\ ~closed'[d] /\ d \notin spoiled' => id'[d] \in DOMAIN udp_associations'
    <3>1. \A d \in UdpClients : d \in Clients
      BY DEF Clients
    <3> QED BY <1>2, <1>8, <1>9, <3>1 DEF IInv, Causes
  <2> QED BY <2>1, <2>2, <2>3, <2>4, <2>5 DEF Causes
<1>11. Mail'
  BY <1>2, <1>8, MailReceived DEF IInv
<1>12. LoopOK'
  BY <1>2, <1>9, ReceivedLoop DEF IInv, LoopOK, Live
<1> QED BY <1>5, <1>8, <1>10, <1>11, <1>12 DEF IInv

(* The four steps of drive_connections and drive_udp_associations.         *)
LEMMA DrivenKeeps ==
  ASSUME IInv, UNCHANGED <<control, phase, id, sent, closed, listening, next_conn_id>>,
         spoiled' \subseteq UdpClients, Tables', Causes', LoopOK'
  PROVE  IInv'
<1>1. Onward
  BY DEF Onward
<1>2. Mail'
  BY <1>1, MailStays DEF IInv
<1> QED BY <1>2, LoopKeeps

LEMMA PumpKeeps ==
  ASSUME IInv, NEW i, PumpPendingSend(i)
  PROVE  IInv'
<1>1. /\ UNCHANGED <<control, phase, id, sent, closed, listening, spoiled, next_conn_id>>
      /\ UNCHANGED <<flowVars, loopVars>> /\ UNCHANGED udp_associations
      /\ i \in DOMAIN connections
  BY DEF PumpPendingSend, clientVars, allocVars
<1>2. \E q : connections' = [connections EXCEPT ![i].pending_send = q]
  BY DEF PumpPendingSend
<1>3. PICK q : connections' = [connections EXCEPT ![i].pending_send = q]
  BY <1>2
<1>4. PICK entry, new : entry = connections[i] /\ new = [entry EXCEPT !.pending_send = q]
  OBVIOUS
<1>5. new.owner = entry.owner /\ new.close_requested = entry.close_requested
  BY <1>1, <1>4, SocketOf DEF IInv, Connection, ConnectionState
<1>6. connections' = [connections EXCEPT ![i] = new]
  BY <1>1, <1>3, <1>4
<1>7. Tables'
  BY PumpTables DEF IInv
<1>8. Causes'
  BY <1>1, <1>4, <1>5, <1>6, CausesKept DEF IInv
<1>9. LoopOK'
  BY <1>1, <1>6 DEF IInv, LoopOK, Live, flowVars, loopVars
<1>10. spoiled' \subseteq UdpClients
  BY <1>1 DEF IInv, ClientsOK
<1> QED BY <1>1, <1>7, <1>8, <1>9, <1>10, DrivenKeeps

LEMMA PumpUdpKeeps ==
  ASSUME IInv, NEW i \in todo, PumpPendingUdpSend(i)
  PROVE  IInv'
<1>1. /\ UNCHANGED <<control, phase, id, sent, closed, listening, spoiled, next_conn_id>>
      /\ UNCHANGED <<flowVars, loopVars>> /\ UNCHANGED connections
      /\ todo \cap DOMAIN connections = {}
  BY DEF PumpPendingUdpSend, DrivesUdp, clientVars, allocVars
<1>2. i \in Live /\ i \in DOMAIN udp_associations
  BY <1>1 DEF IInv, LoopOK, Live
<1>3. PICK entry, new : /\ entry = udp_associations[i]
                        /\ new = [entry EXCEPT !.pending_send = Tail(@)]
  OBVIOUS
<1>4. new.owner = entry.owner /\ new.close_requested = entry.close_requested
  BY <1>2, <1>3, SocketOfUdp DEF IInv, UdpAssociationState
<1>5. udp_associations' = [udp_associations EXCEPT ![i] = new]
  BY <1>2, <1>3 DEF PumpPendingUdpSend
<1>6. Tables'
  BY <1>1, <1>2, PumpUdpTables DEF IInv
<1>7. Causes'
  BY <1>1, <1>3, <1>4, <1>5, CausesKept DEF IInv
<1>8. LoopOK'
  BY <1>1, <1>5 DEF IInv, LoopOK, Live, flowVars, loopVars
<1>9. spoiled' \subseteq UdpClients
  BY <1>1 DEF IInv, ClientsOK
<1> QED BY <1>1, <1>6, <1>7, <1>8, <1>9, DrivenKeeps

LEMMA ReadsKeep ==
  ASSUME LoopOK, NEW entry, entry.owner \in Clients, NEW s, s.rx \in Nat, PumpUplinkReads(entry, s)
  PROVE  delivered' \in [Clients -> Nat]
<1>1. PICK c \in Clients, n \in Nat : c = entry.owner /\ n = s.rx
  OBVIOUS
<1>2. delivered' = [delivered EXCEPT ![c] = @ + n] \/ delivered' = delivered
  BY <1>1 DEF PumpUplinkReads
<1>3. delivered \in [Clients -> Nat]
  BY DEF LoopOK
<1> QED BY <1>2, <1>3

LEMMA FinishKeeps ==
  ASSUME IInv, NEW i, FinishConnection(i)
  PROVE  IInv'
<1>1. /\ UNCHANGED <<control, phase, id, sent, closed, listening, spoiled, next_conn_id>>
      /\ UNCHANGED <<got, pc, handled, arrived>> /\ UNCHANGED udp_associations
      /\ i \in DOMAIN connections /\ todo' = todo \ {i}
  BY DEF FinishConnection, clientVars, allocVars
<1>2. PICK entry, h, s : entry = connections[i] /\ h = entry.handle /\ s = sockets[h]
  OBVIOUS
<1>3. entry \in Connection /\ s \in TcpSocket
  BY <1>1, <1>2, SocketOf DEF IInv
<1>4. \/ connections' = Without(connections, i)
      \/ connections' = [connections EXCEPT ![i].close_requested = WantsClose(entry, s)]
  BY <1>2 DEF FinishConnection
<1>5. /\ DOMAIN connections \ {i} \subseteq DOMAIN connections'
      /\ DOMAIN connections' \subseteq DOMAIN connections
      /\ \A j \in DOMAIN connections' :
            /\ connections'[j].owner = connections[j].owner
            /\ connections'[j].close_requested =>
                  \/ connections[j].close_requested
                  \/ closed[connections[j].owner] \/ ~listening[connections[j].owner]
  <2>1. CASE connections' = Without(connections, i)
    BY <2>1 DEF Without
  <2>2. CASE connections' = [connections EXCEPT ![i].close_requested = WantsClose(entry, s)]
    <3>1. PICK b, new : /\ b = WantsClose(entry, s)
                        /\ new = [entry EXCEPT !.close_requested = b]
      OBVIOUS
    <3>2. new.owner = entry.owner /\ new.close_requested = b
      BY <1>3, <3>1 DEF Connection, ConnectionState
    <3>3. b => entry.close_requested \/ ~listening[entry.owner]
      BY <3>1 DEF WantsClose, UplinkFails
    <3>4. connections' = [connections EXCEPT ![i] = new]
      BY <1>1, <1>2, <2>2, <3>1
    <3> QED BY <1>1, <1>2, <3>2, <3>3, <3>4
  <2> QED BY <1>4, <2>1, <2>2
<1>6. Tables'
  BY FinishTables DEF IInv, ClientsOK
<1>7. Causes'
  BY <1>1, <1>5, CausesKept DEF IInv
<1>8. LoopOK'
  <2>1. entry.owner \in Clients /\ s.rx \in Nat
    BY <1>3 DEF Connection, ConnectionState, TcpSocket, Clients
  <2>2. PumpUplinkReads(entry, s)
    BY <1>2 DEF FinishConnection
  <2>3. delivered' \in [Clients -> Nat]
    BY <2>1, <2>2, ReadsKeep DEF IInv
  <2>4. todo' \subseteq Live'
    BY <1>1, <1>5 DEF IInv, LoopOK, Live
  <2> QED BY <1>1, <2>3, <2>4 DEF IInv, LoopOK
<1>9. spoiled' \subseteq UdpClients
  BY <1>1 DEF IInv, ClientsOK
<1> QED BY <1>1, <1>6, <1>7, <1>8, <1>9, DrivenKeeps

(* An association goes away when a datagram of its owner was refused, or   *)
(* its owner closed it: a client that still listens has not dropped it.    *)
LEMMA FinishUdpKeeps ==
  ASSUME IInv, NEW i \in todo, FinishAssociation(i)
  PROVE  IInv'
<1>1. /\ UNCHANGED <<control, phase, id, sent, closed, listening, next_conn_id>>
      /\ UNCHANGED <<got, pc, handled, arrived>> /\ UNCHANGED connections
      /\ todo \cap DOMAIN connections = {} /\ todo' = todo \ {i}
  BY DEF FinishAssociation, DrivesUdp, allocVars
<1>2. i \in Live /\ i \in DOMAIN udp_associations
  BY <1>1 DEF IInv, LoopOK, Live
<1>3. PICK entry, h, s : entry = udp_associations[i] /\ h = entry.handle /\ s = sockets[h]
  OBVIOUS
<1>4. /\ entry \in UdpAssociationState /\ s \in UdpSocket
      /\ entry.owner \in UdpClients /\ entry.owner \in Clients /\ s.rx \in Nat
  BY <1>2, <1>3, SocketOfUdp DEF IInv, UdpAssociationState, UdpSocket, Clients
<1>5. PICK refused \in BOOLEAN :
          /\ spoiled' = IF refused THEN spoiled \cup {entry.owner} ELSE spoiled
          /\ PumpUplinkReads(entry, s)
          /\ IF refused \/ WantsClose(entry, s)
             THEN udp_associations' = Without(udp_associations, i)
             ELSE udp_associations' = udp_associations
  BY <1>3 DEF FinishAssociation, Abandons
<1>6. spoiled \subseteq spoiled' /\ spoiled' \subseteq UdpClients
  BY <1>4, <1>5 DEF IInv, ClientsOK
<1>7. /\ DOMAIN udp_associations \ {i} \subseteq DOMAIN udp_associations'
      /\ DOMAIN udp_associations' \subseteq DOMAIN udp_associations
      /\ \A j \in DOMAIN udp_associations' : udp_associations'[j] = udp_associations[j]
  <2>1. CASE udp_associations' = Without(udp_associations, i)
    BY <2>1 DEF Without
  <2>2. CASE udp_associations' = udp_associations
    BY <2>2
  <2> QED BY <1>5, <2>1, <2>2
<1>8. \A c \in UdpClients :
          phase[c] \in HasId /\ ~closed[c] /\ c \notin spoiled' /\ id[c] \in DOMAIN udp_associations
             => id[c] \in DOMAIN udp_associations'
  <2> SUFFICES ASSUME NEW c \in UdpClients, phase[c] \in HasId, ~closed[c], c \notin spoiled',
                      id[c] = i
               PROVE  udp_associations' = udp_associations
    BY <1>7
  <2>1. c = entry.owner /\ c \in Clients
    BY <1>2, <1>3 DEF IInv, Causes, Clients
  <2>2. ~refused
    BY <1>5, <2>1
  <2>3. listening[c]
    BY <2>1 DEF IInv, ClientsOK
  <2>4. ~entry.close_requested
    BY <1>2, <1>3, <2>1 DEF IInv, Causes
  <2>5. ~WantsClose(entry, s)
    BY <2>1, <2>3, <2>4 DEF WantsClose, UplinkFails
  <2> QED BY <1>5, <2>2, <2>5
<1>9. Tables'
  BY <1>1, <1>2, FinishUdpTables DEF IInv
<1>10. Causes'
  BY <1>1, <1>6, <1>7, <1>8, CausesKept DEF IInv
<1>11. LoopOK'
  <2>1. delivered' \in [Clients -> Nat]
    BY <1>4, <1>5, ReadsKeep DEF IInv
  <2>2. todo' \subseteq Live'
    BY <1>1, <1>7 DEF IInv, LoopOK, Live
  <2> QED BY <1>1, <2>1, <2>2 DEF IInv, LoopOK
<1> QED BY <1>1, <1>6, <1>9, <1>10, <1>11, DrivenKeeps
-----------------------------------------------------------------------------
LEMMA InitIInv == Init => IInv
<1> SUFFICES ASSUME Init PROVE IInv
  OBVIOUS
<1>1. DOMAIN connections = {} /\ DOMAIN udp_associations = {} /\ DOMAIN sockets = {}
  BY DEF Init
<1>2. Entries
  BY <1>1 DEF Init, Entries
<1>3. Owned
  <2>1. sockets \in [DOMAIN sockets -> TcpSocket \cup UdpSocket]
    BY <1>1 DEF Init
  <2> QED BY <1>1, <2>1 DEF Owned
<1>4. Ports
  BY <1>1, NetstackAssumption DEF Init, Ports, PortsAreNotReusedEarly
<1>5. ClientsOK
  BY NetstackAssumption DEF Init, ClientsOK, Phases, HasId
<1>6. Mail
  BY DEF Init, Mail, Sound
<1>7. Causes
  BY <1>1, NetstackAssumption DEF Init, Causes, HasId, Clients
<1>8. LoopOK
  <2>1. handled \in 0 .. MAX_CONTROL_BATCH
    BY NetstackAssumption DEF Init
  <2> QED BY <2>1 DEF Init, LoopOK
<1> QED BY <1>2, <1>3, <1>4, <1>5, <1>6, <1>7, <1>8 DEF IInv, Tables

LEMMA NextIInv == IInv /\ [Next]_vars => IInv'
<1> SUFFICES ASSUME IInv, [Next]_vars PROVE IInv'
  OBVIOUS
<1>1. CASE UNCHANGED vars
  <2>1. /\ UNCHANGED <<control, clientVars, connections, udp_associations, allocVars>>
        /\ UNCHANGED <<sockets, flowVars, loopVars>>
    BY <1>1 DEF vars, tableVars
  <2>2. Tables'
    BY <2>1, NoChangeKeeps DEF IInv, allocVars
  <2>3. LoopOK'
    BY <2>1 DEF IInv, LoopOK, Live, flowVars, loopVars
  <2> QED BY <2>1, <2>2, <2>3, QuietKeeps
<1>2. ASSUME NEW c \in Clients, ClientStep(c) PROVE IInv'
  BY <1>2, RequestOpenKeeps, OpenReturnsKeeps, OpenTimesOutKeeps, ClientSendKeeps,
     ClientCloseKeeps, DropReceiverKeeps DEF ClientStep
<1>3. CASE ForwardTunnelPacket
  BY <1>3, ForwardKeeps
<1>4. CASE HandleMessage
  BY <1>4, HandleTunnelPacketKeeps, HandleOpenKeeps, HandleOpenUdpKeeps, HandleSendKeeps,
     HandleSendUdpKeeps, HandleCloseKeeps, HandleCloseUdpKeeps DEF HandleMessage
<1>5. CASE WaitTimesOut \/ BatchEnds \/ DriveEnds
  BY <1>5, WaitTimesOutKeeps
<1>6. CASE PollEnds
  BY <1>6, PollEndsKeeps
<1>7. ASSUME NEW i \in todo, Drive(i) PROVE IInv'
  BY <1>7, PumpKeeps, FinishKeeps, PumpUdpKeeps, FinishUdpKeeps DEF Drive
<1>8. ASSUME NEW i, PeerStep(i) PROVE IInv'
  BY <1>8, PeerKeeps
<1> QED BY <1>1, <1>2, <1>3, <1>4, <1>5, <1>6, <1>7, <1>8 DEF Next, LoopStep

LEMMA IInvHolds == Spec => []IInv
BY InitIInv, NextIInv, PTL DEF Spec

LEMMA IInvTyped == IInv => TypeOK
<1> SUFFICES ASSUME IInv PROVE TypeOK
  OBVIOUS
<1>1. control \in Seq(Messages)
  <2>1. control \in Seq(SoundMessage)
    BY DEF IInv, Mail, Sound
  <2>2. Len(control) \in Nat /\ control \in [1 .. Len(control) -> SoundMessage]
    BY <2>1, LenProperties
  <2>3. control \in [1 .. Len(control) -> Messages]
    BY <2>2 DEF SoundMessage
  <2> QED BY <2>2, <2>3, SeqDef
<1>2. connections \in [DOMAIN connections -> ConnectionState]
  BY DEF IInv, Tables, Entries, Connection
<1>3. DOMAIN connections \cup DOMAIN udp_associations \subseteq 1 .. next_conn_id - 1
  BY DEF IInv, Tables, Entries
<1>4. DOMAIN sockets \subseteq Handles
  BY DEF IInv, Tables, Entries, Owned, Connection, ConnectionState, UdpAssociationState
<1>5. /\ udp_associations \in [DOMAIN udp_associations -> UdpAssociationState]
      /\ sockets \in [DOMAIN sockets -> TcpSocket \cup UdpSocket]
      /\ next_conn_id \in Nat \ {0} /\ next_local_port \in FirstPort .. LastPort
      /\ allocations \in Nat
  BY DEF IInv, Tables, Entries, Owned, Ports
<1>6. todo \subseteq DOMAIN connections \cup DOMAIN udp_associations
  BY DEF IInv, LoopOK, Live
<1> QED BY <1>1, <1>2, <1>3, <1>4, <1>5, <1>6 DEF IInv, ClientsOK, LoopOK, TypeOK

(* Every variable stays in its type; in particular the ids of both tables  *)
(* lie below next_conn_id, so an insert (open_connection,                  *)
(* open_udp_association_inner 459-472) never replaces a live entry.        *)
THEOREM TypeCorrect == Spec => []TypeOK
BY IInvHolds, IInvTyped, PTL

(* No socket leaks, no two entries share one, and no entry uses a handle   *)
(* that was removed (393-437, 475-496), whatever the clients and the       *)
(* network do.                                                             *)
THEOREM SocketsAreOwned == Spec => []SocketsBelongToEntries
<1>1. IInv => SocketsBelongToEntries
  <2> SUFFICES ASSUME IInv PROVE SocketsBelongToEntries
    OBVIOUS
  <2>1. /\ \A i \in DOMAIN connections : Handle(i) = connections[i].handle
        /\ \A i \in DOMAIN udp_associations : Handle(i) = udp_associations[i].handle
        /\ DOMAIN connections \cap DOMAIN udp_associations = {}
    BY DEF Handle, IInv, Tables, Entries
  <2>2. \A i, j \in Live : i # j => Handle(i) # Handle(j)
    BY <2>1 DEF Live, IInv, Tables, Owned
  <2>3. DOMAIN sockets = {Handle(i) : i \in Live}
    <3>1. \A h \in DOMAIN sockets : \E i \in Live : Handle(i) = h
      BY <2>1 DEF Live, IInv, Tables, Owned
    <3>2. \A i \in Live : Handle(i) \in DOMAIN sockets
      BY <2>1 DEF Live, IInv, Tables, Owned
    <3> QED BY <3>1, <3>2
  <2>4. \A i \in DOMAIN connections : sockets[Handle(i)] \in TcpSocket
    BY <2>1 DEF IInv, Tables, Owned
  <2>5. \A i \in DOMAIN udp_associations : sockets[Handle(i)] \in UdpSocket
    BY <2>1 DEF IInv, Tables, Owned
  <2> QED BY <2>1, <2>2, <2>3, <2>4, <2>5 DEF SocketsBelongToEntries
<1> QED BY <1>1, IInvHolds, PTL

(* Two live sockets share a local port only when alloc_local_port          *)
(* (606-610) has gone once round the whole range in between.               *)
THEOREM PortsStayDistinct == Spec => []PortsAreNotReusedEarly
<1>1. IInv => PortsAreNotReusedEarly
  BY DEF IInv, Tables, Ports
<1> QED BY <1>1, IInvHolds, PTL

(* An id names its own client's entry or none; an entry is asked to close  *)
(* by its owner, or because its owner listens no more; and an association  *)
(* goes away under an open client only for a refused datagram (349-368,    *)
(* 475-496, 530-532).                                                      *)
THEOREM ClosesAreCaused == Spec => []CloseHasACause
<1>1. IInv => CloseHasACause
  <2> SUFFICES ASSUME IInv PROVE CloseHasACause
    OBVIOUS
  <2>1. \A c \in Clients : id[c] \in Live =>
           c = IF id[c] \in DOMAIN connections THEN connections[id[c]].owner
               ELSE udp_associations[id[c]].owner
    BY DEF IInv, Causes, Live
  <2>2. \A i \in DOMAIN udp_associations :
           udp_associations[i].close_requested \in BOOLEAN
    BY DEF IInv, Tables, Entries, UdpAssociationState
  <2>3. \A i \in DOMAIN udp_associations : ~udp_associations[i].close_requested
                                           \/ closed[udp_associations[i].owner]
    BY <2>2 DEF IInv, Causes
  <2>4. \A c \in UdpClients : phase[c] = "open" /\ id[c] \notin DOMAIN udp_associations =>
           closed[c] \/ c \in spoiled
    BY DEF IInv, Causes, HasId
  <2> QED BY <2>1, <2>3, <2>4 DEF IInv, Causes, CloseHasACause
<1> QED BY <1>1, IInvHolds, PTL

-----------------------------------------------------------------------------
(* What the loop has done for an entry before it sleeps.                   *)
Served(entry, s) ==
    /\ entry.pending_send = <<>> \/ ~CanSend(s)
    /\ IsOpen(s.state)
    /\ s.rx > 0 => entry.close_requested
    /\ entry.close_requested => ~MaySend(s)

ServedUdp(entry, s) ==
    /\ entry.pending_send = <<>> \/ ~(s.tx < TxCapacity)
    /\ s.rx = 0
    /\ ~entry.close_requested

Driven ==
    /\ pc = "wait" => todo = {}
    /\ pc \in {"wait", "drive"} =>
          /\ \A i \in DOMAIN connections :
                i \notin todo => Served(connections[i], sockets[connections[i].handle])
          /\ \A i \in DOMAIN udp_associations :
                i \notin todo => ServedUdp(udp_associations[i], sockets[udp_associations[i].handle])

(* A step that leaves alone every entry but that of i, and their sockets.  *)
Only(i) ==
    /\ \A j \in DOMAIN connections : j # i => j \in DOMAIN connections'
    /\ \A j \in DOMAIN udp_associations : j # i => j \in DOMAIN udp_associations'
    /\ \A j \in DOMAIN connections' : j # i =>
          /\ j \in DOMAIN connections /\ connections'[j] = connections[j]
          /\ sockets'[connections[j].handle] = sockets[connections[j].handle]
    /\ \A j \in DOMAIN udp_associations' : j # i =>
          /\ j \in DOMAIN udp_associations /\ udp_associations'[j] = udp_associations[j]
          /\ sockets'[udp_associations[j].handle] = sockets[udp_associations[j].handle]

(* The socket of i changes, and perhaps its entry.                         *)
LEMMA OnlyConnection ==
  ASSUME Tables, NEW i \in DOMAIN connections,
         \A g \in DOMAIN sockets : g # connections[i].handle => sockets'[g] = sockets[g],
         \A j \in DOMAIN connections : j # i => j \in DOMAIN connections',
         \A j \in DOMAIN connections' :
            j # i => j \in DOMAIN connections /\ connections'[j] = connections[j],
         UNCHANGED udp_associations
  PROVE  Only(i)
<1>1. \A j \in DOMAIN connections : j # i =>
         sockets'[connections[j].handle] = sockets[connections[j].handle]
  BY DEF Tables, Owned
<1>2. \A j \in DOMAIN udp_associations :
         sockets'[udp_associations[j].handle] = sockets[udp_associations[j].handle]
  BY DEF Tables, Owned
<1> QED BY <1>1, <1>2 DEF Only

LEMMA OnlyAssociation ==
  ASSUME Tables, NEW i \in DOMAIN udp_associations,
         \A g \in DOMAIN sockets : g # udp_associations[i].handle => sockets'[g] = sockets[g],
         \A j \in DOMAIN udp_associations : j # i => j \in DOMAIN udp_associations',
         \A j \in DOMAIN udp_associations' :
            j # i => j \in DOMAIN udp_associations /\ udp_associations'[j] = udp_associations[j],
         UNCHANGED connections
  PROVE  Only(i)
<1>1. \A j \in DOMAIN udp_associations : j # i =>
         sockets'[udp_associations[j].handle] = sockets[udp_associations[j].handle]
  BY DEF Tables, Owned
<1>2. \A j \in DOMAIN connections :
         sockets'[connections[j].handle] = sockets[connections[j].handle]
  BY DEF Tables, Owned
<1> QED BY <1>1, <1>2 DEF Only

(* What each step that serves one entry does.                              *)
LEMMA TcpStepDoes ==
  ASSUME Tables, NEW i, NEW from, NEW to, TcpStep(i, from, to)
  PROVE  /\ i \in DOMAIN connections /\ Only(i)
         /\ connections' = connections /\ udp_associations' = udp_associations
         /\ sockets'[connections[i].handle].rx = sockets[connections[i].handle].rx
         /\ sockets'[connections[i].handle].taken = sockets[connections[i].handle].taken
<1>1. PICK h : h = connections[i].handle
  OBVIOUS
<1>2. /\ i \in DOMAIN connections /\ sockets' = [sockets EXCEPT ![h].state = to]
      /\ connections' = connections /\ udp_associations' = udp_associations
  BY <1>1 DEF TcpStep, Polled
<1>3. h \in DOMAIN sockets /\ sockets[h] \in TcpSocket
  BY <1>1, <1>2, SocketOf
<1>4. sockets'[h].rx = sockets[h].rx /\ sockets'[h].taken = sockets[h].taken
  BY <1>2, <1>3 DEF TcpSocket
<1>5. Only(i)
  BY <1>1, <1>2, OnlyConnection
<1> QED BY <1>1, <1>2, <1>4, <1>5

LEMMA AcksDo ==
  ASSUME Tables, NEW i, PeerAcks(i)
  PROVE  /\ i \in DOMAIN connections /\ Only(i)
         /\ connections' = connections /\ udp_associations' = udp_associations
         /\ sockets'[connections[i].handle].rx = sockets[connections[i].handle].rx
         /\ sockets'[connections[i].handle].taken = sockets[connections[i].handle].taken
<1>1. PICK h : h = connections[i].handle
  OBVIOUS
<1>2. /\ i \in DOMAIN connections
      /\ connections' = connections /\ udp_associations' = udp_associations
  BY DEF PeerAcks, Polled
<1>3. PICK n : sockets' = [sockets EXCEPT ![h].tx = n]
  BY <1>1 DEF PeerAcks
<1>4. h \in DOMAIN sockets /\ sockets[h] \in TcpSocket
  BY <1>1, <1>2, SocketOf
<1>5. sockets'[h].rx = sockets[h].rx /\ sockets'[h].taken = sockets[h].taken
  BY <1>3, <1>4 DEF TcpSocket
<1>6. Only(i)
  BY <1>1, <1>2, <1>3, OnlyConnection
<1> QED BY <1>1, <1>2, <1>5, <1>6

LEMMA PeerSendsDoes ==
  ASSUME Tables, NEW i, PeerSends(i)
  PROVE  /\ i \in DOMAIN connections /\ Only(i)
         /\ connections' = connections /\ udp_associations' = udp_associations
         /\ got' = [got EXCEPT ![connections[i].owner] = @ + 1]
         /\ sockets'[connections[i].handle].rx = sockets[connections[i].handle].rx + 1
         /\ sockets'[connections[i].handle].taken = sockets[connections[i].handle].taken
<1>1. PICK h : h = connections[i].handle
  OBVIOUS
<1>2. /\ i \in DOMAIN connections /\ sockets' = [sockets EXCEPT ![h].rx = @ + 1]
      /\ connections' = connections /\ udp_associations' = udp_associations
      /\ got' = [got EXCEPT ![connections[i].owner] = @ + 1]
  BY <1>1 DEF PeerSends, Polled
<1>3. h \in DOMAIN sockets /\ sockets[h] \in TcpSocket
  BY <1>1, <1>2, SocketOf
<1>4. sockets'[h].rx = sockets[h].rx + 1 /\ sockets'[h].taken = sockets[h].taken
  BY <1>2, <1>3 DEF TcpSocket
<1>5. Only(i)
  BY <1>1, <1>2, OnlyConnection
<1> QED BY <1>1, <1>2, <1>4, <1>5

LEMMA PeerSendsUdpDoes ==
  ASSUME Tables, NEW i, PeerSendsUdp(i)
  PROVE  /\ i \in DOMAIN udp_associations /\ Only(i)
         /\ connections' = connections /\ udp_associations' = udp_associations
         /\ got' = [got EXCEPT ![udp_associations[i].owner] = @ + 1]
         /\ sockets'[udp_associations[i].handle].rx = sockets[udp_associations[i].handle].rx + 1
<1>1. PICK h : h = udp_associations[i].handle
  OBVIOUS
<1>2. /\ i \in DOMAIN udp_associations /\ sockets' = [sockets EXCEPT ![h].rx = @ + 1]
      /\ connections' = connections /\ udp_associations' = udp_associations
      /\ got' = [got EXCEPT ![udp_associations[i].owner] = @ + 1]
  BY <1>1 DEF PeerSendsUdp
<1>3. h \in DOMAIN sockets /\ sockets[h] \in UdpSocket
  BY <1>1, <1>2, SocketOfUdp
<1>4. sockets'[h].rx = sockets[h].rx + 1
  BY <1>2, <1>3 DEF UdpSocket
<1>5. Only(i)
  BY <1>1, <1>2, OnlyAssociation
<1> QED BY <1>1, <1>2, <1>4, <1>5


(* PutBack leaves in front what a partial send has not taken.              *)
LEMMA PumpDoes ==
  ASSUME Tables, NEW i, PumpPendingSend(i)
  PROVE  /\ i \in DOMAIN connections /\ i \in todo /\ Only(i)
         /\ udp_associations' = udp_associations /\ DOMAIN connections' = DOMAIN connections
         /\ connections'[i].owner = connections[i].owner
         /\ connections'[i].handle = connections[i].handle
         /\ sockets'[connections[i].handle].rx = sockets[connections[i].handle].rx
         /\ LET p == connections[i].pending_send IN
            /\ p \in Seq(OrderedChunk) /\ p # <<>>
            /\ \E n \in Nat :
                  /\ sockets'[connections[i].handle].taken = p[1][1] + n
                  /\ connections'[i].pending_send =
                        IF p[1][1] + n = p[1][2] THEN Tail(p)
                        ELSE <<<<p[1][1] + n, p[1][2]>>>> \o Tail(p)
<1>1. PICK entry, h, s, p, chunk, rest :
         /\ entry = connections[i] /\ h = entry.handle /\ s = sockets[h]
         /\ p = entry.pending_send /\ chunk = Head(p) /\ rest = Tail(p)
  OBVIOUS
<1>2. /\ i \in DOMAIN connections /\ i \in todo /\ CanPump(i)
      /\ udp_associations' = udp_associations
  BY DEF PumpPendingSend
<1>3. /\ entry \in Connection /\ h \in DOMAIN sockets /\ s \in TcpSocket
      /\ p \in Seq(OrderedChunk) /\ p # <<>> /\ s.tx \in 0 .. TxCapacity
  BY <1>1, <1>2, SocketOf DEF CanPump, Connection, TcpSocket
<1>4. chunk \in OrderedChunk /\ chunk = p[1]
  BY <1>1, <1>3, HeadTailProperties
<1>5. PICK n : n = IF chunk[2] - chunk[1] <= TxCapacity - s.tx
                   THEN chunk[2] - chunk[1] ELSE TxCapacity - s.tx
  OBVIOUS
<1>6. n \in Nat
  BY <1>3, <1>4, <1>5, PartialSend
<1>7. PICK left : left = IF chunk[1] + n = chunk[2] THEN rest
                         ELSE PutBack(<<chunk[1] + n, chunk[2]>>, rest)
  OBVIOUS
<1>8. /\ sockets' = [sockets EXCEPT ![h].tx = @ + n, ![h].taken = chunk[1] + n]
      /\ connections' = [connections EXCEPT ![i].pending_send = left]
  BY <1>1, <1>5, <1>7 DEF PumpPendingSend
<1>9. /\ sockets'[h].rx = s.rx /\ sockets'[h].taken = chunk[1] + n
      /\ \A g \in DOMAIN sockets : g # h => sockets'[g] = sockets[g]
  BY <1>1, <1>3, <1>8 DEF TcpSocket
<1>10. /\ DOMAIN connections' = DOMAIN connections
       /\ \A j \in DOMAIN connections : j # i => connections'[j] = connections[j]
       /\ connections'[i].owner = entry.owner /\ connections'[i].handle = h
       /\ connections'[i].pending_send = left
  BY <1>1, <1>2, <1>3, <1>8 DEF Connection, ConnectionState
<1>11. Only(i)
  BY <1>1, <1>2, <1>9, <1>10, OnlyConnection
<1>12. left = IF p[1][1] + n = p[1][2] THEN Tail(p) ELSE <<<<p[1][1] + n, p[1][2]>>>> \o Tail(p)
  BY <1>1, <1>4, <1>7 DEF PutBack
<1> QED BY <1>1, <1>2, <1>3, <1>4, <1>6, <1>9, <1>10, <1>11, <1>12

LEMMA PumpUdpDoes ==
  ASSUME Tables, NEW i, i \in Live, PumpPendingUdpSend(i)
  PROVE  /\ i \in DOMAIN udp_associations /\ i \in todo /\ Only(i)
         /\ connections' = connections /\ DOMAIN udp_associations' = DOMAIN udp_associations
         /\ udp_associations'[i].owner = udp_associations[i].owner
         /\ udp_associations'[i].handle = udp_associations[i].handle
         /\ sockets'[udp_associations[i].handle].rx = sockets[udp_associations[i].handle].rx
<1>1. PICK entry, h, rest : /\ entry = udp_associations[i] /\ h = entry.handle
                            /\ rest = Tail(entry.pending_send)
  OBVIOUS
<1>2. /\ i \in DOMAIN udp_associations /\ i \in todo /\ connections' = connections
      /\ sockets' = [sockets EXCEPT ![h].tx = @ + 1]
      /\ udp_associations' = [udp_associations EXCEPT ![i].pending_send = rest]
  BY <1>1 DEF PumpPendingUdpSend, DrivesUdp, Live
<1>3. entry \in UdpAssociationState /\ h \in DOMAIN sockets /\ sockets[h] \in UdpSocket
  BY <1>1, <1>2, SocketOfUdp
<1>4. sockets'[h].rx = sockets[h].rx
  BY <1>2, <1>3 DEF UdpSocket
<1>5. /\ DOMAIN udp_associations' = DOMAIN udp_associations
      /\ \A j \in DOMAIN udp_associations : j # i => udp_associations'[j] = udp_associations[j]
      /\ udp_associations'[i].owner = entry.owner /\ udp_associations'[i].handle = h
  BY <1>1, <1>2, <1>3 DEF UdpAssociationState
<1>6. Only(i)
  BY <1>1, <1>2, <1>5, OnlyAssociation
<1> QED BY <1>1, <1>2, <1>4, <1>5, <1>6

(* The end of a connection's turn: it is removed, with everything read, or *)
(* nothing is left to do for it.                                           *)
LEMMA FinishDoes ==
  ASSUME Tables, listening \in [Clients -> BOOLEAN], NEW i, FinishConnection(i)
  PROVE  LET h == connections[i].handle
             c == connections[i].owner IN
         /\ i \in DOMAIN connections /\ i \in todo /\ c \in Clients /\ Only(i)
         /\ udp_associations' = udp_associations
         /\ delivered' = IF listening[c] THEN [delivered EXCEPT ![c] = @ + sockets[h].rx]
                         ELSE delivered
         /\ \/ connections' = Without(connections, i)
            \/ /\ DOMAIN connections' = DOMAIN connections
               /\ connections'[i].owner = c /\ connections'[i].handle = h
               /\ connections'[i].pending_send = connections[i].pending_send
               /\ sockets'[h].taken = sockets[h].taken
               /\ listening[c] => sockets'[h].rx = 0
               /\ Served(connections'[i], sockets'[h])
<1>1. PICK entry, h, s, c : /\ entry = connections[i] /\ h = entry.handle /\ s = sockets[h]
                            /\ c = entry.owner
  OBVIOUS
<1>2. /\ i \in DOMAIN connections /\ i \in todo /\ ~CanPump(i)
      /\ udp_associations' = udp_associations
  BY DEF FinishConnection
<1>3. entry \in Connection /\ h \in DOMAIN sockets /\ s \in TcpSocket /\ c \in Clients
  BY <1>1, <1>2, SocketOf DEF Connection, ConnectionState, Clients
<1>4. PICK state : state = IF ~Closes(entry, s) THEN s.state
                           ELSE IF s.state = "Established" THEN "FinWait" ELSE "LastAck"
  OBVIOUS
<1>5. delivered' = IF listening[c] THEN [delivered EXCEPT ![c] = @ + s.rx] ELSE delivered
  BY <1>1 DEF FinishConnection, PumpUplinkReads
<1>6. CASE ~IsOpen(state)
  <2>1. connections' = Without(connections, i) /\ sockets' = Without(sockets, h)
    BY <1>1, <1>4, <1>6 DEF FinishConnection, RemoveSocket
  <2>2. Only(i)
    <3>1. /\ \A g \in DOMAIN sockets : g # h => sockets'[g] = sockets[g]
          /\ \A j \in DOMAIN connections : j # i => j \in DOMAIN connections'
          /\ \A j \in DOMAIN connections' : j \in DOMAIN connections /\ connections'[j] = connections[j]
      BY <2>1 DEF Without
    <3> QED BY <1>1, <1>2, <3>1, OnlyConnection
  <2> QED BY <1>1, <1>2, <1>3, <1>5, <2>1, <2>2
<1>7. CASE IsOpen(state)
  <2>1. PICK b, r : /\ b = WantsClose(entry, s)
                    /\ r = IF UplinkFails(entry, s) THEN s.rx - 1 ELSE 0
    OBVIOUS
  <2>2. /\ connections' = [connections EXCEPT ![i].close_requested = b]
        /\ sockets' = [sockets EXCEPT ![h].state = state, ![h].rx = r]
    BY <1>1, <1>4, <1>7, <2>1 DEF FinishConnection
  <2>3. PICK t, new : t = sockets'[h] /\ new = connections'[i]
    OBVIOUS
  <2>4. /\ t.state = state /\ t.rx = r /\ t.taken = s.taken /\ t.tx = s.tx
        /\ \A g \in DOMAIN sockets : g # h => sockets'[g] = sockets[g]
    BY <1>1, <1>3, <2>2, <2>3 DEF TcpSocket
  <2>5. /\ DOMAIN connections' = DOMAIN connections
        /\ \A j \in DOMAIN connections : j # i => connections'[j] = connections[j]
        /\ new.owner = c /\ new.handle = h /\ new.pending_send = entry.pending_send
        /\ new.close_requested = b
    BY <1>1, <1>2, <1>3, <2>2, <2>3 DEF Connection, ConnectionState
  <2>6. Only(i)
    BY <1>1, <1>2, <2>4, <2>5, OnlyConnection
  <2>7. listening[c] => r = 0
    BY <1>1, <2>1 DEF UplinkFails
  <2>8. Served(new, t)
    <3>1. MaySend(t) => MaySend(s) /\ state = s.state
      BY <1>3, <1>4, <2>4 DEF MaySend, TcpSocket
    <3>2. new.pending_send = <<>> \/ ~CanSend(t)
      BY <1>1, <1>2, <2>4, <2>5, <3>1 DEF CanPump, CanSend
    <3>3. t.rx > 0 => new.close_requested
      <4>1. t.rx > 0 => UplinkFails(entry, s)
        BY <2>1, <2>4 DEF UplinkFails
      <4>2. UplinkFails(entry, s) => b
        BY <2>1 DEF WantsClose
      <4> QED BY <2>5, <4>1, <4>2
    <3>4. new.close_requested => ~MaySend(t)
      BY <1>3, <1>4, <2>1, <2>4, <2>5 DEF Closes, MaySend
    <3> QED BY <1>7, <2>4, <3>2, <3>3, <3>4 DEF Served
  <2> QED BY <1>1, <1>2, <1>3, <1>5, <2>3, <2>4, <2>5, <2>6, <2>7, <2>8
<1> QED BY <1>6, <1>7

LEMMA FinishUdpDoes ==
  ASSUME Tables, listening \in [Clients -> BOOLEAN], NEW i, i \in Live, FinishAssociation(i)
  PROVE  LET h == udp_associations[i].handle
             c == udp_associations[i].owner IN
         /\ i \in DOMAIN udp_associations /\ i \in todo /\ c \in Clients /\ Only(i)
         /\ connections' = connections
         /\ delivered' = IF listening[c] THEN [delivered EXCEPT ![c] = @ + sockets[h].rx]
                         ELSE delivered
         /\ \/ udp_associations' = Without(udp_associations, i)
            \/ /\ udp_associations' = udp_associations
               /\ sockets'[h].rx = 0
               /\ ServedUdp(udp_associations[i], sockets'[h])
<1>1. PICK entry, h, s, c : /\ entry = udp_associations[i] /\ h = entry.handle
                            /\ s = sockets[h] /\ c = entry.owner
  OBVIOUS
<1>2. i \in DOMAIN udp_associations /\ i \in todo /\ connections' = connections
  BY DEF FinishAssociation, DrivesUdp, Live
<1>3. /\ entry \in UdpAssociationState /\ h \in DOMAIN sockets /\ s \in UdpSocket
      /\ c \in Clients
  BY <1>1, <1>2, SocketOfUdp DEF UdpAssociationState, Clients
<1>4. PICK refused \in BOOLEAN :
         /\ PumpEndsUdp(i, refused)
         /\ PumpUplinkReads(entry, s)
         /\ IF refused \/ WantsClose(entry, s)
            THEN udp_associations' = Without(udp_associations, i) /\ sockets' = Without(sockets, h)
            ELSE sockets' = [sockets EXCEPT ![h].rx = 0] /\ udp_associations' = udp_associations
  BY <1>1 DEF FinishAssociation, RemoveSocket, Abandons
<1>5. delivered' = IF listening[c] THEN [delivered EXCEPT ![c] = @ + s.rx] ELSE delivered
  BY <1>1, <1>4 DEF PumpUplinkReads
<1>6. CASE refused \/ WantsClose(entry, s)
  <2>1. udp_associations' = Without(udp_associations, i) /\ sockets' = Without(sockets, h)
    BY <1>4, <1>6
  <2>2. Only(i)
    <3>1. /\ \A g \in DOMAIN sockets : g # h => sockets'[g] = sockets[g]
          /\ \A j \in DOMAIN udp_associations : j # i => j \in DOMAIN udp_associations'
          /\ \A j \in DOMAIN udp_associations' :
                j \in DOMAIN udp_associations /\ udp_associations'[j] = udp_associations[j]
      BY <2>1 DEF Without
    <3> QED BY <1>1, <1>2, <3>1, OnlyAssociation
  <2> QED BY <1>1, <1>2, <1>3, <1>5, <2>1, <2>2
<1>7. CASE ~(refused \/ WantsClose(entry, s))
  <2>1. sockets' = [sockets EXCEPT ![h].rx = 0] /\ udp_associations' = udp_associations
    BY <1>4, <1>7
  <2>2. PICK t : t = sockets'[h]
    OBVIOUS
  <2>3. /\ t.rx = 0 /\ t.tx = s.tx
        /\ \A g \in DOMAIN sockets : g # h => sockets'[g] = sockets[g]
    BY <1>1, <1>3, <2>1, <2>2 DEF UdpSocket
  <2>4. Only(i)
    BY <1>1, <1>2, <2>1, <2>3, OnlyAssociation
  <2>5. ServedUdp(entry, t)
    <3>1. ~CanPumpUdp(i) /\ ~entry.close_requested
      BY <1>4, <1>7 DEF PumpEndsUdp, WantsClose
    <3> QED BY <1>1, <2>3, <3>1 DEF ServedUdp, CanPumpUdp
  <2> QED BY <1>1, <1>2, <1>3, <1>5, <2>1, <2>2, <2>3, <2>4, <2>5
<1> QED BY <1>6, <1>7

-----------------------------------------------------------------------------
(* The turn of one entry.                                                  *)
LEMMA DrivenOnly ==
  ASSUME Driven, NEW i, Only(i), pc' = "drive", pc = "drive", todo \ {i} \subseteq todo',
         i \in DOMAIN connections' /\ i \notin todo' =>
            Served(connections'[i], sockets'[connections'[i].handle]),
         i \in DOMAIN udp_associations' /\ i \notin todo' =>
            ServedUdp(udp_associations'[i], sockets'[udp_associations'[i].handle])
  PROVE  Driven'
<1>1. ASSUME NEW j \in DOMAIN connections', j \notin todo'
      PROVE  Served(connections'[j], sockets'[connections'[j].handle])
  BY <1>1 DEF Driven, Only
<1>2. ASSUME NEW j \in DOMAIN udp_associations', j \notin todo'
      PROVE  ServedUdp(udp_associations'[j], sockets'[udp_associations'[j].handle])
  BY <1>2 DEF Driven, Only
<1> QED BY <1>1, <1>2 DEF Driven, Served, ServedUdp, IsOpen, CanSend, MaySend

LEMMA DrivenElsewhere ==
  ASSUME pc' \notin {"wait", "drive"}
  PROVE  Driven'
BY DEF Driven

LEMMA DrivenStays ==
  ASSUME Driven, UNCHANGED <<pc, todo, connections, udp_associations, sockets>>
  PROVE  Driven'
BY DEF Driven, Served, ServedUdp, IsOpen, CanSend, MaySend

LEMMA NextDriven ==
  ASSUME IInv, Driven, [Next]_vars
  PROVE  Driven'
<1>1. CASE UNCHANGED vars
  BY <1>1, DrivenStays DEF vars, loopVars, tableVars
<1>2. ASSUME NEW c \in Clients, ClientStep(c) PROVE Driven'
  <2>1. UNCHANGED <<pc, todo, connections, udp_associations, sockets>>
    BY <1>2 DEF ClientStep, RequestOpen, OpenReturns, OpenTimesOut, ClientSend, ClientClose,
                DropReceiver, loopVars, tableVars
  <2> QED BY <2>1, DrivenStays
<1>3. CASE ForwardTunnelPacket
  BY <1>3, DrivenStays DEF ForwardTunnelPacket, loopVars, tableVars
<1>4. CASE HandleMessage
  <2>1. pc' = "batch"
    BY <1>4 DEF HandleMessage, HandleTunnelPacket, HandleOpen, HandleOpenUdp, HandleSend,
                HandleSendUdp, HandleClose, HandleCloseUdp, Receive
  <2> QED BY <2>1, DrivenElsewhere
<1>5. CASE WaitTimesOut \/ BatchEnds
  BY <1>5, DrivenElsewhere DEF WaitTimesOut, BatchEnds
<1>6. CASE DriveEnds
  BY <1>6 DEF DriveEnds, tableVars, Driven, Served, ServedUdp, IsOpen, CanSend, MaySend
<1>7. CASE PollEnds
  BY <1>7 DEF PollEnds, Driven
<1>8. ASSUME NEW i \in todo, Drive(i) PROVE Driven'
  <2>1. Tables /\ i \in Live /\ listening \in [Clients -> BOOLEAN]
    BY DEF IInv, LoopOK, ClientsOK
  <2>2. DOMAIN connections \cap DOMAIN udp_associations = {}
    BY DEF IInv, Tables, Entries
  <2>3. CASE PumpPendingSend(i)
    <3>1. pc = "drive" /\ pc' = "drive" /\ todo' = todo
      BY <2>3 DEF PumpPendingSend, loopVars
    <3>2. Only(i)
      BY <2>1, <2>3, PumpDoes
    <3> QED BY <3>1, <3>2, DrivenOnly
  <2>4. CASE PumpPendingUdpSend(i)
    <3>1. pc = "drive" /\ pc' = "drive" /\ todo' = todo
      BY <2>4 DEF PumpPendingUdpSend, DrivesUdp, loopVars
    <3>2. Only(i)
      BY <2>1, <2>4, PumpUdpDoes
    <3> QED BY <3>1, <3>2, DrivenOnly
  <2>5. CASE FinishConnection(i)
    <3>1. pc = "drive" /\ pc' = "drive" /\ todo' = todo \ {i}
      BY <2>5 DEF FinishConnection
    <3>2. /\ Only(i) /\ i \in DOMAIN connections /\ udp_associations' = udp_associations
          /\ \/ connections' = Without(connections, i)
             \/ /\ connections'[i].handle = connections[i].handle
                /\ Served(connections'[i], sockets'[connections[i].handle])
      BY <2>1, <2>5, FinishDoes
    <3>3. i \in DOMAIN connections' => Served(connections'[i], sockets'[connections'[i].handle])
      BY <3>2 DEF Without
    <3> QED BY <2>2, <3>1, <3>2, <3>3, DrivenOnly
  <2>6. CASE FinishAssociation(i)
    <3>1. pc = "drive" /\ pc' = "drive" /\ todo' = todo \ {i}
      BY <2>6 DEF FinishAssociation, DrivesUdp
    <3>2. /\ Only(i) /\ i \in DOMAIN udp_associations /\ connections' = connections
          /\ \/ udp_associations' = Without(udp_associations, i)
             \/ /\ udp_associations' = udp_associations
                /\ ServedUdp(udp_associations[i], sockets'[udp_associations[i].handle])
      BY <2>1, <2>6, FinishUdpDoes
    <3>3. i \in DOMAIN udp_associations' =>
             ServedUdp(udp_associations'[i], sockets'[udp_associations'[i].handle])
      BY <3>2 DEF Without
    <3> QED BY <2>2, <3>1, <3>2, <3>3, DrivenOnly
  <2> QED BY <1>8, <2>3, <2>4, <2>5, <2>6 DEF Drive
<1>9. ASSUME NEW i, PeerStep(i) PROVE Driven'
  <2>1. pc' = "poll"
    BY <1>9 DEF PeerStep, PeerAccepts, PeerFinishes, PeerResets, PeerAnswersFin, TcpStep, Polled,
                PeerAcks, PeerSends, PeerSendsUdp, loopVars
  <2> QED BY <2>1, DrivenElsewhere
<1> QED BY <1>1, <1>2, <1>3, <1>4, <1>5, <1>6, <1>7, <1>8, <1>9 DEF Next, LoopStep

-----------------------------------------------------------------------------
(* The row of a connection's Sends in the channel, when a message is put   *)
(* behind it or taken from its front.                                      *)
LEMMA Appended ==
  ASSUME NEW q \in Seq(SoundMessage), NEW m \in SoundMessage
  PROVE  /\ Append(q, m) \in Seq(SoundMessage)
         /\ Len(q) \in Nat /\ Len(Append(q, m)) = Len(q) + 1
         /\ DOMAIN q = 1 .. Len(q) /\ DOMAIN Append(q, m) = 1 .. Len(q) + 1
         /\ \A k \in 1 .. Len(q) : Append(q, m)[k] = q[k]
         /\ Append(q, m)[Len(q) + 1] = m
OBVIOUS

LEMMA LeadsWhen ==
  ASSUME NEW q, NEW i, NEW from, NEW upto, NEW n, n = Len(q) + 1,
         \A j \in SendsIn(q, i) \cup {0}, k \in SendsIn(q, i) \cup {n} :
            j < k /\ (\A l \in SendsIn(q, i) : l <= j \/ k <= l) =>
                (IF j = 0 THEN from ELSE q[j].data[2]) = (IF k = n THEN upto ELSE q[k].data[1])
  PROVE  Leads(q, i, from, upto)
BY Zenon DEF Leads

LEMMA LeadsThen ==
  ASSUME NEW q, NEW i, NEW from, NEW upto, Leads(q, i, from, upto), NEW n, n = Len(q) + 1,
         NEW j \in SendsIn(q, i) \cup {0}, NEW k \in SendsIn(q, i) \cup {n}, j < k,
         \A l \in SendsIn(q, i) : l <= j \/ k <= l
  PROVE  (IF j = 0 THEN from ELSE q[j].data[2]) = (IF k = n THEN upto ELSE q[k].data[1])
BY Zenon DEF Leads

LEMMA LeadsPastOther ==
  ASSUME NEW q \in Seq(SoundMessage), NEW m \in SoundMessage, NEW i, NEW from, NEW upto,
         ~(m.op = "Send" /\ m.id = i), Leads(q, i, from, upto)
  PROVE  Leads(Append(q, m), i, from, upto)
<1>1. PICK n, r : n = Len(q) /\ r = Append(q, m)
  OBVIOUS
<1>2. /\ n \in Nat /\ Len(r) = n + 1 /\ DOMAIN q = 1 .. n /\ DOMAIN r = 1 .. n + 1
      /\ \A k \in 1 .. n : r[k] = q[k]
      /\ r[n + 1] = m
  BY <1>1, Appended
<1>3. SendsIn(r, i) = SendsIn(q, i) /\ SendsIn(q, i) \subseteq 1 .. n
  BY <1>2 DEF SendsIn
<1> SUFFICES Leads(r, i, from, upto)
  BY <1>1
<1> SUFFICES \A j \in SendsIn(r, i) \cup {0}, k \in SendsIn(r, i) \cup {n + 2} :
               j < k /\ (\A l \in SendsIn(r, i) : l <= j \/ k <= l) =>
                  (IF j = 0 THEN from ELSE r[j].data[2])
                      = (IF k = n + 2 THEN upto ELSE r[k].data[1])
  <2>1. n + 2 = Len(r) + 1
    BY <1>2
  <2> QED BY <2>1, LeadsWhen
<1> SUFFICES ASSUME NEW j \in SendsIn(r, i) \cup {0}, NEW k \in SendsIn(r, i) \cup {n + 2}, j < k,
                    \A l \in SendsIn(r, i) : l <= j \/ k <= l
             PROVE  (IF j = 0 THEN from ELSE r[j].data[2])
                        = (IF k = n + 2 THEN upto ELSE r[k].data[1])
  OBVIOUS
<1>4. CASE k = n + 2
  <2>1. j < n + 1 /\ \A l \in SendsIn(q, i) : l <= j \/ n + 1 <= l
    BY <1>2, <1>3, <1>4
  <2>2. (IF j = 0 THEN from ELSE q[j].data[2]) = upto
    BY <1>1, <1>2, <1>3, <2>1 DEF Leads
  <2> QED BY <1>2, <1>3, <1>4, <2>2
<1>5. CASE k # n + 2
  <2>1. k \in SendsIn(q, i) /\ k \in 1 .. n /\ k # n + 1
    BY <1>2, <1>3, <1>5
  <2>2. (IF j = 0 THEN from ELSE q[j].data[2]) = q[k].data[1]
    BY <1>1, <1>3, <2>1 DEF Leads
  <2> QED BY <1>2, <1>3, <1>5, <2>1, <2>2
<1> QED BY <1>4, <1>5

LEMMA LeadsFurther ==
  ASSUME NEW q \in Seq(SoundMessage), NEW m \in SoundMessage, NEW i, NEW from, NEW upto,
         m.op = "Send", m.id = i, m.data[1] = upto, Leads(q, i, from, upto)
  PROVE  Leads(Append(q, m), i, from, m.data[2])
<1>1. PICK n, r : n = Len(q) /\ r = Append(q, m)
  OBVIOUS
<1>2. /\ n \in Nat /\ Len(r) = n + 1 /\ DOMAIN q = 1 .. n /\ DOMAIN r = 1 .. n + 1
      /\ \A k \in 1 .. n : r[k] = q[k]
      /\ r[n + 1] = m
  BY <1>1, Appended
<1>3. SendsIn(r, i) = SendsIn(q, i) \cup {n + 1} /\ SendsIn(q, i) \subseteq 1 .. n
  BY <1>2 DEF SendsIn
<1> SUFFICES Leads(r, i, from, m.data[2])
  BY <1>1
<1> SUFFICES \A j \in SendsIn(r, i) \cup {0}, k \in SendsIn(r, i) \cup {n + 2} :
               j < k /\ (\A l \in SendsIn(r, i) : l <= j \/ k <= l) =>
                  (IF j = 0 THEN from ELSE r[j].data[2])
                      = (IF k = n + 2 THEN m.data[2] ELSE r[k].data[1])
  <2>1. n + 2 = Len(r) + 1
    BY <1>2
  <2> QED BY <2>1, LeadsWhen
<1> SUFFICES ASSUME NEW j \in SendsIn(r, i) \cup {0}, NEW k \in SendsIn(r, i) \cup {n + 2}, j < k,
                    \A l \in SendsIn(r, i) : l <= j \/ k <= l
             PROVE  (IF j = 0 THEN from ELSE r[j].data[2])
                        = (IF k = n + 2 THEN m.data[2] ELSE r[k].data[1])
  OBVIOUS
<1>4. CASE k = n + 2
  <2>1. j = n + 1
    BY <1>2, <1>3, <1>4
  <2> QED BY <1>2, <1>4, <2>1
<1>5. CASE k = n + 1
  <2>1. /\ j \in SendsIn(q, i) \cup {0} /\ j < n + 1
        /\ \A l \in SendsIn(q, i) : l <= j \/ n + 1 <= l
    BY <1>2, <1>3, <1>5
  <2>2. (IF j = 0 THEN from ELSE q[j].data[2]) = upto
    BY <1>1, <2>1 DEF Leads
  <2> QED BY <1>2, <1>3, <1>5, <2>1, <2>2
<1>6. CASE k \in SendsIn(q, i)
  <2>1. j \in SendsIn(q, i) \cup {0} /\ k \in 1 .. n /\ k # n + 1 /\ k # n + 2
    BY <1>2, <1>3, <1>6
  <2>2. (IF j = 0 THEN from ELSE q[j].data[2]) = q[k].data[1]
    BY <1>1, <1>3, <1>6, <2>1 DEF Leads
  <2> QED BY <1>2, <1>3, <2>1, <2>2
<1> QED BY <1>3, <1>4, <1>5, <1>6

LEMMA TailIs ==
  ASSUME NEW q \in Seq(SoundMessage), q # <<>>
  PROVE  /\ Tail(q) \in Seq(SoundMessage) /\ Len(q) \in Nat \ {0} /\ Len(Tail(q)) = Len(q) - 1
         /\ DOMAIN q = 1 .. Len(q) /\ DOMAIN Tail(q) = 1 .. Len(q) - 1
         /\ \A k \in 1 .. Len(q) - 1 : Tail(q)[k] = q[k + 1]
         /\ Head(q) = q[1]
BY HeadTailProperties, LenProperties

LEMMA LeadsWithoutOther ==
  ASSUME NEW q \in Seq(SoundMessage), q # <<>>, NEW i, NEW from, NEW upto,
         ~(Head(q).op = "Send" /\ Head(q).id = i), Leads(q, i, from, upto)
  PROVE  Leads(Tail(q), i, from, upto)
<1>1. PICK n, r : n = Len(q) /\ r = Tail(q)
  OBVIOUS
<1>2. /\ n \in Nat \ {0} /\ Len(r) = n - 1 /\ DOMAIN q = 1 .. n /\ DOMAIN r = 1 .. n - 1
      /\ \A k \in 1 .. n - 1 : r[k] = q[k + 1]
      /\ Head(q) = q[1]
  BY <1>1, TailIs
<1>3. /\ SendsIn(r, i) \subseteq 1 .. n - 1 /\ SendsIn(q, i) \subseteq 2 .. n
      /\ \A k \in 1 .. n - 1 : k \in SendsIn(r, i) <=> k + 1 \in SendsIn(q, i)
  <2>1. 1 \notin SendsIn(q, i) /\ SendsIn(q, i) \subseteq 1 .. n
    BY <1>2 DEF SendsIn
  <2>2. \A k \in 1 .. n - 1 : k \in SendsIn(r, i) <=> k + 1 \in SendsIn(q, i)
    BY <1>2 DEF SendsIn
  <2>3. SendsIn(r, i) \subseteq 1 .. n - 1
    BY <1>2 DEF SendsIn
  <2> QED BY <1>2, <2>1, <2>2, <2>3
<1> SUFFICES Leads(r, i, from, upto)
  BY <1>1
<1> SUFFICES \A j \in SendsIn(r, i) \cup {0}, k \in SendsIn(r, i) \cup {n} :
               j < k /\ (\A l \in SendsIn(r, i) : l <= j \/ k <= l) =>
                  (IF j = 0 THEN from ELSE r[j].data[2])
                      = (IF k = n THEN upto ELSE r[k].data[1])
  <2>1. n = Len(r) + 1
    BY <1>2
  <2> QED BY <2>1, LeadsWhen
<1> SUFFICES ASSUME NEW j \in SendsIn(r, i) \cup {0}, NEW k \in SendsIn(r, i) \cup {n}, j < k,
                    \A l \in SendsIn(r, i) : l <= j \/ k <= l
             PROVE  (IF j = 0 THEN from ELSE r[j].data[2])
                        = (IF k = n THEN upto ELSE r[k].data[1])
  OBVIOUS
<1>4. PICK j1 : j1 = IF j = 0 THEN 0 ELSE j + 1
  OBVIOUS
<1>5. /\ j1 \in SendsIn(q, i) \cup {0} /\ k + 1 \in SendsIn(q, i) \cup {n + 1} /\ j1 < k + 1
      /\ (j1 = 0 <=> j = 0) /\ (k + 1 = n + 1 <=> k = n)
  BY <1>2, <1>3, <1>4
<1>6. ASSUME NEW l \in SendsIn(q, i) PROVE l <= j1 \/ k + 1 <= l
  <2>1. l \in 2 .. n /\ l - 1 \in SendsIn(r, i) /\ j \in Nat /\ k \in Nat
    BY <1>2, <1>3
  <2>2. l - 1 <= j \/ k <= l - 1
    BY <2>1
  <2>3. j # 0 \/ k <= l - 1
    BY <1>2, <2>1, <2>2
  <2> QED BY <1>4, <2>1, <2>2, <2>3
<1>7. (IF j1 = 0 THEN from ELSE q[j1].data[2]) = (IF k + 1 = n + 1 THEN upto ELSE q[k + 1].data[1])
  BY <1>1, <1>5, <1>6 DEF Leads
<1>8. j # 0 => r[j] = q[j1]
  BY <1>2, <1>3, <1>4
<1>9. k # n => r[k] = q[k + 1]
  BY <1>2, <1>3
<1> QED BY <1>5, <1>7, <1>8, <1>9

LEMMA LeadsFromFirst ==
  ASSUME NEW q \in Seq(SoundMessage), q # <<>>, NEW i, NEW from, NEW upto,
         Head(q).op = "Send", Head(q).id = i, Leads(q, i, from, upto)
  PROVE  Head(q).data[1] = from /\ Leads(Tail(q), i, Head(q).data[2], upto)
<1>1. PICK n, r : n = Len(q) /\ r = Tail(q)
  OBVIOUS
<1>2. /\ n \in Nat \ {0} /\ Len(r) = n - 1 /\ DOMAIN q = 1 .. n /\ DOMAIN r = 1 .. n - 1
      /\ \A k \in 1 .. n - 1 : r[k] = q[k + 1]
      /\ Head(q) = q[1]
  BY <1>1, TailIs
<1>3. /\ SendsIn(r, i) \subseteq 1 .. n - 1 /\ SendsIn(q, i) \subseteq 1 .. n
      /\ 1 \in SendsIn(q, i)
      /\ \A k \in 1 .. n - 1 : k \in SendsIn(r, i) <=> k + 1 \in SendsIn(q, i)
  BY <1>2 DEF SendsIn
<1>4. q[1].data[1] = from
  <2>1. 1 # n + 1 /\ 0 < 1 /\ \A l \in SendsIn(q, i) : l <= 0 \/ 1 <= l
    BY <1>2, <1>3
  <2> QED BY <1>1, <1>3, <2>1 DEF Leads
<1>5. ASSUME NEW j \in SendsIn(r, i) \cup {0}, NEW k \in SendsIn(r, i) \cup {n}, j < k,
             \A l \in SendsIn(r, i) : l <= j \/ k <= l
      PROVE  (IF j = 0 THEN q[1].data[2] ELSE r[j].data[2])
                 = (IF k = n THEN upto ELSE r[k].data[1])
  <2>1. /\ j + 1 \in SendsIn(q, i) /\ k + 1 \in SendsIn(q, i) \cup {n + 1} /\ j + 1 < k + 1
        /\ j + 1 # 0 /\ (k + 1 = n + 1 <=> k = n)
    BY <1>2, <1>3, <1>5
  <2>2. ASSUME NEW l \in SendsIn(q, i) PROVE l <= j + 1 \/ k + 1 <= l
    <3>1. l \in 1 .. n /\ j \in Nat /\ k \in Nat
      BY <1>2, <1>3
    <3>2. CASE l = 1
      BY <3>1, <3>2
    <3>3. CASE l # 1
      <4>1. l - 1 \in SendsIn(r, i)
        BY <1>2, <1>3, <3>1, <3>3
      <4> QED BY <1>5, <3>1, <4>1
    <3> QED BY <3>2, <3>3
  <2>3. q[j + 1].data[2] = (IF k + 1 = n + 1 THEN upto ELSE q[k + 1].data[1])
    BY <1>1, <2>1, <2>2 DEF Leads
  <2>4. j # 0 => r[j] = q[j + 1]
    BY <1>2, <1>3
  <2>5. k # n => r[k] = q[k + 1]
    BY <1>2, <1>3
  <2> QED BY <2>1, <2>3, <2>4, <2>5
<1>6. Leads(r, i, q[1].data[2], upto)
  <2>1. n = Len(r) + 1
    BY <1>2
  <2>2. PICK next : next = q[1].data[2]
    OBVIOUS
  <2>3. \A j \in SendsIn(r, i) \cup {0}, k \in SendsIn(r, i) \cup {n} :
           j < k /\ (\A l \in SendsIn(r, i) : l <= j \/ k <= l) =>
              (IF j = 0 THEN next ELSE r[j].data[2]) = (IF k = n THEN upto ELSE r[k].data[1])
    BY <1>5, <2>2
  <2>4. Leads(r, i, next, upto)
    BY <2>1, <2>3, LeadsWhen
  <2> QED BY <2>2, <2>4
<1> QED BY <1>1, <1>2, <1>4, <1>6

LEMMA LeadsNowhere ==
  ASSUME NEW q, NEW i, NEW from, SendsIn(q, i) = {}
  PROVE  Leads(q, i, from, from)
<1>1. Len(q) + 1 # 0
  OBVIOUS
<1> QED BY <1>1 DEF Leads

(* The row of pending chunks.                                              *)
LEMMA ChainLonger ==
  ASSUME NEW p \in Seq(OrderedChunk), NEW x \in OrderedChunk, NEW t,
         Chain(p, t), x[1] = EndOf(p, t)
  PROVE  Chain(Append(p, x), t) /\ EndOf(Append(p, x), t) = x[2]
<1>1. PICK n, r : n = Len(p) /\ r = Append(p, x)
  OBVIOUS
<1>2. /\ n \in Nat /\ Len(r) = n + 1 /\ DOMAIN p = 1 .. n /\ DOMAIN r = 1 .. n + 1
      /\ \A k \in 1 .. n : r[k] = p[k]
      /\ r[n + 1] = x /\ r # <<>> /\ (p = <<>> <=> n = 0)
  BY <1>1
<1>3. ASSUME NEW k \in 1 .. n + 1 PROVE r[k][1] = IF k = 1 THEN t ELSE r[k - 1][2]
  <2>1. CASE k \in 1 .. n
    <3>1. p[k][1] = IF k = 1 THEN t ELSE p[k - 1][2]
      BY <1>2, <2>1 DEF Chain
    <3>2. k # 1 => k - 1 \in 1 .. n
      BY <1>2, <2>1
    <3> QED BY <1>2, <2>1, <3>1, <3>2
  <2>2. CASE k = n + 1
    <3>1. x[1] = IF n = 0 THEN t ELSE p[n][2]
      BY <1>1, <1>2 DEF EndOf
    <3>2. n # 0 => n \in 1 .. n
      BY <1>2
    <3> QED BY <1>2, <2>2, <3>1, <3>2
  <2> QED BY <1>2, <2>1, <2>2
<1> QED BY <1>1, <1>2, <1>3 DEF Chain, EndOf

LEMMA ChainTaken ==
  ASSUME NEW p \in Seq(OrderedChunk), p # <<>>, NEW t, NEW n, Chain(p, t), p[1][1] + n = p[1][2]
  PROVE  Chain(Tail(p), p[1][1] + n) /\ EndOf(Tail(p), p[1][1] + n) = EndOf(p, t)
<1>1. PICK m, r : m = Len(p) /\ r = Tail(p)
  OBVIOUS
<1>2. /\ m \in Nat \ {0} /\ Len(r) = m - 1 /\ DOMAIN p = 1 .. m /\ DOMAIN r = 1 .. m - 1
      /\ \A k \in 1 .. m - 1 : r[k] = p[k + 1]
      /\ r \in Seq(OrderedChunk) /\ (r = <<>> <=> m = 1)
  BY <1>1, HeadTailProperties, LenProperties
<1>3. ASSUME NEW k \in 1 .. m - 1 PROVE r[k][1] = IF k = 1 THEN p[1][1] + n ELSE r[k - 1][2]
  <2>1. p[k + 1][1] = p[k][2]
    <3>1. k + 1 \in 1 .. m /\ k + 1 # 1 /\ (k + 1) - 1 = k
      BY <1>2
    <3>2. p[k + 1][1] = IF k + 1 = 1 THEN t ELSE p[(k + 1) - 1][2]
      BY <1>2, <3>1 DEF Chain
    <3> QED BY <3>1, <3>2
  <2>2. k # 1 => r[k - 1] = p[k]
    BY <1>2
  <2> QED BY <1>2, <2>1, <2>2
<1>4. m # 1 => r[m - 1] = p[m]
  BY <1>2
<1> QED BY <1>1, <1>2, <1>3, <1>4 DEF Chain, EndOf

LEMMA ChainPartly ==
  ASSUME NEW p \in Seq(OrderedChunk), p # <<>>, NEW t, NEW n \in Nat, Chain(p, t),
         NEW q, q = <<<<p[1][1] + n, p[1][2]>>>> \o Tail(p)
  PROVE  Chain(q, p[1][1] + n) /\ EndOf(q, p[1][1] + n) = EndOf(p, t)
<1>1. PICK m, r : m = Len(p) /\ r = Tail(p)
  OBVIOUS
<1>2. /\ m \in Nat \ {0} /\ Len(r) = m - 1 /\ DOMAIN p = 1 .. m
      /\ \A k \in 1 .. m - 1 : r[k] = p[k + 1]
      /\ r \in Seq(OrderedChunk)
  BY <1>1, HeadTailProperties, LenProperties
<1>3. PICK x : x = <<p[1][1] + n, p[1][2]>>
  OBVIOUS
<1>4. x \in Nat \X Nat
  <2>1. p[1] \in OrderedChunk
    BY <1>2, ElementOfSeq
  <2> QED BY <1>3, <2>1 DEF OrderedChunk, Chunk
<1>5. <<x>> \in Seq(Nat \X Nat) /\ r \in Seq(Nat \X Nat) /\ Len(<<x>>) = 1 /\ <<x>>[1] = x
  <2>1. OrderedChunk \subseteq Nat \X Nat
    BY DEF OrderedChunk, Chunk
  <2> QED BY <1>2, <1>4, <2>1, SeqMonotonic
<1>6. /\ Len(q) = m /\ DOMAIN q = 1 .. m /\ q[1] = x /\ q # <<>>
      /\ \A k \in 2 .. m : q[k] = p[k]
  <2>1. PICK y : y = <<x>> /\ y \in Seq(Nat \X Nat) /\ Len(y) = 1 /\ y[1] = x
    BY <1>5
  <2>2. q = y \o r
    BY <1>1, <1>3, <2>1
  <2>3. /\ q \in Seq(Nat \X Nat) /\ Len(q) = Len(y) + Len(r)
        /\ \A k \in 1 .. Len(y) + Len(r) : q[k] = IF k <= Len(y) THEN y[k] ELSE r[k - Len(y)]
    <3>1. r \in Seq(Nat \X Nat)
      BY <1>5
    <3>2. y \in Seq(Nat \X Nat)
      BY <2>1
    <3>3. /\ y \o r \in Seq(Nat \X Nat) /\ Len(y \o r) = Len(y) + Len(r)
          /\ \A k \in 1 .. Len(y) + Len(r) : (y \o r)[k] = IF k <= Len(y) THEN y[k] ELSE r[k - Len(y)]
      BY <3>1, <3>2, ConcatProperties, Zenon
    <3> QED BY <2>2, <3>3, Zenon
  <2>4. Len(q) = m /\ DOMAIN q = 1 .. m
    BY <1>2, <2>1, <2>3, LenProperties
  <2>5. \A k \in 2 .. m : q[k] = p[k]
    BY <1>2, <2>1, <2>3
  <2>6. q[1] = x /\ q # <<>>
    BY <1>2, <2>1, <2>3
  <2> QED BY <2>4, <2>5, <2>6
<1>7. ASSUME NEW k \in 1 .. m PROVE q[k][1] = IF k = 1 THEN p[1][1] + n ELSE q[k - 1][2]
  <2>1. CASE k = 1
    BY <1>3, <1>6, <2>1
  <2>2. CASE k = 2
    <3>1. p[2][1] = p[1][2]
      BY <1>2, <2>2 DEF Chain
    <3> QED BY <1>3, <1>6, <2>2, <3>1
  <2>3. CASE k > 2
    <3>1. k \in 2 .. m /\ k - 1 \in 2 .. m /\ k # 1
      BY <1>2, <2>3
    <3>2. p[k][1] = IF k = 1 THEN t ELSE p[k - 1][2]
      BY <1>2 DEF Chain
    <3> QED BY <1>6, <3>1, <3>2
  <2> QED BY <1>2, <2>1, <2>2, <2>3
<1>8. q[m][2] = p[m][2]
  BY <1>2, <1>3, <1>6
<1> QED BY <1>1, <1>6, <1>7, <1>8 DEF Chain, EndOf

-----------------------------------------------------------------------------
(* Each client opens once: it has one entry at most, which has its id as   *)
(* long as the client has it, and none before its request was handled.     *)
Opens(m, c) == m.op \in {"Open", "OpenUdp"} /\ m.client = c

Unopened(c) ==
    /\ phase[c] \in {"opening", "gaveUp"}
    /\ \A i \in DOMAIN connections : connections[i].owner # c
    /\ \A i \in DOMAIN udp_associations : udp_associations[i].owner # c

Ownership ==
    /\ \A i, j \in DOMAIN connections : connections[i].owner = connections[j].owner => i = j
    /\ \A i, j \in DOMAIN udp_associations :
          udp_associations[i].owner = udp_associations[j].owner => i = j
    /\ \A c \in Clients : phase[c] \in HasId =>
          /\ \A i \in DOMAIN connections : connections[i].owner = c => i = id[c]
          /\ \A i \in DOMAIN udp_associations : udp_associations[i].owner = c => i = id[c]
    /\ \A c \in Clients : phase[c] # "open" => sent[c] = 0
    /\ \A k \in DOMAIN control : \A c \in Clients : Opens(control[k], c) =>
          Unopened(c) /\ \A j \in DOMAIN control : Opens(control[j], c) => j = k
    /\ \A k \in DOMAIN control : control[k].op = "Send" => control[k].id < next_conn_id

(* The places of the channel after a message was received or posted.       *)
LEMMA Shifted ==
  ASSUME Sound, control # <<>>, control' = Tail(control)
  PROVE  \A k \in DOMAIN control' :
            k \in Nat /\ k + 1 \in DOMAIN control /\ control'[k] = control[k + 1]
BY TailIs DEF Sound

LEMMA Posted ==
  ASSUME Sound, NEW m \in SoundMessage, control' = Append(control, m)
  PROVE  \A k \in DOMAIN control' :
            \/ k \in DOMAIN control /\ control'[k] = control[k]
            \/ k = Len(control) + 1 /\ k \notin DOMAIN control /\ control'[k] = m
BY Appended DEF Sound

(* Steps that handle no request to open.                                   *)
LEMMA OwnershipKept ==
  ASSUME IInv, Ownership, UNCHANGED <<phase, id, sent, next_conn_id>>,
         control' = control \/ (control # <<>> /\ control' = Tail(control)),
         \A i \in DOMAIN connections' :
            i \in DOMAIN connections /\ connections'[i].owner = connections[i].owner,
         \A i \in DOMAIN udp_associations' :
            i \in DOMAIN udp_associations /\ udp_associations'[i].owner = udp_associations[i].owner
  PROVE  Ownership'
<1>1. PICK d \in {0, 1} : \A k \in DOMAIN control' :
         k \in Nat /\ k + d \in DOMAIN control /\ control'[k] = control[k + d]
  <2>1. CASE control' = control
    <3>1. \A k \in DOMAIN control : k \in Nat /\ k + 0 = k
      BY LenProperties DEF IInv, Mail, Sound
    <3> QED BY <2>1, <3>1
  <2>2. CASE control # <<>> /\ control' = Tail(control)
    BY <2>2, Shifted DEF IInv, Mail
  <2> QED BY <2>1, <2>2
<1>2. \A c : Unopened(c) => Unopened(c)'
  BY DEF Unopened
<1>3. ASSUME NEW k \in DOMAIN control', NEW c \in Clients, Opens(control'[k], c)
      PROVE  Unopened(c)' /\ \A j \in DOMAIN control' : Opens(control'[j], c) => j = k
  <2>1. Opens(control[k + d], c) /\ k + d \in DOMAIN control
    BY <1>1, <1>3
  <2>2. Unopened(c) /\ \A j \in DOMAIN control : Opens(control[j], c) => j = k + d
    BY <2>1 DEF Ownership
  <2>3. ASSUME NEW j \in DOMAIN control', Opens(control'[j], c) PROVE j = k
    <3>1. j + d = k + d
      BY <1>1, <2>2, <2>3
    <3> QED BY <1>1, <3>1
  <2> QED BY <1>2, <2>2, <2>3
<1>4. \A k \in DOMAIN control' : control'[k].op = "Send" => control'[k].id < next_conn_id'
  BY <1>1 DEF Ownership
<1>5. \A i, j \in DOMAIN connections' : connections'[i].owner = connections'[j].owner => i = j
  BY DEF Ownership
<1>6. \A i, j \in DOMAIN udp_associations' :
         udp_associations'[i].owner = udp_associations'[j].owner => i = j
  BY DEF Ownership
<1>7. \A c \in Clients : phase'[c] \in HasId =>
          /\ \A i \in DOMAIN connections' : connections'[i].owner = c => i = id'[c]
          /\ \A i \in DOMAIN udp_associations' : udp_associations'[i].owner = c => i = id'[c]
  BY DEF Ownership
<1>8. \A c \in Clients : phase'[c] # "open" => sent'[c] = 0
  BY DEF Ownership
<1> QED BY <1>3, <1>4, <1>5, <1>6, <1>7, <1>8 DEF Ownership, Opens

(* Steps of a client that post nothing, or a message of its connection.    *)
LEMMA OwnershipClient ==
  ASSUME IInv, Ownership, UNCHANGED <<connections, udp_associations, next_conn_id>>,
         \/ control' = control
         \/ \E m \in SoundMessage :
               /\ control' = Append(control, m) /\ m.op \notin {"Open", "OpenUdp"}
               /\ m.op = "Send" => m.id < next_conn_id,
         \A c \in Clients :
            /\ phase[c] \in {"opening", "gaveUp"} => phase'[c] \in {"opening", "gaveUp"}
            /\ phase'[c] \in HasId => phase[c] \in HasId /\ id'[c] = id[c]
            /\ phase'[c] # "open" => phase[c] # "open" /\ sent'[c] = sent[c]
  PROVE  Ownership'
<1>1. ASSUME NEW k \in DOMAIN control', control'[k].op \in {"Open", "OpenUdp"}
      PROVE  k \in DOMAIN control /\ control'[k] = control[k]
  BY <1>1, Posted DEF IInv, Mail
<1>2. \A c \in Clients : Unopened(c) => Unopened(c)'
  BY DEF Unopened
<1>3. ASSUME NEW k \in DOMAIN control', NEW c \in Clients, Opens(control'[k], c)
      PROVE  Unopened(c)' /\ \A j \in DOMAIN control' : Opens(control'[j], c) => j = k
  <2>1. k \in DOMAIN control /\ Opens(control[k], c)
    BY <1>1, <1>3 DEF Opens
  <2>2. Unopened(c) /\ \A j \in DOMAIN control : Opens(control[j], c) => j = k
    BY <2>1 DEF Ownership
  <2>3. ASSUME NEW j \in DOMAIN control', Opens(control'[j], c) PROVE j = k
    BY <1>1, <2>2, <2>3 DEF Opens
  <2> QED BY <1>2, <2>2, <2>3
<1>4. \A k \in DOMAIN control' : control'[k].op = "Send" => control'[k].id < next_conn_id'
  BY Posted DEF Ownership, IInv, Mail
<1>5. \A c \in Clients : phase'[c] \in HasId =>
          /\ \A i \in DOMAIN connections' : connections'[i].owner = c => i = id'[c]
          /\ \A i \in DOMAIN udp_associations' : udp_associations'[i].owner = c => i = id'[c]
  BY DEF Ownership
<1>6. \A c \in Clients : phase'[c] # "open" => sent'[c] = 0
  BY DEF Ownership
<1>7. /\ \A i, j \in DOMAIN connections' : connections'[i].owner = connections'[j].owner => i = j
      /\ \A i, j \in DOMAIN udp_associations' :
            udp_associations'[i].owner = udp_associations'[j].owner => i = j
  BY DEF Ownership
<1> QED BY <1>3, <1>4, <1>5, <1>6, <1>7 DEF Ownership, Opens

LEMMA RequestOwnership ==
  ASSUME IInv, Ownership, NEW c \in Clients, RequestOpen(c)
  PROVE  Ownership'
<1>1. PICK m : m = [op |-> IF c \in TcpClients THEN "Open" ELSE "OpenUdp", client |-> c]
  OBVIOUS
<1>2. /\ phase[c] = "idle" /\ phase' = [phase EXCEPT ![c] = "opening"]
      /\ control' = Append(control, m)
      /\ UNCHANGED <<id, sent, connections, udp_associations, next_conn_id>>
  BY <1>1 DEF RequestOpen, Post, tableVars, allocVars
<1>3. m \in SoundMessage /\ \A d \in Clients : Opens(m, d) <=> d = c
  <2>1. m.op \in {"Open", "OpenUdp"} /\ m.op # "Send" /\ m.client = c
    BY <1>1
  <2>2. m \in Messages
    BY <1>1 DEF Messages, Clients
  <2> QED BY <2>1, <2>2 DEF SoundMessage, Opens
<1>4. phase \in [Clients -> Phases]
  BY DEF IInv, ClientsOK
<1>5. /\ \A i \in DOMAIN connections : connections[i].owner # c
      /\ \A i \in DOMAIN udp_associations : udp_associations[i].owner # c
  BY <1>2 DEF IInv, Causes
<1>6. Unopened(c)'
  BY <1>2, <1>4, <1>5 DEF Unopened
<1>7. \A d \in Clients : Unopened(d) => Unopened(d)' /\ d # c
  BY <1>2, <1>4 DEF Unopened
<1>8. \A k \in DOMAIN control' :
         \/ k \in DOMAIN control /\ control'[k] = control[k]
         \/ k = Len(control) + 1 /\ control'[k] = m
  BY <1>2, <1>3, Posted DEF IInv, Mail
<1>9. ASSUME NEW k \in DOMAIN control', NEW d \in Clients, Opens(control'[k], d)
      PROVE  Unopened(d)' /\ \A j \in DOMAIN control' : Opens(control'[j], d) => j = k
  <2>1. \A j \in DOMAIN control : Opens(control[j], d) => Unopened(d) /\ d # c
    BY <1>7 DEF Ownership
  <2>2. CASE d = c
    BY <1>3, <1>6, <1>8, <1>9, <2>1, <2>2
  <2>3. CASE d # c
    <3>1. \A j \in DOMAIN control' :
             Opens(control'[j], d) => j \in DOMAIN control /\ Opens(control[j], d)
      BY <1>3, <1>8, <2>3
    <3>2. k \in DOMAIN control /\ Opens(control[k], d)
      BY <1>9, <3>1
    <3>3. Unopened(d) /\ \A j \in DOMAIN control : Opens(control[j], d) => j = k
      BY <3>2 DEF Ownership
    <3> QED BY <1>7, <3>1, <3>3
  <2> QED BY <2>2, <2>3
<1>10. \A k \in DOMAIN control' : control'[k].op = "Send" => control'[k].id < next_conn_id'
  BY <1>1, <1>2, <1>8 DEF Ownership
<1>11. \A d \in Clients : phase'[d] \in HasId => phase[d] \in HasId /\ d # c
  BY <1>2, <1>4 DEF HasId
<1>12. \A d \in Clients : phase'[d] # "open" => phase[d] # "open"
  BY <1>2, <1>4
<1>13. \A d \in Clients : phase'[d] # "open" => sent'[d] = 0
  BY <1>2, <1>12 DEF Ownership
<1>14. \A d \in Clients : phase'[d] \in HasId =>
          /\ \A i \in DOMAIN connections' : connections'[i].owner = d => i = id'[d]
          /\ \A i \in DOMAIN udp_associations' : udp_associations'[i].owner = d => i = id'[d]
  BY <1>2, <1>11 DEF Ownership
<1>15. /\ \A i, j \in DOMAIN connections' : connections'[i].owner = connections'[j].owner => i = j
       /\ \A i, j \in DOMAIN udp_associations' :
             udp_associations'[i].owner = udp_associations'[j].owner => i = j
  BY <1>2 DEF Ownership
<1> QED BY <1>9, <1>10, <1>13, <1>14, <1>15 DEF Ownership, Opens

(* A request to open is handled.                                           *)
LEMMA OwnershipOpened ==
  ASSUME IInv, Ownership, NEW c \in Clients, control # <<>>, control' = Tail(control),
         Opens(Head(control), c), sent' = sent, next_conn_id' \in {next_conn_id, next_conn_id + 1},
         \A d \in Clients : d # c => phase'[d] = phase[d] /\ id'[d] = id[d],
         phase'[c] \in {"opening", "gaveUp", "replied", "refused"},
         phase'[c] \in HasId => id'[c] = next_conn_id,
         \A i \in DOMAIN connections' :
            \/ i \in DOMAIN connections /\ connections'[i].owner = connections[i].owner
            \/ i = next_conn_id /\ connections'[i].owner = c,
         \A i \in DOMAIN udp_associations' :
            \/ i \in DOMAIN udp_associations /\ udp_associations'[i].owner = udp_associations[i].owner
            \/ i = next_conn_id /\ udp_associations'[i].owner = c
  PROVE  Ownership'
<1>1. \A k \in DOMAIN control' : k \in Nat /\ k + 1 \in DOMAIN control /\ control'[k] = control[k + 1]
  BY Shifted DEF IInv, Mail
<1>2. Head(control) = control[1] /\ 1 \in DOMAIN control
  BY TailIs DEF IInv, Mail, Sound
<1>3. Unopened(c) /\ \A j \in DOMAIN control : Opens(control[j], c) => j = 1
  BY <1>2 DEF Ownership
<1>4. \A k \in DOMAIN control' : ~Opens(control'[k], c)
  <2> SUFFICES ASSUME NEW k \in DOMAIN control', Opens(control'[k], c) PROVE FALSE
    OBVIOUS
  <2>1. k + 1 = 1 /\ k \in Nat
    BY <1>1, <1>3
  <2>2. k = 0 /\ 0 \in DOMAIN control'
    BY <2>1
  <2>3. DOMAIN control' = 1 .. Len(control) - 1
    BY TailIs DEF IInv, Mail, Sound
  <2> QED BY <2>2, <2>3
<1>5. \A d \in Clients : d # c /\ Unopened(d) => Unopened(d)'
  BY DEF Unopened
<1>6. ASSUME NEW k \in DOMAIN control', NEW d \in Clients, Opens(control'[k], d)
      PROVE  Unopened(d)' /\ \A j \in DOMAIN control' : Opens(control'[j], d) => j = k
  <2>1. d # c /\ k + 1 \in DOMAIN control /\ Opens(control[k + 1], d)
    BY <1>1, <1>4, <1>6
  <2>2. Unopened(d) /\ \A j \in DOMAIN control : Opens(control[j], d) => j = k + 1
    BY <2>1 DEF Ownership
  <2>3. ASSUME NEW j \in DOMAIN control', Opens(control'[j], d) PROVE j = k
    <3>1. j + 1 = k + 1 /\ j \in Nat /\ k \in Nat
      BY <1>1, <2>2, <2>3
    <3> QED BY <3>1
  <2> QED BY <1>5, <2>1, <2>2, <2>3
<1>7. next_conn_id \in Nat
  BY DEF IInv, Tables, Entries
<1>8. \A k \in DOMAIN control' : control'[k].op = "Send" => control'[k].id < next_conn_id'
  <2> SUFFICES ASSUME NEW k \in DOMAIN control', control'[k].op = "Send"
               PROVE  control'[k].id < next_conn_id'
    OBVIOUS
  <2>1. PICK m : m = control[k + 1]
    OBVIOUS
  <2>2. m.op = "Send" /\ m.id < next_conn_id /\ m \in SoundMessage /\ m = control'[k]
    BY <1>1, <2>1, LenProperties DEF Ownership, IInv, Mail, Sound
  <2>3. m.id \in Nat
    BY <2>2, MessageFields
  <2> QED BY <1>7, <2>2, <2>3
<1>9. \A i \in DOMAIN connections : connections[i].owner # c
  BY <1>3 DEF Unopened
<1>10. \A i \in DOMAIN udp_associations : udp_associations[i].owner # c
  BY <1>3 DEF Unopened
<1>11. \A i, j \in DOMAIN connections' : connections'[i].owner = connections'[j].owner => i = j
  BY <1>9 DEF Ownership
<1>12. \A i, j \in DOMAIN udp_associations' :
          udp_associations'[i].owner = udp_associations'[j].owner => i = j
  BY <1>10 DEF Ownership
<1>13. ASSUME NEW d \in Clients, phase'[d] \in HasId
       PROVE  /\ \A i \in DOMAIN connections' : connections'[i].owner = d => i = id'[d]
              /\ \A i \in DOMAIN udp_associations' : udp_associations'[i].owner = d => i = id'[d]
  <2>1. CASE d = c
    BY <1>9, <1>10, <1>13, <2>1
  <2>2. CASE d # c
    BY <1>13, <2>2 DEF Ownership
  <2> QED BY <2>1, <2>2
<1>14. \A d \in Clients : phase'[d] # "open" => sent'[d] = 0
  <2>1. phase[c] # "open"
    BY <1>3 DEF Unopened
  <2> QED BY <2>1 DEF Ownership
<1> QED BY <1>6, <1>8, <1>11, <1>12, <1>13, <1>14 DEF Ownership, Opens

-----------------------------------------------------------------------------
(* What the handlers of a message do.                                      *)
LEMMA ReplyDoes ==
  ASSUME ClientsOK, NEW c \in Clients, phase[c] \in {"opening", "gaveUp"},
         NEW answer, NEW i, Reply(c, answer, i)
  PROVE  /\ \A d \in Clients : d # c => phase'[d] = phase[d] /\ id'[d] = id[d]
         /\ \/ phase'[c] = "gaveUp"
            \/ phase'[c] = answer /\ id'[c] = i
<1>1. CASE phase[c] = "opening"
  <2>1. phase' = [phase EXCEPT ![c] = answer] /\ id' = [id EXCEPT ![c] = i]
    BY <1>1 DEF Reply
  <2> QED BY <2>1 DEF ClientsOK
<1>2. CASE phase[c] # "opening"
  BY <1>2 DEF Reply
<1> QED BY <1>1, <1>2

LEMMA OpenDoes ==
  ASSUME IInv, Ownership, HandleOpen
  PROVE  LET c == Head(control).client
             n == next_conn_id
             h == connections'[n].handle IN
         /\ c \in Clients /\ Unopened(c) /\ Opens(Head(control), c)
         /\ control # <<>> /\ control' = Tail(control)
         /\ UNCHANGED <<sent, closed, listening, got, delivered, udp_associations>>
         /\ n' \in {n, n + 1}
         /\ \A d \in Clients : d # c => phase'[d] = phase[d] /\ id'[d] = id[d]
         /\ phase'[c] \in {"opening", "gaveUp", "replied", "refused"}
         /\ phase'[c] \in HasId => id'[c] = n
         /\ \/ connections' = connections /\ sockets' = sockets
            \/ /\ DOMAIN connections' = DOMAIN connections \cup {n}
               /\ \A j \in DOMAIN connections : connections'[j] = connections[j]
               /\ connections'[n].owner = c /\ connections'[n].pending_send = <<>>
               /\ sockets'[h].rx = 0 /\ sockets'[h].taken = 0
               /\ \A g \in DOMAIN sockets : sockets'[g] = sockets[g]
<1>1. PICK c : c = Head(control).client /\ c \in TcpClients /\ c \in Clients
  BY HeadIsSound, MessageFields DEF HandleOpen, IInv, Mail, Clients
<1>2. /\ control # <<>> /\ control' = Tail(control) /\ Head(control).op = "Open"
      /\ UNCHANGED <<sent, closed, listening, got, delivered, udp_associations>>
  BY DEF HandleOpen, Receive, flowVars
<1>3. Opens(Head(control), c)
  BY <1>1, <1>2 DEF Opens
<1>4. Unopened(c)
  <2>1. Head(control) = control[1] /\ 1 \in DOMAIN control
    BY <1>2, TailIs DEF IInv, Mail, Sound
  <2> QED BY <1>1, <1>3, <2>1 DEF Ownership
<1>5. ClientsOK /\ phase[c] \in {"opening", "gaveUp"} /\ NewId = next_conn_id
  BY <1>4 DEF IInv, Unopened, NewId
<1>6. PICK h \in Handles \ DOMAIN sockets :
          \/ /\ sockets' = With(sockets, h,
                     [state |-> "SynSent", tx |-> 0, rx |-> 0, taken |-> 0,
                      port |-> next_local_port, born |-> allocations])
             /\ connections' = With(connections, NewId, NewEntry(h, c))
             /\ next_conn_id' = next_conn_id + 1
             /\ Reply(c, "replied", NewId)
          \/ /\ Reply(c, "refused", NoId)
             /\ UNCHANGED <<sockets, connections, next_conn_id>>
  BY <1>1 DEF HandleOpen
<1>7. CASE Reply(c, "refused", NoId) /\ UNCHANGED <<sockets, connections, next_conn_id>>
  <2>1. /\ \A d \in Clients : d # c => phase'[d] = phase[d] /\ id'[d] = id[d]
        /\ phase'[c] = "gaveUp" \/ (phase'[c] = "refused" /\ id'[c] = NoId)
    BY <1>1, <1>5, <1>7, ReplyDoes
  <2>2. phase'[c] \notin HasId
    BY <2>1 DEF HasId
  <2> QED BY <1>1, <1>2, <1>3, <1>4, <1>7, <2>1, <2>2
<1>8. CASE /\ sockets' = With(sockets, h,
                     [state |-> "SynSent", tx |-> 0, rx |-> 0, taken |-> 0,
                      port |-> next_local_port, born |-> allocations])
           /\ connections' = With(connections, NewId, NewEntry(h, c))
           /\ next_conn_id' = next_conn_id + 1
           /\ Reply(c, "replied", NewId)
  <2>1. /\ \A d \in Clients : d # c => phase'[d] = phase[d] /\ id'[d] = id[d]
        /\ phase'[c] = "gaveUp" \/ (phase'[c] = "replied" /\ id'[c] = NewId)
    BY <1>1, <1>5, <1>8, ReplyDoes
  <2>2. phase'[c] \in HasId => id'[c] = next_conn_id
    BY <1>5, <2>1 DEF HasId
  <2>3. /\ sockets'[h].rx = 0 /\ sockets'[h].taken = 0
        /\ \A g \in DOMAIN sockets : sockets'[g] = sockets[g]
    BY <1>6, <1>8 DEF With
  <2>4. /\ DOMAIN connections' = DOMAIN connections \cup {next_conn_id}
        /\ connections'[next_conn_id] = NewEntry(h, c)
        /\ \A j \in DOMAIN connections : j # next_conn_id => connections'[j] = connections[j]
    BY <1>5, <1>8 DEF With
  <2>5. next_conn_id \notin DOMAIN connections
    BY DEF IInv, Tables, Entries
  <2>6. /\ connections'[next_conn_id].owner = c /\ connections'[next_conn_id].handle = h
        /\ connections'[next_conn_id].pending_send = <<>>
    BY <2>4 DEF NewEntry
  <2> QED BY <1>1, <1>2, <1>3, <1>4, <1>8, <2>1, <2>2, <2>3, <2>4, <2>5, <2>6
<1> QED BY <1>6, <1>7, <1>8

LEMMA OpenUdpDoes ==
  ASSUME IInv, Ownership, HandleOpenUdp
  PROVE  LET c == Head(control).client
             n == next_conn_id
             h == udp_associations'[n].handle IN
         /\ c \in Clients /\ Unopened(c) /\ Opens(Head(control), c)
         /\ control # <<>> /\ control' = Tail(control)
         /\ UNCHANGED <<sent, closed, listening, got, delivered, connections>>
         /\ n' = n + 1
         /\ \A d \in Clients : d # c => phase'[d] = phase[d] /\ id'[d] = id[d]
         /\ phase'[c] \in {"opening", "gaveUp", "replied", "refused"}
         /\ phase'[c] \in HasId => id'[c] = n
         /\ DOMAIN udp_associations' = DOMAIN udp_associations \cup {n}
         /\ \A j \in DOMAIN udp_associations : udp_associations'[j] = udp_associations[j]
         /\ udp_associations'[n].owner = c
         /\ sockets'[h].rx = 0
         /\ \A g \in DOMAIN sockets : sockets'[g] = sockets[g]
<1>1. PICK c : c = Head(control).client /\ c \in UdpClients /\ c \in Clients
  BY HeadIsSound, MessageFields DEF HandleOpenUdp, IInv, Mail, Clients
<1>2. /\ control # <<>> /\ control' = Tail(control) /\ Head(control).op = "OpenUdp"
      /\ UNCHANGED <<sent, closed, listening, got, delivered, connections>>
  BY DEF HandleOpenUdp, Receive, flowVars
<1>3. Opens(Head(control), c)
  BY <1>1, <1>2 DEF Opens
<1>4. Unopened(c)
  <2>1. Head(control) = control[1] /\ 1 \in DOMAIN control
    BY <1>2, TailIs DEF IInv, Mail, Sound
  <2> QED BY <1>1, <1>3, <2>1 DEF Ownership
<1>5. ClientsOK /\ phase[c] \in {"opening", "gaveUp"} /\ NewId = next_conn_id
  BY <1>4 DEF IInv, Unopened, NewId
<1>6. PICK h \in Handles \ DOMAIN sockets :
          /\ sockets' = With(sockets, h,
                  [tx |-> 0, rx |-> 0, port |-> next_local_port, born |-> allocations])
          /\ udp_associations' = With(udp_associations, NewId, NewEntry(h, c))
          /\ next_conn_id' = next_conn_id + 1
          /\ Reply(c, "replied", NewId)
  BY <1>1 DEF HandleOpenUdp
<1>7. /\ \A d \in Clients : d # c => phase'[d] = phase[d] /\ id'[d] = id[d]
      /\ phase'[c] = "gaveUp" \/ (phase'[c] = "replied" /\ id'[c] = NewId)
  BY <1>1, <1>5, <1>6, ReplyDoes
<1>8. phase'[c] \in HasId => id'[c] = next_conn_id
  BY <1>5, <1>7 DEF HasId
<1>9. sockets'[h].rx = 0 /\ \A g \in DOMAIN sockets : sockets'[g] = sockets[g]
  BY <1>6 DEF With
<1>10. /\ DOMAIN udp_associations' = DOMAIN udp_associations \cup {next_conn_id}
       /\ udp_associations'[next_conn_id] = NewEntry(h, c)
       /\ \A j \in DOMAIN udp_associations :
             j # next_conn_id => udp_associations'[j] = udp_associations[j]
  BY <1>5, <1>6 DEF With
<1>11. next_conn_id \notin DOMAIN udp_associations
  BY DEF IInv, Tables, Entries
<1>12. udp_associations'[next_conn_id].owner = c /\ udp_associations'[next_conn_id].handle = h
  BY <1>10 DEF NewEntry
<1> QED BY <1>1, <1>2, <1>3, <1>4, <1>6, <1>7, <1>8, <1>9, <1>10, <1>11, <1>12

(* Send, SendUdp, Close and CloseUdp, TunnelPacket.                        *)
HandlesEntry == HandleSend \/ HandleSendUdp \/ HandleClose \/ HandleCloseUdp \/ HandleTunnelPacket

LEMMA HandlersDo ==
  ASSUME Tables, Sound, HandlesEntry
  PROVE  /\ control # <<>> /\ control' = Tail(control)
         /\ UNCHANGED <<clientVars, flowVars, sockets, allocVars>>
         /\ DOMAIN connections' = DOMAIN connections
         /\ DOMAIN udp_associations' = DOMAIN udp_associations
         /\ \A j \in DOMAIN connections : /\ connections'[j].owner = connections[j].owner
                                          /\ connections'[j].handle = connections[j].handle
         /\ \A j \in DOMAIN udp_associations :
               /\ udp_associations'[j].owner = udp_associations[j].owner
               /\ udp_associations'[j].handle = udp_associations[j].handle
         /\ \A j \in DOMAIN connections : connections'[j].pending_send =
               IF Head(control).op = "Send" /\ Head(control).id = j
               THEN Append(connections[j].pending_send, Head(control).data)
               ELSE connections[j].pending_send
<1>1. PICK m, i : m = Head(control) /\ i = m.id
  OBVIOUS
<1>2. /\ control # <<>> /\ control' = Tail(control)
      /\ UNCHANGED <<clientVars, flowVars, sockets, allocVars>>
  BY DEF HandlesEntry, HandleSend, HandleSendUdp, HandleClose, HandleCloseUdp, HandleTunnelPacket,
         Receive, tableVars
<1>3. /\ \A j \in DOMAIN connections : connections[j] \in ConnectionState
      /\ \A j \in DOMAIN udp_associations : udp_associations[j] \in UdpAssociationState
  BY DEF Tables, Entries, Connection
<1>4. CASE HandleSend
  <2>1. m.op = "Send" /\ udp_associations' = udp_associations
    BY <1>1, <1>4 DEF HandleSend, Receive
  <2>2. PICK q : i \in DOMAIN connections => q = Append(connections[i].pending_send, m.data)
    OBVIOUS
  <2>3. connections' = IF i \in DOMAIN connections
                       THEN [connections EXCEPT ![i].pending_send = q] ELSE connections
    BY <1>1, <1>4, <2>2 DEF HandleSend
  <2>4. /\ DOMAIN connections' = DOMAIN connections
        /\ \A j \in DOMAIN connections :
              /\ connections'[j].owner = connections[j].owner
              /\ connections'[j].handle = connections[j].handle
              /\ connections'[j].pending_send = IF i = j THEN q ELSE connections[j].pending_send
    BY <1>3, <2>3 DEF ConnectionState
  <2> QED BY <1>1, <1>2, <2>1, <2>2, <2>4
<1>5. CASE HandleSendUdp
  <2>1. m.op # "Send" /\ connections' = connections
    BY <1>1, <1>5 DEF HandleSendUdp, Receive
  <2>2. PICK q : i \in DOMAIN udp_associations => q = Append(udp_associations[i].pending_send, m.data)
    OBVIOUS
  <2>3. udp_associations' = IF i \in DOMAIN udp_associations
                            THEN [udp_associations EXCEPT ![i].pending_send = q]
                            ELSE udp_associations
    BY <1>1, <1>5, <2>2 DEF HandleSendUdp
  <2>4. /\ DOMAIN udp_associations' = DOMAIN udp_associations
        /\ \A j \in DOMAIN udp_associations :
              /\ udp_associations'[j].owner = udp_associations[j].owner
              /\ udp_associations'[j].handle = udp_associations[j].handle
    BY <1>3, <2>3 DEF UdpAssociationState
  <2> QED BY <1>1, <1>2, <2>1, <2>4
<1>6. CASE HandleClose
  <2>1. m.op # "Send" /\ udp_associations' = udp_associations
    BY <1>1, <1>6 DEF HandleClose, Receive
  <2>2. connections' = IF i \in DOMAIN connections
                       THEN [connections EXCEPT ![i].close_requested = TRUE] ELSE connections
    BY <1>1, <1>6 DEF HandleClose
  <2>3. /\ DOMAIN connections' = DOMAIN connections
        /\ \A j \in DOMAIN connections :
              /\ connections'[j].owner = connections[j].owner
              /\ connections'[j].handle = connections[j].handle
              /\ connections'[j].pending_send = connections[j].pending_send
    BY <1>3, <2>2 DEF ConnectionState
  <2> QED BY <1>1, <1>2, <2>1, <2>3
<1>7. CASE HandleCloseUdp
  <2>1. m.op # "Send" /\ connections' = connections
    BY <1>1, <1>7 DEF HandleCloseUdp, Receive
  <2>2. udp_associations' = IF i \in DOMAIN udp_associations
                            THEN [udp_associations EXCEPT ![i].close_requested = TRUE]
                            ELSE udp_associations
    BY <1>1, <1>7 DEF HandleCloseUdp
  <2>3. /\ DOMAIN udp_associations' = DOMAIN udp_associations
        /\ \A j \in DOMAIN udp_associations :
              /\ udp_associations'[j].owner = udp_associations[j].owner
              /\ udp_associations'[j].handle = udp_associations[j].handle
    BY <1>3, <2>2 DEF UdpAssociationState
  <2> QED BY <1>1, <1>2, <2>1, <2>3
<1>8. CASE HandleTunnelPacket
  <2>1. m.op # "Send" /\ connections' = connections /\ udp_associations' = udp_associations
    BY <1>1, <1>8 DEF HandleTunnelPacket, Receive, tableVars
  <2> QED BY <1>1, <1>2, <2>1
<1> QED BY <1>4, <1>5, <1>6, <1>7, <1>8 DEF HandlesEntry

-----------------------------------------------------------------------------
(* What a client's send posts.                                             *)
LEMMA ClientSendDoes ==
  ASSUME ClientsOK, NEW c \in Clients, ClientSend(c)
  PROVE  /\ UNCHANGED <<phase, id, listening, flowVars, loopVars, tableVars, allocVars>>
         /\ phase[c] = "open"
         /\ \E m \in SoundMessage :
               /\ control' = Append(control, m)
               /\ \/ /\ m.op = "Send" /\ m.id = id[c] /\ c \in TcpClients
                     /\ m.data[1] = sent[c]
                     /\ sent' = [sent EXCEPT ![c] = m.data[2]]
                  \/ /\ m.op = "SendUdp" /\ c \in UdpClients
                     /\ \A d \in Clients \ {c} : sent'[d] = sent[d]
<1>1. /\ UNCHANGED <<phase, id, listening, flowVars, loopVars, tableVars, allocVars>>
      /\ phase[c] = "open"
  BY DEF ClientSend
<1>2. sent \in [Clients -> Nat] /\ id[c] \in Nat /\ ChunkLen \in Nat
  BY <1>1, NetstackAssumption DEF ClientsOK, HasId
<1>3. CASE /\ c \in TcpClients
           /\ Post([op |-> "Send", id |-> id[c], data |-> <<sent[c], sent[c] + ChunkLen>>])
           /\ sent' = [sent EXCEPT ![c] = @ + ChunkLen]
  <2>1. PICK a, b : a = sent[c] /\ b = sent[c] + ChunkLen /\ a \in Nat /\ b \in Nat /\ a <= b
    BY <1>2
  <2> PICK m : m = [op |-> "Send", id |-> id[c], data |-> <<a, b>>]
    OBVIOUS
  <2>2. <<a, b>> \in OrderedChunk
    BY <2>1 DEF OrderedChunk, Chunk
  <2>3. m \in SoundMessage /\ m.op = "Send" /\ m.id = id[c] /\ m.data[1] = a /\ m.data[2] = b
    BY <1>2, <2>1, <2>2 DEF SoundMessage, Messages, OrderedChunk
  <2>4. control' = Append(control, m) /\ sent' = [sent EXCEPT ![c] = b]
    BY <1>3, <2>1 DEF Post
  <2> QED BY <1>1, <1>3, <2>1, <2>3, <2>4
<1>4. ASSUME NEW d \in Datagram, Post([op |-> "SendUdp", id |-> id[c], data |-> d]),
             c \in UdpClients, sent' = [sent EXCEPT ![c] = @ + 1]
      PROVE  \E m \in SoundMessage :
                /\ control' = Append(control, m)
                /\ m.op = "SendUdp" /\ c \in UdpClients
                /\ \A e \in Clients \ {c} : sent'[e] = sent[e]
  <2>1. PICK m : m = [op |-> "SendUdp", id |-> id[c], data |-> d]
    OBVIOUS
  <2>2. m \in SoundMessage /\ m.op = "SendUdp"
    BY <1>2, <2>1 DEF SoundMessage, Messages
  <2> QED BY <1>2, <1>4, <2>1, <2>2 DEF Post
<1> QED BY <1>1, <1>3, <1>4 DEF ClientSend

LEMMA ClientCloseDoes ==
  ASSUME ClientsOK, NEW c \in Clients, ClientClose(c)
  PROVE  /\ UNCHANGED <<phase, id, sent, listening, flowVars, loopVars, tableVars, allocVars>>
         /\ \E m \in SoundMessage :
               control' = Append(control, m) /\ m.op \in {"Close", "CloseUdp"}
<1>1. PICK m : m = [op |-> IF c \in TcpClients THEN "Close" ELSE "CloseUdp", id |-> id[c]]
  OBVIOUS
<1>2. /\ UNCHANGED <<phase, id, sent, listening, flowVars, loopVars, tableVars, allocVars>>
      /\ phase[c] = "open" /\ control' = Append(control, m)
  BY <1>1 DEF ClientClose, Post
<1>3. id[c] \in Nat
  BY <1>2 DEF ClientsOK, HasId
<1>4. m \in SoundMessage /\ m.op \in {"Close", "CloseUdp"}
  BY <1>1, <1>3 DEF SoundMessage, Messages
<1> QED BY <1>2, <1>4

LEMMA ForwardDoes ==
  ASSUME ForwardTunnelPacket
  PROVE  /\ UNCHANGED <<clientVars, flowVars, loopVars, tableVars, allocVars>>
         /\ \E m \in SoundMessage : control' = Append(control, m) /\ m.op = "TunnelPacket"
<1>1. PICK m : m = [op |-> "TunnelPacket"]
  OBVIOUS
<1>2. m \in SoundMessage /\ m.op = "TunnelPacket"
  BY <1>1 DEF SoundMessage, Messages
<1> QED BY <1>1, <1>2 DEF ForwardTunnelPacket, Post

(* The steps that post nothing and change only what a client knows.        *)
LEMMA OpenEndsDo ==
  ASSUME ClientsOK, NEW c \in Clients, OpenReturns(c) \/ OpenTimesOut(c) \/ DropReceiver(c)
  PROVE  /\ UNCHANGED <<control, sent, flowVars, loopVars, tableVars, allocVars>>
         /\ \A d \in Clients :
               /\ phase[d] \in {"opening", "gaveUp"} => phase'[d] \in {"opening", "gaveUp"}
               /\ phase'[d] \in HasId => phase[d] \in HasId /\ id'[d] = id[d]
               /\ phase'[d] # "open" => phase[d] # "open"
               /\ listening'[d] => listening[d]
               /\ phase'[d] = "idle" => phase[d] = "idle"
<1>1. CASE OpenReturns(c)
  BY <1>1 DEF OpenReturns, ClientsOK, HasId
<1>2. CASE OpenTimesOut(c)
  <2>1. /\ phase[c] \in {"opening", "replied"} /\ phase' = [phase EXCEPT ![c] = "gaveUp"]
        /\ id' = [id EXCEPT ![c] = NoId] /\ listening' = [listening EXCEPT ![c] = FALSE]
    BY <1>2 DEF OpenTimesOut
  <2>2. /\ phase'[c] = "gaveUp" /\ listening'[c] = FALSE
        /\ \A d \in Clients \ {c} :
              phase'[d] = phase[d] /\ id'[d] = id[d] /\ listening'[d] = listening[d]
    BY <2>1 DEF ClientsOK
  <2> QED BY <1>2, <2>1, <2>2 DEF OpenTimesOut, HasId
<1>3. CASE DropReceiver(c)
  <2>1. \A d \in Clients : listening'[d] => listening[d]
    BY <1>3 DEF DropReceiver, ClientsOK
  <2> QED BY <1>3, <2>1 DEF DropReceiver
<1> QED BY <1>1, <1>2, <1>3

LEMMA InitOwnership == Init => Ownership
BY DEF Init, Ownership, Unopened, HasId

(* A turn that serves the entry of i keeps the owners.                     *)
LEMMA OwnersKept ==
  ASSUME NEW i, Only(i),
         i \in DOMAIN connections' =>
            i \in DOMAIN connections /\ connections'[i].owner = connections[i].owner,
         i \in DOMAIN udp_associations' =>
            i \in DOMAIN udp_associations /\ udp_associations'[i].owner = udp_associations[i].owner
  PROVE  /\ \A j \in DOMAIN connections' :
               j \in DOMAIN connections /\ connections'[j].owner = connections[j].owner
         /\ \A j \in DOMAIN udp_associations' :
               /\ j \in DOMAIN udp_associations
               /\ udp_associations'[j].owner = udp_associations[j].owner
BY DEF Only

LEMMA DriveOwners ==
  ASSUME IInv, NEW i \in todo, Drive(i)
  PROVE  /\ \A j \in DOMAIN connections' :
               j \in DOMAIN connections /\ connections'[j].owner = connections[j].owner
         /\ \A j \in DOMAIN udp_associations' :
               /\ j \in DOMAIN udp_associations
               /\ udp_associations'[j].owner = udp_associations[j].owner
<1>1. Tables /\ i \in Live /\ listening \in [Clients -> BOOLEAN]
  BY DEF IInv, LoopOK, ClientsOK
<1>2. CASE PumpPendingSend(i)
  BY <1>1, <1>2, PumpDoes, OwnersKept
<1>3. CASE PumpPendingUdpSend(i)
  BY <1>1, <1>3, PumpUdpDoes, OwnersKept
<1>4. CASE FinishConnection(i)
  <2>1. /\ Only(i) /\ i \in DOMAIN connections /\ udp_associations' = udp_associations
        /\ \/ connections' = Without(connections, i)
           \/ connections'[i].owner = connections[i].owner
    BY <1>1, <1>4, FinishDoes
  <2>2. i \in DOMAIN connections' => connections'[i].owner = connections[i].owner
    BY <2>1 DEF Without
  <2> QED BY <2>1, <2>2, OwnersKept
<1>5. CASE FinishAssociation(i)
  <2>1. /\ Only(i) /\ i \in DOMAIN udp_associations /\ connections' = connections
        /\ \/ udp_associations' = Without(udp_associations, i)
           \/ udp_associations' = udp_associations
    BY <1>1, <1>5, FinishUdpDoes
  <2>2. i \in DOMAIN udp_associations' => udp_associations'[i].owner = udp_associations[i].owner
    BY <2>1 DEF Without
  <2> QED BY <2>1, <2>2, OwnersKept
<1> QED BY <1>2, <1>3, <1>4, <1>5 DEF Drive

LEMMA ClientOwnership ==
  ASSUME IInv, Ownership, NEW c \in Clients, ClientStep(c)
  PROVE  Ownership'
<1>1. ClientsOK
  BY DEF IInv
<1>2. CASE RequestOpen(c)
  BY <1>2, RequestOwnership
<1>3. CASE OpenReturns(c) \/ OpenTimesOut(c) \/ DropReceiver(c)
  <2>1. /\ UNCHANGED <<control, sent, connections, udp_associations, next_conn_id>>
        /\ \A d \in Clients :
               /\ phase[d] \in {"opening", "gaveUp"} => phase'[d] \in {"opening", "gaveUp"}
               /\ phase'[d] \in HasId => phase[d] \in HasId /\ id'[d] = id[d]
               /\ phase'[d] # "open" => phase[d] # "open"
    BY <1>1, <1>3, OpenEndsDo DEF tableVars, allocVars
  <2> QED BY <2>1, OwnershipClient
<1>4. CASE ClientSend(c)
  <2>1. PICK m \in SoundMessage :
          /\ control' = Append(control, m)
          /\ \/ m.op = "Send" /\ m.id = id[c] /\ sent' = [sent EXCEPT ![c] = m.data[2]]
             \/ m.op = "SendUdp" /\ \A d \in Clients \ {c} : sent'[d] = sent[d]
    BY <1>1, <1>4, ClientSendDoes
  <2>2. /\ UNCHANGED <<phase, id, connections, udp_associations, next_conn_id>>
        /\ phase[c] = "open"
    BY <1>1, <1>4, ClientSendDoes DEF tableVars, allocVars
  <2>3. m.op \notin {"Open", "OpenUdp"} /\ (m.op = "Send" => m.id < next_conn_id)
    BY <1>1, <2>1, <2>2 DEF ClientsOK, HasId
  <2>4. \A d \in Clients \ {c} : sent'[d] = sent[d]
    BY <1>1, <2>1 DEF ClientsOK
  <2>5. \E n \in SoundMessage :
           /\ control' = Append(control, n) /\ n.op \notin {"Open", "OpenUdp"}
           /\ n.op = "Send" => n.id < next_conn_id
    BY <2>1, <2>3
  <2> QED BY <2>2, <2>4, <2>5, OwnershipClient
<1>5. CASE ClientClose(c)
  <2>1. PICK m \in SoundMessage : control' = Append(control, m) /\ m.op \in {"Close", "CloseUdp"}
    BY <1>1, <1>5, ClientCloseDoes
  <2>2. UNCHANGED <<phase, id, sent, connections, udp_associations, next_conn_id>>
    BY <1>1, <1>5, ClientCloseDoes DEF tableVars, allocVars
  <2>3. \E n \in SoundMessage :
           /\ control' = Append(control, n) /\ n.op \notin {"Open", "OpenUdp"}
           /\ n.op = "Send" => n.id < next_conn_id
    BY <2>1
  <2> QED BY <2>2, <2>3, OwnershipClient
<1> QED BY <1>2, <1>3, <1>4, <1>5 DEF ClientStep

LEMMA NextOwnership ==
  ASSUME IInv, Ownership, [Next]_vars
  PROVE  Ownership'
<1>1. Tables /\ Sound /\ ClientsOK
  BY DEF IInv, Mail
<1>2. CASE UNCHANGED vars \/ WaitTimesOut \/ BatchEnds \/ PollEnds \/ DriveEnds
  <2>1. UNCHANGED <<phase, id, sent, next_conn_id, control, connections, udp_associations>>
    BY <1>2 DEF vars, clientVars, tableVars, allocVars, WaitTimesOut, BatchEnds, PollEnds, DriveEnds
  <2> QED BY <2>1, OwnershipKept
<1>3. ASSUME NEW c \in Clients, ClientStep(c) PROVE Ownership'
  BY <1>3, ClientOwnership
<1>4. CASE ForwardTunnelPacket
  <2>1. PICK m \in SoundMessage : control' = Append(control, m) /\ m.op = "TunnelPacket"
    BY <1>4, ForwardDoes
  <2>2. UNCHANGED <<phase, id, sent, connections, udp_associations, next_conn_id>>
    BY <1>4, ForwardDoes DEF clientVars, tableVars, allocVars
  <2>3. \E n \in SoundMessage :
           /\ control' = Append(control, n) /\ n.op \notin {"Open", "OpenUdp"}
           /\ n.op = "Send" => n.id < next_conn_id
    BY <2>1
  <2> QED BY <2>2, <2>3, OwnershipClient
<1>5. CASE HandleOpen
  <2>1. PICK c : c = Head(control).client
    OBVIOUS
  <2>2. /\ c \in Clients /\ Opens(Head(control), c) /\ control # <<>> /\ control' = Tail(control)
        /\ sent' = sent /\ next_conn_id' \in {next_conn_id, next_conn_id + 1}
        /\ udp_associations' = udp_associations
        /\ \A d \in Clients : d # c => phase'[d] = phase[d] /\ id'[d] = id[d]
        /\ phase'[c] \in {"opening", "gaveUp", "replied", "refused"}
        /\ phase'[c] \in HasId => id'[c] = next_conn_id
    BY <1>5, <2>1, OpenDoes
  <2>3. \A i \in DOMAIN connections' :
            \/ i \in DOMAIN connections /\ connections'[i].owner = connections[i].owner
            \/ i = next_conn_id /\ connections'[i].owner = c
    BY <1>5, <2>1, OpenDoes
  <2> QED BY <2>2, <2>3, OwnershipOpened
<1>6. CASE HandleOpenUdp
  <2>1. PICK c : c = Head(control).client
    OBVIOUS
  <2>2. /\ c \in Clients /\ Opens(Head(control), c) /\ control # <<>> /\ control' = Tail(control)
        /\ sent' = sent /\ next_conn_id' \in {next_conn_id, next_conn_id + 1}
        /\ connections' = connections
        /\ \A d \in Clients : d # c => phase'[d] = phase[d] /\ id'[d] = id[d]
        /\ phase'[c] \in {"opening", "gaveUp", "replied", "refused"}
        /\ phase'[c] \in HasId => id'[c] = next_conn_id
    BY <1>6, <2>1, OpenUdpDoes
  <2>3. \A i \in DOMAIN udp_associations' :
            \/ i \in DOMAIN udp_associations /\ udp_associations'[i].owner = udp_associations[i].owner
            \/ i = next_conn_id /\ udp_associations'[i].owner = c
    BY <1>6, <2>1, OpenUdpDoes
  <2> QED BY <2>2, <2>3, OwnershipOpened
<1>7. CASE HandlesEntry
  <2>1. UNCHANGED <<phase, id, sent, next_conn_id>>
    BY <1>1, <1>7, HandlersDo DEF clientVars, allocVars
  <2> QED BY <1>1, <1>7, <2>1, HandlersDo, OwnershipKept
<1>8. ASSUME NEW i \in todo, Drive(i) PROVE Ownership'
  <2>1. UNCHANGED <<phase, id, sent, next_conn_id, control>>
    BY <1>8 DEF Drive, PumpPendingSend, PumpPendingUdpSend, FinishConnection, FinishAssociation,
                clientVars, allocVars
  <2> QED BY <1>8, <2>1, DriveOwners, OwnershipKept
<1>9. ASSUME NEW i, PeerStep(i) PROVE Ownership'
  <2>1. UNCHANGED <<phase, id, sent, next_conn_id, control, connections, udp_associations>>
    BY <1>9 DEF PeerStep, PeerAccepts, PeerFinishes, PeerResets, PeerAnswersFin, TcpStep,
                PeerAcks, PeerSends, PeerSendsUdp, clientVars, allocVars
  <2> QED BY <2>1, OwnershipKept
<1>10. HandleMessage => HandleOpen \/ HandleOpenUdp \/ HandlesEntry
  BY DEF HandleMessage, HandlesEntry
<1> QED BY <1>2, <1>3, <1>4, <1>5, <1>6, <1>7, <1>8, <1>9, <1>10 DEF Next, LoopStep

-----------------------------------------------------------------------------
(* What smoltcp has received for a client is delivered or still unread in  *)
(* the one socket that it has.                                             *)
ReceivedBy(c) ==
    /\ \A i \in DOMAIN connections : connections[i].owner = c =>
          got[c] = delivered[c] + sockets[connections[i].handle].rx
    /\ \A i \in DOMAIN udp_associations : udp_associations[i].owner = c =>
          got[c] = delivered[c] + sockets[udp_associations[i].handle].rx
    /\ \/ got[c] = delivered[c]
       \/ \E i \in DOMAIN connections : connections[i].owner = c
       \/ \E i \in DOMAIN udp_associations : udp_associations[i].owner = c

Received == \A c \in Clients : listening[c] \/ phase[c] = "idle" => ReceivedBy(c)

LEMMA InitReceived == Init => Received
BY DEF Init, Received, ReceivedBy

(* Steps that receive and deliver nothing, and remove no entry.            *)
LEMMA ReceivedKept ==
  ASSUME Received, UNCHANGED <<got, delivered>>,
         \A c \in Clients : listening'[c] \/ phase'[c] = "idle" => listening[c] \/ phase[c] = "idle",
         DOMAIN connections' = DOMAIN connections,
         DOMAIN udp_associations' = DOMAIN udp_associations,
         \A i \in DOMAIN connections :
            /\ connections'[i].owner = connections[i].owner
            /\ sockets'[connections'[i].handle].rx = sockets[connections[i].handle].rx,
         \A i \in DOMAIN udp_associations :
            /\ udp_associations'[i].owner = udp_associations[i].owner
            /\ sockets'[udp_associations'[i].handle].rx = sockets[udp_associations[i].handle].rx
  PROVE  Received'
<1>1. ASSUME NEW c \in Clients, ReceivedBy(c) PROVE ReceivedBy(c)'
  BY <1>1 DEF ReceivedBy
<1> QED BY <1>1 DEF Received

(* The turn of an entry leaves the other clients as they were.             *)
LEMMA OthersReceived ==
  ASSUME NEW i, Only(i), NEW c \in Clients, ReceivedBy(c),
         got'[c] = got[c], delivered'[c] = delivered[c],
         i \in DOMAIN connections => connections[i].owner # c,
         i \in DOMAIN udp_associations => udp_associations[i].owner # c,
         i \in DOMAIN connections' => connections'[i].owner # c,
         i \in DOMAIN udp_associations' => udp_associations'[i].owner # c
  PROVE  ReceivedBy(c)'
BY DEF ReceivedBy, Only

(* The turn of an entry, as its owner sees it.                             *)
LEMMA OwnerReceived ==
  ASSUME IInv, Ownership, NEW i \in DOMAIN connections, Only(i),
         UNCHANGED <<phase, listening, udp_associations>>, NEW c, c = connections[i].owner,
         \A d \in Clients : d # c => got'[d] = got[d] /\ delivered'[d] = delivered[d],
         i \in DOMAIN connections' =>
            /\ connections'[i].owner = c
            /\ listening[c] => got'[c] = delivered'[c] + sockets'[connections'[i].handle].rx,
         i \notin DOMAIN connections' /\ listening[c] => got'[c] = delivered'[c],
         Received
  PROVE  Received'
<1>1. c \in TcpClients /\ c \notin UdpClients /\ phase[c] # "idle"
  BY OwnersAre, NetstackAssumption DEF IInv, Causes
<1>2. \A j \in DOMAIN udp_associations : udp_associations[j].owner # c /\ j # i
  BY <1>1, OwnersAre DEF IInv, Tables, Entries
<1>3. ASSUME NEW d \in Clients, d # c, ReceivedBy(d) PROVE ReceivedBy(d)'
  BY <1>2, <1>3, OthersReceived
<1>4. ASSUME listening[c] PROVE ReceivedBy(c)'
  <2>1. \A j \in DOMAIN connections' : connections'[j].owner = c => j = i
    BY DEF Only, Ownership
  <2> QED BY <1>2, <1>4, <2>1 DEF ReceivedBy
<1> QED BY <1>1, <1>3, <1>4 DEF Received

LEMMA OwnerReceivedUdp ==
  ASSUME IInv, Ownership, NEW i \in DOMAIN udp_associations, Only(i),
         UNCHANGED <<phase, listening, connections>>, NEW c, c = udp_associations[i].owner,
         \A d \in Clients : d # c => got'[d] = got[d] /\ delivered'[d] = delivered[d],
         i \in DOMAIN udp_associations' =>
            /\ udp_associations'[i].owner = c
            /\ listening[c] => got'[c] = delivered'[c] + sockets'[udp_associations'[i].handle].rx,
         i \notin DOMAIN udp_associations' /\ listening[c] => got'[c] = delivered'[c],
         Received
  PROVE  Received'
<1>1. c \in UdpClients /\ c \notin TcpClients /\ phase[c] # "idle"
  BY OwnersAre, NetstackAssumption DEF IInv, Causes
<1>2. \A j \in DOMAIN connections : connections[j].owner # c /\ j # i
  BY <1>1, OwnersAre DEF IInv, Tables, Entries
<1>3. ASSUME NEW d \in Clients, d # c, ReceivedBy(d) PROVE ReceivedBy(d)'
  BY <1>2, <1>3, OthersReceived
<1>4. ASSUME listening[c] PROVE ReceivedBy(c)'
  <2>1. \A j \in DOMAIN udp_associations' : udp_associations'[j].owner = c => j = i
    BY DEF Only, Ownership
  <2> QED BY <1>2, <1>4, <2>1 DEF ReceivedBy
<1> QED BY <1>1, <1>3, <1>4 DEF Received

LEMMA OpenReceived ==
  ASSUME IInv, Ownership, Received, HandleOpen \/ HandleOpenUdp
  PROVE  Received'
<1>1. PICK c, n : c = Head(control).client /\ n = next_conn_id
  OBVIOUS
<1>2. /\ c \in Clients /\ Unopened(c) /\ UNCHANGED <<listening, got, delivered>>
      /\ \A d \in Clients : d # c => phase'[d] = phase[d]
  BY <1>1, OpenDoes, OpenUdpDoes
<1>3. /\ \A j \in DOMAIN connections' : j \in DOMAIN connections \/
            (j = n /\ connections'[j].owner = c /\ sockets'[connections'[j].handle].rx = 0)
      /\ \A j \in DOMAIN connections : /\ j \in DOMAIN connections'
                                       /\ connections'[j] = connections[j]
                                       /\ connections[j].handle \in DOMAIN sockets
      /\ \A g \in DOMAIN sockets : sockets'[g] = sockets[g]
      /\ \A j \in DOMAIN udp_associations' : j \in DOMAIN udp_associations \/
            (j = n /\ udp_associations'[j].owner = c /\ sockets'[udp_associations'[j].handle].rx = 0)
      /\ \A j \in DOMAIN udp_associations : /\ j \in DOMAIN udp_associations'
                                            /\ udp_associations'[j] = udp_associations[j]
                                            /\ udp_associations[j].handle \in DOMAIN sockets
  <2>1. /\ \A j \in DOMAIN connections : connections[j].handle \in DOMAIN sockets
        /\ \A j \in DOMAIN udp_associations : udp_associations[j].handle \in DOMAIN sockets
    BY DEF IInv, Tables, Owned
  <2>2. CASE HandleOpen
    BY <1>1, <2>1, <2>2, OpenDoes
  <2>3. CASE HandleOpenUdp
    BY <1>1, <2>1, <2>3, OpenUdpDoes
  <2> QED BY <2>2, <2>3
<1>4. ASSUME NEW d \in Clients, d # c, ReceivedBy(d) PROVE ReceivedBy(d)'
  BY <1>2, <1>3, <1>4 DEF ReceivedBy
<1>5. ASSUME ReceivedBy(c) PROVE ReceivedBy(c)'
  <2>1. got[c] = delivered[c]
    BY <1>2, <1>5 DEF Unopened, ReceivedBy
  <2>2. got[c] \in Nat /\ delivered[c] \in Nat
    BY <1>2 DEF IInv, LoopOK
  <2> QED BY <1>2, <1>3, <2>1, <2>2 DEF Unopened, ReceivedBy
<1>6. phase[c] # "idle" /\ phase'[c] # "idle"
  <2>1. phase[c] # "idle"
    BY <1>2 DEF Unopened
  <2>2. phase'[c] \in {"opening", "gaveUp", "replied", "refused"}
    BY <1>1, OpenDoes, OpenUdpDoes
  <2> QED BY <2>1, <2>2
<1> QED BY <1>2, <1>4, <1>5, <1>6 DEF Received

LEMMA ClientReceived ==
  ASSUME IInv, Received, NEW c \in Clients, ClientStep(c)
  PROVE  Received'
<1>1. ClientsOK
  BY DEF IInv
<1>2. UNCHANGED <<got, delivered, connections, udp_associations, sockets>>
  BY DEF ClientStep, RequestOpen, OpenReturns, OpenTimesOut, ClientSend, ClientClose,
         DropReceiver, flowVars, tableVars
<1>3. \A d \in Clients : listening'[d] \/ phase'[d] = "idle" => listening[d] \/ phase[d] = "idle"
  <2>1. CASE RequestOpen(c)
    BY <1>1, <2>1 DEF RequestOpen, ClientsOK
  <2>2. CASE OpenReturns(c) \/ OpenTimesOut(c) \/ DropReceiver(c)
    BY <1>1, <2>2, OpenEndsDo
  <2>3. CASE ClientSend(c) \/ ClientClose(c)
    BY <2>3 DEF ClientSend, ClientClose
  <2> QED BY <2>1, <2>2, <2>3 DEF ClientStep
<1> QED BY <1>2, <1>3, ReceivedKept

LEMMA PolledRx ==
  ASSUME Tables, PollEnds
  PROVE  /\ \A i \in DOMAIN connections :
               sockets'[connections[i].handle].rx = sockets[connections[i].handle].rx
         /\ \A i \in DOMAIN udp_associations :
               sockets'[udp_associations[i].handle].rx = sockets[udp_associations[i].handle].rx
<1>1. PICK hs : sockets' = [h \in DOMAIN sockets |->
                      IF h \in hs THEN [sockets[h] EXCEPT !.tx = 0] ELSE sockets[h]]
  BY DEF PollEnds
<1>2. ASSUME NEW h \in DOMAIN sockets, sockets[h] \in TcpSocket \/ sockets[h] \in UdpSocket
      PROVE  sockets'[h].rx = sockets[h].rx
  BY <1>1, <1>2 DEF TcpSocket, UdpSocket
<1> QED BY <1>2 DEF Tables, Owned

LEMMA PolledTaken ==
  ASSUME Tables, PollEnds
  PROVE  \A i \in DOMAIN connections :
            sockets'[connections[i].handle].taken = sockets[connections[i].handle].taken
<1>1. PICK hs : sockets' = [h \in DOMAIN sockets |->
                      IF h \in hs THEN [sockets[h] EXCEPT !.tx = 0] ELSE sockets[h]]
  BY DEF PollEnds
<1>2. ASSUME NEW h \in DOMAIN sockets, sockets[h] \in TcpSocket
      PROVE  sockets'[h].taken = sockets[h].taken
  BY <1>1, <1>2 DEF TcpSocket
<1> QED BY <1>2 DEF Tables, Owned

LEMMA DriveReceived ==
  ASSUME IInv, Ownership, Received, NEW i \in todo, Drive(i)
  PROVE  Received'
<1>1. /\ Tables /\ i \in Live /\ listening \in [Clients -> BOOLEAN]
      /\ got \in [Clients -> Nat] /\ delivered \in [Clients -> Nat]
  BY DEF IInv, LoopOK, ClientsOK
<1>2. UNCHANGED <<phase, listening, got>>
  BY DEF Drive, PumpPendingSend, PumpPendingUdpSend, FinishConnection, FinishAssociation,
         clientVars, flowVars
<1>3. CASE PumpPendingSend(i)
  <2>1. /\ i \in DOMAIN connections /\ Only(i) /\ udp_associations' = udp_associations
        /\ DOMAIN connections' = DOMAIN connections
        /\ connections'[i].owner = connections[i].owner
        /\ sockets'[connections'[i].handle].rx = sockets[connections[i].handle].rx
    BY <1>1, <1>3, PumpDoes
  <2>2. delivered' = delivered
    BY <1>3 DEF PumpPendingSend, flowVars
  <2>3. /\ \A j \in DOMAIN connections :
              /\ connections'[j].owner = connections[j].owner
              /\ sockets'[connections'[j].handle].rx = sockets[connections[j].handle].rx
        /\ \A j \in DOMAIN udp_associations :
              sockets'[udp_associations[j].handle].rx = sockets[udp_associations[j].handle].rx
    <3>1. i \notin DOMAIN udp_associations
      BY <2>1 DEF IInv, Tables, Entries
    <3> QED BY <2>1, <3>1 DEF Only
  <2> QED BY <1>2, <2>1, <2>2, <2>3, ReceivedKept
<1>4. CASE PumpPendingUdpSend(i)
  <2>1. /\ i \in DOMAIN udp_associations /\ Only(i) /\ connections' = connections
        /\ DOMAIN udp_associations' = DOMAIN udp_associations
        /\ udp_associations'[i].owner = udp_associations[i].owner
        /\ sockets'[udp_associations'[i].handle].rx = sockets[udp_associations[i].handle].rx
    BY <1>1, <1>4, PumpUdpDoes
  <2>2. delivered' = delivered
    BY <1>4 DEF PumpPendingUdpSend, flowVars
  <2>3. i \notin DOMAIN connections
    BY <2>1 DEF IInv, Tables, Entries
  <2> QED BY <1>2, <2>1, <2>2, <2>3, ReceivedKept DEF Only
<1>5. CASE FinishConnection(i)
  <2>1. PICK h, c : h = connections[i].handle /\ c = connections[i].owner
    OBVIOUS
  <2>2. /\ i \in DOMAIN connections /\ c \in Clients /\ Only(i)
        /\ udp_associations' = udp_associations
        /\ delivered' = IF listening[c] THEN [delivered EXCEPT ![c] = @ + sockets[h].rx]
                        ELSE delivered
        /\ \/ connections' = Without(connections, i)
           \/ /\ DOMAIN connections' = DOMAIN connections
              /\ connections'[i].owner = c /\ connections'[i].handle = h
              /\ listening[c] => sockets'[h].rx = 0
    BY <1>1, <1>5, <2>1, FinishDoes
  <2>3. \A d \in Clients : d # c => got'[d] = got[d] /\ delivered'[d] = delivered[d]
    BY <1>1, <1>2, <2>2
  <2>4. listening[c] => got'[c] = delivered'[c] /\ delivered'[c] \in Nat
    <3> SUFFICES ASSUME listening[c] PROVE got'[c] = delivered'[c] /\ delivered'[c] \in Nat
      OBVIOUS
    <3>1. got[c] = delivered[c] + sockets[h].rx
      BY <2>1, <2>2 DEF Received, ReceivedBy
    <3> QED BY <1>1, <1>2, <2>2, <3>1
  <2>5. i \in DOMAIN connections' =>
            /\ connections'[i].owner = c
            /\ listening[c] => got'[c] = delivered'[c] + sockets'[connections'[i].handle].rx
    BY <2>2, <2>4 DEF Without
  <2> QED BY <1>2, <2>1, <2>2, <2>3, <2>4, <2>5, OwnerReceived
<1>6. CASE FinishAssociation(i)
  <2>1. PICK h, c : h = udp_associations[i].handle /\ c = udp_associations[i].owner
    OBVIOUS
  <2>2. /\ i \in DOMAIN udp_associations /\ c \in Clients /\ Only(i)
        /\ connections' = connections
        /\ delivered' = IF listening[c] THEN [delivered EXCEPT ![c] = @ + sockets[h].rx]
                        ELSE delivered
        /\ \/ udp_associations' = Without(udp_associations, i)
           \/ udp_associations' = udp_associations /\ sockets'[h].rx = 0
    BY <1>1, <1>6, <2>1, FinishUdpDoes
  <2>3. \A d \in Clients : d # c => got'[d] = got[d] /\ delivered'[d] = delivered[d]
    BY <1>1, <1>2, <2>2
  <2>4. listening[c] => got'[c] = delivered'[c] /\ delivered'[c] \in Nat
    <3> SUFFICES ASSUME listening[c] PROVE got'[c] = delivered'[c] /\ delivered'[c] \in Nat
      OBVIOUS
    <3>1. got[c] = delivered[c] + sockets[h].rx
      BY <2>1, <2>2 DEF Received, ReceivedBy
    <3> QED BY <1>1, <1>2, <2>2, <3>1
  <2>5. i \in DOMAIN udp_associations' =>
            /\ udp_associations'[i].owner = c
            /\ listening[c] => got'[c] = delivered'[c] + sockets'[udp_associations'[i].handle].rx
    BY <2>1, <2>2, <2>4 DEF Without
  <2> QED BY <1>2, <2>1, <2>2, <2>3, <2>4, <2>5, OwnerReceivedUdp
<1> QED BY <1>3, <1>4, <1>5, <1>6 DEF Drive

LEMMA PeerReceived ==
  ASSUME IInv, Ownership, Received, NEW i, PeerStep(i)
  PROVE  Received'
<1>1. /\ Tables /\ UNCHANGED <<phase, listening, delivered, connections, udp_associations>>
      /\ got \in [Clients -> Nat] /\ delivered \in [Clients -> Nat]
  BY DEF IInv, LoopOK, PeerStep, PeerAccepts, PeerFinishes, PeerResets, PeerAnswersFin, TcpStep,
         PeerAcks, PeerSends, PeerSendsUdp, clientVars, flowVars
<1>2. ASSUME NEW from, NEW to, TcpStep(i, from, to) \/ PeerAcks(i) PROVE Received'
  <2>1. /\ i \in DOMAIN connections /\ Only(i)
        /\ sockets'[connections[i].handle].rx = sockets[connections[i].handle].rx
    BY <1>1, <1>2, TcpStepDoes, AcksDo
  <2>2. got' = got
    BY <1>2 DEF TcpStep, PeerAcks, flowVars
  <2>3. i \notin DOMAIN udp_associations
    BY <2>1 DEF IInv, Tables, Entries
  <2> QED BY <1>1, <2>1, <2>2, <2>3, ReceivedKept DEF Only
<1>3. CASE PeerSends(i)
  <2>1. PICK h, c : h = connections[i].handle /\ c = connections[i].owner
    OBVIOUS
  <2>2. /\ i \in DOMAIN connections /\ Only(i)
        /\ got' = [got EXCEPT ![c] = @ + 1]
        /\ sockets'[h].rx = sockets[h].rx + 1
    BY <1>1, <1>3, <2>1, PeerSendsDoes
  <2>3. c \in Clients /\ sockets[h].rx \in Nat
    BY <2>1, <2>2, SocketOf, OwnersAre DEF IInv, Clients, TcpSocket
  <2>4. /\ got'[c] = got[c] + 1
        /\ \A d \in Clients : d # c => got'[d] = got[d] /\ delivered'[d] = delivered[d]
    BY <1>1, <2>2, <2>3
  <2>5. listening[c] => got'[c] = delivered'[c] + sockets'[connections'[i].handle].rx
    <3> SUFFICES ASSUME listening[c] PROVE got'[c] = delivered[c] + sockets'[h].rx
      BY <1>1, <2>1
    <3>1. got[c] = delivered[c] + sockets[h].rx
      BY <2>1, <2>2, <2>3 DEF Received, ReceivedBy
    <3> QED BY <1>1, <2>2, <2>3, <2>4, <3>1
  <2> QED BY <1>1, <2>1, <2>2, <2>4, <2>5, OwnerReceived
<1>4. CASE PeerSendsUdp(i)
  <2>1. PICK h, c : h = udp_associations[i].handle /\ c = udp_associations[i].owner
    OBVIOUS
  <2>2. /\ i \in DOMAIN udp_associations /\ Only(i)
        /\ got' = [got EXCEPT ![c] = @ + 1]
        /\ sockets'[h].rx = sockets[h].rx + 1
    BY <1>1, <1>4, <2>1, PeerSendsUdpDoes
  <2>3. c \in Clients /\ sockets[h].rx \in Nat
    BY <2>1, <2>2, SocketOfUdp, OwnersAre DEF IInv, Clients, UdpSocket
  <2>4. /\ got'[c] = got[c] + 1
        /\ \A d \in Clients : d # c => got'[d] = got[d] /\ delivered'[d] = delivered[d]
    BY <1>1, <2>2, <2>3
  <2>5. listening[c] => got'[c] = delivered'[c] + sockets'[udp_associations'[i].handle].rx
    <3> SUFFICES ASSUME listening[c] PROVE got'[c] = delivered[c] + sockets'[h].rx
      BY <1>1, <2>1
    <3>1. got[c] = delivered[c] + sockets[h].rx
      BY <2>1, <2>2, <2>3 DEF Received, ReceivedBy
    <3> QED BY <1>1, <2>2, <2>3, <2>4, <3>1
  <2> QED BY <1>1, <2>1, <2>2, <2>4, <2>5, OwnerReceivedUdp
<1> QED BY <1>2, <1>3, <1>4
    DEF PeerStep, PeerAccepts, PeerFinishes, PeerResets, PeerAnswersFin

LEMMA NextReceived ==
  ASSUME IInv, Ownership, Received, [Next]_vars
  PROVE  Received'
<1>1. Tables /\ Sound
  BY DEF IInv, Mail
<1>2. CASE UNCHANGED vars \/ WaitTimesOut \/ BatchEnds \/ DriveEnds \/ ForwardTunnelPacket
  <2>1. UNCHANGED <<got, delivered, phase, listening, connections, udp_associations, sockets>>
    BY <1>2 DEF vars, clientVars, flowVars, tableVars, WaitTimesOut, BatchEnds, DriveEnds,
                ForwardTunnelPacket
  <2> QED BY <2>1, ReceivedKept
<1>3. ASSUME NEW c \in Clients, ClientStep(c) PROVE Received'
  BY <1>3, ClientReceived
<1>4. CASE PollEnds
  <2>1. UNCHANGED <<got, delivered, phase, listening, connections, udp_associations>>
    BY <1>4 DEF PollEnds, clientVars, flowVars
  <2> QED BY <1>1, <1>4, <2>1, PolledRx, ReceivedKept
<1>5. CASE HandlesEntry
  <2>1. UNCHANGED <<got, delivered, phase, listening, sockets>>
    BY <1>1, <1>5, HandlersDo DEF clientVars, flowVars
  <2> QED BY <1>1, <1>5, <2>1, HandlersDo, ReceivedKept
<1>6. ASSUME NEW i \in todo, Drive(i) PROVE Received'
  BY <1>6, DriveReceived
<1>7. ASSUME NEW i, PeerStep(i) PROVE Received'
  BY <1>7, PeerReceived
<1>8. HandleMessage => HandleOpen \/ HandleOpenUdp \/ HandlesEntry
  BY DEF HandleMessage, HandlesEntry
<1> QED BY <1>2, <1>3, <1>4, <1>5, <1>6, <1>7, <1>8, OpenReceived DEF Next, LoopStep

-----------------------------------------------------------------------------
(* The upload of one connection, as a statement of its parts.              *)
InOrder(q, i, p, t, upto) == Chain(p, t) /\ Leads(q, i, EndOf(p, t), upto)

LEMMA UploadIs ==
  ASSUME UploadInOrder, NEW i \in DOMAIN connections
  PROVE  InOrder(control, i, connections[i].pending_send, sockets[connections[i].handle].taken,
                 sent[connections[i].owner])
BY DEF UploadInOrder, InOrder

LEMMA UploadWhen ==
  ASSUME \A i \in DOMAIN connections' :
            InOrder(control', i, connections'[i].pending_send,
                    sockets'[connections'[i].handle].taken, sent'[connections'[i].owner])
  PROVE  UploadInOrder'
BY DEF UploadInOrder, InOrder, Chain, Leads, EndOf, SendsIn

(* What happens to it: another message is posted or taken from the         *)
(* channel, its client sends, its Send is handled, a chunk is pumped.      *)
LEMMA InOrderPastOther ==
  ASSUME NEW q \in Seq(SoundMessage), NEW m \in SoundMessage, NEW i, NEW p, NEW t, NEW upto,
         InOrder(q, i, p, t, upto), ~(m.op = "Send" /\ m.id = i)
  PROVE  InOrder(Append(q, m), i, p, t, upto)
BY LeadsPastOther DEF InOrder

LEMMA InOrderWithoutOther ==
  ASSUME NEW q \in Seq(SoundMessage), q # <<>>, NEW i, NEW p, NEW t, NEW upto,
         InOrder(q, i, p, t, upto), ~(Head(q).op = "Send" /\ Head(q).id = i)
  PROVE  InOrder(Tail(q), i, p, t, upto)
BY LeadsWithoutOther DEF InOrder

LEMMA InOrderNew ==
  ASSUME NEW q, NEW i, SendsIn(q, i) = {}
  PROVE  InOrder(q, i, <<>>, 0, 0)
<1>1. Leads(q, i, 0, 0)
  BY LeadsNowhere
<1>2. Chain(<<>>, 0) /\ EndOf(<<>>, 0) = 0
  BY DEF Chain, EndOf
<1> QED BY <1>1, <1>2 DEF InOrder

LEMMA InOrderSent ==
  ASSUME NEW q \in Seq(SoundMessage), NEW m \in SoundMessage, NEW i, NEW p, NEW t, NEW upto,
         InOrder(q, i, p, t, upto), m.op = "Send", m.id = i, m.data[1] = upto
  PROVE  InOrder(Append(q, m), i, p, t, m.data[2])
BY LeadsFurther DEF InOrder

LEMMA InOrderHandled ==
  ASSUME NEW q \in Seq(SoundMessage), q # <<>>, NEW i, NEW p \in Seq(OrderedChunk), NEW t, NEW upto,
         InOrder(q, i, p, t, upto), Head(q).op = "Send", Head(q).id = i
  PROVE  InOrder(Tail(q), i, Append(p, Head(q).data), t, upto)
<1>1. PICK x : x = Head(q).data
  OBVIOUS
<1>2. x \in OrderedChunk
  BY <1>1, HeadTailProperties, MessageFields
<1>3. x[1] = EndOf(p, t) /\ Leads(Tail(q), i, x[2], upto)
  BY <1>1, LeadsFromFirst DEF InOrder
<1>4. Chain(Append(p, x), t) /\ EndOf(Append(p, x), t) = x[2]
  BY <1>2, <1>3, ChainLonger DEF InOrder
<1> QED BY <1>1, <1>3, <1>4 DEF InOrder

LEMMA InOrderPumped ==
  ASSUME NEW q, NEW i, NEW p \in Seq(OrderedChunk), p # <<>>, NEW t, NEW upto,
         InOrder(q, i, p, t, upto), NEW n \in Nat,
         NEW left, left = IF p[1][1] + n = p[1][2] THEN Tail(p)
                          ELSE <<<<p[1][1] + n, p[1][2]>>>> \o Tail(p)
  PROVE  InOrder(q, i, left, p[1][1] + n, upto)
<1>1. CASE p[1][1] + n = p[1][2]
  BY <1>1, ChainTaken DEF InOrder
<1>2. CASE p[1][1] + n # p[1][2]
  BY <1>2, ChainPartly DEF InOrder
<1> QED BY <1>1, <1>2

LEMMA InitUpload == Init => UploadInOrder
<1> SUFFICES ASSUME Init PROVE UploadInOrder
  OBVIOUS
<1>1. DOMAIN connections = {}
  BY DEF Init
<1> QED BY <1>1 DEF UploadInOrder

(* Steps that change nothing of it.                                        *)
LEMMA UploadKept ==
  ASSUME UploadInOrder, UNCHANGED <<control, sent>>,
         \A i \in DOMAIN connections' :
            /\ i \in DOMAIN connections /\ connections'[i].owner = connections[i].owner
            /\ connections'[i].pending_send = connections[i].pending_send
            /\ sockets'[connections'[i].handle].taken = sockets[connections[i].handle].taken
  PROVE  UploadInOrder'
BY UploadIs, UploadWhen

LEMMA UploadPosted ==
  ASSUME Sound, UploadInOrder, NEW m \in SoundMessage, control' = Append(control, m),
         m.op # "Send", UNCHANGED <<connections, sockets>>,
         \A i \in DOMAIN connections : sent'[connections[i].owner] = sent[connections[i].owner]
  PROVE  UploadInOrder'
<1> SUFFICES ASSUME NEW i \in DOMAIN connections
             PROVE  InOrder(control', i, connections[i].pending_send,
                            sockets[connections[i].handle].taken, sent'[connections[i].owner])
  BY UploadWhen
<1>1. InOrder(control, i, connections[i].pending_send, sockets[connections[i].handle].taken,
              sent[connections[i].owner])
  BY UploadIs
<1> QED BY <1>1, InOrderPastOther DEF Sound

LEMMA UploadSent ==
  ASSUME IInv, Ownership, UploadInOrder, NEW c \in TcpClients, phase[c] = "open",
         NEW m \in SoundMessage, control' = Append(control, m), m.op = "Send", m.id = id[c],
         m.data[1] = sent[c], sent' = [sent EXCEPT ![c] = m.data[2]],
         UNCHANGED <<connections, sockets>>
  PROVE  UploadInOrder'
<1> SUFFICES ASSUME NEW i \in DOMAIN connections
             PROVE  InOrder(control', i, connections[i].pending_send,
                            sockets[connections[i].handle].taken, sent'[connections[i].owner])
  BY UploadWhen
<1>1. /\ InOrder(control, i, connections[i].pending_send, sockets[connections[i].handle].taken,
                 sent[connections[i].owner])
      /\ control \in Seq(SoundMessage)
  BY UploadIs DEF IInv, Mail, Sound
<1>2. /\ c \in Clients /\ connections[i].owner \in Clients
      /\ sent'[c] = m.data[2]
      /\ connections[i].owner # c => sent'[connections[i].owner] = sent[connections[i].owner]
  BY OwnersAre DEF IInv, ClientsOK, Clients
<1>3. CASE connections[i].owner = c
  <2>1. m.id = i
    BY <1>2, <1>3 DEF Ownership, HasId
  <2> QED BY <1>1, <1>2, <1>3, <2>1, InOrderSent
<1>4. CASE connections[i].owner # c
  <2>1. m.id # i
    BY <1>2, <1>4 DEF IInv, Causes
  <2> QED BY <1>1, <1>2, <1>4, <2>1, InOrderPastOther
<1> QED BY <1>3, <1>4

LEMMA ClientUpload ==
  ASSUME IInv, Ownership, UploadInOrder, NEW c \in Clients, ClientStep(c)
  PROVE  UploadInOrder'
<1>1. ClientsOK /\ Sound
  BY DEF IInv, Mail
<1>2. CASE RequestOpen(c)
  <2>1. PICK m : m = [op |-> IF c \in TcpClients THEN "Open" ELSE "OpenUdp", client |-> c]
    OBVIOUS
  <2>2. m \in SoundMessage /\ m.op # "Send"
    BY <2>1 DEF SoundMessage, Messages, Clients
  <2>3. control' = Append(control, m) /\ UNCHANGED <<sent, connections, sockets>>
    BY <1>2, <2>1 DEF RequestOpen, Post, tableVars
  <2> QED BY <1>1, <2>2, <2>3, UploadPosted
<1>3. CASE OpenReturns(c) \/ OpenTimesOut(c) \/ DropReceiver(c)
  <2>1. UNCHANGED <<control, sent, connections, sockets>>
    BY <1>3 DEF OpenReturns, OpenTimesOut, DropReceiver, tableVars
  <2> QED BY <2>1, UploadKept
<1>4. CASE ClientSend(c)
  <2>1. PICK m \in SoundMessage :
               /\ control' = Append(control, m)
               /\ \/ /\ m.op = "Send" /\ m.id = id[c] /\ c \in TcpClients
                     /\ m.data[1] = sent[c]
                     /\ sent' = [sent EXCEPT ![c] = m.data[2]]
                  \/ /\ m.op = "SendUdp" /\ c \in UdpClients
                     /\ \A d \in Clients \ {c} : sent'[d] = sent[d]
    BY <1>1, <1>4, ClientSendDoes
  <2>2. phase[c] = "open" /\ UNCHANGED <<connections, sockets>>
    BY <1>1, <1>4, ClientSendDoes DEF tableVars
  <2>3. CASE m.op = "Send"
    BY <2>1, <2>2, <2>3, UploadSent
  <2>4. CASE m.op = "SendUdp"
    <3>1. \A i \in DOMAIN connections : /\ connections[i].owner \in Clients
                                        /\ connections[i].owner # c
      BY <2>1, <2>4, OwnersAre, NetstackAssumption DEF IInv, Clients
    <3> QED BY <1>1, <2>1, <2>2, <2>4, <3>1, UploadPosted
  <2> QED BY <2>1, <2>3, <2>4
<1>5. CASE ClientClose(c)
  <2>1. PICK m \in SoundMessage : control' = Append(control, m) /\ m.op \in {"Close", "CloseUdp"}
    BY <1>1, <1>5, ClientCloseDoes
  <2>2. UNCHANGED <<sent, connections, sockets>>
    BY <1>1, <1>5, ClientCloseDoes DEF tableVars
  <2> QED BY <1>1, <2>1, <2>2, UploadPosted
<1> QED BY <1>2, <1>3, <1>4, <1>5 DEF ClientStep

LEMMA OpenUpload ==
  ASSUME IInv, Ownership, UploadInOrder, HandleOpen \/ HandleOpenUdp
  PROVE  UploadInOrder'
<1>1. PICK c, n : c = Head(control).client /\ n = next_conn_id
  OBVIOUS
<1>2. /\ c \in Clients /\ Unopened(c) /\ sent' = sent /\ Head(control).op # "Send"
      /\ control # <<>> /\ control' = Tail(control) /\ control \in Seq(SoundMessage)
  <2>1. control \in Seq(SoundMessage)
    BY DEF IInv, Mail, Sound
  <2> QED BY <1>1, <2>1, OpenDoes, OpenUdpDoes DEF Opens
<1>3. /\ \A j \in DOMAIN connections' : j \in DOMAIN connections \/
            (/\ j = n /\ connections'[j].owner = c /\ connections'[j].pending_send = <<>>
             /\ sockets'[connections'[j].handle].taken = 0)
      /\ \A j \in DOMAIN connections : /\ j \in DOMAIN connections'
                                       /\ connections'[j] = connections[j]
                                       /\ connections[j].handle \in DOMAIN sockets
      /\ \A g \in DOMAIN sockets : sockets'[g] = sockets[g]
  <2>1. \A j \in DOMAIN connections : connections[j].handle \in DOMAIN sockets
    BY DEF IInv, Tables, Owned
  <2>2. CASE HandleOpen
    BY <1>1, <2>1, <2>2, OpenDoes
  <2>3. CASE HandleOpenUdp
    BY <1>1, <2>1, <2>3, OpenUdpDoes
  <2> QED BY <2>2, <2>3
<1> SUFFICES ASSUME NEW i \in DOMAIN connections'
             PROVE  InOrder(control', i, connections'[i].pending_send,
                            sockets'[connections'[i].handle].taken, sent'[connections'[i].owner])
  BY UploadWhen
<1>4. CASE i \in DOMAIN connections
  <2>1. InOrder(control, i, connections[i].pending_send, sockets[connections[i].handle].taken,
                sent[connections[i].owner])
    BY <1>4, UploadIs
  <2>2. InOrder(control', i, connections[i].pending_send, sockets[connections[i].handle].taken,
                sent[connections[i].owner])
    BY <1>2, <2>1, InOrderWithoutOther
  <2> QED BY <1>2, <1>3, <1>4, <2>2
<1>5. CASE i \notin DOMAIN connections
  <2>1. /\ i = n /\ connections'[i].owner = c /\ connections'[i].pending_send = <<>>
        /\ sockets'[connections'[i].handle].taken = 0
    BY <1>3, <1>5
  <2>2. sent'[c] = 0
    BY <1>2 DEF Unopened, Ownership
  <2>3. \A k \in DOMAIN control' : control'[k].op = "Send" => control'[k].id # n
    <3>1. \A k \in DOMAIN control' : k + 1 \in DOMAIN control /\ control'[k] = control[k + 1]
      BY <1>2, Shifted DEF IInv, Mail
    <3>2. n \in Nat /\ \A k \in DOMAIN control : control[k].op = "Send" => control[k].id < n
      BY <1>1 DEF Ownership, IInv, Tables, Entries
    <3> QED BY <3>1, <3>2
  <2>4. InOrder(control', n, <<>>, 0, 0)
    <3>1. PICK q : q = control'
      OBVIOUS
    <3>2. SendsIn(q, n) = {}
      BY <2>3, <3>1 DEF SendsIn
    <3> QED BY <3>1, <3>2, InOrderNew
  <2> QED BY <2>1, <2>2, <2>4
<1> QED BY <1>4, <1>5

LEMMA HandledUpload ==
  ASSUME IInv, UploadInOrder, HandlesEntry
  PROVE  UploadInOrder'
<1>1. PICK m : m = Head(control)
  OBVIOUS
<1>2. /\ control # <<>> /\ control' = Tail(control) /\ control \in Seq(SoundMessage)
      /\ sent' = sent /\ sockets' = sockets /\ DOMAIN connections' = DOMAIN connections
  BY HandlersDo DEF IInv, Mail, Sound, clientVars
<1> SUFFICES ASSUME NEW i \in DOMAIN connections
             PROVE  InOrder(control', i, connections'[i].pending_send,
                            sockets'[connections'[i].handle].taken, sent'[connections'[i].owner])
  BY <1>2, UploadWhen
<1>3. /\ connections'[i].owner = connections[i].owner
      /\ connections'[i].handle = connections[i].handle
      /\ connections'[i].pending_send =
               IF m.op = "Send" /\ m.id = i
               THEN Append(connections[i].pending_send, m.data)
               ELSE connections[i].pending_send
  BY <1>1, HandlersDo DEF IInv, Mail
<1>4. InOrder(control, i, connections[i].pending_send, sockets[connections[i].handle].taken,
              sent[connections[i].owner])
  BY UploadIs
<1>5. connections[i].pending_send \in Seq(OrderedChunk)
  BY DEF IInv, Tables, Entries, Connection
<1>6. CASE m.op = "Send" /\ m.id = i
  BY <1>1, <1>2, <1>3, <1>4, <1>5, <1>6, InOrderHandled
<1>7. CASE ~(m.op = "Send" /\ m.id = i)
  BY <1>1, <1>2, <1>3, <1>4, <1>7, InOrderWithoutOther
<1> QED BY <1>6, <1>7

(* The turn of one entry.                                                  *)
LEMMA TurnUpload ==
  ASSUME UploadInOrder, NEW i, Only(i), UNCHANGED <<control, sent>>,
         i \in DOMAIN connections' =>
            InOrder(control, i, connections'[i].pending_send,
                    sockets'[connections'[i].handle].taken, sent[connections'[i].owner])
  PROVE  UploadInOrder'
<1> SUFFICES ASSUME NEW j \in DOMAIN connections'
             PROVE  InOrder(control', j, connections'[j].pending_send,
                            sockets'[connections'[j].handle].taken, sent'[connections'[j].owner])
  BY UploadWhen
<1>1. CASE j = i
  BY <1>1
<1>2. CASE j # i
  BY <1>2, UploadIs DEF Only
<1> QED BY <1>1, <1>2

LEMMA DriveUpload ==
  ASSUME IInv, UploadInOrder, NEW i \in todo, Drive(i)
  PROVE  UploadInOrder'
<1>1. Tables /\ i \in Live /\ listening \in [Clients -> BOOLEAN]
  BY DEF IInv, LoopOK, ClientsOK
<1>2. UNCHANGED <<control, sent>>
  BY DEF Drive, PumpPendingSend, PumpPendingUdpSend, FinishConnection, FinishAssociation,
         clientVars
<1>3. CASE PumpPendingSend(i)
  <2> PICK p, left : p = connections[i].pending_send /\ left = connections'[i].pending_send
    OBVIOUS
  <2>1. /\ p \in Seq(OrderedChunk) /\ p # <<>>
        /\ \E n \in Nat :
              /\ sockets'[connections[i].handle].taken = p[1][1] + n
              /\ left = IF p[1][1] + n = p[1][2] THEN Tail(p)
                        ELSE <<<<p[1][1] + n, p[1][2]>>>> \o Tail(p)
    BY <1>1, <1>3, PumpDoes
  <2>2. /\ i \in DOMAIN connections /\ Only(i)
        /\ connections'[i].owner = connections[i].owner
        /\ connections'[i].handle = connections[i].handle
    BY <1>1, <1>3, PumpDoes
  <2>3. InOrder(control, i, p, sockets[connections[i].handle].taken, sent[connections[i].owner])
    BY <2>1, <2>2, UploadIs
  <2>4. InOrder(control, i, left, sockets'[connections[i].handle].taken,
                sent[connections[i].owner])
    BY <2>1, <2>3, InOrderPumped
  <2> QED BY <1>2, <2>1, <2>2, <2>4, TurnUpload
<1>4. CASE FinishConnection(i)
  <2>1. /\ Only(i) /\ i \in DOMAIN connections
        /\ \/ connections' = Without(connections, i)
           \/ /\ connections'[i].owner = connections[i].owner
              /\ connections'[i].handle = connections[i].handle
              /\ connections'[i].pending_send = connections[i].pending_send
              /\ sockets'[connections[i].handle].taken = sockets[connections[i].handle].taken
    BY <1>1, <1>4, FinishDoes
  <2>2. i \in DOMAIN connections' =>
            InOrder(control, i, connections'[i].pending_send,
                    sockets'[connections'[i].handle].taken, sent[connections'[i].owner])
    BY <2>1, UploadIs DEF Without
  <2> QED BY <1>2, <2>1, <2>2, TurnUpload
<1>5. CASE PumpPendingUdpSend(i) \/ FinishAssociation(i)
  <2>1. i \in DOMAIN udp_associations /\ Only(i) /\ connections' = connections
    BY <1>1, <1>5, PumpUdpDoes, FinishUdpDoes
  <2>2. i \notin DOMAIN connections'
    BY <2>1 DEF IInv, Tables, Entries
  <2> QED BY <1>2, <2>1, <2>2, TurnUpload
<1> QED BY <1>3, <1>4, <1>5 DEF Drive

LEMMA PeerUpload ==
  ASSUME IInv, UploadInOrder, NEW i, PeerStep(i)
  PROVE  UploadInOrder'
<1>1. Tables /\ UNCHANGED <<control, sent, connections>>
  BY DEF IInv, PeerStep, PeerAccepts, PeerFinishes, PeerResets, PeerAnswersFin, TcpStep,
         PeerAcks, PeerSends, PeerSendsUdp, clientVars
<1>2. ASSUME NEW from, NEW to, TcpStep(i, from, to) \/ PeerAcks(i) \/ PeerSends(i)
      PROVE  UploadInOrder'
  <2>1. /\ i \in DOMAIN connections /\ Only(i)
        /\ sockets'[connections[i].handle].taken = sockets[connections[i].handle].taken
    BY <1>1, <1>2, TcpStepDoes, AcksDo, PeerSendsDoes
  <2> QED BY <1>1, <2>1, UploadIs, TurnUpload
<1>3. CASE PeerSendsUdp(i)
  <2>1. i \in DOMAIN udp_associations /\ Only(i)
    BY <1>1, <1>3, PeerSendsUdpDoes
  <2>2. i \notin DOMAIN connections'
    BY <1>1, <2>1 DEF Tables, Entries
  <2> QED BY <1>1, <2>1, <2>2, TurnUpload
<1> QED BY <1>2, <1>3 DEF PeerStep, PeerAccepts, PeerFinishes, PeerResets, PeerAnswersFin

LEMMA NextUpload ==
  ASSUME IInv, Ownership, UploadInOrder, [Next]_vars
  PROVE  UploadInOrder'
<1>1. Tables /\ Sound
  BY DEF IInv, Mail
<1>2. CASE UNCHANGED vars \/ WaitTimesOut \/ BatchEnds \/ DriveEnds
  <2>1. UNCHANGED <<control, sent, connections, sockets>>
    BY <1>2 DEF vars, clientVars, tableVars, WaitTimesOut, BatchEnds, DriveEnds
  <2> QED BY <2>1, UploadKept
<1>3. ASSUME NEW c \in Clients, ClientStep(c) PROVE UploadInOrder'
  BY <1>3, ClientUpload
<1>4. CASE ForwardTunnelPacket
  <2>1. PICK m \in SoundMessage : control' = Append(control, m) /\ m.op = "TunnelPacket"
    BY <1>4, ForwardDoes
  <2>2. UNCHANGED <<sent, connections, sockets>>
    BY <1>4, ForwardDoes DEF clientVars, tableVars
  <2> QED BY <1>1, <2>1, <2>2, UploadPosted
<1>5. CASE PollEnds
  <2>1. UNCHANGED <<control, sent, connections>>
    BY <1>5 DEF PollEnds, clientVars
  <2>2. \A i \in DOMAIN connections :
           sockets'[connections[i].handle].taken = sockets[connections[i].handle].taken
    BY <1>1, <1>5, PolledTaken
  <2> QED BY <2>1, <2>2, UploadKept
<1>6. ASSUME NEW i \in todo, Drive(i) PROVE UploadInOrder'
  BY <1>6, DriveUpload
<1>7. ASSUME NEW i, PeerStep(i) PROVE UploadInOrder'
  BY <1>7, PeerUpload
<1>8. HandleMessage => HandleOpen \/ HandleOpenUdp \/ HandlesEntry
  BY DEF HandleMessage, HandlesEntry
<1> QED BY <1>2, <1>3, <1>4, <1>5, <1>6, <1>7, <1>8, OpenUpload, HandledUpload
    DEF Next, LoopStep

-----------------------------------------------------------------------------
FlowInv == IInv /\ Ownership /\ Received /\ Driven /\ UploadInOrder

LEMMA FlowHolds == Spec => []FlowInv
<1>1. Init => FlowInv
  <2>1. Init => Driven
    BY DEF Init, Driven
  <2> QED BY <2>1, InitIInv, InitOwnership, InitReceived, InitUpload DEF FlowInv
<1>2. FlowInv /\ [Next]_vars => FlowInv'
  BY NextIInv, NextOwnership, NextReceived, NextDriven, NextUpload DEF FlowInv
<1> QED BY <1>1, <1>2, PTL DEF Spec

(* Whatever the sizes of the chunks and of the send buffers, and however   *)
(* many clients, bytes and messages there are: what the socket of a live   *)
(* connection took, what is pending and what is in the control channel are *)
(* the client's upload, in order and complete (Send, 349-353,              *)
(* pump_pending_sends 558-576).                                            *)
THEOREM UploadStaysInOrder == Spec => []UploadInOrder
<1>1. FlowInv => UploadInOrder
  BY DEF FlowInv
<1> QED BY <1>1, FlowHolds, PTL

(* Whatever the peers send and however connections end: what smoltcp has   *)
(* received for a client that still listens was handed to it, or is unread *)
(* in the one socket the client has (drive_connections 480-488).           *)
THEOREM NothingIsLost == Spec => []NothingReceivedIsLost
<1>1. FlowInv => NothingReceivedIsLost
  <2> SUFFICES ASSUME FlowInv, NEW c \in Clients, listening[c]
               PROVE  \/ got[c] = delivered[c]
                      \/ \E i \in DOMAIN connections :
                            /\ connections[i].owner = c
                            /\ got[c] = delivered[c] + sockets[Handle(i)].rx
                      \/ \E i \in DOMAIN udp_associations :
                            /\ udp_associations[i].owner = c
                            /\ got[c] = delivered[c] + sockets[Handle(i)].rx
    BY DEF NothingReceivedIsLost
  <2>1. ReceivedBy(c)
    BY DEF FlowInv, Received
  <2>2. /\ \A i \in DOMAIN connections : Handle(i) = connections[i].handle
        /\ \A i \in DOMAIN udp_associations : Handle(i) = udp_associations[i].handle
    BY DEF Handle, FlowInv, IInv, Tables, Entries
  <2> QED BY <2>1, <2>2 DEF ReceivedBy
<1> QED BY <1>1, FlowHolds, PTL

(* Whatever the loop was woken for, when it sleeps again it has served     *)
(* every entry of both tables as far as its socket allows                  *)
(* (run_netstack_loop 280-302).                                            *)
THEOREM LoopLeavesNothing == Spec => []NothingLeftUndone
<1>1. FlowInv => NothingLeftUndone
  <2> SUFFICES ASSUME FlowInv, pc = "wait" PROVE NothingLeftUndone
    BY DEF NothingLeftUndone
  <2>1. /\ \A i \in DOMAIN connections :
              Served(connections[i], sockets[connections[i].handle])
        /\ \A i \in DOMAIN udp_associations :
              ServedUdp(udp_associations[i], sockets[udp_associations[i].handle])
    BY DEF FlowInv, Driven
  <2> QED BY <2>1 DEF NothingLeftUndone, Served, ServedUdp, CanPump, CanPumpUdp
<1> QED BY <1>1, FlowHolds, PTL

(* Each client opens once and has one entry at most, under the id it was   *)
(* told: no two entries, of one table or of both, are the same client's.   *)
(* So its bytes go to one socket and come from one (open_connection        *)
(* 393-437, handle_control_message 349-368).                               *)
OneEntryPerClient ==
    \A i, j \in Live :
        (IF i \in DOMAIN connections THEN connections[i].owner ELSE udp_associations[i].owner)
            = (IF j \in DOMAIN connections THEN connections[j].owner ELSE udp_associations[j].owner)
        => i = j

THEOREM EntriesAreSingle == Spec => []OneEntryPerClient
<1>1. FlowInv => OneEntryPerClient
  <2> SUFFICES ASSUME FlowInv PROVE OneEntryPerClient
    OBVIOUS
  <2>1. /\ \A i \in DOMAIN connections : connections[i].owner \in TcpClients
        /\ \A i \in DOMAIN udp_associations : udp_associations[i].owner \in UdpClients
        /\ TcpClients \cap UdpClients = {}
    BY OwnersAre, NetstackAssumption DEF FlowInv, IInv
  <2> QED BY <2>1 DEF OneEntryPerClient, Live, FlowInv, Ownership
<1> QED BY <1>1, FlowHolds, PTL
-----------------------------------------------------------------------------
(* A close() on its way: in the channel, or remembered in the entry.       *)
Asks(m, c, i) == m.op = (IF c \in TcpClients THEN "Close" ELSE "CloseUdp") /\ m.id = i

Remembered(i) ==
    \/ i \in DOMAIN connections /\ connections[i].close_requested
    \/ i \in DOMAIN udp_associations /\ udp_associations[i].close_requested

Requested(c) ==
    (\E k \in DOMAIN control : Asks(control[k], c, id[c])) \/ Remembered(id[c])

CloseIsKept == \A c \in Clients : closed[c] /\ id[c] \in Live => Requested(c)

(* A step that makes no entry i and forgets no request of it.              *)
RequestStays(i) ==
    /\ i \in DOMAIN connections' =>
          /\ i \in DOMAIN connections
          /\ connections[i].close_requested => connections'[i].close_requested
    /\ i \in DOMAIN udp_associations' =>
          /\ i \in DOMAIN udp_associations
          /\ udp_associations[i].close_requested => udp_associations'[i].close_requested

LEMMA CloseStays ==
  ASSUME Tables, CloseIsKept, NEW c \in Clients, closed[c], id'[c] = id[c], id[c] \in Live',
         RequestStays(id[c]),
         \A k \in DOMAIN control : Asks(control[k], c, id[c]) =>
            (\E j \in DOMAIN control' : control'[j] = control[k]) \/ Remembered(id[c])'
  PROVE  Requested(c)'
<1>1. PICK i : i = id[c] /\ i = id'[c]
  OBVIOUS
<1>2. DOMAIN connections \cap DOMAIN udp_associations = {}
  BY DEF Tables, Entries
<1>3. Requested(c)
  BY DEF CloseIsKept, RequestStays, Live
<1>4. CASE \E k \in DOMAIN control : Asks(control[k], c, i)
  <2>1. (\E j \in DOMAIN control' : Asks(control'[j], c, i)) \/ Remembered(id[c])'
    BY <1>1, <1>4 DEF Asks
  <2> QED BY <1>1, <2>1 DEF Requested, Remembered, Asks
<1>5. CASE Remembered(i)
  BY <1>1, <1>2, <1>5 DEF Remembered, Requested, RequestStays, Live
<1> QED BY <1>1, <1>3, <1>4, <1>5 DEF Requested

(* A step that touches neither the closes nor the entries, and takes       *)
(* nothing from the channel.                                               *)
LEMMA CloseUntouched ==
  ASSUME IInv, CloseIsKept, UNCHANGED <<connections, udp_associations>>,
         \A k \in DOMAIN control : k \in DOMAIN control' /\ control'[k] = control[k],
         NEW c \in Clients, closed[c], id'[c] = id[c], id'[c] \in Live'
  PROVE  Requested(c)'
BY CloseStays DEF IInv, RequestStays

LEMMA PostedAfter ==
  ASSUME IInv, NEW m \in SoundMessage, control' = Append(control, m)
  PROVE  /\ \A k \in DOMAIN control : k \in DOMAIN control' /\ control'[k] = control[k]
         /\ \E k \in DOMAIN control' : control'[k] = m
BY Appended DEF IInv, Mail, Sound

LEMMA ClientCloses ==
  ASSUME IInv, CloseIsKept, NEW d \in Clients, ClientStep(d)
  PROVE  CloseIsKept'
<1> SUFFICES ASSUME NEW c \in Clients, closed'[c], id'[c] \in Live' PROVE Requested(c)'
  BY DEF CloseIsKept
<1>1. /\ ClientsOK /\ NoId \notin Nat
      /\ DOMAIN connections \subseteq Nat /\ DOMAIN udp_associations \subseteq Nat
  BY NetstackAssumption DEF IInv, Tables, Entries
<1>2. UNCHANGED <<connections, udp_associations>>
  BY DEF ClientStep, RequestOpen, OpenReturns, OpenTimesOut, ClientSend, ClientClose, DropReceiver,
         tableVars
<1>3. CASE ClientClose(d)
  <2>1. PICK m : m = [op |-> IF d \in TcpClients THEN "Close" ELSE "CloseUdp", id |-> id[d]]
    OBVIOUS
  <2>2. /\ phase[d] = "open" /\ id' = id /\ control' = Append(control, m)
        /\ closed' = [closed EXCEPT ![d] = TRUE]
    BY <1>3, <2>1 DEF ClientClose, Post
  <2>3. id[d] \in Nat
    BY <1>1, <2>2 DEF ClientsOK, HasId
  <2>4. m \in SoundMessage /\ Asks(m, d, id[d])
    BY <2>1, <2>3 DEF SoundMessage, Messages, Asks
  <2>5. /\ \A k \in DOMAIN control : k \in DOMAIN control' /\ control'[k] = control[k]
        /\ \E k \in DOMAIN control' : control'[k] = m
    BY <2>2, <2>4, PostedAfter
  <2>6. CASE c = d
    BY <2>2, <2>4, <2>5, <2>6 DEF Requested, Asks
  <2>7. CASE c # d
    <3>1. closed[c] /\ id'[c] = id[c]
      BY <1>1, <2>2, <2>7 DEF ClientsOK
    <3> QED BY <1>2, <2>5, <3>1, CloseUntouched
  <2> QED BY <2>6, <2>7
<1>4. CASE ClientSend(d)
  <2>1. PICK m \in SoundMessage : control' = Append(control, m)
    BY <1>1, <1>4, ClientSendDoes
  <2>2. UNCHANGED <<id, closed>>
    BY <1>4 DEF ClientSend
  <2> QED BY <1>2, <2>1, <2>2, PostedAfter, CloseUntouched
<1>5. CASE RequestOpen(d)
  <2>1. PICK m : m = [op |-> IF d \in TcpClients THEN "Open" ELSE "OpenUdp", client |-> d]
    OBVIOUS
  <2>2. m \in SoundMessage
    BY <2>1 DEF SoundMessage, Messages, Clients
  <2>3. control' = Append(control, m) /\ UNCHANGED <<id, closed>>
    BY <1>5, <2>1 DEF RequestOpen, Post
  <2> QED BY <1>2, <2>2, <2>3, PostedAfter, CloseUntouched
<1>6. CASE OpenReturns(d) \/ DropReceiver(d)
  <2>1. UNCHANGED <<control, id, closed>>
    BY <1>6 DEF OpenReturns, DropReceiver
  <2> QED BY <1>2, <2>1, CloseUntouched
<1>7. CASE OpenTimesOut(d)
  <2>1. UNCHANGED <<control, closed>> /\ id' = [id EXCEPT ![d] = NoId]
    BY <1>7 DEF OpenTimesOut
  <2>2. id'[c] = id[c]
    BY <1>1, <1>2, <2>1 DEF ClientsOK, Live
  <2> QED BY <1>2, <2>1, <2>2, CloseUntouched
<1> QED BY <1>3, <1>4, <1>5, <1>6, <1>7 DEF ClientStep

(* What is behind the message the loop takes stays in the channel.         *)
LEMMA TakenBefore ==
  ASSUME IInv, control # <<>>, control' = Tail(control)
  PROVE  \A k \in DOMAIN control :
            control[k] = Head(control) \/ \E j \in DOMAIN control' : control'[j] = control[k]
<1> SUFFICES ASSUME NEW k \in DOMAIN control
             PROVE  control[k] = Head(control) \/ \E j \in DOMAIN control' : control'[j] = control[k]
  OBVIOUS
<1>1. /\ DOMAIN control = 1 .. Len(control) /\ DOMAIN control' = 1 .. Len(control) - 1
      /\ Len(control) \in Nat /\ Head(control) = control[1]
      /\ \A j \in 1 .. Len(control) - 1 : control'[j] = control[j + 1]
  BY TailIs DEF IInv, Mail, Sound
<1>2. CASE k = 1
  BY <1>1, <1>2
<1>3. CASE k # 1
  <2>1. k - 1 \in 1 .. Len(control) - 1 /\ (k - 1) + 1 = k
    BY <1>1, <1>3
  <2>2. control'[k - 1] = control[k]
    BY <1>1, <2>1
  <2> QED BY <1>1, <2>1, <2>2
<1> QED BY <1>2, <1>3

(* An opened entry has an id that no close names.                          *)
LEMMA OpenCloses ==
  ASSUME IInv, Ownership, CloseIsKept, HandleOpen \/ HandleOpenUdp
  PROVE  CloseIsKept'
<1> SUFFICES ASSUME NEW c \in Clients, closed'[c], id'[c] \in Live' PROVE Requested(c)'
  BY DEF CloseIsKept
<1>1. PICK d, n : d = Head(control).client /\ n = next_conn_id
  OBVIOUS
<1>2. /\ d \in Clients /\ Unopened(d) /\ control # <<>> /\ control' = Tail(control)
      /\ Head(control).op \in {"Open", "OpenUdp"} /\ closed' = closed
      /\ \A e \in Clients : e # d => id'[e] = id[e]
  BY <1>1, OpenDoes, OpenUdpDoes DEF Opens
<1>3. closed[c] /\ phase[c] = "open" /\ id[c] # n /\ c # d
  BY <1>1, <1>2 DEF IInv, ClientsOK, HasId, Unopened
<1>4. RequestStays(id[c])
  <2>1. CASE HandleOpen
    BY <1>1, <1>3, <2>1, OpenDoes DEF RequestStays
  <2>2. CASE HandleOpenUdp
    BY <1>1, <1>3, <2>2, OpenUdpDoes DEF RequestStays
  <2> QED BY <2>1, <2>2
<1>5. \A k \in DOMAIN control : Asks(control[k], c, id[c]) =>
         \E j \in DOMAIN control' : control'[j] = control[k]
  BY <1>2, TakenBefore DEF Asks
<1>6. id'[c] = id[c] /\ Tables
  BY <1>2, <1>3 DEF IInv
<1> QED BY <1>3, <1>4, <1>5, <1>6, CloseStays

(* Of the handled messages the closes are remembered, by the entry they    *)
(* name.                                                                   *)
LEMMA HandledCloses ==
  ASSUME IInv, CloseIsKept, HandlesEntry
  PROVE  CloseIsKept'
<1> SUFFICES ASSUME NEW c \in Clients, closed'[c], id'[c] \in Live' PROVE Requested(c)'
  BY DEF CloseIsKept
<1>1. Tables /\ Sound /\ TcpClients \cap UdpClients = {}
  BY NetstackAssumption DEF IInv, Mail
<1>2. PICK m, i : m = Head(control) /\ i = m.id
  OBVIOUS
<1>3. /\ control # <<>> /\ control' = Tail(control) /\ closed' = closed /\ id' = id
      /\ DOMAIN connections' = DOMAIN connections
      /\ DOMAIN udp_associations' = DOMAIN udp_associations
  BY <1>1, HandlersDo DEF clientVars
<1>4. /\ \A j \in DOMAIN connections :
            /\ connections[j].close_requested => connections'[j].close_requested
            /\ m.op = "Close" /\ i = j => connections'[j].close_requested
      /\ \A j \in DOMAIN udp_associations :
            /\ udp_associations[j].close_requested => udp_associations'[j].close_requested
            /\ m.op = "CloseUdp" /\ i = j => udp_associations'[j].close_requested
  <2>1. /\ \A j \in DOMAIN connections : connections[j] \in ConnectionState
        /\ \A j \in DOMAIN udp_associations : udp_associations[j] \in UdpAssociationState
    BY <1>1 DEF Tables, Entries, Connection
  <2>2. CASE HandleSend
    <3>1. m.op = "Send" /\ udp_associations' = udp_associations
      BY <1>2, <2>2 DEF HandleSend, Receive
    <3>2. \A j \in DOMAIN connections :
             connections'[j].close_requested = connections[j].close_requested
      BY <2>1, <2>2 DEF HandleSend, ConnectionState
    <3> QED BY <3>1, <3>2
  <2>3. CASE HandleSendUdp
    <3>1. m.op = "SendUdp" /\ connections' = connections
      BY <1>2, <2>3 DEF HandleSendUdp, Receive
    <3>2. \A j \in DOMAIN udp_associations :
             udp_associations'[j].close_requested = udp_associations[j].close_requested
      BY <2>1, <2>3 DEF HandleSendUdp, UdpAssociationState
    <3> QED BY <3>1, <3>2
  <2>4. CASE HandleClose
    <3>1. m.op = "Close" /\ udp_associations' = udp_associations
      BY <1>2, <2>4 DEF HandleClose, Receive
    <3>2. connections' = IF i \in DOMAIN connections
                         THEN [connections EXCEPT ![i].close_requested = TRUE] ELSE connections
      BY <1>2, <2>4 DEF HandleClose
    <3>3. \A j \in DOMAIN connections :
             connections'[j].close_requested = (i = j \/ connections[j].close_requested)
      BY <2>1, <3>2 DEF ConnectionState
    <3> QED BY <3>1, <3>3
  <2>5. CASE HandleCloseUdp
    <3>1. m.op = "CloseUdp" /\ connections' = connections
      BY <1>2, <2>5 DEF HandleCloseUdp, Receive
    <3>2. udp_associations' = IF i \in DOMAIN udp_associations
                              THEN [udp_associations EXCEPT ![i].close_requested = TRUE]
                              ELSE udp_associations
      BY <1>2, <2>5 DEF HandleCloseUdp
    <3>3. \A j \in DOMAIN udp_associations :
             udp_associations'[j].close_requested = (i = j \/ udp_associations[j].close_requested)
      BY <2>1, <3>2 DEF UdpAssociationState
    <3> QED BY <3>1, <3>3
  <2>6. CASE HandleTunnelPacket
    <3>1. m.op = "TunnelPacket" /\ UNCHANGED <<connections, udp_associations>>
      BY <1>2, <2>6 DEF HandleTunnelPacket, Receive, tableVars
    <3> QED BY <3>1
  <2> QED BY <2>2, <2>3, <2>4, <2>5, <2>6 DEF HandlesEntry
<1>5. RequestStays(id[c])
  BY <1>3, <1>4 DEF RequestStays
<1>6. Asks(m, c, id[c]) => Remembered(id[c])'
  <2> SUFFICES ASSUME Asks(m, c, id[c]) PROVE Remembered(id[c])'
    OBVIOUS
  <2>1. i = id[c] /\ m.op = IF c \in TcpClients THEN "Close" ELSE "CloseUdp"
    BY <1>2 DEF Asks
  <2>2. id[c] \in DOMAIN connections \/ id[c] \in DOMAIN udp_associations
    BY <1>3 DEF Live
  <2>3. /\ id[c] \in DOMAIN connections => c \in TcpClients
        /\ id[c] \in DOMAIN udp_associations => c \notin TcpClients
    BY <1>1, OwnersAre DEF IInv, Causes
  <2> QED BY <1>3, <1>4, <2>1, <2>2, <2>3 DEF Remembered
<1>7. \A k \in DOMAIN control : Asks(control[k], c, id[c]) =>
         (\E j \in DOMAIN control' : control'[j] = control[k]) \/ Remembered(id[c])'
  BY <1>2, <1>3, <1>6, TakenBefore
<1> QED BY <1>1, <1>3, <1>5, <1>7, CloseStays

(* The turn of an entry does not take its request back.                    *)
LEMMA DriveCloses ==
  ASSUME IInv, CloseIsKept, NEW i \in todo, Drive(i)
  PROVE  CloseIsKept'
<1> SUFFICES ASSUME NEW c \in Clients, closed'[c], id'[c] \in Live' PROVE Requested(c)'
  BY DEF CloseIsKept
<1>1. /\ Tables /\ i \in Live /\ listening \in [Clients -> BOOLEAN]
      /\ DOMAIN connections \cap DOMAIN udp_associations = {}
  BY DEF IInv, LoopOK, ClientsOK, Tables, Entries
<1>2. UNCHANGED <<control, id, closed>>
  <2>1. CASE PumpPendingSend(i) \/ PumpPendingUdpSend(i)
    BY <2>1 DEF PumpPendingSend, PumpPendingUdpSend, clientVars
  <2>2. CASE FinishConnection(i)
    BY <2>2 DEF FinishConnection, clientVars
  <2>3. CASE FinishAssociation(i)
    BY <2>3 DEF FinishAssociation
  <2> QED BY <2>1, <2>2, <2>3 DEF Drive
<1>3. RequestStays(i) /\ Only(i)
  <2>1. CASE PumpPendingSend(i)
    <3>1. PICK q : connections' = [connections EXCEPT ![i].pending_send = q]
      BY <2>1 DEF PumpPendingSend
    <3>2. /\ i \in DOMAIN connections /\ Only(i) /\ DOMAIN connections' = DOMAIN connections
          /\ udp_associations' = udp_associations
      BY <1>1, <2>1, PumpDoes
    <3>3. connections[i] \in ConnectionState
      BY <1>1, <3>2 DEF Tables, Entries, Connection
    <3>4. connections'[i].close_requested = connections[i].close_requested
      BY <3>1, <3>2, <3>3 DEF ConnectionState
    <3> QED BY <3>2, <3>4 DEF RequestStays
  <2>2. CASE PumpPendingUdpSend(i)
    <3>1. udp_associations' = [udp_associations EXCEPT ![i].pending_send = Tail(@)]
      BY <2>2 DEF PumpPendingUdpSend
    <3>2. /\ i \in DOMAIN udp_associations /\ Only(i) /\ connections' = connections
          /\ DOMAIN udp_associations' = DOMAIN udp_associations
      BY <1>1, <2>2, PumpUdpDoes
    <3>3. udp_associations[i] \in UdpAssociationState
      BY <1>1, <3>2 DEF Tables, Entries
    <3>4. udp_associations'[i].close_requested = udp_associations[i].close_requested
      BY <3>1, <3>2, <3>3 DEF UdpAssociationState
    <3> QED BY <3>2, <3>4 DEF RequestStays
  <2>3. CASE FinishConnection(i)
    <3>1. i \in DOMAIN connections /\ Only(i) /\ udp_associations' = udp_associations
      BY <1>1, <2>3, FinishDoes
    <3>2. connections[i] \in ConnectionState
      BY <1>1, <3>1 DEF Tables, Entries, Connection
    <3>3. PICK b \in BOOLEAN :
             /\ connections[i].close_requested => b
             /\ \/ connections' = [connections EXCEPT ![i].close_requested = b]
                \/ connections' = Without(connections, i)
      <4>1. \/ connections' = [connections EXCEPT
                                  ![i].close_requested =
                                     WantsClose(connections[i], sockets[connections[i].handle])]
            \/ connections' = Without(connections, i)
        BY <2>3 DEF FinishConnection
      <4> QED BY <3>2, <4>1 DEF WantsClose, UplinkFails, ConnectionState
    <3>4. CASE connections' = [connections EXCEPT ![i].close_requested = b]
      <4>1. connections'[i].close_requested = b
        BY <3>1, <3>2, <3>4 DEF ConnectionState
      <4> QED BY <3>1, <3>3, <4>1 DEF RequestStays
    <3>5. CASE connections' = Without(connections, i)
      BY <3>1, <3>5 DEF RequestStays, Without
    <3> QED BY <3>3, <3>4, <3>5
  <2>4. CASE FinishAssociation(i)
    <3>1. /\ i \in DOMAIN udp_associations /\ Only(i) /\ connections' = connections
          /\ \/ udp_associations' = Without(udp_associations, i)
             \/ udp_associations' = udp_associations
      BY <1>1, <2>4, FinishUdpDoes
    <3> QED BY <3>1 DEF RequestStays, Without
  <2> QED BY <2>1, <2>2, <2>3, <2>4 DEF Drive
<1>4. RequestStays(id[c])
  BY <1>3 DEF Only, RequestStays
<1> QED BY <1>1, <1>2, <1>4, CloseStays

LEMMA NextCloses ==
  ASSUME IInv, Ownership, CloseIsKept, [Next]_vars
  PROVE  CloseIsKept'
<1>1. CASE \/ UNCHANGED vars \/ WaitTimesOut \/ BatchEnds \/ PollEnds \/ DriveEnds
           \/ \E i : PeerStep(i)
  <2>1. CASE UNCHANGED vars \/ WaitTimesOut \/ BatchEnds \/ PollEnds \/ DriveEnds
    <3>1. UNCHANGED <<control, id, closed, connections, udp_associations>>
      BY <2>1 DEF vars, clientVars, tableVars, WaitTimesOut, BatchEnds, PollEnds, DriveEnds
    <3> QED BY <3>1, CloseUntouched DEF CloseIsKept
  <2>2. ASSUME NEW i, PeerStep(i) PROVE CloseIsKept'
    <3>1. UNCHANGED <<control, id, closed, connections, udp_associations>>
      BY <2>2 DEF PeerStep, PeerAccepts, PeerFinishes, PeerResets, PeerAnswersFin, TcpStep,
                  PeerAcks, PeerSends, PeerSendsUdp, clientVars
    <3> QED BY <3>1, CloseUntouched DEF CloseIsKept
  <2> QED BY <1>1, <2>1, <2>2
<1>2. ASSUME NEW d \in Clients, ClientStep(d) PROVE CloseIsKept'
  BY <1>2, ClientCloses
<1>3. CASE ForwardTunnelPacket
  <2>1. PICK m \in SoundMessage : control' = Append(control, m)
    BY <1>3, ForwardDoes
  <2>2. UNCHANGED <<id, closed, connections, udp_associations>>
    BY <1>3, ForwardDoes DEF clientVars, tableVars
  <2> QED BY <2>1, <2>2, PostedAfter, CloseUntouched DEF CloseIsKept
<1>4. ASSUME NEW i \in todo, Drive(i) PROVE CloseIsKept'
  BY <1>4, DriveCloses
<1>5. HandleMessage => HandleOpen \/ HandleOpenUdp \/ HandlesEntry
  BY DEF HandleMessage, HandlesEntry
<1> QED BY <1>1, <1>2, <1>3, <1>4, <1>5, OpenCloses, HandledCloses DEF Next, LoopStep

(* When the loop has nothing left to do, a client that has closed is rid   *)
(* of its connection, or the connection waits for its peer alone: the SYN  *)
(* has no answer, or the peer has not acknowledged our FIN and sent its    *)
(* own.  A UDP association is gone.                                        *)
ClosedAwaitsPeer ==
    pc = "wait" /\ control = <<>> =>
        \A c \in Clients : closed[c] => id[c] \notin Live \/ AwaitsPeer(id[c])

(* The safety half of CloseEndsConnection, for every number of clients and *)
(* whatever the peers do: no close() is forgotten, neither in the channel  *)
(* nor in a socket that cannot be closed yet, and none is left undone when *)
(* the loop sleeps (handle_control_message 359-368, drive_connections      *)
(* 475-496).                                                               *)
THEOREM ClosedConnectionsAwaitPeer == Spec => []ClosedAwaitsPeer
<1>1. Init => CloseIsKept
  BY DEF Init, CloseIsKept
<1>2. FlowInv /\ CloseIsKept /\ [Next]_vars => CloseIsKept'
  BY NextCloses DEF FlowInv
<1>3. FlowInv /\ CloseIsKept => ClosedAwaitsPeer
  <2> SUFFICES ASSUME FlowInv, CloseIsKept, pc = "wait", control = <<>>,
                      NEW c \in Clients, closed[c], id[c] \in Live
               PROVE  AwaitsPeer(id[c])
    BY DEF ClosedAwaitsPeer
  <2>1. PICK i : i = id[c]
    OBVIOUS
  <2>2. Remembered(i)
    BY <2>1 DEF CloseIsKept, Requested
  <2>3. \A j \in DOMAIN udp_associations : ~udp_associations[j].close_requested
    BY DEF FlowInv, Driven, ServedUdp
  <2>4. i \in DOMAIN connections /\ connections[i].close_requested
    BY <2>2, <2>3 DEF Remembered
  <2>5. PICK s : s = sockets[connections[i].handle]
    OBVIOUS
  <2>6. IsOpen(s.state) /\ ~MaySend(s)
    BY <2>4, <2>5 DEF FlowInv, Driven, Served
  <2>7. s \in TcpSocket
    BY <2>4, <2>5, SocketOf DEF FlowInv, IInv
  <2>8. s.state \in {"SynSent", "FinWait", "LastAck"}
    BY <2>6, <2>7 DEF TcpSocket, IsOpen, MaySend
  <2> QED BY <2>1, <2>4, <2>5, <2>8 DEF AwaitsPeer, Handle
<1> QED BY <1>1, <1>2, <1>3, FlowHolds, PTL DEF Spec

-----------------------------------------------------------------------------
(* The netstack's end of a client's handle.                                *)
Gone(c) == phase[c] = "open" /\ id[c] \notin Live

ClientHandle(c) == INSTANCE TunnelHandle WITH
    held    <- phase[c] = "open",
    closed  <- closed[c],
    ended   <- Gone(c),
    sent    <- sent[c],
    waiting <- delivered[c]   \* nobody takes anything here

LEMMA HandleAsWas ==
  ASSUME NEW c, phase'[c] = "open" <=> phase[c] = "open", Gone(c)' <=> Gone(c),
         closed'[c] = closed[c], sent'[c] = sent[c], delivered'[c] = delivered[c]
  PROVE  [ClientHandle(c)!HandleNext]_(ClientHandle(c)!handleVars)
<1>1. (phase[c] = "open")' = (phase[c] = "open") /\ Gone(c)' = Gone(c)
  BY DEF Gone
<1> QED BY <1>1 DEF ClientHandle!handleVars

LEMMA HandleOfOthers ==
  ASSUME NEW c, UNCHANGED <<phase[c], id[c], closed[c], sent[c], delivered[c]>>,
         id[c] \in Live <=> id[c] \in Live'
  PROVE  [ClientHandle(c)!HandleNext]_(ClientHandle(c)!handleVars)
BY HandleAsWas DEF Gone

LEMMA ClientHandleStep ==
  ASSUME IInv, NEW c \in Clients, NEW d \in Clients, ClientStep(d)
  PROVE  [ClientHandle(c)!HandleNext]_(ClientHandle(c)!handleVars)
<1>1. /\ phase \in [Clients -> Phases] /\ id \in [Clients -> Nat \cup {NoId}]
      /\ sent \in [Clients -> Nat] /\ closed \in [Clients -> BOOLEAN]
      /\ TcpClients \cap UdpClients = {} /\ ChunkLen \in Nat \ {0}
  BY NetstackAssumption DEF IInv, ClientsOK
<1>2. UNCHANGED <<connections, udp_associations, delivered>>
  BY DEF ClientStep, RequestOpen, OpenReturns, OpenTimesOut, ClientSend, ClientClose, DropReceiver,
         tableVars, flowVars
<1>3. Live' = Live
  BY <1>2 DEF Live
<1>4. CASE c # d
  <2>1. UNCHANGED <<phase[c], id[c], closed[c], sent[c]>>
    BY <1>1, <1>4 DEF ClientStep, RequestOpen, OpenReturns, OpenTimesOut, ClientSend, ClientClose,
                      DropReceiver
  <2> QED BY <1>2, <1>3, <2>1, HandleOfOthers
<1>5. CASE c = d /\ (RequestOpen(c) \/ OpenTimesOut(c))
  <2>1. phase[c] # "open" /\ phase'[c] # "open" /\ UNCHANGED <<closed, sent>>
    BY <1>1, <1>5 DEF RequestOpen, OpenTimesOut
  <2> QED BY <1>2, <2>1, HandleAsWas DEF Gone
<1>6. CASE c = d /\ OpenReturns(c)
  <2>1. phase[c] = "replied" /\ phase'[c] = "open" /\ UNCHANGED <<id, closed, sent>>
    BY <1>1, <1>6 DEF OpenReturns
  <2>2. ClientHandle(c)!Open
    BY <1>2, <2>1 DEF ClientHandle!Open, Gone
  <2> QED BY <2>2 DEF ClientHandle!HandleNext
<1>7. CASE c = d /\ ClientSend(c)
  <2>1. phase[c] = "open" /\ ~closed[c] /\ UNCHANGED <<phase, id, closed>>
    BY <1>7 DEF ClientSend
  <2>2. ClientHandle(c)!Send
    BY <1>2, <1>3, <2>1 DEF ClientHandle!Send, Gone
  <2> QED BY <2>2 DEF ClientHandle!HandleNext
<1>8. CASE c = d /\ ClientClose(c)
  <2>1. phase[c] = "open" /\ ~closed[c] /\ closed'[c] /\ UNCHANGED <<phase, id, sent>>
    BY <1>1, <1>8 DEF ClientClose
  <2>2. ClientHandle(c)!Close
    BY <1>2, <1>3, <2>1 DEF ClientHandle!Close, Gone
  <2> QED BY <2>2 DEF ClientHandle!HandleNext
<1>9. CASE c = d /\ DropReceiver(c)
  BY <1>2, <1>3, <1>9, HandleOfOthers DEF DropReceiver
<1> QED BY <1>4, <1>5, <1>6, <1>7, <1>8, <1>9 DEF ClientStep

(* A new entry has an id that no client has.                               *)
LEMMA OpenHandleStep ==
  ASSUME IInv, Ownership, NEW c \in Clients, HandleOpen \/ HandleOpenUdp
  PROVE  [ClientHandle(c)!HandleNext]_(ClientHandle(c)!handleVars)
<1>1. PICK d, n : d = Head(control).client /\ n = next_conn_id
  OBVIOUS
<1>2. /\ d \in Clients /\ Unopened(d)
      /\ UNCHANGED <<sent, closed, delivered>>
      /\ \A e \in Clients : e # d => phase'[e] = phase[e] /\ id'[e] = id[e]
      /\ phase'[d] \in {"opening", "gaveUp", "replied", "refused"}
  BY <1>1, OpenDoes, OpenUdpDoes
<1>3. Live' = Live \/ Live' = Live \cup {n}
  <2>1. CASE HandleOpen
    BY <1>1, <2>1, OpenDoes DEF Live
  <2>2. CASE HandleOpenUdp
    BY <1>1, <2>2, OpenUdpDoes DEF Live
  <2> QED BY <2>1, <2>2
<1>4. CASE c = d
  <2>1. phase[c] # "open" /\ phase'[c] # "open"
    BY <1>2, <1>4 DEF Unopened
  <2> QED BY <1>2, <2>1, HandleAsWas DEF Gone
<1>5. CASE c # d
  <2>1. phase'[c] = phase[c] /\ id'[c] = id[c]
    BY <1>2, <1>5
  <2>2. phase[c] = "open" => id[c] # n
    BY <1>1 DEF IInv, ClientsOK, HasId
  <2> QED BY <1>2, <1>3, <2>1, <2>2, HandleAsWas DEF Gone
<1> QED BY <1>4, <1>5

(* The turn of one entry: it delivers to its owner, whose id it has, and   *)
(* it may be its last.                                                     *)
LEMMA DriveHandleStep ==
  ASSUME IInv, Ownership, NEW c \in Clients, NEW i \in todo, Drive(i)
  PROVE  [ClientHandle(c)!HandleNext]_(ClientHandle(c)!handleVars)
<1>1. /\ Tables /\ i \in Live /\ listening \in [Clients -> BOOLEAN]
      /\ delivered \in [Clients -> Nat]
  BY DEF IInv, LoopOK, ClientsOK
<1>2. UNCHANGED <<phase, id, closed, sent>>
  <2>1. CASE PumpPendingSend(i) \/ PumpPendingUdpSend(i)
    BY <2>1 DEF PumpPendingSend, PumpPendingUdpSend, clientVars
  <2>2. CASE FinishConnection(i)
    BY <2>2 DEF FinishConnection, clientVars
  <2>3. CASE FinishAssociation(i)
    BY <2>3 DEF FinishAssociation
  <2> QED BY <2>1, <2>2, <2>3 DEF Drive
<1>3. CASE PumpPendingSend(i) \/ PumpPendingUdpSend(i)
  <2>1. Live' = Live
    BY <1>1, <1>3, PumpDoes, PumpUdpDoes DEF Live
  <2>2. delivered' = delivered
    BY <1>3 DEF PumpPendingSend, PumpPendingUdpSend, flowVars
  <2> QED BY <1>2, <2>1, <2>2, HandleOfOthers
<1>4. CASE FinishConnection(i) \/ FinishAssociation(i)
  <2>1. PICK o \in Clients, r \in Nat :
          /\ delivered' = IF listening[o] THEN [delivered EXCEPT ![o] = @ + r] ELSE delivered
          /\ Live' = Live \/ Live' = Live \ {i}
          /\ phase[o] = "open" => id[o] = i
          /\ \A e \in Clients : id[e] = i => e = o
    <3>1. CASE FinishConnection(i)
      <4>1. PICK h, o : h = connections[i].handle /\ o = connections[i].owner
        OBVIOUS
      <4>2. /\ i \in DOMAIN connections /\ o \in Clients
            /\ udp_associations' = udp_associations
            /\ delivered' = IF listening[o] THEN [delivered EXCEPT ![o] = @ + sockets[h].rx]
                            ELSE delivered
            /\ \/ connections' = Without(connections, i)
               \/ DOMAIN connections' = DOMAIN connections
        BY <1>1, <3>1, <4>1, FinishDoes
      <4>3. sockets[h].rx \in Nat /\ i \notin DOMAIN udp_associations
        BY <1>1, <4>1, <4>2, SocketOf DEF Tables, Entries, TcpSocket
      <4>4. Live' = Live \/ Live' = Live \ {i}
        BY <4>2, <4>3 DEF Live, Without
      <4>5. phase[o] = "open" => id[o] = i
        BY <4>1, <4>2 DEF Ownership, HasId
      <4>6. \A e \in Clients : id[e] = i => e = o
        BY <4>1, <4>2 DEF IInv, Causes
      <4> QED BY <4>2, <4>3, <4>4, <4>5, <4>6
    <3>2. CASE FinishAssociation(i)
      <4>1. PICK h, o : h = udp_associations[i].handle /\ o = udp_associations[i].owner
        OBVIOUS
      <4>2. /\ i \in DOMAIN udp_associations /\ o \in Clients
            /\ connections' = connections
            /\ delivered' = IF listening[o] THEN [delivered EXCEPT ![o] = @ + sockets[h].rx]
                            ELSE delivered
            /\ \/ udp_associations' = Without(udp_associations, i)
               \/ udp_associations' = udp_associations
        BY <1>1, <3>2, <4>1, FinishUdpDoes
      <4>3. sockets[h].rx \in Nat /\ i \notin DOMAIN connections
        BY <1>1, <4>1, <4>2, SocketOfUdp DEF Tables, Entries, UdpSocket
      <4>4. Live' = Live \/ Live' = Live \ {i}
        BY <4>2, <4>3 DEF Live, Without
      <4>5. phase[o] = "open" => id[o] = i
        BY <4>1, <4>2 DEF Ownership, HasId
      <4>6. \A e \in Clients : id[e] = i => e = o
        BY <4>1, <4>2 DEF IInv, Causes
      <4> QED BY <4>2, <4>3, <4>4, <4>5, <4>6
    <3> QED BY <1>4, <3>1, <3>2
  <2>2. CASE c # o
    <3>1. delivered'[c] = delivered[c] /\ (id[c] \in Live <=> id[c] \in Live')
      BY <1>1, <2>1, <2>2
    <3> QED BY <1>2, <3>1, HandleOfOthers
  <2>3. CASE c = o /\ phase[c] # "open"
    <3>1. delivered'[c] \in Nat /\ delivered'[c] >= delivered[c]
      BY <1>1, <2>1, <2>3
    <3>2. CASE delivered'[c] = delivered[c]
      BY <1>2, <2>3, <3>2, HandleAsWas DEF Gone
    <3>3. CASE delivered'[c] > delivered[c]
      <4>1. ClientHandle(c)!Deliver
        BY <1>2, <2>3, <3>3 DEF ClientHandle!Deliver, Gone
      <4> QED BY <4>1 DEF ClientHandle!HandleNext
    <3> QED BY <1>1, <3>1, <3>2, <3>3
  <2>4. CASE c = o /\ phase[c] = "open"
    <3>1. /\ delivered'[c] \in Nat /\ delivered'[c] >= delivered[c]
          /\ id[c] = i /\ ~Gone(c)
      BY <1>1, <2>1, <2>4 DEF Gone
    <3>2. CASE Live' = Live /\ delivered'[c] = delivered[c]
      BY <1>2, <3>2, HandleOfOthers
    <3>3. CASE Live' = Live /\ delivered'[c] > delivered[c]
      <4>1. ClientHandle(c)!Deliver
        BY <1>2, <3>1, <3>3 DEF ClientHandle!Deliver, Gone
      <4> QED BY <4>1 DEF ClientHandle!HandleNext
    <3>4. CASE Live' = Live \ {i}
      <4>1. ClientHandle(c)!End
        BY <1>2, <2>4, <3>1, <3>4 DEF ClientHandle!End, Gone
      <4> QED BY <4>1 DEF ClientHandle!HandleNext
    <3> QED BY <1>1, <2>1, <3>1, <3>2, <3>3, <3>4
  <2> QED BY <2>2, <2>3, <2>4
<1> QED BY <1>3, <1>4 DEF Drive

LEMMA HandleStep ==
  ASSUME IInv, Ownership, NEW c \in Clients, [Next]_vars
  PROVE  [ClientHandle(c)!HandleNext]_(ClientHandle(c)!handleVars)
<1>1. CASE \/ UNCHANGED vars \/ ForwardTunnelPacket \/ WaitTimesOut \/ BatchEnds \/ PollEnds
           \/ DriveEnds
  <2>1. UNCHANGED <<phase, id, closed, sent, delivered, connections, udp_associations>>
    BY <1>1 DEF vars, clientVars, flowVars, tableVars, ForwardTunnelPacket, WaitTimesOut, BatchEnds,
                PollEnds, DriveEnds
  <2> QED BY <2>1, HandleOfOthers DEF Live
<1>2. ASSUME NEW d \in Clients, ClientStep(d)
      PROVE  [ClientHandle(c)!HandleNext]_(ClientHandle(c)!handleVars)
  BY <1>2, ClientHandleStep
<1>3. CASE HandleOpen \/ HandleOpenUdp
  BY <1>3, OpenHandleStep
<1>4. CASE HandlesEntry
  <2>1. /\ UNCHANGED <<phase, id, closed, sent, delivered>>
        /\ DOMAIN connections' = DOMAIN connections
        /\ DOMAIN udp_associations' = DOMAIN udp_associations
    BY <1>4, HandlersDo DEF clientVars, flowVars, IInv, Mail
  <2> QED BY <2>1, HandleOfOthers DEF Live
<1>5. ASSUME NEW i \in todo, Drive(i)
      PROVE  [ClientHandle(c)!HandleNext]_(ClientHandle(c)!handleVars)
  BY <1>5, DriveHandleStep
<1>6. ASSUME NEW i, PeerStep(i)
      PROVE  [ClientHandle(c)!HandleNext]_(ClientHandle(c)!handleVars)
  <2>1. UNCHANGED <<phase, id, closed, sent, delivered, connections, udp_associations>>
    BY <1>6 DEF PeerStep, PeerAccepts, PeerFinishes, PeerResets, PeerAnswersFin, TcpStep,
                PeerAcks, PeerSends, PeerSendsUdp, clientVars, flowVars
  <2> QED BY <2>1, HandleOfOthers DEF Live
<1>7. HandleMessage => HandleOpen \/ HandleOpenUdp \/ HandlesEntry
  BY DEF HandleMessage, HandlesEntry
<1> QED BY <1>1, <1>2, <1>3, <1>4, <1>5, <1>6, <1>7 DEF Next, LoopStep

(* For every client, of TCP or of UDP: its connection ends once, for good, *)
(* nothing is delivered afterwards, and no later one is taken for it       *)
(* (netstack.rs 61-195, 349-368, 475-496).  SessionKeepsHandle and         *)
(* RelayKeepsHandle say the same of the threads at the other end, each in  *)
(* the environment of its module.                                          *)
THEOREM NetstackKeepsHandle ==
  ASSUME NEW c \in Clients
  PROVE  Spec => ClientHandle(c)!HandleSpec
<1>1. Init => ClientHandle(c)!HandleInit
  BY DEF Init, Gone, ClientHandle!HandleInit
<1>2. FlowInv /\ [Next]_vars => [ClientHandle(c)!HandleNext]_(ClientHandle(c)!handleVars)
  BY HandleStep DEF FlowInv
<1> QED BY <1>1, <1>2, FlowHolds, PTL DEF Spec, ClientHandle!HandleSpec
=============================================================================
