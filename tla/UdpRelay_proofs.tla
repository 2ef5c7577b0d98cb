--------------------------- MODULE UdpRelay_proofs ---------------------------
(***************************************************************************)
(* TLAPS proofs about the UDP relay, for any set of peers, any receive     *)
(* buffer and any number of datagrams.                                     *)
(***************************************************************************)
EXTENDS UdpRelay, TLAPS

(* A datagram that has passed the checks is a peer's, and one that is about*)
(* to be routed is the client's (socks.rs 366-382).                        *)
InHand ==
    /\ relay \in {"remember", "route"} => datagram.from \in Peers
    /\ relay = "route" => datagram.from = client_peer

IInv == TypeOK /\ InHand /\ OneClient

(* Reading from and writing to the receive buffer keep its type.           *)
LEMMA ArriveType ==
  ASSUME TypeOK, NEW d \in Datagrams, Arrive(d)
  PROVE  inbox' \in Seq(Datagrams) /\ Len(inbox') <= Capacity
<1>1. CASE Len(inbox) < Capacity
  <2>1. inbox' = Append(inbox, d)
    BY <1>1 DEF Arrive
  <2>2. inbox' \in Seq(Datagrams) /\ Len(inbox') = Len(inbox) + 1
    BY <2>1 DEF TypeOK
  <2>3. Len(inbox) \in Nat
    BY DEF TypeOK
  <2>4. QED
    BY <1>1, <2>2, <2>3, UdpRelayAssumption
<1>2. CASE ~(Len(inbox) < Capacity)
  BY <1>2 DEF Arrive, TypeOK
<1>3. QED
  BY <1>1, <1>2

LEMMA RecvType ==
  ASSUME TypeOK, inbox # <<>>
  PROVE  /\ Head(inbox) \in Datagrams
         /\ Tail(inbox) \in Seq(Datagrams) /\ Len(Tail(inbox)) <= Capacity
<1>1. inbox \in Seq(Datagrams) /\ Len(inbox) <= Capacity
  BY DEF TypeOK
<1>2. Head(inbox) \in Datagrams /\ Tail(inbox) \in Seq(Datagrams)
  BY <1>1
<1>3. Len(Tail(inbox)) = Len(inbox) - 1 /\ Len(inbox) \in Nat
  BY <1>1
<1>4. QED
  BY <1>1, <1>2, <1>3, UdpRelayAssumption

(* IInv is inductive, hence an invariant (socks.rs 103-177, 356-459).      *)
THEOREM RelayInvariant == Spec => []IInv
<1>1. Init => IInv
  <2> SUFFICES ASSUME Init PROVE IInv
    OBVIOUS
  <2>1. inbox \in Seq(Datagrams) /\ Len(inbox) = 0
    BY DEF Init
  <2>2. TypeOK
    <3>1. inbox \in Seq(Datagrams) /\ Len(inbox) <= Capacity
      BY <2>1, UdpRelayAssumption
    <3>2. datagram \in Datagrams
      BY DEF Init, Datagrams
    <3>3. stop \in BOOLEAN
      BY DEF Init
    <3>4. replies \in 0 .. MaxReplies
      BY UdpRelayAssumption DEF Init
    <3>5. QED
      BY <3>1, <3>2, <3>3, <3>4 DEF Init, TypeOK
  <2>3. QED
    BY <2>2 DEF Init, IInv, InHand, OneClient
<1>2. IInv /\ [Next]_vars => IInv'
  <2> SUFFICES ASSUME IInv, [Next]_vars PROVE IInv'
    OBVIOUS
  <2> USE UdpRelayAssumption DEF IInv, InHand, OneClient, traffic
  <2>1. CASE OpenAssociation
    BY <2>1 DEF OpenAssociation, TypeOK
  <2>2. CASE WriteReply
    BY <2>2 DEF WriteReply, TypeOK
  <2>3. CASE Recv
    BY <2>3, RecvType DEF Recv, TypeOK
  <2>4. CASE RecvFails
    BY <2>4 DEF RecvFails, TypeOK
  <2>5. CASE CheckStop
    <3>1. TypeOK'
      BY <2>5 DEF CheckStop, TypeOK
    <3>2. relay' = "remember" => datagram.from \in Peers
      BY <2>5 DEF CheckStop, TypeOK, Datagrams, WakeUp
    <3>3. QED
      BY <2>5, <3>1, <3>2 DEF CheckStop
  <2>6. CASE RememberUdpClient
    BY <2>6 DEF RememberUdpClient, TypeOK
  <2>7. CASE Route
    BY <2>7 DEF Route, TypeOK
  <2>8. CASE Close \/ ShutdownControl \/ Join
    BY <2>8 DEF Close, ShutdownControl, Join, TypeOK
  <2>9. CASE ForwarderStep
    BY <2>9 DEF ForwarderStep, Forward, ForwarderEnds, TypeOK
  <2>10. CASE ControlEnds \/ ClientEndsControl \/ UplinkDelivers \/ RemoveAssociation
    BY <2>10 DEF ControlEnds, ClientEndsControl, UplinkDelivers, RemoveAssociation, TypeOK
  <2>11. CASE Signal
    <3>1. WakeUp \in Datagrams
      BY DEF Datagrams
    <3>2. inbox' \in Seq(Datagrams) /\ Len(inbox') <= Capacity
      BY <2>11, <3>1, ArriveType DEF Signal, TypeOK
    <3>3. stop' \in BOOLEAN
      BY <2>11 DEF Signal, TypeOK
    <3>4. watcher' \in {"wake", "done", "mute"}
      BY <2>11 DEF Signal
    <3>5. QED
      BY <2>11, <3>2, <3>3, <3>4 DEF Signal, TypeOK
  <2>12. ASSUME NEW p \in Peers, PeerSends(p)
         PROVE  IInv'
    <3>1. PICK kind \in Kinds : Arrive([from |-> p, kind |-> kind])
      BY <2>12 DEF PeerSends
    <3>2. [from |-> p, kind |-> kind] \in Datagrams
      BY DEF Datagrams
    <3>3. inbox' \in Seq(Datagrams) /\ Len(inbox') <= Capacity
      BY <3>1, <3>2, ArriveType
    <3>4. QED
      BY <2>12, <3>3 DEF PeerSends, TypeOK
  <2>13. CASE UNCHANGED vars
    BY <2>13 DEF vars, TypeOK
  <2>14. QED
    BY <2>1, <2>2, <2>3, <2>4, <2>5, <2>6, <2>7, <2>8, <2>9, <2>10, <2>11, <2>12, <2>13
       DEF Next, RelayStep, WatcherStep
<1>3. QED
  BY <1>1, <1>2, PTL DEF Spec

(* One address is served, and it is the address whose datagrams entered    *)
(* the tunnel (socks.rs 424-449).                                          *)
THEOREM OneClientIsServed == Spec => []OneClient
<1>1. IInv => OneClient
  BY DEF IInv
<1>2. QED
  BY <1>1, RelayInvariant, PTL

(* Once there is a client it stays the client, whoever else sends and in   *)
(* whatever order the threads run (remember_udp_client 438-449).           *)
ClientStays == [][client_peer # NoPeer => client_peer' = client_peer]_vars

THEOREM ClientIsPinned == Spec => ClientStays
<1>1. [Next]_vars => [client_peer # NoPeer => client_peer' = client_peer]_vars
  <2> SUFFICES ASSUME Next, client_peer # NoPeer PROVE client_peer' = client_peer
    OBVIOUS
  <2>1. CASE RememberUdpClient
    BY <2>1 DEF RememberUdpClient
  <2>2. CASE ~RememberUdpClient
    BY <2>2 DEF Next, RelayStep, ForwarderStep, WatcherStep, OpenAssociation, WriteReply,
       Recv, RecvFails, CheckStop, Route, Close, ShutdownControl, Join, Forward,
       ForwarderEnds, ControlEnds, Signal, ClientEndsControl, UplinkDelivers,
       RemoveAssociation, PeerSends
  <2>3. QED
    BY <2>1, <2>2
<1>2. QED
  BY <1>1, PTL DEF Spec, ClientStays
-----------------------------------------------------------------------------
(* The three threads as far as they wait for one another.  Woken: the      *)
(* message is in the stop channel before the datagram is sent, so that a   *)
(* relay that has not seen it finds a datagram, the waker's or one that    *)
(* left it no room.                                                        *)
Woken ==
    /\ stop <=> watcher \in {"wake", "done", "mute"}
    /\ watcher = "done" /\ relay \in {"recv", "remember", "route"} => inbox # <<>>

(* The other two threads live from the reply on.                           *)
Born ==
    /\ relay \in {"open", "reply"} => forwarder = "unborn" /\ watcher = "unborn"
    /\ relay \notin {"open", "reply", "done"} => forwarder # "unborn" /\ watcher # "unborn"

(* What the relay has given up by the time it joins them.                  *)
Released ==
    /\ relay \in {"shutdown", "joinForwarder", "joinWatcher", "done"} => association # "open"
    /\ relay = "open" => association = "none"
    /\ relay \notin {"open", "done"} => association # "none"
    /\ relay \in {"joinForwarder", "joinWatcher"} => control # "open"

Joined ==
    /\ relay \in {"joinWatcher", "done"} => forwarder \in {"unborn", "done"}
    /\ relay = "done" => watcher \in {"unborn", "done", "mute"}

Threads == Woken /\ Born /\ Released /\ Joined

LEMMA ArriveFills == ASSUME TypeOK, NEW d \in Datagrams, Arrive(d) PROVE inbox' # <<>>
<1>1. CASE Len(inbox) < Capacity
  <2>1. inbox' = Append(inbox, d) /\ inbox \in Seq(Datagrams)
    BY <1>1 DEF Arrive, TypeOK
  <2> QED BY <2>1
<1>2. CASE ~ (Len(inbox) < Capacity)
  <2>1. inbox' = inbox /\ ~ (Len(inbox) < Capacity) /\ Capacity >= 1 /\ Capacity \in Nat
    BY <1>2, UdpRelayAssumption DEF Arrive
  <2> QED BY <2>1
<1> QED BY <1>1, <1>2

LEMMA ThreadsHold == Spec => []Threads
<1>1. Init => Threads
  BY DEF Init, Threads, Woken, Born, Released, Joined
<1>2. IInv /\ Threads /\ [Next]_vars => Threads'
  <2> SUFFICES ASSUME TypeOK, Threads, [Next]_vars PROVE Threads'
    BY DEF IInv
  <2> USE DEF Threads, Woken, Born, Released, Joined, traffic
  <2>1. CASE OpenAssociation \/ WriteReply
    <3>1. UNCHANGED <<stop, inbox, control>>
      BY <2>1 DEF OpenAssociation, WriteReply
    <3>2. watcher = "unborn" /\ forwarder = "unborn" /\ stop = FALSE
      BY <2>1 DEF OpenAssociation, WriteReply, TypeOK
    <3>3. CASE OpenAssociation
      BY <3>1, <3>2, <3>3 DEF OpenAssociation, TypeOK
    <3>4. CASE WriteReply /\ relay' = "recv"
      BY <3>1, <3>2, <3>4 DEF WriteReply, TypeOK
    <3>5. CASE WriteReply /\ relay' = "done"
      BY <3>1, <3>2, <3>5 DEF WriteReply, TypeOK
    <3> QED BY <2>1, <3>3, <3>4, <3>5 DEF WriteReply
  <2>2. CASE Recv
    BY <2>2 DEF Recv, TypeOK
  <2>3. CASE RecvFails \/ Close \/ ShutdownControl
    BY <2>3 DEF RecvFails, Close, ShutdownControl, TypeOK
  <2>4. CASE CheckStop
    BY <2>4 DEF CheckStop, TypeOK
  <2>5. CASE RememberUdpClient \/ Route
    BY <2>5 DEF RememberUdpClient, Route, TypeOK
  <2>6. CASE Join
    BY <2>6 DEF Join, TypeOK
  <2>7. CASE ForwarderStep
    BY <2>7 DEF ForwarderStep, Forward, ForwarderEnds, TypeOK
  <2>8. CASE ControlEnds \/ ClientEndsControl \/ UplinkDelivers \/ RemoveAssociation
    BY <2>8 DEF ControlEnds, ClientEndsControl, UplinkDelivers, RemoveAssociation, TypeOK
  <2>9. CASE Signal
    <3>1. WakeUp \in Datagrams
      BY DEF Datagrams
    <3>2. watcher' = "done" => inbox' # <<>>
      BY <2>9, <3>1, ArriveFills DEF Signal
    <3>3. CASE watcher = "stop" /\ stop' = TRUE /\ watcher' = "wake"
      BY <2>9, <3>3 DEF Signal
    <3>4. CASE watcher = "wake" /\ watcher' \in {"done", "mute"} /\ stop' = stop
      BY <2>9, <3>2, <3>4 DEF Signal
    <3> QED BY <2>9, <3>3, <3>4 DEF Signal
  <2>10. ASSUME NEW p \in Peers, PeerSends(p)
         PROVE  Threads'
    <3>1. PICK kind \in Kinds : Arrive([from |-> p, kind |-> kind])
      BY <2>10 DEF PeerSends
    <3>2. [from |-> p, kind |-> kind] \in Datagrams
      BY DEF Datagrams
    <3>3. inbox' # <<>>
      BY <3>1, <3>2, ArriveFills
    <3> QED BY <2>10, <3>3 DEF PeerSends
  <2>11. CASE UNCHANGED vars
    BY <2>11 DEF vars
  <2> QED
    BY <2>1, <2>2, <2>3, <2>4, <2>5, <2>6, <2>7, <2>8, <2>9, <2>10, <2>11
       DEF Next, RelayStep, WatcherStep
<1>3. QED
  BY <1>1, <1>2, RelayInvariant, PTL DEF Spec

(* The guards of the steps that ThreadsEnd takes to be fair.               *)
CanMove ==
    \/ relay \in {"open", "reply", "check", "remember", "route", "close", "shutdown"}
    \/ relay = "recv" /\ inbox # <<>>
    \/ relay = "joinForwarder" /\ forwarder = "done"
    \/ relay = "joinWatcher" /\ watcher \in {"done", "mute"}
    \/ forwarder = "recv" /\ (replies > 0 \/ association = "gone")
    \/ watcher = "read" /\ control # "open"
    \/ watcher \in {"stop", "wake"}
    \/ association = "closing"

(* No thread of an association waits for another one that waits: with      *)
(* nothing left to do for the threads and the netstack, all has ended, or  *)
(* the relay waits for a datagram, the control connection being open or    *)
(* the waker without a socket (handle_udp_associate 140-176,               *)
(* wake_udp_relay 455-459).  This is what ThreadsEnd rests on beside the   *)
(* fairness of the threads.                                                *)
OnlyTheClientIsWaitedFor ==
    \/ CanMove
    \/ ~Alive /\ association \in {"none", "gone"}
    \/ relay = "recv" /\ (control = "open" \/ watcher = "mute")

THEOREM RelayIsNeverStuck == Spec => []OnlyTheClientIsWaitedFor
<1>1. IInv /\ Threads => OnlyTheClientIsWaitedFor
  <2> SUFFICES ASSUME TypeOK, Threads, ~CanMove PROVE OnlyTheClientIsWaitedFor
    BY DEF IInv, OnlyTheClientIsWaitedFor
  <2> USE DEF Threads, Woken, Born, Released, Joined
  <2>1. relay \in {"recv", "joinForwarder", "joinWatcher", "done"}
    BY DEF CanMove, TypeOK
  <2>2. (watcher = "read" /\ control = "open") \/ watcher \in {"unborn", "done", "mute"}
    BY DEF CanMove, TypeOK
  <2>3. CASE relay = "recv"
    BY <2>2, <2>3 DEF CanMove, OnlyTheClientIsWaitedFor
  <2>4. relay # "joinForwarder"
    BY <2>2 DEF CanMove, TypeOK
  <2>5. relay # "joinWatcher"
    BY <2>2 DEF CanMove, TypeOK
  <2>6. CASE relay = "done"
    BY <2>6 DEF CanMove, TypeOK, OnlyTheClientIsWaitedFor, Alive
  <2> QED BY <2>1, <2>3, <2>4, <2>5, <2>6
<1>2. QED
  BY <1>1, RelayInvariant, ThreadsHold, PTL
-----------------------------------------------------------------------------
(* The association as a handle of the tunnel: close() is called on every   *)
(* way out of the relay (handle_udp_associate 131-134, 172).           *)
Association == INSTANCE TunnelHandle WITH
    held    <- association # "none",
    closed  <- association # "none"
               /\ relay \in {"shutdown", "joinForwarder", "joinWatcher", "done"},
    ended   <- association = "gone",
    sent    <- tunnelled,
    waiting <- replies

(* The relay sends into the tunnel only before it closes the association,  *)
(* and closes it once; and what the netstack and the tunnel do here is     *)
(* what module Netstack is proved to do for a client.                      *)
THEOREM RelayKeepsHandle == Spec => Association!HandleSpec
<1> USE DEF Association!HandleNext, Association!handleVars, Association!Open, Association!Send,
            Association!Close, Association!Take, Association!Deliver, Association!End
<1>1. Init => Association!HandleInit
  BY DEF Init, Association!HandleInit
<1>2. IInv /\ Threads /\ [Next]_vars => [Association!HandleNext]_Association!handleVars
  <2> SUFFICES ASSUME TypeOK, Threads, [Next]_vars
               PROVE  [Association!HandleNext]_Association!handleVars
    BY DEF IInv
  <2> USE DEF Threads, Released, traffic
  <2>1. CASE OpenAssociation
    BY <2>1 DEF OpenAssociation
  <2>2. CASE WriteReply
    BY <2>2 DEF WriteReply, TypeOK
  <2>3. CASE Recv \/ RecvFails \/ CheckStop \/ RememberUdpClient
    BY <2>3 DEF Recv, RecvFails, CheckStop, RememberUdpClient
  <2>4. CASE Route
    BY <2>4 DEF Route
  <2>5. CASE Close
    BY <2>5 DEF Close, TypeOK
  <2>6. CASE ShutdownControl \/ Join
    BY <2>6 DEF ShutdownControl, Join
  <2>7. CASE Forward
    BY <2>7 DEF Forward, TypeOK
  <2>8. CASE UplinkDelivers
    BY <2>8 DEF UplinkDelivers, TypeOK
  <2>9. CASE RemoveAssociation
    BY <2>9 DEF RemoveAssociation, TypeOK
  <2>10. CASE ForwarderEnds \/ ControlEnds \/ Signal \/ ClientEndsControl
    BY <2>10 DEF ForwarderEnds, ControlEnds, Signal, ClientEndsControl
  <2>11. ASSUME NEW p \in Peers, PeerSends(p)
         PROVE  UNCHANGED Association!handleVars
    BY <2>11 DEF PeerSends
  <2>12. CASE UNCHANGED vars
    BY <2>12 DEF vars
  <2> QED
    BY <2>1, <2>2, <2>3, <2>4, <2>5, <2>6, <2>7, <2>8, <2>9, <2>10, <2>11, <2>12
       DEF Next, RelayStep, ForwarderStep, WatcherStep
<1>3. QED
  BY <1>1, <1>2, RelayInvariant, ThreadsHold, PTL DEF Spec, Association!HandleSpec
=============================================================================
