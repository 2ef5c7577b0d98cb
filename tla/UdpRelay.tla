------------------------------ MODULE UdpRelay ------------------------------
(***************************************************************************)
(* socks.rs, UDP ASSOCIATE: the thread that handles one client opens a     *)
(* netstack association and becomes the relay, which reads datagrams from  *)
(* a UDP socket; a forwarder thread writes what comes back; a watcher      *)
(* thread waits for the control connection to end and then tells the relay *)
(* by a message, and by an empty datagram that gets it out of recv_from.   *)
(*                                                                         *)
(* Here the netstack is the state of one association, "closing" once its   *)
(* CloseUdp is in the control channel, and the number of datagrams in its  *)
(* uplink channel (module Netstack has the rest).  A datagram is its       *)
(* source and whether it is empty, not a SOCKS datagram, or valid.  Of the *)
(* datagrams that went either way, `tunnelled` and `served` keep the peers. *)
(*                                                                         *)
(* Not modelled: failures before anything is open (bind, clone), bytes on  *)
(* the control connection (read and ignored), a poisoned mutex.            *)
(***************************************************************************)
EXTENDS Naturals, Sequences

CONSTANTS Peers,       \* addresses that send to the relay's socket
          Waker,       \* the address of wake_udp_relay's socket
          NoPeer,
          Capacity,    \* datagrams the relay socket's receive buffer holds
          MaxReplies   \* bound: datagrams waiting in the uplink channel

ASSUME UdpRelayAssumption ==
    /\ NoPeer \notin Peers /\ Waker \notin Peers /\ Waker # NoPeer
    /\ Capacity \in Nat \ {0} /\ MaxReplies \in Nat

VARIABLES relay, forwarder, watcher,   \* what each thread is about to do
          control,       \* the control connection
          stop,          \* a message is in the stop channel
          inbox,         \* the receive buffer of the relay's socket
          datagram,      \* what recv_from returned last
          client_peer,
          association, replies,
          tunnelled,     \* history: whose payloads entered the tunnel
          served         \* history: who was sent what came out of it

vars == <<relay, forwarder, watcher, control, stop, inbox, datagram, client_peer,
          association, replies, tunnelled, served>>
traffic == <<tunnelled, served>>

Kinds == {"empty", "invalid", "valid"}
WakeUp == [from |-> Waker, kind |-> "empty"]
Datagrams == [from : Peers, kind : Kinds] \cup {WakeUp}

TypeOK ==
    /\ relay \in {"open", "reply", "recv", "check", "remember", "route",
                  "close", "shutdown", "joinForwarder", "joinWatcher", "done"}
    /\ forwarder \in {"unborn", "recv", "done"}
    /\ watcher \in {"unborn", "read", "stop", "wake", "done", "mute"}
    /\ control \in {"open", "ended", "shutdown"}
    /\ stop \in BOOLEAN
    /\ inbox \in Seq(Datagrams) /\ Len(inbox) <= Capacity
    /\ datagram \in Datagrams
    /\ client_peer \in Peers \cup {NoPeer}
    /\ association \in {"none", "open", "closing", "gone"}
    /\ replies \in 0 .. MaxReplies
    /\ tunnelled \subseteq Peers /\ served \subseteq Peers

Init ==
    /\ relay = "open" /\ forwarder = "unborn" /\ watcher = "unborn"
    /\ control = "open" /\ stop = FALSE
    /\ inbox = <<>> /\ datagram = WakeUp
    /\ client_peer = NoPeer
    /\ association = "none" /\ replies = 0
    /\ tunnelled = {} /\ served = {}
-----------------------------------------------------------------------------
(* The relay thread.                                                       *)
OpenAssociation ==
    /\ relay = "open"
    /\ \/ relay' = "reply" /\ association' = "open"
       \/ relay' = "done" /\ UNCHANGED association
    /\ UNCHANGED <<forwarder, watcher, control, stop, inbox, datagram, client_peer,
                   replies, traffic>>

(* The reply with the relay's address is written and the threads start, or *)
(* the reply cannot be written and the association is closed.              *)
WriteReply ==
    /\ relay = "reply"
    /\ \/ /\ relay' = "recv" /\ forwarder' = "recv" /\ watcher' = "read"
          /\ UNCHANGED association
       \/ /\ relay' = "done"
          /\ association' = IF association = "open" THEN "closing" ELSE association
          /\ UNCHANGED <<forwarder, watcher>>
    /\ UNCHANGED <<control, stop, inbox, datagram, client_peer, replies, traffic>>

Recv ==
    /\ relay = "recv" /\ inbox # <<>>
    /\ datagram' = Head(inbox) /\ inbox' = Tail(inbox)
    /\ relay' = "check"
    /\ UNCHANGED <<forwarder, watcher, control, stop, client_peer,
                   association, replies, traffic>>

RecvFails ==
    /\ relay = "recv"
    /\ relay' = "close"
    /\ UNCHANGED <<forwarder, watcher, control, stop, inbox, datagram, client_peer,
                   association, replies, traffic>>

CheckStop ==
    /\ relay = "check"
    /\ relay' = IF stop THEN "close"
                ELSE IF datagram.kind = "empty" THEN "recv" ELSE "remember"
    /\ UNCHANGED <<forwarder, watcher, control, stop, inbox, datagram, client_peer,
                   association, replies, traffic>>

\* mutant: the latest sender is the client
RememberLatest ==
    /\ relay = "remember"
    /\ client_peer' = datagram.from
    /\ relay' = IF datagram.kind = "valid" THEN "route" ELSE "recv"
    /\ UNCHANGED <<forwarder, watcher, control, stop, inbox, datagram,
                   association, replies, traffic>>

(* remember_udp_client, and the parser: the first sender is the client,    *)
(* whatever it sent.                                                       *)
RememberUdpClient ==
    /\ relay = "remember"
    /\ IF client_peer \in {NoPeer, datagram.from}
       THEN /\ client_peer' = datagram.from
            /\ relay' = IF datagram.kind = "valid" THEN "route" ELSE "recv"
       ELSE relay' = "recv" /\ UNCHANGED client_peer
    /\ UNCHANGED <<forwarder, watcher, control, stop, inbox, datagram,
                   association, replies, traffic>>

(* A remote target's payload is sent into the tunnel, which the netstack   *)
(* ignores once the association is gone; another target is not supported.  *)
Route ==
    /\ relay = "route"
    /\ relay' = "recv"
    /\ \/ tunnelled' = IF association = "open" THEN tunnelled \cup {datagram.from}
                       ELSE tunnelled
       \/ UNCHANGED tunnelled
    /\ UNCHANGED <<forwarder, watcher, control, stop, inbox, datagram, client_peer,
                   association, replies, served>>

Close ==
    /\ relay = "close"
    /\ relay' = "shutdown"
    /\ association' = IF association = "open" THEN "closing" ELSE association
    /\ UNCHANGED <<forwarder, watcher, control, stop, inbox, datagram, client_peer,
                   replies, traffic>>

ShutdownControl ==
    /\ relay = "shutdown"
    /\ relay' = "joinForwarder"
    /\ control' = IF control = "open" THEN "shutdown" ELSE control
    /\ UNCHANGED <<forwarder, watcher, stop, inbox, datagram, client_peer,
                   association, replies, traffic>>

Join ==
    /\ \/ relay = "joinForwarder" /\ forwarder = "done" /\ relay' = "joinWatcher"
       \/ relay = "joinWatcher" /\ watcher \in {"done", "mute"} /\ relay' = "done"
    /\ UNCHANGED <<forwarder, watcher, control, stop, inbox, datagram, client_peer,
                   association, replies, traffic>>
-----------------------------------------------------------------------------
(* forward_udp_from_tunnel: the peer is looked up for each datagram.       *)
Forward ==
    /\ forwarder = "recv" /\ replies > 0
    /\ replies' = replies - 1
    /\ served' = IF client_peer = NoPeer THEN served ELSE served \cup {client_peer}
    /\ UNCHANGED <<relay, forwarder, watcher, control, stop, inbox, datagram,
                   client_peer, association, tunnelled>>

ForwarderEnds ==
    /\ forwarder = "recv" /\ replies = 0 /\ association = "gone"
    /\ forwarder' = "done"
    /\ UNCHANGED <<relay, watcher, control, stop, inbox, datagram, client_peer,
                   association, replies, traffic>>
-----------------------------------------------------------------------------
(* What a datagram that arrives does to a full or to a closed socket.      *)
Arrive(d) == inbox' = IF Len(inbox) < Capacity THEN Append(inbox, d) ELSE inbox

ControlEnds ==
    /\ watcher = "read" /\ control # "open"
    /\ watcher' = "stop"
    /\ UNCHANGED <<relay, forwarder, control, stop, inbox, datagram, client_peer,
                   association, replies, traffic>>

\* mutant: the datagram is sent before the message
SignalWakesFirst ==
    /\ \/ /\ watcher = "stop"
          /\ Arrive(WakeUp) /\ watcher' = "wake"
          /\ UNCHANGED stop
       \/ /\ watcher = "wake"
          /\ stop' = TRUE /\ watcher' = "done"
          /\ UNCHANGED inbox
    /\ UNCHANGED <<relay, forwarder, control, datagram, client_peer,
                   association, replies, traffic>>

(* stop_tx.send, then wake_udp_relay, whose socket may fail to bind.       *)
Signal ==
    /\ \/ /\ watcher = "stop"
          /\ stop' = TRUE /\ watcher' = "wake"
          /\ UNCHANGED inbox
       \/ /\ watcher = "wake"
          /\ \/ Arrive(WakeUp) /\ watcher' = "done"
             \/ UNCHANGED inbox /\ watcher' = "mute"
          /\ UNCHANGED stop
    /\ UNCHANGED <<relay, forwarder, control, datagram, client_peer,
                   association, replies, traffic>>
-----------------------------------------------------------------------------
(* The SOCKS client, whoever else can reach the relay's socket, and the    *)
(* netstack: it removes the association when asked to, and on its own when *)
(* smoltcp refuses a datagram.                                             *)
ClientEndsControl ==
    /\ control = "open"
    /\ control' = "ended"
    /\ UNCHANGED <<relay, forwarder, watcher, stop, inbox, datagram, client_peer,
                   association, replies, traffic>>

PeerSends(p) ==
    /\ relay # "done"
    /\ \E kind \in Kinds : Arrive([from |-> p, kind |-> kind])
    /\ UNCHANGED <<relay, forwarder, watcher, control, stop, datagram, client_peer,
                   association, replies, traffic>>

UplinkDelivers ==
    /\ association \in {"open", "closing"} /\ replies < MaxReplies
    /\ replies' = replies + 1
    /\ UNCHANGED <<relay, forwarder, watcher, control, stop, inbox, datagram,
                   client_peer, association, traffic>>

RemoveAssociation ==
    /\ association \in {"open", "closing"}
    /\ association' = "gone"
    /\ UNCHANGED <<relay, forwarder, watcher, control, stop, inbox, datagram,
                   client_peer, replies, traffic>>
-----------------------------------------------------------------------------
RelayStep == \/ OpenAssociation \/ WriteReply \/ Recv \/ CheckStop \/ RememberUdpClient
             \/ Route \/ Close \/ ShutdownControl \/ Join
ForwarderStep == Forward \/ ForwarderEnds
WatcherStep == ControlEnds \/ Signal

Next == \/ RelayStep \/ RecvFails \/ ForwarderStep \/ WatcherStep
        \/ ClientEndsControl \/ UplinkDelivers \/ RemoveAssociation
        \/ \E p \in Peers : PeerSends(p)

Spec == Init /\ [][Next]_vars

(* Threads run, and the netstack carries out a CloseUdp (its loop runs:    *)
(* module Netstack).  The client, the peers and the tunnel promise nothing.*)
Fairness ==
    /\ WF_vars(RelayStep)
    /\ WF_vars(ForwarderStep)
    /\ WF_vars(WatcherStep)
    /\ WF_vars(association = "closing" /\ RemoveAssociation)

FairSpec == Spec /\ Fairness
-----------------------------------------------------------------------------
(* One client per association: everything that enters the tunnel comes     *)
(* from one address, what comes out of it goes to that address alone, and  *)
(* the relay's own waker is never taken for the client (remember_udp_client*)
(* 438-449, forward_udp_from_tunnel 424-436, wake_udp_relay 455-459).      *)
OneClient == tunnelled \cup served \subseteq {client_peer} \ {NoPeer, Waker}

Alive == \/ relay # "done" \/ forwarder = "recv"
         \/ watcher \notin {"unborn", "done", "mute"}

(* When the control connection ends, or the relay gives up, every thread   *)
(* ends and the association is released, however many datagrams peers send *)
(* (handle_udp_associate 140-176).  The one exception is a waker that      *)
(* cannot bind a socket: then the relay waits for a datagram of a peer.    *)
ThreadsEnd ==
    control # "open" \/ relay \in {"close", "done"} ~>
        \/ ~Alive /\ association \in {"none", "gone"}
        \/ watcher = "mute"
=============================================================================
