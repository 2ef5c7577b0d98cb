---------------------------- MODULE TunnelRuntime ----------------------------
(***************************************************************************)
(* protocol.rs and the threads of app.rs / socks.rs around it: the main    *)
(* thread opens the command, RX and TX streams and spawns the workers; the *)
(* RX worker, the TX worker and the command heartbeat run until they fail; *)
(* the first failure is recorded and ends the process.                     *)
(*                                                                         *)
(* The fatal latch is one atomic step here (module FatalLatch has its      *)
(* mutex and condition variable).  A stream is what a thread can observe   *)
(* of it: "up", "stalled" (the peer is gone and nothing tells so: reads    *)
(* wait, writes are accepted until their 5 s timeout), "broken" (end of    *)
(* file or an error).  The data streams have no read timeout once open,    *)
(* all streams have a write timeout (tls.rs 21-26).                        *)
(*                                                                         *)
(* Not modelled because no execution reaches them: the TX worker's         *)
(* Disconnected arm and the RX worker's failed send (TX_PACKET_SENDER and  *)
(* CONTROL_TX are statics that are never dropped), poisoned mutexes, and a *)
(* second start_tunnel_runtime in one process.                             *)
(***************************************************************************)
EXTENDS Naturals, Sequences

CONSTANTS STREAM_RETRY_LIMIT,
          COMMAND_HEARTBEAT_FAILURE_LIMIT,
          Window,      \* packets are numbered modulo Window
          MaxQueue,    \* bound: packets waiting in the TX channel
          Unreliable,  \* bound: the workers whose stream can be lost
          NoReason, NoPacket, HeartbeatPacket

ASSUME RuntimeAssumption ==
    /\ STREAM_RETRY_LIMIT \in Nat \ {0}
    /\ COMMAND_HEARTBEAT_FAILURE_LIMIT \in Nat \ {0}
    /\ MaxQueue \in Nat \ {0}
    /\ Window \in Nat /\ Window > MaxQueue + 1
    /\ Unreliable \subseteq {"rx", "tx", "command"}
    /\ NoReason \notin {"rx", "tx", "command"}
    /\ NoPacket \notin Nat /\ HeartbeatPacket \notin Nat
    /\ NoPacket # HeartbeatPacket

VARIABLES main,        \* what the main thread is about to do
          pc,          \* what each worker is about to do
          conn,        \* state of the stream of each worker
          attempt,     \* `attempt` of open_data_stream_with_retries
          failures,    \* failure_count of command_heartbeat_loop
          reason,      \* TUNNEL_FATAL_STATE.reason, as the worker it names
          txq,         \* the channel behind TX_PACKET_SENDER
          inhand,      \* `packet` of tx_worker_loop
          heartbeatDue,\* now >= next_heartbeat
          lastSent,    \* history: last packet the netstack handed over
          lastWritten  \* history: last packet accepted by a TX stream

txvars == <<txq, inhand, heartbeatDue, lastSent, lastWritten>>
vars == <<main, pc, conn, attempt, failures, reason, txvars>>

Profiles == {"rx", "tx"}
Workers == Profiles \cup {"command"}
Packet == 0 .. Window - 1
Succ(k) == (k + 1) % Window

(* NativeControlType and the other things a handshake can yield.           *)
ControlTypes == {"SendIp", "RxAck", "TxAck", "ServerReset", "Recovered", "IpBusy",
                 "Shutdown", "IpConflict", "IpKick", "Heartbeat", "Unknown"}
Replies == ControlTypes \cup {"NonControl", "NoReply"}

ExpectedAck(p) == IF p = "rx" THEN "RxAck" ELSE "TxAck"
Terminal == {"Shutdown", "IpKick", "IpConflict"}

(* open_data_stream: "opened", or a StreamOpenError.                       *)
OpenDataStream(p, reply) ==
    IF reply = ExpectedAck(p) THEN "opened"
    ELSE IF reply \in Terminal THEN "fatal" ELSE "retryable"
-----------------------------------------------------------------------------
MainPC == {"openCommand", "openRx", "openTx", "spawnRx", "spawnTx", "spawnCommand",
           "startNetstack", "bind", "wait", "startupFailed", "exited"}
WorkerPC == {"unborn", "running", "reopening", "rewrite", "stopping", "stopped"}

TypeOK ==
    /\ main \in MainPC
    /\ pc \in [Workers -> WorkerPC]
    /\ conn \in [Workers -> {"none", "up", "stalled", "broken"}]
    /\ attempt \in [Profiles -> 0 .. STREAM_RETRY_LIMIT]
    /\ failures \in 0 .. COMMAND_HEARTBEAT_FAILURE_LIMIT
    /\ reason \in Workers \cup {NoReason}
    /\ txq \in Seq(Packet) /\ Len(txq) <= MaxQueue
    /\ inhand \in Packet \cup {NoPacket, HeartbeatPacket}
    /\ heartbeatDue \in BOOLEAN
    /\ lastSent \in Packet
    /\ lastWritten \in Packet

Init ==
    /\ main = "openCommand"
    /\ pc = [w \in Workers |-> "unborn"]
    /\ conn = [w \in Workers |-> "none"]
    /\ attempt = [p \in Profiles |-> 0]
    /\ failures = 0
    /\ reason = NoReason
    /\ txq = <<>>
    /\ inhand = NoPacket
    /\ heartbeatDue = FALSE
    /\ lastSent = 0
    /\ lastWritten = 0

Goto(w, label) == pc' = [pc EXCEPT ![w] = label]
-----------------------------------------------------------------------------
(* One iteration of open_data_stream_with_retries for profile p.  `result` *)
(* tells the caller what became of it.  Outside the loop `attempt` is out  *)
(* of scope, here 0, which is also what first_open starts from.            *)
\* mutant: the counter starts over where the attempts should end
OpenAttemptStartsOver(p, result) ==
    \E reply \in Replies :
        LET ack == OpenDataStream(p, reply) IN
        /\ result = CASE ack = "opened" -> "opened"
                      [] ack = "fatal" -> "failed"
                      [] ack = "retryable" -> "again"
        /\ conn' = IF ack = "opened" THEN [conn EXCEPT ![p] = "up"] ELSE conn
        /\ attempt' = [attempt EXCEPT ![p] = CASE result # "again" -> 0
                                               [] attempt[p] < STREAM_RETRY_LIMIT -> @ + 1
                                               [] OTHER -> 1]

OpenAttempt(p, result) ==
    \E reply \in Replies :
        LET ack == OpenDataStream(p, reply) IN
        /\ result = CASE ack = "opened" -> "opened"
                      [] ack = "fatal" -> "failed"
                      [] ack = "retryable" /\ attempt[p] < STREAM_RETRY_LIMIT -> "again"
                      [] ack = "retryable" /\ attempt[p] >= STREAM_RETRY_LIMIT -> "failed"
        /\ conn' = IF ack = "opened" THEN [conn EXCEPT ![p] = "up"] ELSE conn
        /\ attempt' = [attempt EXCEPT ![p] = IF result = "again" THEN @ + 1 ELSE 0]

(* open_command_stream: one attempt only; on success the stream is held in *)
(* COMMAND_STREAM_HOLDER.  start_tunnel_runtime then clears the latch.     *)
OpenCommandStream ==
    /\ main = "openCommand"
    /\ \/ /\ conn' = [conn EXCEPT !["command"] = "up"]
          /\ main' = "openRx"
          /\ reason' = NoReason
       \/ /\ main' = "startupFailed"
          /\ UNCHANGED <<conn, reason>>
    /\ UNCHANGED <<pc, attempt, failures, txvars>>

(* runtime.open_stream(Rx), then (Tx): first_open counts attempts from 0.  *)
OpenFirst(p, label, next) ==
    /\ main = label
    /\ \E result \in {"opened", "again", "failed"} :
          /\ OpenAttempt(p, result)
          /\ main' = CASE result = "opened" -> next
                       [] result = "again"  -> label
                       [] result = "failed" -> "startupFailed"
    /\ UNCHANGED <<pc, failures, reason, txvars>>

OpenRx == OpenFirst("rx", "openRx", "openTx")
OpenTx == OpenFirst("tx", "openTx", "spawnRx")

(* The channels are installed and the three threads spawned in this order. *)
Spawn(w, label, next) ==
    /\ main = label
    /\ main' = next
    /\ Goto(w, "running")
    /\ UNCHANGED <<conn, attempt, failures, reason, txvars>>

SpawnRx == Spawn("rx", "spawnRx", "spawnTx")
SpawnTx == Spawn("tx", "spawnTx", "spawnCommand")
SpawnCommand == Spawn("command", "spawnCommand", "startNetstack")

(* netstack::start_runtime takes the receiver; serve binds its listener,   *)
(* which can fail, and starts to wait.                                     *)
StartNetstack ==
    /\ main = "startNetstack"
    /\ main' = "bind"
    /\ UNCHANGED <<pc, conn, attempt, failures, reason, txvars>>

Bind ==
    /\ main = "bind"
    /\ main' \in {"wait", "startupFailed"}
    /\ UNCHANGED <<pc, conn, attempt, failures, reason, txvars>>

(* wait_tunnel_fatal_reason returns, serve returns Err and main exits.     *)
WaitFatal ==
    /\ main = "wait"
    /\ reason # NoReason
    /\ main' = "exited"
    /\ UNCHANGED <<pc, conn, attempt, failures, reason, txvars>>
-----------------------------------------------------------------------------
(* A worker's loop has returned, with Ok or Err: the reason is recorded    *)
(* unless there is one.                                                    *)
\* mutant: only the two data workers report
HandleDataWorkerExit(w) ==
    /\ pc[w] = "stopping"
    /\ Goto(w, "stopped")
    /\ reason' = IF reason = NoReason /\ w \in Profiles THEN w ELSE reason
    /\ UNCHANGED <<main, conn, attempt, failures, txvars>>

\* mutant: a later death replaces the recorded one
HandleLastWorkerExit(w) ==
    /\ pc[w] = "stopping"
    /\ Goto(w, "stopped")
    /\ reason' = w
    /\ UNCHANGED <<main, conn, attempt, failures, txvars>>

HandleWorkerExit(w) ==
    /\ pc[w] = "stopping"
    /\ Goto(w, "stopped")
    /\ reason' = IF reason = NoReason THEN w ELSE reason
    /\ UNCHANGED <<main, conn, attempt, failures, txvars>>

(* reopen_stream(retries) of the RX worker: reconnect counts from 1.       *)
RxReopen ==
    /\ pc["rx"] = "reopening"
    /\ \E result \in {"opened", "again", "failed"} :
          /\ OpenAttempt("rx", result)
          /\ Goto("rx", CASE result = "opened" -> "running"
                          [] result = "again"  -> "reopening"
                          [] result = "failed" -> "stopping")
    /\ UNCHANGED <<main, failures, reason, txvars>>

(* stream.read yields Ok(0) or an error other than a timeout.              *)
RxClosed ==
    /\ pc["rx"] = "running"
    /\ conn["rx"] = "broken"
    /\ attempt' = [attempt EXCEPT !["rx"] = 1]
    /\ Goto("rx", "reopening")
    /\ UNCHANGED <<main, conn, failures, reason, txvars>>

(* stream.read yields bytes: should_forward_rx_payload lets packets and    *)
(* RxAck frames pass (what becomes of a packet is module Netstack's        *)
(* business) and gives up on any other control frame.                      *)
RxUnexpectedControl ==
    /\ pc["rx"] = "running"
    /\ conn["rx"] = "up"
    /\ Goto("rx", "stopping")
    /\ UNCHANGED <<main, conn, attempt, failures, reason, txvars>>
-----------------------------------------------------------------------------
(* send_tunnel_packet, called by the netstack's device.  Once the TX       *)
(* worker has returned its receiver is gone and the packet is dropped.     *)
SendTunnelPacket ==
    /\ main \in {"bind", "wait"}
    /\ pc["tx"] \notin {"stopping", "stopped"}
    /\ Len(txq) < MaxQueue
    /\ lastSent' = Succ(lastSent)
    /\ txq' = Append(txq, Succ(lastSent))
    /\ UNCHANGED <<main, pc, conn, attempt, failures, reason,
                   inhand, heartbeatDue, lastWritten>>

(* TX_HEARTBEAT_INTERVAL has passed. *)
HeartbeatTick ==
    /\ ~heartbeatDue
    /\ heartbeatDue' = TRUE
    /\ UNCHANGED <<main, pc, conn, attempt, failures, reason,
                   txq, inhand, lastSent, lastWritten>>

(* The top of tx_worker_loop: a heartbeat if one is due, else a packet.    *)
\* mutant: packets first: the heartbeat is sent when the queue is empty
TxTakePacketsFirst ==
    /\ pc["tx"] = "running"
    /\ inhand = NoPacket
    /\ \/ /\ heartbeatDue /\ txq = <<>>
          /\ inhand' = HeartbeatPacket
          /\ heartbeatDue' = FALSE
          /\ UNCHANGED txq
       \/ /\ txq # <<>>
          /\ inhand' = Head(txq)
          /\ txq' = Tail(txq)
          /\ UNCHANGED heartbeatDue
    /\ UNCHANGED <<main, pc, conn, attempt, failures, reason, lastSent, lastWritten>>

TxTake ==
    /\ pc["tx"] = "running"
    /\ inhand = NoPacket
    /\ \/ /\ heartbeatDue
          /\ inhand' = HeartbeatPacket
          /\ heartbeatDue' = FALSE
          /\ UNCHANGED txq
       \/ /\ ~heartbeatDue
          /\ txq # <<>>
          /\ inhand' = Head(txq)
          /\ txq' = Tail(txq)
          /\ UNCHANGED heartbeatDue
    /\ UNCHANGED <<main, pc, conn, attempt, failures, reason, lastSent, lastWritten>>

Written == IF inhand = HeartbeatPacket THEN lastWritten ELSE inhand

(* stream.write_all(&packet) is accepted: also by a stream whose peer has  *)
(* gone, as long as this is not known here.                                *)
TxWrite ==
    /\ pc["tx"] = "running"
    /\ inhand # NoPacket
    /\ lastWritten' = Written
    /\ inhand' = NoPacket
    /\ UNCHANGED <<main, pc, conn, attempt, failures, reason,
                   txq, heartbeatDue, lastSent>>

(* write_all fails: an error, or the write timeout on a slow peer.         *)
TxWriteFails ==
    /\ pc["tx"] = "running"
    /\ inhand # NoPacket
    /\ "tx" \in Unreliable
    /\ attempt' = [attempt EXCEPT !["tx"] = 1]
    /\ Goto("tx", "reopening")
    /\ UNCHANGED <<main, conn, failures, reason, txvars>>

TxReopen ==
    /\ pc["tx"] = "reopening"
    /\ \E result \in {"opened", "again", "failed"} :
          /\ OpenAttempt("tx", result)
          /\ Goto("tx", CASE result = "opened" -> "rewrite"
                          [] result = "again"  -> "reopening"
                          [] result = "failed" -> "stopping")
    /\ UNCHANGED <<main, failures, reason, txvars>>

(* The packet whose write failed is written again; a second failure ends   *)
(* the worker.                                                             *)
\* mutant: the packet is given up with the old stream
TxForget ==
    /\ pc["tx"] = "rewrite"
    /\ inhand' = NoPacket
    /\ Goto("tx", "running")
    /\ UNCHANGED <<main, conn, attempt, failures, reason, txq, heartbeatDue, lastSent, lastWritten>>

TxRewrite ==
    /\ pc["tx"] = "rewrite"
    /\ \/ /\ lastWritten' = Written
          /\ inhand' = NoPacket
          /\ Goto("tx", "running")
       \/ /\ Goto("tx", "stopping")
          /\ UNCHANGED <<inhand, lastWritten>>
    /\ UNCHANGED <<main, conn, attempt, failures, reason, txq, heartbeatDue, lastSent>>
-----------------------------------------------------------------------------
(* One round of command_heartbeat_loop after its sleep: an acknowledgement *)
(* clears the count, a round without a reply adds one, any other reply     *)
(* ends the loop.  The command stream is never reopened.                   *)
\* mutant: the count starts again after every retry delay
CommandHeartbeatForgets ==
    /\ pc["command"] = "running"
    /\ \E reply \in (IF conn["command"] = "up" THEN Replies ELSE {"NoReply"}) :
          \/ /\ reply \in {"Heartbeat", "NoReply"}
             /\ failures' = 0
             /\ UNCHANGED pc
          \/ /\ reply \notin {"Heartbeat", "NoReply"}
             /\ Goto("command", "stopping")
             /\ UNCHANGED failures
    /\ UNCHANGED <<main, conn, attempt, reason, txvars>>

CommandHeartbeat ==
    /\ pc["command"] = "running"
    /\ \E reply \in (IF conn["command"] = "up" THEN Replies ELSE {"NoReply"}) :
          \/ /\ reply = "Heartbeat"
             /\ failures' = 0
             /\ UNCHANGED pc
          \/ /\ reply = "NoReply"
             /\ failures' = failures + 1
             /\ IF failures + 1 >= COMMAND_HEARTBEAT_FAILURE_LIMIT
                THEN Goto("command", "stopping")
                ELSE UNCHANGED pc
          \/ /\ reply \notin {"Heartbeat", "NoReply"}
             /\ Goto("command", "stopping")
             /\ UNCHANGED failures
    /\ UNCHANGED <<main, conn, attempt, reason, txvars>>

(* The network and the server: a stream stalls or breaks.  The TX worker   *)
(* never reads; all it notices of its stream is a write that fails, which  *)
(* is TxWriteFails.                                                        *)
StreamLost(w) ==
    /\ w # "tx"
    /\ conn[w] \in {"up", "stalled"}
    /\ \E state \in {"stalled", "broken"} \ {conn[w]} :
          conn' = [conn EXCEPT ![w] = state]
    /\ UNCHANGED <<main, pc, attempt, failures, reason, txvars>>
-----------------------------------------------------------------------------
MainStep == \/ OpenCommandStream \/ OpenRx \/ OpenTx
            \/ SpawnRx \/ SpawnTx \/ SpawnCommand
            \/ StartNetstack \/ Bind \/ WaitFatal
RxStep == RxReopen \/ RxClosed \/ HandleWorkerExit("rx")
TxStep == TxTake \/ TxWrite \/ TxWriteFails \/ TxReopen \/ TxRewrite \/ HandleWorkerExit("tx")
CommandStep == CommandHeartbeat \/ HandleWorkerExit("command")

(* main.rs turns every Err of run into exit(1): no thread outlives it.     *)
Ended == main \in {"startupFailed", "exited"}
Alive == ~Ended

Next ==
    /\ Alive
    /\ \/ MainStep \/ RxStep \/ TxStep \/ CommandStep
       \/ RxUnexpectedControl
       \/ SendTunnelPacket \/ HeartbeatTick
       \/ \E w \in Unreliable : StreamLost(w)

Spec == Init /\ [][Next]_vars

(* Threads run.  The packets the server and the netstack send, the loss of *)
(* a stream and the clock's tick are not promised.                         *)
Fairness ==
    /\ WF_vars(Alive /\ MainStep)
    /\ WF_vars(Alive /\ RxStep)
    /\ WF_vars(Alive /\ TxStep)
    /\ WF_vars(Alive /\ CommandStep)

FairSpec == Spec /\ Fairness
-----------------------------------------------------------------------------
(* While the process serves and no reason is recorded, each worker is      *)
(* there and will record one when it ends (protocol.rs 305-332, socks.rs   *)
(* 29): the process never serves over a dead tunnel without a reason.      *)
NoSilentDeath ==
    main = "wait" /\ reason = NoReason =>
        \A w \in Workers : pc[w] \notin {"unborn", "stopped"}

(* From the last packet a TX stream accepted to the last one in the        *)
(* channel, oldest first.                                                  *)
InFlight == (IF inhand \in Packet THEN <<inhand>> ELSE <<>>) \o txq
Line == <<lastWritten>> \o InFlight

Consecutive(q) == \A i \in 1 .. Len(q) - 1 : q[i + 1] = Succ(q[i])

(* What the netstack sent and no TX stream has accepted yet is exactly the *)
(* numbers after lastWritten, in order, and up to lastSent while the TX    *)
(* worker lives: a reconnection neither skips, reorders nor repeats a      *)
(* packet (tx_worker_loop, protocol.rs 541-580).                           *)
TxKeepsOrder ==
    /\ Consecutive(Line)
    /\ pc["tx"] \notin {"stopping", "stopped"} => lastSent = Line[Len(Line)]

(* The heartbeat on the command stream is what notices that the server is  *)
(* gone, also when nothing but silence tells so (protocol.rs 920-967).     *)
LostCommandStreamEndsProcess ==
    conn["command"] \in {"stalled", "broken"} ~> Ended

(* A stream is not reopened for ever (protocol.rs 582-621).                *)
ReopeningEnds ==
    \A p \in Profiles : pc[p] = "reopening" ~> pc[p] # "reopening" \/ Ended

(* However many packets the netstack sends, the heartbeat on the TX stream *)
(* is not put off for ever (protocol.rs 549-559).                          *)
TxHeartbeatNotStarved ==
    heartbeatDue /\ pc["tx"] = "running" ~>
        \/ inhand = HeartbeatPacket
        \/ pc["tx"] \in {"stopping", "stopped"}
        \/ Ended

(* The runtime implements the fail-stop contract.                          *)
FS == INSTANCE FailStop WITH
          dead <- {w \in Workers : pc[w] \in {"stopping", "stopped"}},
          cause <- reason,
          serving <- main \in {"wait", "exited"},
          exited <- Ended

ImplementsFailStop == FS!FSSpec
=============================================================================
