------------------------ MODULE TunnelRuntime_proofs ------------------------
(***************************************************************************)
(* TLAPS proofs about the tunnel runtime, for any retry limits, any window *)
(* and any channel length.                                                 *)
(***************************************************************************)
EXTENDS TunnelRuntime, TLAPS

(* The number after a packet's number is a packet's number.                *)
LEMMA SuccInPacket == \A k \in Packet : Succ(k) \in Packet
  BY RuntimeAssumption, Z3 DEF Packet, Succ

(* What the TX channel looks like empty and after its head is taken.       *)
LEMMA EmptyQueue == <<>> \in Seq(Packet) /\ Len(<<>>) = 0
  OBVIOUS

LEMMA TakeHead ==
  ASSUME NEW q \in Seq(Packet), q # <<>>
  PROVE  Head(q) \in Packet /\ Tail(q) \in Seq(Packet) /\ Len(Tail(q)) = Len(q) - 1
  OBVIOUS

(* The three things an open attempt can report, and what it does to the    *)
(* retry counter.                                                          *)
LEMMA OpenAttemptFacts ==
  ASSUME NEW p \in Profiles, NEW result, OpenAttempt(p, result), TypeOK
  PROVE  /\ result \in {"opened", "again", "failed"}
         /\ attempt' \in [Profiles -> 0 .. STREAM_RETRY_LIMIT]
         /\ conn' \in [Workers -> {"none", "up", "stalled", "broken"}]
<1> USE RuntimeAssumption DEF OpenAttempt, OpenDataStream, TypeOK, Profiles, Workers
<1>1. PICK reply \in Replies :
          LET ack == OpenDataStream(p, reply) IN
          /\ result = CASE ack = "opened" -> "opened"
                        [] ack = "fatal" -> "failed"
                        [] ack = "retryable" /\ attempt[p] < STREAM_RETRY_LIMIT -> "again"
                        [] ack = "retryable" /\ attempt[p] >= STREAM_RETRY_LIMIT -> "failed"
          /\ conn' = IF ack = "opened" THEN [conn EXCEPT ![p] = "up"] ELSE conn
          /\ attempt' = [attempt EXCEPT ![p] = IF result = "again" THEN @ + 1 ELSE 0]
  OBVIOUS
<1>2. attempt[p] \in 0 .. STREAM_RETRY_LIMIT
  OBVIOUS
<1>3. CASE OpenDataStream(p, reply) = "opened"
  BY <1>1, <1>2, <1>3
<1>4. CASE OpenDataStream(p, reply) = "fatal"
  BY <1>1, <1>2, <1>4
<1>5. CASE OpenDataStream(p, reply) = "retryable"
  BY <1>1, <1>2, <1>5
<1>6. QED
  BY <1>3, <1>4, <1>5
-----------------------------------------------------------------------------
(* What TypeOK needs to be inductive: a worker that reopens its stream has *)
(* a packet in hand, and the heartbeat's count is below its limit while    *)
(* the loop runs.                                                          *)
Counting ==
    /\ pc["tx"] \in {"reopening", "rewrite"} => inhand # NoPacket
    /\ pc["command"] \in {"unborn", "running"} => failures < COMMAND_HEARTBEAT_FAILURE_LIMIT

(* The workers are spawned in order, and only once.                        *)
SpawnOrder ==
    /\ main \in {"openCommand", "openRx", "openTx", "spawnRx"} =>
           \A w \in Workers : pc[w] = "unborn"
    /\ main \in {"spawnTx", "spawnCommand", "startNetstack", "bind", "wait", "exited"} =>
           pc["rx"] # "unborn"
    /\ main = "spawnTx" => pc["tx"] = "unborn"
    /\ main \in {"spawnCommand", "startNetstack", "bind", "wait", "exited"} =>
           pc["tx"] # "unborn"
    /\ main \in {"spawnTx", "spawnCommand"} => pc["command"] = "unborn"
    /\ main \in {"startNetstack", "bind", "wait", "exited"} => pc["command"] # "unborn"

(* Whoever stopped has reported, and who is reported has stopped.          *)
DeathsReported ==
    /\ \A w \in Workers : pc[w] = "stopped" => reason # NoReason
    /\ reason # NoReason => pc[reason] = "stopped"

IInv == TypeOK /\ Counting /\ SpawnOrder /\ DeathsReported

(* IInv is inductive (protocol.rs 289-335, 405-444, 541-621, 920-967).     *)
THEOREM RuntimeInvariant == Spec => []IInv
<1> USE RuntimeAssumption DEF Workers, Profiles
<1>1. Init => IInv
  <2>1. 0 \in Packet
    BY DEF Packet
  <2>2. Init => txq \in Seq(Packet) /\ Len(txq) <= MaxQueue
    BY EmptyQueue DEF Init
  <2>3. Init => failures \in 0 .. COMMAND_HEARTBEAT_FAILURE_LIMIT
                /\ failures < COMMAND_HEARTBEAT_FAILURE_LIMIT
                /\ attempt \in [Profiles -> 0 .. STREAM_RETRY_LIMIT]
    BY DEF Init
  <2>4. Init => pc \in [Workers -> WorkerPC]
                /\ conn \in [Workers -> {"none", "up", "stalled", "broken"}]
    BY DEF Init, WorkerPC
  <2>5. Init => TypeOK
    BY <2>1, <2>2, <2>3, <2>4 DEF Init, TypeOK, MainPC
  <2>6. QED
    BY <2>3, <2>5 DEF Init, IInv, Counting, SpawnOrder, DeathsReported
<1>2. IInv /\ [Next]_vars => IInv'
  <2> SUFFICES ASSUME IInv, [Next]_vars PROVE IInv'
    OBVIOUS
  <2> USE DEF IInv, TypeOK, Counting, SpawnOrder, DeathsReported, MainPC, WorkerPC,
              Goto, txvars
  <2>1. CASE Alive /\ OpenCommandStream
    BY <2>1 DEF OpenCommandStream
  <2>2. CASE Alive /\ (OpenRx \/ OpenTx)
    <3>1. PICK p \in Profiles, result \in {"opened", "again", "failed"} :
              /\ OpenAttempt(p, result)
              /\ main \in {"openRx", "openTx"}
              /\ main' \in {main, "openTx", "spawnRx", "startupFailed"}
              /\ UNCHANGED <<pc, failures, reason, txvars>>
      BY <2>2 DEF OpenRx, OpenTx, OpenFirst
    <3>2. QED
      BY <3>1, OpenAttemptFacts
  <2>3. CASE Alive /\ (SpawnRx \/ SpawnTx \/ SpawnCommand)
    BY <2>3 DEF SpawnRx, SpawnTx, SpawnCommand, Spawn
  <2>4. CASE Alive /\ (StartNetstack \/ Bind \/ WaitFatal)
    BY <2>4 DEF StartNetstack, Bind, WaitFatal
  <2>5. CASE Alive /\ RxReopen
    <3>1. PICK result \in {"opened", "again", "failed"} :
              /\ OpenAttempt("rx", result)
              /\ \E label \in {"running", "reopening", "stopping"} : Goto("rx", label)
      BY <2>5 DEF RxReopen
    <3>2. QED
      BY <2>5, <3>1, OpenAttemptFacts DEF RxReopen
  <2>6. CASE Alive /\ (RxClosed \/ RxUnexpectedControl)
    BY <2>6 DEF RxClosed, RxUnexpectedControl
  <2>7. ASSUME NEW w \in Workers, Alive, HandleWorkerExit(w)
        PROVE  IInv'
    BY <2>7 DEF HandleWorkerExit
  <2>8. CASE Alive /\ TxTake
    <3>1. CASE heartbeatDue
      BY <2>8, <3>1 DEF TxTake
    <3>2. CASE ~heartbeatDue
      <4>1. Head(txq) \in Packet /\ Tail(txq) \in Seq(Packet) /\ Len(Tail(txq)) <= MaxQueue
        BY <2>8, <3>2, TakeHead DEF TxTake
      <4>2. QED
        BY <2>8, <3>2, <4>1 DEF TxTake
    <3>3. QED
      BY <3>1, <3>2
  <2>9. CASE Alive /\ (TxWrite \/ TxWriteFails)
    BY <2>9 DEF TxWrite, TxWriteFails, Written
  <2>10. CASE Alive /\ TxReopen
    <3>1. PICK result \in {"opened", "again", "failed"} :
              /\ OpenAttempt("tx", result)
              /\ \E label \in {"rewrite", "reopening", "stopping"} : Goto("tx", label)
      BY <2>10 DEF TxReopen
    <3>2. QED
      BY <2>10, <3>1, OpenAttemptFacts DEF TxReopen
  <2>11. CASE Alive /\ TxRewrite
    BY <2>11 DEF TxRewrite, Written
  <2>12. CASE Alive /\ CommandHeartbeat
    BY <2>12 DEF CommandHeartbeat
  <2>13. CASE Alive /\ SendTunnelPacket
    BY <2>13, SuccInPacket DEF SendTunnelPacket
  <2>14. CASE Alive /\ HeartbeatTick
    BY <2>14 DEF HeartbeatTick
  <2>15. ASSUME NEW w \in Unreliable, Alive, StreamLost(w)
         PROVE  IInv'
    BY <2>15 DEF StreamLost
  <2>16. CASE UNCHANGED vars
    BY <2>16 DEF vars
  <2>17. QED
    BY <2>1, <2>2, <2>3, <2>4, <2>5, <2>6, <2>7, <2>8, <2>9, <2>10, <2>11, <2>12,
       <2>13, <2>14, <2>15, <2>16
    DEF Next, MainStep, RxStep, TxStep, CommandStep
<1>3. QED
  BY <1>1, <1>2, PTL DEF Spec
-----------------------------------------------------------------------------
(* The process never serves over a dead worker without a recorded reason   *)
(* (protocol.rs 305-332, 440-444, 907-918; socks.rs 29).                   *)
THEOREM NoWorkerDiesSilently == Spec => []NoSilentDeath
<1>1. IInv => NoSilentDeath
  BY DEF IInv, SpawnOrder, DeathsReported, NoSilentDeath, Workers, Profiles
<1>2. QED
  BY <1>1, RuntimeInvariant, PTL
-----------------------------------------------------------------------------
(* Removing the oldest packet of a consecutive line, and adding the next   *)
(* one, keep it consecutive.                                               *)
LEMMA ConsecutiveTail ==
  ASSUME NEW x \in Packet, NEW y \in Packet, NEW q \in Seq(Packet),
         Consecutive(<<x, y>> \o q)
  PROVE  /\ Consecutive(<<y>> \o q)
         /\ (<<y>> \o q)[Len(<<y>> \o q)] = (<<x, y>> \o q)[Len(<<x, y>> \o q)]
<1> DEFINE long == <<x, y>> \o q
           short == <<y>> \o q
<1>1. Len(long) = Len(q) + 2 /\ Len(short) = Len(q) + 1
  OBVIOUS
<1>2. \A i \in 1 .. Len(q) + 1 : short[i] = long[i + 1]
  OBVIOUS
<1>3. \A i \in 1 .. Len(short) - 1 : short[i + 1] = Succ(short[i])
  <2> SUFFICES ASSUME NEW i \in 1 .. Len(q) PROVE short[i + 1] = Succ(short[i])
    BY <1>1
  <2>1. Len(q) \in Nat /\ i + 1 \in 1 .. Len(q) + 1 /\ i \in 1 .. Len(q) + 1
    OBVIOUS
  <2>2. long[(i + 1) + 1] = Succ(long[i + 1])
    BY <1>1, <2>1 DEF Consecutive
  <2>3. short[i] = long[i + 1] /\ short[i + 1] = long[(i + 1) + 1]
    BY <1>2, <2>1
  <2>4. QED
    BY <2>2, <2>3
<1>4. QED
  BY <1>1, <1>2, <1>3 DEF Consecutive

LEMMA ConsecutiveAppend ==
  ASSUME NEW q \in Seq(Packet), NEW z \in Packet, q # <<>>,
         Consecutive(q), z = Succ(q[Len(q)])
  PROVE  Consecutive(Append(q, z)) /\ Append(q, z)[Len(Append(q, z))] = z
  BY DEF Consecutive

(* The three shapes of Line.                                               *)
LEMMA LineShape ==
  ASSUME TypeOK
  PROVE  /\ Line \in Seq(Packet) /\ Line # <<>>
         /\ inhand \in Packet => Line = <<lastWritten, inhand>> \o txq
         /\ inhand \notin Packet => Line = <<lastWritten>> \o txq
<1> USE DEF TypeOK, Line, InFlight
<1>1. CASE inhand \in Packet
  <2>1. <<lastWritten>> \o (<<inhand>> \o txq) = <<lastWritten, inhand>> \o txq
    BY <1>1
  <2>2. QED
    BY <1>1, <2>1
<1>2. CASE inhand \notin Packet
  <2>1. <<>> \o txq = txq
    OBVIOUS
  <2>2. QED
    BY <1>2, <2>1
<1>3. QED
  BY <1>1, <1>2

(* No packet is skipped, reordered or repeated between the netstack and    *)
(* the TX streams, over any number of reconnections (protocol.rs 541-580). *)
THEOREM PacketsKeepTheirOrder == Spec => []TxKeepsOrder
<1> USE RuntimeAssumption
<1>1. Init => TxKeepsOrder
  <2> SUFFICES ASSUME Init PROVE TxKeepsOrder
    OBVIOUS
  <2>1. 0 \in Packet /\ NoPacket \notin Packet
    BY DEF Packet
  <2>2. Line = <<0>>
    BY <2>1 DEF Init, Line, InFlight
  <2>3. QED
    BY <2>2 DEF Init, TxKeepsOrder, Consecutive
<1>2. IInv /\ IInv' /\ TxKeepsOrder /\ [Next]_vars => TxKeepsOrder'
  <2> SUFFICES ASSUME IInv, IInv', TxKeepsOrder, [Next]_vars
               PROVE  TxKeepsOrder'
    OBVIOUS
  <2>0. /\ TypeOK /\ TypeOK'
        /\ NoPacket \notin Packet /\ HeartbeatPacket \notin Packet
        /\ pc["tx"] \in {"reopening", "rewrite"} => inhand # NoPacket
    BY DEF IInv, Counting, Packet
  \* steps that touch neither the line nor the life of the TX worker
  <2>1. ASSUME UNCHANGED <<txq, inhand, lastSent, lastWritten>>,
               pc["tx"] \in {"stopping", "stopped"} => pc'["tx"] \in {"stopping", "stopped"}
        PROVE  TxKeepsOrder'
    BY <2>1 DEF TxKeepsOrder, Line, InFlight, Consecutive
  <2>2. ASSUME MainStep PROVE TxKeepsOrder'
    <3>1. pc["tx"] \in {"stopping", "stopped"} => pc'["tx"] \in {"stopping", "stopped"}
      BY <2>2 DEF IInv, SpawnOrder, TypeOK, MainStep, OpenCommandStream, OpenRx, OpenTx, OpenFirst,
         SpawnRx, SpawnTx, SpawnCommand, Spawn, Goto, StartNetstack, Bind, WaitFatal,
         Workers, Profiles
    <3>2. UNCHANGED <<txq, inhand, lastSent, lastWritten>>
      BY <2>2 DEF MainStep, OpenCommandStream, OpenRx, OpenTx, OpenFirst, SpawnRx, SpawnTx,
         SpawnCommand, Spawn, StartNetstack, Bind, WaitFatal, txvars
    <3>3. QED
      BY <2>1, <3>1, <3>2
  <2>3. CASE RxStep \/ RxUnexpectedControl \/ CommandStep \/ HandleWorkerExit("tx")
    BY <2>0, <2>1, <2>3
    DEF RxStep, RxReopen, RxClosed, RxUnexpectedControl, CommandStep, CommandHeartbeat,
        HandleWorkerExit, Goto, TypeOK, Workers, Profiles, txvars
  <2>4. CASE HeartbeatTick \/ \E w \in Unreliable : StreamLost(w)
    BY <2>1, <2>4 DEF HeartbeatTick, StreamLost, txvars
  <2>5. CASE TxWriteFails \/ TxReopen
    BY <2>0, <2>1, <2>5 DEF TxWriteFails, TxReopen, Goto, TypeOK, Workers, Profiles, txvars
  <2>6. CASE TxTake
    <3>1. UNCHANGED <<pc, lastSent, lastWritten>> /\ inhand = NoPacket
      BY <2>6 DEF TxTake
    <3>2. Line' = Line
      <4>1. CASE heartbeatDue
        BY <2>0, <2>6, <3>1, <4>1 DEF TxTake, Line, InFlight
      <4>2. CASE ~heartbeatDue
        <5>1. txq # <<>> /\ inhand' = Head(txq) /\ txq' = Tail(txq)
          BY <2>6, <4>2 DEF TxTake
        <5>2. txq \in Seq(Packet) /\ Head(txq) \in Packet
          BY <2>0, <5>1, TakeHead DEF TypeOK
        <5>3. <<Head(txq)>> \o Tail(txq) = txq
          BY <5>1, <5>2
        <5>4. <<>> \o txq = txq
          BY <5>2
        <5>5. InFlight' = InFlight
          BY <2>0, <3>1, <5>1, <5>2, <5>3, <5>4 DEF InFlight
        <5>6. QED
          BY <3>1, <5>5 DEF Line
      <4>3. QED
        BY <4>1, <4>2
    <3>3. QED
      BY <3>1, <3>2 DEF TxKeepsOrder, Consecutive
  <2>7. CASE inhand # NoPacket /\ lastWritten' = Written /\ inhand' = NoPacket
             /\ UNCHANGED <<txq, lastSent>> /\ pc["tx"] \notin {"stopping", "stopped"}
    <3>1. CASE inhand = HeartbeatPacket
      <4>1. Line' = Line
        BY <2>0, <2>7, <3>1 DEF Written, Line, InFlight
      <4>2. QED
        BY <2>7, <4>1 DEF TxKeepsOrder, Consecutive
    <3>2. CASE inhand # HeartbeatPacket
      <4>1. inhand \in Packet /\ lastWritten \in Packet /\ txq \in Seq(Packet)
        BY <2>0, <2>7, <3>2 DEF TypeOK
      <4>2. Line = <<lastWritten, inhand>> \o txq
        BY <2>0, <4>1, LineShape
      <4>3. Line' = <<inhand>> \o txq
        <5>1. <<>> \o txq = txq
          BY <4>1
        <5>2. QED
          BY <2>0, <2>7, <3>2, <5>1 DEF Written, Line, InFlight
      <4>4. Consecutive(Line) /\ lastSent = Line[Len(Line)]
        BY <2>7 DEF TxKeepsOrder
      <4>5. Consecutive(Line')
        BY <4>1, <4>2, <4>3, <4>4, ConsecutiveTail
      <4>6. lastSent' = Line'[Len(Line')]
        BY <2>7, <4>1, <4>2, <4>3, <4>4, ConsecutiveTail
      <4>7. QED
        BY <4>5, <4>6 DEF TxKeepsOrder, Consecutive
    <3>3. QED
      BY <3>1, <3>2
  <2>8. CASE TxWrite
    BY <2>7, <2>8 DEF TxWrite
  <2>9. CASE TxRewrite
    <3>1. CASE inhand' = NoPacket
      BY <2>0, <2>7, <2>9, <3>1 DEF TxRewrite
    <3>2. CASE UNCHANGED <<inhand, lastWritten>>
      BY <2>0, <2>1, <2>9, <3>2 DEF TxRewrite
    <3>3. QED
      BY <2>9, <3>1, <3>2 DEF TxRewrite
  <2>10. CASE SendTunnelPacket
    <3>1. pc["tx"] \notin {"stopping", "stopped"} /\ lastSent = Line[Len(Line)]
      BY <2>10 DEF SendTunnelPacket, TxKeepsOrder
    <3>2. Line' = Append(Line, Succ(lastSent))
      <4> DEFINE z == Succ(lastSent)
      <4>1. z \in Packet /\ txq \in Seq(Packet) /\ lastWritten \in Packet
        BY <2>0, SuccInPacket DEF TypeOK
      <4>2. txq' = Append(txq, z) /\ UNCHANGED <<inhand, lastWritten>>
        BY <2>10 DEF SendTunnelPacket
      <4>3. CASE inhand \in Packet
        <5>1. <<lastWritten, inhand>> \o Append(txq, z)
                = Append(<<lastWritten, inhand>> \o txq, z)
          BY <4>1, <4>3
        <5>2. Line' = <<lastWritten, inhand>> \o Append(txq, z)
          <6>1. <<lastWritten>> \o (<<inhand>> \o Append(txq, z))
                  = <<lastWritten, inhand>> \o Append(txq, z)
            BY <4>1, <4>3
          <6>2. QED
            BY <4>2, <4>3, <6>1 DEF Line, InFlight
        <5>3. QED
          BY <2>0, <4>3, <5>1, <5>2, LineShape
      <4>4. CASE inhand \notin Packet
        <5>1. <<lastWritten>> \o Append(txq, z) = Append(<<lastWritten>> \o txq, z)
          BY <4>1
        <5>2. <<>> \o Append(txq, z) = Append(txq, z)
          BY <4>1
        <5>3. Line' = <<lastWritten>> \o Append(txq, z)
          BY <4>2, <4>4, <5>2 DEF Line, InFlight
        <5>4. QED
          BY <2>0, <4>4, <5>1, <5>3, LineShape
      <4>5. QED
        BY <4>3, <4>4
    <3>3. lastSent' = Succ(lastSent) /\ Succ(lastSent) \in Packet
      BY <2>0, <2>10, SuccInPacket DEF SendTunnelPacket, TypeOK
    <3>4. QED
      BY <2>0, <3>1, <3>2, <3>3, LineShape, ConsecutiveAppend DEF TxKeepsOrder, Consecutive
  <2>11. CASE UNCHANGED vars
    BY <2>1, <2>11 DEF vars, txvars
  <2>12. QED
    BY <2>2, <2>3, <2>4, <2>5, <2>6, <2>8, <2>9, <2>10, <2>11
    DEF Next, TxStep
<1>3. QED
  BY <1>1, <1>2, RuntimeInvariant, PTL DEF Spec
-----------------------------------------------------------------------------
(* The safety part of the fail-stop contract: every step of the runtime is *)
(* a step or a stutter of FailStop.  In particular the recorded reason     *)
(* never changes and the serving process ends only for it.                 *)
SafeFailStop == FS!FSInit /\ [][FS!FSNext]_(FS!absVars)

THEOREM RuntimeRefinesFailStop == Spec => SafeFailStop
<1> USE RuntimeAssumption DEF Workers, Profiles
<1>1. Init => FS!FSInit
  BY DEF Init, FS!FSInit, Ended
<1>2. IInv /\ IInv' /\ [Next]_vars => [FS!FSNext]_(FS!absVars)
  <2> SUFFICES ASSUME IInv, IInv', [Next]_vars
               PROVE  FS!FSNext \/ UNCHANGED FS!absVars
    BY DEF FS!absVars
  <2> USE DEF Ended, Alive
  <2>0. TypeOK /\ TypeOK'
    BY DEF IInv
  \* steps of main that are not the end of the start-up or of the process
  <2>1. ASSUME UNCHANGED <<pc, reason>>, main' \notin {"wait", "startupFailed", "exited"},
               main \notin {"wait", "startupFailed", "exited"}
        PROVE  UNCHANGED FS!absVars
    BY <2>1 DEF FS!absVars
  <2>2. ASSUME Alive, UNCHANGED <<pc, reason>>, main \notin {"wait", "exited"},
               main' = "startupFailed"
        PROVE  FS!FSNext
    BY <2>2 DEF FS!FSNext, FS!GiveUp
  <2>3. CASE Alive /\ OpenCommandStream
    <3>1. reason' = reason
      BY <2>3 DEF OpenCommandStream, IInv, SpawnOrder, DeathsReported, TypeOK
    <3>2. QED
      BY <2>1, <2>2, <2>3, <3>1 DEF OpenCommandStream
  <2>4. CASE Alive /\ (OpenRx \/ OpenTx)
    BY <2>1, <2>2, <2>4 DEF OpenRx, OpenTx, OpenFirst
  <2>5. ASSUME NEW w \in Workers, NEW label, NEW next, Alive, Spawn(w, label, next),
               label \notin {"wait", "startupFailed", "exited"},
               next \notin {"wait", "startupFailed", "exited"}, pc[w] = "unborn"
        PROVE  UNCHANGED FS!absVars
    BY <2>0, <2>5 DEF Spawn, Goto, TypeOK, FS!absVars
  <2>6. CASE Alive /\ (SpawnRx \/ SpawnTx \/ SpawnCommand)
    <3>1. CASE SpawnRx
      BY <2>5, <2>6, <3>1 DEF SpawnRx, Spawn, IInv, SpawnOrder
    <3>2. CASE SpawnTx
      BY <2>5, <2>6, <3>2 DEF SpawnTx, Spawn, IInv, SpawnOrder
    <3>3. CASE SpawnCommand
      BY <2>5, <2>6, <3>3 DEF SpawnCommand, Spawn, IInv, SpawnOrder
    <3>4. QED
      BY <2>6, <3>1, <3>2, <3>3
  <2>7. CASE Alive /\ StartNetstack
    BY <2>1, <2>7 DEF StartNetstack
  <2>8. CASE Alive /\ Bind
    <3>1. CASE main' = "wait"
      BY <2>8, <3>1 DEF Bind, FS!FSNext, FS!StartServing
    <3>2. CASE main' = "startupFailed"
      BY <2>2, <2>8, <3>2 DEF Bind
    <3>3. QED
      BY <2>8, <3>1, <3>2 DEF Bind
  <2>9. CASE Alive /\ WaitFatal
    BY <2>9 DEF WaitFatal, FS!FSNext, FS!Stop
  <2>10. ASSUME NEW w \in Workers, Alive, HandleWorkerExit(w)
         PROVE  FS!FSNext \/ UNCHANGED FS!absVars
    <3>1. UNCHANGED main /\ pc[w] = "stopping" /\ pc'[w] = "stopped"
          /\ \A u \in Workers : u # w => pc'[u] = pc[u]
      BY <2>0, <2>10 DEF HandleWorkerExit, Goto, TypeOK
    <3>2. UNCHANGED {u \in Workers : pc[u] \in {"stopping", "stopped"}}
      BY <3>1
    <3>3. QED
      BY <2>10, <3>1, <3>2 DEF HandleWorkerExit, FS!FSNext, FS!Report, FS!absVars
  \* the other steps of a worker: it goes on, or it leaves its loop
  <2>11. ASSUME NEW w \in Workers, Alive, UNCHANGED <<main, reason>>,
                pc[w] \notin {"stopping", "stopped"}, pc'[w] # "stopped",
                \A u \in Workers : u # w => pc'[u] = pc[u]
         PROVE  FS!FSNext \/ UNCHANGED FS!absVars
    <3>1. CASE pc'[w] = "stopping"
      BY <2>11, <3>1 DEF FS!FSNext, FS!Die
    <3>2. CASE pc'[w] # "stopping"
      BY <2>11, <3>2 DEF FS!absVars
    <3>3. QED
      BY <3>1, <3>2
  <2>12. CASE Alive /\ (RxReopen \/ RxClosed \/ RxUnexpectedControl)
    BY <2>0, <2>11, <2>12 DEF RxReopen, RxClosed, RxUnexpectedControl, Goto, TypeOK, txvars
  <2>13. CASE Alive /\ (TxWriteFails \/ TxReopen \/ TxRewrite)
    BY <2>0, <2>11, <2>13 DEF TxWriteFails, TxReopen, TxRewrite, Goto, TypeOK, txvars
  <2>14. CASE Alive /\ CommandHeartbeat
    BY <2>0, <2>11, <2>14 DEF CommandHeartbeat, Goto, TypeOK, txvars
  <2>15. CASE Alive /\ (TxTake \/ TxWrite \/ SendTunnelPacket \/ HeartbeatTick)
    BY <2>15 DEF TxTake, TxWrite, SendTunnelPacket, HeartbeatTick, FS!absVars
  <2>16. CASE \E w \in Unreliable : StreamLost(w)
    BY <2>16 DEF StreamLost, FS!absVars
  <2>17. CASE UNCHANGED vars
    BY <2>17 DEF vars, FS!absVars
  <2>18. QED
    BY <2>3, <2>4, <2>6, <2>7, <2>8, <2>9, <2>10, <2>12, <2>13, <2>14, <2>15, <2>16, <2>17
    DEF Next, MainStep, RxStep, TxStep, CommandStep
<1>3. QED
  BY <1>1, <1>2, RuntimeInvariant, PTL DEF Spec, SafeFailStop
=============================================================================
