------------------------- MODULE TunnelDetails_proofs -------------------------
(***************************************************************************)
(* TLAPS proofs about the two parts of the tunnel that have a module of    *)
(* their own beside TunnelRuntime: the fatal latch, for any set of         *)
(* workers, and the command stream, for any limit of failures, any replies *)
(* and buffers of any length.  The latch is first; then the replies as     *)
(* rows of units, the types of the stream, and why its end is deserved.    *)
(***************************************************************************)
EXTENDS FatalLatch, CommandStream, FiniteSetTheorems, TLAPS

(* Every variable of the latch of protocol.rs 275-280, and every program   *)
(* counter, keeps its type.                                                *)
THEOREM TypeCorrect == Spec => []TypeOK
<1> USE ThreadsAssumption DEF TypeOK, Threads, MainPC, WorkerPC
<1>1. Init => TypeOK
  BY DEF Init
<1>2. ASSUME TypeOK, UNCHANGED vars
      PROVE  TypeOK'
  BY <1>2 DEF vars
<1>3. ASSUME TypeOK, NEW w \in Workers, Running,
             Spawn(w) \/ WorkerEnds(w) \/ WorkerStep(w)
      PROVE  TypeOK'
  BY <1>3 DEF Running, Spawn, WorkerEnds, WorkerStep, RecordLock, Record, Notify, Goto
<1>4. ASSUME TypeOK, (Running /\ MainStep) \/ SpuriousWakeup
      PROVE  TypeOK'
  BY <1>4 DEF Running, MainStep, Clear, Serve, WaitLock, Check, SpuriousWakeup, Goto
<1>5. TypeOK /\ [Next]_vars => TypeOK'
  BY <1>2, <1>3, <1>4 DEF Next
<1>6. QED
  BY <1>1, <1>5, PTL DEF Spec
-----------------------------------------------------------------------------
(* The mutex is held exactly by the thread whose program counter is inside *)
(* a critical section.                                                     *)
LockDiscipline ==
    /\ \A w \in Workers : pc[w] \in {"record", "notify"} <=> lock = w
    /\ pc[Main] = "check" <=> lock = Main

(* Who may have stored what: the stored reason belongs to a worker that    *)
(* stored it, only Main inside cv.wait can be in the wait set, and before  *)
(* the first spawn nothing has run.                                        *)
LatchState ==
    /\ waiting => pc[Main] = "wait"
    /\ reason # NoReason => pc[reason] \in {"notify", "done"}
    /\ \A w \in Workers : pc[w] = "notify" => reason = w
    /\ pc[Main] = "clear" => \A w \in Workers : pc[w] = "unborn"
    /\ pc[Main] = "returned" => returned = reason

IInv == TypeOK /\ LockDiscipline /\ LatchState /\ NoMissedWakeup

(* IInv is inductive, hence an invariant (protocol.rs 388-424).            *)
THEOREM LatchInvariant == Spec => []IInv
<1> USE ThreadsAssumption DEF Threads
<1>1. Init => IInv
  BY DEF Init, IInv, TypeOK, LockDiscipline, LatchState, NoMissedWakeup, MainPC, WorkerPC
<1>2. IInv /\ TypeOK' /\ [Next]_vars => IInv'
  <2> SUFFICES ASSUME IInv, TypeOK', [Next]_vars PROVE IInv'
    OBVIOUS
  <2> USE DEF IInv, TypeOK, LockDiscipline, LatchState, NoMissedWakeup,
              MainPC, WorkerPC, Goto
  <2>1. CASE Running /\ Clear
    BY <2>1 DEF Running, Clear
  <2>2. CASE Running /\ Serve
    BY <2>2 DEF Running, Serve
  <2>3. CASE Running /\ WaitLock
    BY <2>3 DEF Running, WaitLock
  <2>4. CASE Running /\ Check
    BY <2>4 DEF Running, Check
  <2>5. CASE SpuriousWakeup
    BY <2>5 DEF SpuriousWakeup
  <2>6. ASSUME NEW w \in Workers, Running, Spawn(w)
        PROVE  IInv'
    BY <2>6 DEF Running, Spawn
  <2>7. ASSUME NEW w \in Workers, Running, WorkerEnds(w)
        PROVE  IInv'
    BY <2>7 DEF Running, WorkerEnds
  <2>8. ASSUME NEW w \in Workers, Running, RecordLock(w)
        PROVE  IInv'
    BY <2>8 DEF Running, RecordLock
  <2>9. ASSUME NEW w \in Workers, Running, Record(w)
        PROVE  IInv'
    BY <2>9 DEF Running, Record
  <2>10. ASSUME NEW w \in Workers, Running, Notify(w)
         PROVE  IInv'
    BY <2>10 DEF Running, Notify
  <2>11. CASE UNCHANGED vars
    BY <2>11 DEF vars
  <2>12. QED
    BY <2>1, <2>2, <2>3, <2>4, <2>5, <2>6, <2>7, <2>8, <2>9, <2>10, <2>11
    DEF Next, MainStep, WorkerStep
<1>3. QED
  BY <1>1, <1>2, TypeCorrect, PTL DEF Spec

(* No wakeup is lost (protocol.rs 388-403, 416-424), for any number of     *)
(* workers and any interleaving.                                           *)
THEOREM NoWakeupIsLost == Spec => []NoMissedWakeup
<1>1. IInv => NoMissedWakeup
  BY DEF IInv
<1>2. QED
  BY <1>1, LatchInvariant, PTL

(* serve returns for the recorded reason and nothing else (socks.rs 29,    *)
(* protocol.rs 394-397).                                                   *)
THEOREM ReturnIsTheReason == Spec => []ReturnsRecordedReason
<1>1. IInv => ReturnsRecordedReason
  BY ThreadsAssumption DEF IInv, TypeOK, LatchState, ReturnsRecordedReason
<1>2. QED
  BY <1>1, LatchInvariant, PTL

(* The first reason is never replaced (protocol.rs 418-421).               *)
THEOREM FirstReasonStays == Spec => FirstReasonKept
<1>1. IInv /\ [Next]_vars => [reason # NoReason => reason' = reason]_vars
  <2> SUFFICES ASSUME IInv, Next, reason # NoReason
               PROVE  reason' = reason
    BY DEF vars
  <2>1. CASE MainStep
    <3>1. pc[Main] # "clear"
      BY ThreadsAssumption DEF IInv, TypeOK, LatchState
    <3>2. QED
      BY <2>1, <3>1 DEF MainStep, Clear, Serve, WaitLock, Check
  <2>2. CASE SpuriousWakeup
    BY <2>2 DEF SpuriousWakeup
  <2>3. ASSUME NEW w \in Workers, Spawn(w) \/ WorkerEnds(w) \/ WorkerStep(w)
        PROVE  reason' = reason
    BY <2>3 DEF Spawn, WorkerEnds, WorkerStep, RecordLock, Record, Notify
  <2> QED
    BY <2>1, <2>2, <2>3 DEF Next
<1>2. QED
  BY <1>1, LatchInvariant, PTL DEF Spec, FirstReasonKept
-----------------------------------------------------------------------------
(* The safety part of the fail-stop contract: the latch starts as FailStop *)
(* does and every step of it is a step or a stutter of FailStop.           *)
SafeFailStop == FS!FSInit /\ [][FS!FSNext]_(FS!absVars)

THEOREM LatchRefinesFailStop == Spec => SafeFailStop
<1> USE ThreadsAssumption
<1>1. Init => FS!FSInit
  BY DEF Init, FS!FSInit, Threads
<1>2. IInv /\ IInv' /\ [Next]_vars => [FS!FSNext]_(FS!absVars)
  <2> SUFFICES ASSUME IInv, IInv', [Next]_vars
               PROVE  FS!FSNext \/ UNCHANGED FS!absVars
    BY DEF FS!absVars
  <2> USE DEF IInv, TypeOK, Threads, Goto
  <2>1. CASE Running /\ MainStep
    <3>1. CASE Check /\ reason # NoReason
      BY <2>1, <3>1 DEF Check, FS!FSNext, FS!Stop
    <3>2. CASE Serve
      BY <2>1, <3>2 DEF Serve, FS!FSNext, FS!StartServing
    <3>3. CASE ~Serve /\ ~(Check /\ reason # NoReason)
      BY <2>1, <3>3 DEF MainStep, Clear, Serve, WaitLock, Check, LatchState, FS!absVars
    <3>4. QED
      BY <3>1, <3>2, <3>3
  <2>2. CASE SpuriousWakeup
    BY <2>2 DEF SpuriousWakeup, FS!absVars
  <2>3. ASSUME NEW w \in Workers, Running, WorkerEnds(w)
        PROVE  FS!FSNext
    BY <2>3 DEF Running, WorkerEnds, FS!FSNext, FS!Die
  <2>4. ASSUME NEW w \in Workers, Running, Record(w)
        PROVE  FS!FSNext \/ UNCHANGED FS!absVars
    BY <2>4 DEF Running, Record, FS!FSNext, FS!Report, FS!absVars
  <2>5. ASSUME NEW w \in Workers, Spawn(w) \/ RecordLock(w) \/ Notify(w)
        PROVE  UNCHANGED FS!absVars
    BY <2>5 DEF Spawn, RecordLock, Notify, FS!absVars
  <2>6. CASE UNCHANGED vars
    BY <2>6 DEF vars, FS!absVars
  <2>7. QED
    BY <2>1, <2>2, <2>3, <2>4, <2>5, <2>6 DEF Next, WorkerStep
<1>3. QED
  BY <1>1, <1>2, LatchInvariant, PTL DEF Spec, SafeFailStop
-----------------------------------------------------------------------------
(* A reply is one row of units; RowAt says that the whole of one begins at *)
(* place k of w, and another one where it ends (protocol_wire.rs 90-97).   *)
SizeOf(unit) == IF unit.framed THEN FrameLen ELSE BodyLen

IsPart(unit, kind, framed, pos) ==
    unit.kind = kind /\ unit.framed = framed /\ unit.pos = pos

RowAt(w, k) ==
    LET size == SizeOf(w[k]) IN
    /\ k + size <= Len(w) + 1
    /\ \A i \in 1 .. size : IsPart(w[k + i - 1], w[k].kind, w[k].framed, i)
    /\ k + size <= Len(w) => w[k + size].pos = 1

WholeReplies(w) ==
    /\ w # <<>> => w[1].pos = 1
    /\ \A k \in DOMAIN w : w[k].pos = 1 => RowAt(w, k)

OneReply(w) == Len(w) > 0 /\ IsReply(w) /\ WholeReplies(w)

(* The places where a reply starts: Replies counts them.                   *)
Starting(w) == {k \in DOMAIN w : w[k].pos = 1}

LEMMA RepliesAreFinite ==
  ASSUME NEW w \in Seq(Unit)
  PROVE  IsFiniteSet(Starting(w)) /\ Replies(w) \in Nat /\ Replies(w) = Cardinality(Starting(w))
<1>1. Starting(w) \in SUBSET (1 .. Len(w))
  BY DEF Starting
<1>2. IsFiniteSet(1 .. Len(w))
  BY FS_Interval
<1>3. IsFiniteSet(Starting(w))
  BY <1>1, <1>2, FS_Subset
<1>4. Cardinality(Starting(w)) \in Nat
  BY <1>3, FS_CardinalityType
<1>5. QED
  BY <1>3, <1>4 DEF Replies, Starting

(* The units of a reply, as Answer sends them.                             *)
IsRow(r, kind, framed) ==
    /\ r \in Seq(Unit)
    /\ Len(r) = IF framed THEN FrameLen ELSE BodyLen
    /\ \A i \in 1 .. Len(r) : IsPart(r[i], kind, framed, i)

(* A reply at the end of whole replies is one reply more.                  *)
LEMMA AppendReply ==
  ASSUME NEW w \in Seq(Unit), NEW r, NEW kind, NEW framed \in BOOLEAN,
         IsRow(r, kind, framed)
  PROVE  /\ Replies(w \o r) = Replies(w) + 1
         /\ WholeReplies(w) => WholeReplies(w \o r)
<1> DEFINE all == w \o r
           m == Len(w)
<1>0. r \in Seq(Unit) /\ Len(r) \in {4, 5}
  BY DEF IsRow, FrameLen, BodyLen
<1>1. /\ all \in Seq(Unit) /\ Len(all) = m + Len(r)
      /\ \A k \in 1 .. m : all[k] = w[k]
      /\ \A i \in 1 .. Len(r) : all[m + i] = r[i]
      /\ m \in Nat
      /\ Len(r) \in {4, 5}
  BY <1>0
<1>2. \A k \in 1 .. Len(all) : k > m => all[k] = r[k - m] /\ all[k].pos = k - m
  <2> SUFFICES ASSUME NEW k \in 1 .. Len(all), k > m
               PROVE  all[k] = r[k - m] /\ all[k].pos = k - m
    OBVIOUS
  <2>1. k - m \in 1 .. Len(r) /\ k = m + (k - m)
    BY <1>1
  <2>2. all[k] = r[k - m]
    BY <1>1, <2>1
  <2>3. r[k - m].pos = k - m
    BY <2>1 DEF IsRow, IsPart
  <2>4. QED
    BY <2>2, <2>3
<1> HIDE DEF all, m
<1>3. Replies(all) = Replies(w) + 1
  <2>1. Starting(all) = Starting(w) \cup {m + 1}
    <3>1. ASSUME NEW k \in Starting(all) PROVE k \in Starting(w) \cup {m + 1}
      <4>1. k \in 1 .. Len(all) /\ all[k].pos = 1
        BY <1>1 DEF Starting
      <4>2. CASE k > m
        BY <1>1, <1>2, <4>1, <4>2
      <4>3. CASE k <= m
        BY <1>1, <4>1, <4>3 DEF Starting, m
      <4>4. QED
        BY <1>1, <4>1, <4>2, <4>3
    <3>2. \A k \in Starting(w) : k \in Starting(all)
      BY <1>1 DEF Starting, m
    <3>3. m + 1 \in Starting(all)
      BY SMTT(30), <1>1, <1>2 DEF Starting
    <3>4. QED
      BY <3>1, <3>2, <3>3
  <2>2. m + 1 \notin Starting(w)
    BY DEF Starting, m
  <2>3. IsFiniteSet(Starting(w)) /\ Replies(w) = Cardinality(Starting(w))
    BY RepliesAreFinite
  <2>4. Cardinality(Starting(w) \cup {m + 1}) = Cardinality(Starting(w)) + 1
    BY <2>2, <2>3, FS_AddElement
  <2>5. Replies(all) = Cardinality(Starting(all))
    BY <1>1, RepliesAreFinite
  <2>6. QED
    BY <2>1, <2>3, <2>4, <2>5
<1>4. ASSUME WholeReplies(w) PROVE WholeReplies(all)
  <2>1. all[1].pos = 1
    <3>1. CASE m = 0
      BY <1>1, <1>2, <3>1
    <3>2. CASE m > 0
      BY <1>1, <1>4, <3>2 DEF WholeReplies, m
    <3>3. QED
      BY <1>1, <3>1, <3>2
  <2>2. ASSUME NEW k \in 1 .. Len(all), all[k].pos = 1
        PROVE  RowAt(all, k)
    <3>1. CASE k > m
      <4>1. k = m + 1
        BY <1>1, <1>2, <2>2, <3>1
      <4>2. all[k] = r[1] /\ IsPart(r[1], kind, framed, 1)
        BY <1>1, <4>1 DEF IsRow
      <4>3. SizeOf(all[k]) = Len(r)
        BY <4>2 DEF SizeOf, IsRow, IsPart
      <4>4. \A i \in 1 .. Len(r) : all[k + i - 1] = r[i]
        <5> TAKE i \in 1 .. Len(r)
        <5>1. k + i - 1 = m + i
          BY <1>1, <4>1
        <5> QED
          BY <1>1, <5>1
      <4>5. k + Len(r) = Len(all) + 1
        BY <1>1, <4>1
      <4>6. \A i \in 1 .. Len(r) :
             IsPart(all[k + i - 1], all[k].kind, all[k].framed, i)
        BY <4>2, <4>4 DEF IsRow, IsPart
      <4>7. QED
        BY <1>1, <4>3, <4>5, <4>6 DEF RowAt
    <3>2. CASE k <= m
      <4> DEFINE size == SizeOf(w[k])
      <4>1. k \in 1 .. m /\ all[k] = w[k] /\ w[k].pos = 1
        BY <1>1, <2>2, <3>2
      <4>2. RowAt(w, k)
        BY <1>4, <4>1 DEF WholeReplies, m
      <4>3. size \in {4, 5}
        BY DEF SizeOf, FrameLen, BodyLen
      <4>4. /\ k + size <= m + 1
            /\ \A i \in 1 .. size :
                  IsPart(w[k + i - 1], w[k].kind, w[k].framed, i)
            /\ k + size <= m => w[k + size].pos = 1
        BY <4>2 DEF RowAt, m
      <4> HIDE DEF size
      <4>5. \A i \in 1 .. size : all[k + i - 1] = w[k + i - 1]
        <5> TAKE i \in 1 .. size
        <5>1. i \in Nat /\ 1 <= i /\ i <= size /\ k \in Nat /\ 1 <= k /\ size \in Nat
          BY <4>1, <4>3
        <5>2. k + size <= m + 1 /\ m \in Nat
          BY <1>1, <4>4
        <5>3. k + i - 1 \in 1 .. m
          BY <5>1, <5>2
        <5>4. QED
          BY <1>1, <5>3
      <4>6. k + size <= Len(all) => all[k + size].pos = 1
        <5>1. CASE k + size <= m
          <6>1. k + size \in 1 .. m
            BY <1>1, <4>1, <4>3, <5>1
          <6>2. QED
            BY <1>1, <4>4, <5>1, <6>1
        <5>2. CASE k + size = m + 1
          <6>1. m + 1 - m = 1 /\ m + 1 > m
            BY <1>1
          <6>2. m + 1 \in 1 .. Len(all)
            BY <1>1
          <6>3. all[m + 1].pos = 1
            BY <1>1, <1>2, <6>1, <6>2
          <6>4. QED
            BY <5>2, <6>3
        <5>3. QED
          BY <1>1, <4>1, <4>3, <4>4, <5>1, <5>2
      <4>7. k + size <= Len(all) + 1
        BY <1>1, <4>1, <4>3, <4>4
      <4>8. size = SizeOf(all[k])
        BY <4>1 DEF size
      <4>9. \A i \in 1 .. size :
             IsPart(all[k + i - 1], all[k].kind, all[k].framed, i)
        BY <4>1, <4>4, <4>5
      <4>10. QED
        BY <4>6, <4>7, <4>8, <4>9 DEF RowAt
    <3>3. QED
      BY <1>1, <2>2, <3>1, <3>2
  <2>3. QED
    BY <1>1, <2>1, <2>2 DEF WholeReplies
<1>5. QED
  BY <1>3, <1>4 DEF all

(* A reply taken from the front of whole replies: what is left is whole    *)
(* replies too, and at most one less.                                      *)
LEMMA TakeReply ==
  ASSUME NEW w \in Seq(Unit), NEW n \in 1 .. Len(w), WholeReplies(w),
         IsReply(SubSeq(w, 1, n))
  PROVE  /\ OneReply(SubSeq(w, 1, n))
         /\ WholeReplies(SubSeq(w, n + 1, Len(w)))
         /\ Replies(w) <= Replies(SubSeq(w, n + 1, Len(w))) + 1
<1> DEFINE head == SubSeq(w, 1, n)
           rest == SubSeq(w, n + 1, Len(w))
           size == SizeOf(w[1])
<1>1. /\ head \in Seq(Unit) /\ Len(head) = n
      /\ \A i \in 1 .. n : head[i] = w[i]
      /\ Len(w) \in Nat /\ n \in Nat /\ n >= 1 /\ n <= Len(w)
  OBVIOUS
<1>2. /\ rest \in Seq(Unit) /\ Len(rest) = Len(w) - n
      /\ \A k \in 1 .. Len(rest) : rest[k] = w[n + k]
  OBVIOUS
<1>3. n = size /\ n \in {4, 5} /\ w[1].pos = 1
  BY <1>1 DEF IsReply, SizeOf, FrameLen, BodyLen
<1>4. /\ \A i \in 1 .. n : IsPart(w[i], w[1].kind, w[1].framed, i)
      /\ n + 1 <= Len(w) => w[n + 1].pos = 1
  <2>1. RowAt(w, 1)
    BY <1>1, <1>3 DEF WholeReplies
  <2>2. /\ \A i \in 1 .. n : IsPart(w[1 + i - 1], w[1].kind, w[1].framed, i)
        /\ 1 + n <= Len(w) => w[1 + n].pos = 1
    BY <1>3, <2>1 DEF RowAt
  <2>3. \A i \in 1 .. n : 1 + i - 1 = i
    BY <1>1
  <2>4. 1 + n = n + 1
    BY <1>1
  <2>5. QED
    BY <2>2, <2>3, <2>4
<1> HIDE DEF head, rest, size
<1>5. OneReply(head)
  <2>1. ASSUME NEW k \in 1 .. n, head[k].pos = 1 PROVE RowAt(head, k)
    <3>1. k = 1
      BY <1>1, <1>4, <2>1 DEF IsPart
    <3>2. SizeOf(head[1]) = n
      BY <1>1, <1>3 DEF size
    <3>3. \A i \in 1 .. n :
             IsPart(head[1 + i - 1], head[1].kind, head[1].framed, i)
      <4> TAKE i \in 1 .. n
      <4>1. 1 + i - 1 = i /\ 1 \in 1 .. n
        BY <1>1
      <4>2. QED
        BY <1>1, <1>4, <4>1
    <3>4. QED
      BY <1>1, <3>1, <3>2, <3>3 DEF RowAt
  <2>2. head[1].pos = 1
    BY <1>1, <1>3
  <2>3. QED
    BY <1>1, <2>1, <2>2 DEF OneReply, WholeReplies, head
<1>6. WholeReplies(rest)
  <2>1. rest # <<>> => rest[1].pos = 1
    BY <1>1, <1>2, <1>4
  <2>2. ASSUME NEW k \in 1 .. Len(rest), rest[k].pos = 1 PROVE RowAt(rest, k)
    <3> DEFINE s == SizeOf(w[n + k])
    <3>1. n + k \in 1 .. Len(w) /\ rest[k] = w[n + k]
      BY <1>1, <1>2
    <3>2. RowAt(w, n + k)
      BY <2>2, <3>1 DEF WholeReplies
    <3>3. s \in {4, 5}
      BY DEF SizeOf, FrameLen, BodyLen
    <3>4. /\ n + k + s <= Len(w) + 1
          /\ \A i \in 1 .. s : IsPart(w[n + k + i - 1], w[n + k].kind, w[n + k].framed, i)
          /\ n + k + s <= Len(w) => w[n + k + s].pos = 1
      BY <3>2 DEF RowAt
    <3>5. s = SizeOf(rest[k])
      BY <3>1
    <3> HIDE DEF s
    <3>6. k + s <= Len(rest) + 1
      BY <1>1, <1>2, <3>3, <3>4
    <3>7. \A i \in 1 .. s : rest[k + i - 1] = w[n + k + i - 1]
      <4> TAKE i \in 1 .. s
      <4>1. k + i - 1 \in 1 .. Len(rest) /\ n + (k + i - 1) = n + k + i - 1
        BY <1>1, <1>2, <3>3, <3>6
      <4>2. QED
        BY <1>2, <4>1
    <3>8. k + s <= Len(rest) => rest[k + s].pos = 1
      <4> SUFFICES ASSUME k + s <= Len(rest) PROVE rest[k + s].pos = 1
        OBVIOUS
      <4>1. k + s \in 1 .. Len(rest) /\ n + (k + s) = n + k + s /\ n + k + s <= Len(w)
        BY <1>1, <1>2, <3>3
      <4>2. QED
        BY <1>2, <3>4, <4>1
    <3>9. \A i \in 1 .. s :
             IsPart(rest[k + i - 1], rest[k].kind, rest[k].framed, i)
      BY <3>1, <3>4, <3>7
    <3>10. QED
      BY <3>5, <3>6, <3>8, <3>9 DEF RowAt
  <2>3. QED
    BY <1>2, <2>1, <2>2 DEF WholeReplies
<1>7. Replies(w) <= Replies(rest) + 1
  <2> DEFINE S == Starting(w) \ {1}
             T == Starting(rest)
             back == [k \in S |-> k - n]
  <2>1. \A k \in S : k \in 1 .. Len(w) /\ k > n /\ w[k].pos = 1
    <3> SUFFICES ASSUME NEW k \in S PROVE k \in 1 .. Len(w) /\ k > n /\ w[k].pos = 1
      OBVIOUS
    <3>1. k \in 1 .. Len(w) /\ k # 1 /\ w[k].pos = 1
      BY DEF Starting
    <3>2. k \in 1 .. n => w[k].pos = k
      BY <1>4 DEF IsPart
    <3>3. QED
      BY <1>1, <3>1, <3>2
  <2>2. \A k \in S : k - n \in T
    <3> SUFFICES ASSUME NEW k \in S PROVE k - n \in T
      OBVIOUS
    <3>1. k - n \in 1 .. Len(rest) /\ n + (k - n) = k
      BY <1>1, <1>2, <2>1
    <3>2. rest[k - n].pos = 1
      BY <1>2, <2>1, <3>1
    <3>3. QED
      BY <1>2, <3>1, <3>2 DEF Starting
  <2>3. \A a, b \in S : a - n = b - n => a = b
    BY <1>1, <2>1
  <2>4. IsFiniteSet(Starting(w)) /\ Replies(w) \in Nat /\ Replies(w) = Cardinality(Starting(w))
    BY RepliesAreFinite
  <2>5. IsFiniteSet(T) /\ Replies(rest) \in Nat /\ Replies(rest) = Cardinality(T)
    BY <1>2, RepliesAreFinite
  <2> HIDE DEF S, T
  <2>6. back \in Injection(S, T)
    BY <2>2, <2>3 DEF Injection, IsInjective
  <2>7. Cardinality(S) <= Cardinality(T)
    BY <2>5, <2>6, FS_Injection
  <2>8. 1 \in Starting(w)
    BY <1>1, <1>3 DEF Starting
  <2>9. Cardinality(S) = Cardinality(Starting(w)) - 1
    BY <2>4, <2>8, FS_RemoveElement DEF S
  <2>10. QED
    BY <2>4, <2>5, <2>7, <2>9
<1>8. QED
  BY <1>5, <1>6, <1>7 DEF head, rest
-----------------------------------------------------------------------------
(* The types, and what the count of failures can be while the thread runs. *)
StreamTyped ==
    /\ StreamTypeOK
    /\ stage # "ended" => failures < COMMAND_HEARTBEAT_FAILURE_LIMIT
    /\ broken => silent

LEMMA EmptyTyped == <<>> \in Seq(Unit) /\ Len(<<>>) = 0 /\ 0 <= BufLen /\ 0 <= MaxWire
  BY CommandAssumption

LEMMA FailsTyped ==
  ASSUME StreamTyped, stage # "ended", Fails \/ Ends \/ Retryable
  PROVE  /\ stage' \in {"sleeping", "ended"} /\ opened' = opened
         /\ buf' = <<>> /\ buf' \in Seq(Unit) /\ Len(buf') <= BufLen
         /\ failures' \in 0 .. COMMAND_HEARTBEAT_FAILURE_LIMIT
         /\ stage' # "ended" => failures' < COMMAND_HEARTBEAT_FAILURE_LIMIT
<1>1. /\ buf' = <<>> /\ opened' = opened
      /\ \/ stage' = "ended" /\ failures' = failures
         \/ /\ failures' = failures + 1
            /\ stage' = IF failures + 1 >= COMMAND_HEARTBEAT_FAILURE_LIMIT THEN "ended"
                        ELSE "sleeping"
  BY DEF Fails, Ends, Retryable
<1>2. /\ failures \in 0 .. COMMAND_HEARTBEAT_FAILURE_LIMIT
      /\ failures < COMMAND_HEARTBEAT_FAILURE_LIMIT
      /\ COMMAND_HEARTBEAT_FAILURE_LIMIT \in Nat
  BY CommandAssumption DEF StreamTyped, StreamTypeOK
<1>3. /\ failures' \in 0 .. COMMAND_HEARTBEAT_FAILURE_LIMIT
      /\ stage' \in {"sleeping", "ended"}
      /\ stage' # "ended" => failures' < COMMAND_HEARTBEAT_FAILURE_LIMIT
  BY <1>1, <1>2
<1>4. QED
  BY <1>1, <1>3, EmptyTyped

LEMMA WriteTyped ==
  ASSUME StreamTyped, Write PROVE StreamTyped'
  BY CommandAssumption DEF StreamTyped, StreamTypeOK, Write

LEMMA FailureTyped ==
  ASSUME StreamTyped, WriteFails \/ ReadFails PROVE StreamTyped'
<1>1. stage # "ended" /\ Fails /\ UNCHANGED <<servervars, wire>>
  BY DEF WriteFails, ReadFails
<1>2. QED
  BY <1>1, FailsTyped, CommandAssumption DEF StreamTyped, StreamTypeOK, servervars

LEMMA ReadTyped ==
  ASSUME StreamTyped, NEW n \in 1 .. BufLen, Read(n) PROVE StreamTyped'
<1>1. /\ buf \in Seq(Unit) /\ wire \in Seq(Unit) /\ n \in Nat /\ n >= 1
      /\ n <= Len(wire) /\ Len(buf) + n <= BufLen /\ BufLen \in Nat
      /\ MaxWire \in Nat /\ Len(wire) <= MaxWire
  BY CommandAssumption DEF StreamTyped, StreamTypeOK, Read
<1>2. /\ buf' = buf \o SubSeq(wire, 1, n)
      /\ wire' = SubSeq(wire, n + 1, Len(wire))
  BY DEF Read
<1>3. SubSeq(wire, 1, n) \in Seq(Unit) /\ Len(SubSeq(wire, 1, n)) = n
  BY <1>1
<1>4. buf' \in Seq(Unit) /\ Len(buf') <= BufLen
  BY <1>1, <1>2, <1>3
<1>5. wire' \in Seq(Unit) /\ Len(wire') <= MaxWire
  BY <1>1, <1>2
<1>6. torn' \in BOOLEAN
  BY DEF Read, StreamTyped, StreamTypeOK
<1>7. QED
  BY <1>4, <1>5, <1>6 DEF StreamTyped, StreamTypeOK, Read

LEMMA JudgeTyped ==
  ASSUME StreamTyped, JudgeRound PROVE StreamTyped'
<1>1. /\ stage = "reading"
      /\ \/ Retryable \/ Ends
         \/ stage' = "sleeping" /\ failures' = 0 /\ buf' = <<>> /\ UNCHANGED opened
         \/ stage' = "sleeping" /\ opened' = TRUE /\ buf' = <<>> /\ UNCHANGED failures
      /\ UNCHANGED <<servervars, wire>>
  BY DEF JudgeRound
<1>2. CASE Retryable \/ Ends
  BY <1>1, <1>2, FailsTyped, CommandAssumption DEF StreamTyped, StreamTypeOK, servervars
<1>3. CASE stage' = "sleeping" /\ failures' = 0 /\ buf' = <<>> /\ UNCHANGED opened
  BY <1>1, <1>3, EmptyTyped, CommandAssumption DEF StreamTyped, StreamTypeOK, servervars
<1>4. CASE stage' = "sleeping" /\ opened' = TRUE /\ buf' = <<>> /\ UNCHANGED failures
  BY <1>1, <1>4, EmptyTyped, CommandAssumption DEF StreamTyped, StreamTypeOK, servervars
<1>5. QED
  BY <1>1, <1>2, <1>3, <1>4

(* What Answer sends is a row.                                             *)
LEMMA AnswerIsRow ==
  ASSUME StreamTyped, NEW kind \in Kinds, NEW framed \in BOOLEAN, Answer(kind, framed)
  PROVE  \E r : IsRow(r, kind, framed) /\ wire' = wire \o r /\ Len(wire) + Len(r) <= MaxWire
<1> DEFINE len == IF framed THEN FrameLen ELSE BodyLen
           r == [k \in 1 .. len |-> [kind |-> kind, framed |-> framed, pos |-> k]]
<1>1. len \in {4, 5} /\ len <= FrameLen
  BY DEF FrameLen, BodyLen
<1>2. wire' = wire \o r /\ Len(wire) + len <= MaxWire
  BY DEF Answer
<1>3. \A k \in 1 .. len : [kind |-> kind, framed |-> framed, pos |-> k] \in Unit
  BY <1>1 DEF Unit, FrameLen
<1>4. r \in Seq(Unit) /\ Len(r) = len
  BY <1>1, <1>3
<1>5. \A k \in 1 .. len : IsPart(r[k], kind, framed, k)
  BY DEF IsPart
<1>6. QED
  BY <1>2, <1>4, <1>5 DEF IsRow

LEMMA AnswerTyped ==
  ASSUME StreamTyped, NEW kind \in Kinds, NEW framed \in BOOLEAN, Answer(kind, framed)
  PROVE  StreamTyped'
<1>1. PICK r : IsRow(r, kind, framed) /\ wire' = wire \o r /\ Len(wire) + Len(r) <= MaxWire
  BY AnswerIsRow
<1>2. wire \in Seq(Unit) /\ r \in Seq(Unit)
  BY <1>1 DEF StreamTyped, StreamTypeOK, IsRow
<1>3. wire' \in Seq(Unit) /\ Len(wire') <= MaxWire
  BY <1>1, <1>2
<1>4. owed' \in 0 .. MaxOwed
  BY CommandAssumption DEF Answer, StreamTyped, StreamTypeOK
<1>5. told' \in BOOLEAN
  BY DEF Answer, StreamTyped, StreamTypeOK
<1>6. QED
  BY <1>3, <1>4, <1>5 DEF StreamTyped, StreamTypeOK, Answer, threadvars

LEMMA StopsTyped ==
  ASSUME StreamTyped, Stops PROVE StreamTyped'
<1>1. silent' \in BOOLEAN /\ broken' \in BOOLEAN /\ (broken' => silent')
  BY DEF Stops
<1>2. owed' \in 0 .. MaxOwed
  BY CommandAssumption DEF Stops
<1>3. UNCHANGED <<stage, opened, buf, failures, torn, told, wire>>
  BY DEF Stops, threadvars
<1>4. QED
  BY <1>1, <1>2, <1>3 DEF StreamTyped, StreamTypeOK

LEMMA StreamTypedStep ==
  ASSUME StreamTyped, [StreamNext]_streamvars PROVE StreamTyped'
<1>1. CASE UNCHANGED streamvars
  BY <1>1 DEF StreamTyped, StreamTypeOK, streamvars, threadvars, servervars
<1>2. CASE ThreadStep
  BY <1>2, WriteTyped, FailureTyped, ReadTyped, JudgeTyped DEF ThreadStep
<1>3. CASE ServerStep
  BY <1>3, AnswerTyped, StopsTyped DEF ServerStep
<1>4. QED
  BY <1>1, <1>2, <1>3 DEF StreamNext

LEMMA StreamTypedInit == StreamInit => StreamTyped
<1> SUFFICES ASSUME StreamInit PROVE StreamTyped
  OBVIOUS
<1>1. /\ opened \in BOOLEAN /\ silent \in BOOLEAN /\ broken \in BOOLEAN
      /\ torn \in BOOLEAN /\ told \in BOOLEAN /\ (broken => silent)
  BY DEF StreamInit
<1>2. buf \in Seq(Unit) /\ Len(buf) <= BufLen /\ wire \in Seq(Unit) /\ Len(wire) <= MaxWire
  BY EmptyTyped DEF StreamInit
<1>3. /\ failures \in 0 .. COMMAND_HEARTBEAT_FAILURE_LIMIT
      /\ failures < COMMAND_HEARTBEAT_FAILURE_LIMIT
      /\ owed \in 0 .. MaxOwed
  BY CommandAssumption DEF StreamInit
<1>4. stage \in {"opening", "sleeping", "reading", "ended"}
  BY DEF StreamInit
<1>5. QED
  BY <1>1, <1>2, <1>3, <1>4 DEF StreamTyped, StreamTypeOK

(* The buffers of protocol.rs 907-1060 hold units of replies, and the      *)
(* failures that are counted never pass the limit.                         *)
THEOREM StreamTypeCorrect == StreamSpec => []StreamTypeOK
<1>1. StreamTyped => StreamTypeOK
  BY DEF StreamTyped
<1>2. QED
  BY <1>1, StreamTypedInit, StreamTypedStep, PTL DEF StreamSpec
-----------------------------------------------------------------------------
HeartbeatsOnly(w) == \A k \in DOMAIN w : w[k].kind = "heartbeat"
SendIpOnly(w) == \A k \in DOMAIN w : w[k].kind = "send-ip" /\ ~w[k].framed

(* A server that is behind by less than the limit has not been given up:   *)
(* as long as it does what it is asked, and each read returns one reply,   *)
(* a failure that was counted is a reply that is still to be read.         *)
Fine == ~silent /\ ~told /\ ~torn

Counted ==
    LET late == IF stage = "reading" /\ buf = <<>> THEN failures + 1 ELSE failures IN
    /\ HeartbeatsOnly(buf) /\ HeartbeatsOnly(wire)
    /\ stage # "opening"
    /\ stage = "sleeping" => buf = <<>>
    /\ stage = "ended" => Behind >= COMMAND_HEARTBEAT_FAILURE_LIMIT
    /\ stage # "ended" => late <= Behind

Opening ==
    /\ failures = 0 /\ stage # "sleeping"
    /\ SendIpOnly(buf) /\ SendIpOnly(wire)
    /\ stage = "opening" => owed = 0 /\ wire = <<>> /\ buf = <<>>
    /\ stage = "reading" =>
           \/ owed = 1 /\ wire = <<>> /\ buf = <<>>
           \/ owed = 0 /\ Len(wire) = BodyLen /\ buf = <<>>
           \/ owed = 0 /\ wire = <<>> /\ Len(buf) = BodyLen
    /\ stage = "ended" => Behind >= 1

InStep ==
    /\ WholeReplies(wire)
    /\ buf = <<>> \/ OneReply(buf)
    /\ IF opened THEN Counted ELSE Opening

StreamInv == StreamTyped /\ (Fine => InStep)
-----------------------------------------------------------------------------
(* What the parsers make of one reply, and of no data at all.              *)
LEMMA OneReplyStarts ==
  ASSUME NEW w \in Seq(Unit), OneReply(w)
  PROVE  /\ w # <<>> /\ Len(w) = SizeOf(w[1]) /\ Len(w) \in {4, 5}
         /\ \A i \in 1 .. Len(w) : IsPart(w[i], w[1].kind, w[1].framed, i)
<1>1. Len(w) = SizeOf(w[1]) /\ w[1].pos = 1 /\ Len(w) \in {4, 5}
  BY DEF OneReply, IsReply, SizeOf, FrameLen, BodyLen
<1>2. RowAt(w, 1)
  BY <1>1 DEF OneReply, WholeReplies
<1>3. \A i \in 1 .. Len(w) : IsPart(w[1 + i - 1], w[1].kind, w[1].framed, i)
  BY <1>1, <1>2 DEF RowAt
<1>4. \A i \in 1 .. Len(w) : 1 + i - 1 = i
  BY <1>1
<1>5. QED
  BY <1>1, <1>3, <1>4

LEMMA HeartbeatControls ==
  ASSUME NEW w \in Seq(Unit), OneReply(w), HeartbeatsOnly(w)
  PROVE  Controls(w) = {"heartbeat"}
<1>1. /\ w # <<>> /\ Len(w) = SizeOf(w[1]) /\ Len(w) \in {4, 5}
      /\ \A i \in 1 .. Len(w) : IsPart(w[i], w[1].kind, w[1].framed, i)
  BY OneReplyStarts
<1>2. /\ Len(w) >= CodeLen /\ 1 \in 1 .. Len(w) /\ 2 \in 1 .. Len(w)
      /\ w[1].framed \in BOOLEAN /\ w[1].kind = "heartbeat"
  <2>1. Len(w) >= 2 /\ 1 \in 1 .. Len(w) /\ 2 \in 1 .. Len(w) /\ 1 \in DOMAIN w
    BY <1>1
  <2>2. w[1] \in Unit
    BY <2>1
  <2>3. w[1].framed \in BOOLEAN
    BY <2>2 DEF Unit
  <2>4. w[1].kind = "heartbeat"
    BY <2>1 DEF HeartbeatsOnly
  <2>5. QED
    BY <2>1, <2>3, <2>4 DEF CodeLen
<1>3. w[1].pos = 1 /\ w[2].pos = 2 /\ w[2].framed = w[1].framed
  BY <1>1, <1>2 DEF IsPart
<1>4. CASE w[1].framed
  <2>1. w[1].framed = TRUE
    BY <1>2, <1>4
  <2>2. Starts(w, TRUE)
    BY <1>2, <1>3, <2>1 DEF Starts
  <2>3. Len(w) = FrameLen
    BY <1>1, <1>4 DEF SizeOf
  <2>4. \A k \in 1 .. FrameLen : w[k].framed /\ w[k].pos = k
    BY <1>1, <1>4, <2>3 DEF IsPart
  <2>5. IsFrame(w)
    BY <2>3, <2>4 DEF IsFrame
  <2>6. ~Starts(w, FALSE)
    BY <2>1 DEF Starts
  <2>7. ~(Len(w) < CodeLen)
    BY <1>1 DEF CodeLen
  <2>8. QED
    BY <1>2, <2>2, <2>5, <2>6, <2>7, Zenon DEF Controls
<1>5. CASE ~w[1].framed
  <2>1. w[1].framed = FALSE
    BY <1>2, <1>5
  <2>2. Starts(w, FALSE)
    BY <1>2, <1>3, <2>1 DEF Starts
  <2>3. ~Starts(w, TRUE)
    BY <2>1 DEF Starts
  <2>4. ~(Len(w) < CodeLen)
    BY <1>1 DEF CodeLen
  <2>5. QED
    BY <1>2, <2>2, <2>3, <2>4, Zenon DEF Controls
<1>6. QED
  BY <1>4, <1>5

LEMMA SendIpControls ==
  ASSUME NEW w \in Seq(Unit), OneReply(w), SendIpOnly(w)
  PROVE  SendIpResults(w) = {"send-ip"}
<1>1. /\ w # <<>> /\ Len(w) = SizeOf(w[1]) /\ Len(w) \in {4, 5}
      /\ \A i \in 1 .. Len(w) : IsPart(w[i], w[1].kind, w[1].framed, i)
  BY OneReplyStarts
<1>2. /\ Len(w) >= CodeLen /\ 1 \in 1 .. Len(w) /\ 2 \in 1 .. Len(w)
      /\ w[1].framed \in BOOLEAN /\ ~w[1].framed /\ w[1].kind = "send-ip"
  <2>1. Len(w) >= 2 /\ 1 \in 1 .. Len(w) /\ 2 \in 1 .. Len(w) /\ 1 \in DOMAIN w
    BY <1>1
  <2>2. w[1] \in Unit
    BY <2>1
  <2>3. w[1].framed \in BOOLEAN
    BY <2>2 DEF Unit
  <2>4. w[1].kind = "send-ip" /\ ~w[1].framed
    BY <2>1 DEF SendIpOnly
  <2>5. QED
    BY <2>1, <2>3, <2>4 DEF CodeLen
<1>3. w[1].pos = 1 /\ w[2].pos = 2 /\ w[2].framed = w[1].framed
  BY <1>1, <1>2 DEF IsPart
<1>4. w[1].framed = FALSE
  BY <1>2
<1>5. Starts(w, FALSE)
  BY <1>2, <1>3, <1>4 DEF Starts
<1>6. ~Starts(w, TRUE)
  BY <1>4 DEF Starts
<1>7. Len(w) >= SendIpMin /\ ~(Len(w) < SendIpMin)
  BY <1>1 DEF SendIpMin
<1>8. QED
  BY <1>2, <1>5, <1>6, <1>7, Zenon DEF SendIpResults

LEMMA NoData == SendIpResults(<<>>) = {"error"}
<1>1. Len(<<>>) < SendIpMin /\ ~(Len(<<>>) >= SendIpMin)
  BY DEF SendIpMin
<1>2. QED
  BY <1>1, Zenon DEF SendIpResults

(* The empty buffer says nothing wrong, and no replies are none.           *)
LEMMA NothingThere ==
  /\ WholeReplies(<<>>) /\ HeartbeatsOnly(<<>>) /\ SendIpOnly(<<>>)
  /\ <<>> \in Seq(Unit) /\ Len(<<>>) = 0
  BY DEF WholeReplies, HeartbeatsOnly, SendIpOnly

LEMMA SomeReply ==
  ASSUME NEW w \in Seq(Unit), WholeReplies(w), Len(w) > 0
  PROVE  Replies(w) >= 1
<1>1. 1 \in Starting(w)
  BY DEF WholeReplies, Starting
<1>2. IsFiniteSet(Starting(w)) /\ Replies(w) \in Nat /\ Replies(w) = Cardinality(Starting(w))
  BY RepliesAreFinite
<1>3. Cardinality(Starting(w)) # 0
  BY <1>1, <1>2, FS_EmptySet
<1>4. QED
  BY <1>2, <1>3

LEMMA StreamFacts ==
  ASSUME StreamTyped
  PROVE  /\ wire \in Seq(Unit) /\ buf \in Seq(Unit) /\ Len(wire) \in Nat /\ Len(buf) \in Nat
         /\ owed \in Nat /\ failures \in Nat /\ Replies(wire) \in Nat /\ Behind \in Nat
         /\ COMMAND_HEARTBEAT_FAILURE_LIMIT \in Nat /\ COMMAND_HEARTBEAT_FAILURE_LIMIT >= 1
         /\ MaxOwed \in Nat /\ MaxOwed >= COMMAND_HEARTBEAT_FAILURE_LIMIT
         /\ stage \in {"opening", "sleeping", "reading", "ended"}
         /\ stage # "ended" => failures + 1 <= COMMAND_HEARTBEAT_FAILURE_LIMIT
         /\ Behind = owed + Replies(wire)
<1>1. wire \in Seq(Unit) /\ buf \in Seq(Unit) /\ Len(wire) \in Nat /\ Len(buf) \in Nat
  BY DEF StreamTyped, StreamTypeOK
<1>2. Replies(wire) \in Nat
  BY <1>1, RepliesAreFinite
<1>3. QED
  BY <1>1, <1>2, CommandAssumption DEF StreamTyped, StreamTypeOK, Behind
-----------------------------------------------------------------------------
LEMMA WriteKeeps ==
  ASSUME StreamTyped, InStep, ~silent, Write PROVE InStep'
<1>1. /\ stage' = "reading" /\ stage \in {"opening", "sleeping"}
      /\ owed' = IF owed = MaxOwed THEN owed ELSE owed + 1
      /\ buf' = buf /\ wire' = wire /\ failures' = failures /\ opened' = opened
  BY DEF Write
<1>2. WholeReplies(wire') /\ (buf' = <<>> \/ OneReply(buf'))
  BY <1>1 DEF InStep
<1>3. Behind' = owed' + Replies(wire)
  BY <1>1 DEF Behind
<1>4. CASE opened
  <2>1. /\ HeartbeatsOnly(buf') /\ HeartbeatsOnly(wire')
        /\ buf = <<>> /\ failures <= Behind
    BY <1>1, <1>4 DEF InStep, Counted
  <2>2. failures + 1 <= owed' + Replies(wire)
    BY <1>1, <2>1, StreamFacts
  <2>3. Counted'
    BY <1>1, <1>3, <2>1, <2>2 DEF Counted
  <2>4. QED
    BY <1>1, <1>2, <1>4, <2>3 DEF InStep
<1>5. CASE ~opened
  <2>1. /\ failures = 0 /\ SendIpOnly(buf') /\ SendIpOnly(wire')
        /\ owed = 0 /\ wire = <<>> /\ buf = <<>>
    BY <1>1, <1>5 DEF InStep, Opening
  <2>2. owed' = 1
    BY <1>1, <2>1, StreamFacts
  <2>3. Opening'
    BY <1>1, <2>1, <2>2 DEF Opening
  <2>4. QED
    BY <1>1, <1>2, <1>5, <2>3 DEF InStep
<1>6. QED
  BY <1>4, <1>5

LEMMA ReadKeeps ==
  ASSUME StreamTyped, InStep, NEW n \in 1 .. BufLen, Read(n), ~torn' PROVE InStep'
<1> DEFINE units == SubSeq(wire, 1, n)
           rest == SubSeq(wire, n + 1, Len(wire))
<1>1. /\ stage = "reading" /\ stage' = "reading" /\ Len(buf) < BodyLen
      /\ n \in 1 .. Len(wire) /\ IsReply(units)
      /\ buf' = buf \o units /\ wire' = rest
      /\ owed' = owed /\ failures' = failures /\ opened' = opened
  <2>1. n <= Len(wire) /\ n \in Nat /\ n >= 1
    BY CommandAssumption DEF Read
  <2>2. n \in 1 .. Len(wire)
    BY <2>1, StreamFacts
  <2>3. torn' = (torn \/ ~IsReply(units))
    BY DEF Read
  <2>4. QED
    BY <2>2, <2>3 DEF Read
<1>2. wire \in Seq(Unit) /\ buf \in Seq(Unit) /\ units \in Seq(Unit) /\ rest \in Seq(Unit)
  <2>1. wire \in Seq(Unit) /\ buf \in Seq(Unit) /\ n \in 1 .. Len(wire)
    BY <1>1, StreamFacts
  <2>2. units \in Seq(Unit) /\ rest \in Seq(Unit)
    BY <2>1
  <2>3. QED
    BY <2>1, <2>2
<1>3. /\ OneReply(units) /\ WholeReplies(rest) /\ Replies(wire) <= Replies(rest) + 1
  BY <1>1, <1>2, TakeReply DEF InStep
<1>4. buf = <<>>
  <2>1. OneReply(buf) => Len(buf) \in {4, 5}
    BY <1>2, OneReplyStarts
  <2>2. Len(buf) < 4
    BY <1>1 DEF BodyLen
  <2>3. ~OneReply(buf)
    BY <2>1, <2>2
  <2>4. QED
    BY <2>3 DEF InStep
<1>5. /\ Len(units) = n /\ Len(rest) = Len(wire) - n
      /\ \A i \in 1 .. n : units[i] = wire[i]
      /\ \A i \in 1 .. Len(rest) : rest[i] = wire[n + i] /\ n + i \in 1 .. Len(wire)
  BY <1>1, <1>2
<1> HIDE DEF units, rest
<1>6. buf' = units /\ units # <<>>
  <2>1. <<>> \o units = units
    BY <1>2
  <2>2. QED
    BY <1>1, <1>2, <1>3, <1>4, <2>1, OneReplyStarts
<1>7. WholeReplies(wire') /\ OneReply(buf')
  BY <1>1, <1>3, <1>6
<1>8. Behind' = owed + Replies(rest)
  BY <1>1 DEF Behind
<1>9. Replies(rest) \in Nat
  BY <1>2, RepliesAreFinite
<1>10. CASE opened
  <2>1. HeartbeatsOnly(wire) /\ failures + 1 <= Behind
    BY <1>1, <1>4, <1>10 DEF InStep, Counted
  <2>2. HeartbeatsOnly(units) /\ HeartbeatsOnly(rest)
    <3>1. \A k \in 1 .. Len(wire) : wire[k].kind = "heartbeat"
      BY <1>2, <2>1 DEF HeartbeatsOnly
    <3>2. \A k \in 1 .. Len(units) : units[k].kind = "heartbeat"
      BY <1>1, <1>5, <3>1
    <3>3. \A k \in 1 .. Len(rest) : rest[k].kind = "heartbeat"
      BY <1>5, <3>1
    <3>4. QED
      BY <1>2, <3>2, <3>3 DEF HeartbeatsOnly
  <2>3. failures <= owed + Replies(rest)
    BY <1>3, <1>9, <2>1, StreamFacts
  <2>4. Counted'
    BY <1>1, <1>6, <1>8, <2>2, <2>3 DEF Counted
  <2>5. QED
    BY <1>1, <1>7, <1>10, <2>4 DEF InStep
<1>11. CASE ~opened
  <2>1. /\ failures = 0 /\ SendIpOnly(wire)
        /\ \/ owed = 1 /\ wire = <<>> /\ buf = <<>>
           \/ owed = 0 /\ Len(wire) = BodyLen /\ buf = <<>>
           \/ owed = 0 /\ wire = <<>> /\ Len(buf) = BodyLen
    BY <1>1, <1>11 DEF InStep, Opening
  <2>2. owed = 0 /\ Len(wire) = BodyLen
    BY <1>1, <1>2, <1>4, <2>1 DEF BodyLen
  <2>3. SendIpOnly(units) /\ SendIpOnly(rest) /\ ~units[1].framed
    <3>1. \A k \in 1 .. Len(wire) : wire[k].kind = "send-ip" /\ ~wire[k].framed
      BY <1>2, <2>1 DEF SendIpOnly
    <3>2. \A k \in 1 .. Len(units) : units[k].kind = "send-ip" /\ ~units[k].framed
      BY <1>1, <1>5, <3>1
    <3>3. \A k \in 1 .. Len(rest) : rest[k].kind = "send-ip" /\ ~rest[k].framed
      BY <1>5, <3>1
    <3>4. 1 \in 1 .. Len(units)
      BY <1>1, <1>5
    <3>5. QED
      BY <1>2, <3>2, <3>3, <3>4 DEF SendIpOnly
  <2>4. Len(units) = BodyLen
    BY <1>1, <2>3 DEF IsReply
  <2>5. rest = <<>>
    BY <1>2, <1>5, <2>2, <2>4
  <2>6. Opening'
    BY <1>1, <1>6, <2>1, <2>2, <2>3, <2>4, <2>5 DEF Opening
  <2>7. QED
    BY <1>1, <1>7, <1>11, <2>6 DEF InStep
<1>12. QED
  BY <1>10, <1>11

LEMMA JudgeKeeps ==
  ASSUME StreamTyped, InStep, JudgeRound PROVE InStep'
<1>1. /\ stage = "reading" /\ wire' = wire /\ owed' = owed
  BY DEF JudgeRound, servervars
<1>2. buf' = <<>>
  BY DEF JudgeRound, Retryable, Ends
<1>3. WholeReplies(wire') /\ HeartbeatsOnly(buf') /\ SendIpOnly(buf')
  BY <1>1, <1>2, NothingThere DEF InStep
<1>4. Behind' = Behind
  BY <1>1 DEF Behind
<1>5. CASE opened /\ buf = <<>>
  <2>1. /\ failures' = failures + 1 /\ opened' = opened
        /\ stage' = IF failures + 1 >= COMMAND_HEARTBEAT_FAILURE_LIMIT THEN "ended"
                    ELSE "sleeping"
    BY <1>5 DEF JudgeRound, Retryable
  <2>2. HeartbeatsOnly(wire) /\ failures + 1 <= Behind
    BY <1>1, <1>5 DEF InStep, Counted
  <2>3. CASE failures + 1 >= COMMAND_HEARTBEAT_FAILURE_LIMIT
    <3>1. stage' = "ended" /\ Behind >= COMMAND_HEARTBEAT_FAILURE_LIMIT
      BY <2>1, <2>2, <2>3, StreamFacts
    <3>2. Counted'
      BY <1>1, <1>2, <1>3, <1>4, <2>2, <3>1 DEF Counted
    <3>3. QED
      BY <1>2, <1>3, <1>5, <2>1, <3>2 DEF InStep
  <2>4. CASE ~(failures + 1 >= COMMAND_HEARTBEAT_FAILURE_LIMIT)
    <3>1. stage' = "sleeping"
      BY <2>1, <2>4
    <3>2. Counted'
      BY <1>1, <1>2, <1>3, <1>4, <2>1, <2>2, <3>1 DEF Counted
    <3>3. QED
      BY <1>2, <1>3, <1>5, <2>1, <3>2 DEF InStep
  <2>5. QED
    BY <2>3, <2>4
<1>6. CASE opened /\ buf # <<>>
  <2>1. OneReply(buf) /\ HeartbeatsOnly(buf) /\ HeartbeatsOnly(wire)
    BY <1>6 DEF InStep, Counted
  <2>2. Controls(buf) = {"heartbeat"}
    BY <2>1, StreamFacts, HeartbeatControls
  <2>3. stage' = "sleeping" /\ failures' = 0 /\ opened' = opened
    BY <1>6, <2>2 DEF JudgeRound
  <2>4. Counted'
    BY <1>1, <1>2, <1>3, <1>4, <2>1, <2>3, StreamFacts DEF Counted
  <2>5. QED
    BY <1>2, <1>3, <1>6, <2>3, <2>4 DEF InStep
<1>7. CASE ~opened /\ buf = <<>>
  <2>1. SendIpResults(buf) = {"error"}
    BY <1>7, NoData
  <2>2. stage' = "ended" /\ failures' = failures /\ opened' = opened
    BY <1>7, <2>1 DEF JudgeRound, Ends
  <2>3. failures = 0 /\ SendIpOnly(wire) /\ (owed = 1 \/ Len(wire) = BodyLen)
    BY <1>1, <1>7, NothingThere DEF InStep, Opening, BodyLen
  <2>4. Behind >= 1
    <3>1. CASE owed = 1
      BY <3>1, StreamFacts
    <3>2. CASE Len(wire) = BodyLen
      <4>1. Len(wire) > 0 /\ wire \in Seq(Unit) /\ WholeReplies(wire)
        BY <3>2, StreamFacts DEF BodyLen, InStep
      <4>2. Replies(wire) >= 1
        BY <4>1, SomeReply
      <4>3. QED
        BY <4>2, StreamFacts
    <3>3. QED
      BY <2>3, <3>1, <3>2
  <2>5. Opening'
    BY <1>1, <1>3, <1>4, <2>2, <2>3, <2>4 DEF Opening
  <2>6. QED
    BY <1>2, <1>3, <1>7, <2>2, <2>5 DEF InStep
<1>8. CASE ~opened /\ buf # <<>>
  <2>1. OneReply(buf) /\ SendIpOnly(buf) /\ failures = 0 /\ wire = <<>>
    BY <1>1, <1>8 DEF InStep, Opening
  <2>2. SendIpResults(buf) = {"send-ip"}
    BY <2>1, StreamFacts, SendIpControls
  <2>3. stage' = "sleeping" /\ failures' = 0 /\ opened' = TRUE
    BY <1>8, <2>1, <2>2 DEF JudgeRound
  <2>4. HeartbeatsOnly(wire')
    BY <1>1, <2>1, NothingThere
  <2>5. Counted'
    BY <1>2, <1>3, <1>4, <2>3, <2>4, StreamFacts DEF Counted
  <2>6. QED
    BY <1>2, <1>3, <2>3, <2>5 DEF InStep
<1>9. QED
  BY <1>5, <1>6, <1>7, <1>8

LEMMA AnswerKeeps ==
  ASSUME StreamTyped, InStep, NEW kind \in Kinds, NEW framed \in BOOLEAN,
         Answer(kind, framed), ~told', stage # "ended"
  PROVE  InStep'
<1>1. PICK r : IsRow(r, kind, framed) /\ wire' = wire \o r
  BY AnswerIsRow
<1>2. /\ owed > 0 /\ owed' = owed - 1
      /\ stage' = stage /\ opened' = opened /\ buf' = buf /\ failures' = failures
      /\ kind = Asked /\ ~(framed /\ ~opened)
  BY DEF Answer, threadvars
<1>3. wire \in Seq(Unit) /\ r \in Seq(Unit)
  BY <1>1, StreamFacts DEF IsRow
<1>4. Replies(wire') = Replies(wire) + 1 /\ WholeReplies(wire')
  BY <1>1, <1>3, AppendReply DEF InStep
<1>5. Behind' = Behind
  <2>1. Behind' = (owed - 1) + (Replies(wire) + 1)
    BY <1>2, <1>4 DEF Behind
  <2>2. QED
    BY <2>1, StreamFacts
<1>6. /\ Len(wire') = Len(wire) + Len(r)
      /\ \A k \in 1 .. Len(wire') : \/ k \in 1 .. Len(wire) /\ wire'[k] = wire[k]
                                    \/ k - Len(wire) \in 1 .. Len(r) /\ wire'[k] = r[k - Len(wire)]
  BY <1>1, <1>3
<1>7. wire' \in Seq(Unit)
  BY <1>1, <1>3
<1>8. \A i \in 1 .. Len(r) : r[i].kind = kind /\ r[i].framed = framed
  BY <1>1 DEF IsRow, IsPart
<1>9. CASE opened
  <2>1. kind = "heartbeat"
    BY <1>2, <1>9 DEF Asked
  <2>2. HeartbeatsOnly(wire) /\ HeartbeatsOnly(buf)
    BY <1>9 DEF InStep, Counted
  <2>3. HeartbeatsOnly(wire')
    BY <1>3, <1>6, <1>7, <1>8, <2>1, <2>2 DEF HeartbeatsOnly
  <2>4. Counted'
    BY <1>2, <1>5, <1>9, <2>2, <2>3 DEF InStep, Counted
  <2>5. QED
    BY <1>2, <1>4, <1>9, <2>4 DEF InStep
<1>10. CASE ~opened
  <2>1. kind = "send-ip" /\ framed = FALSE
    BY <1>2, <1>10 DEF Asked
  <2>2. /\ failures = 0 /\ SendIpOnly(buf) /\ SendIpOnly(wire)
        /\ stage = "reading" /\ owed = 1 /\ wire = <<>> /\ buf = <<>>
    BY <1>2, <1>10, StreamFacts DEF InStep, Opening
  <2>3. SendIpOnly(wire')
    BY <1>3, <1>6, <1>7, <1>8, <2>1, <2>2 DEF SendIpOnly
  <2>4. Len(wire') = BodyLen
    BY <1>1, <1>6, <2>1, <2>2 DEF IsRow
  <2>5. Opening'
    BY <1>2, <2>2, <2>3, <2>4 DEF Opening
  <2>6. QED
    BY <1>2, <1>4, <1>10, <2>5 DEF InStep
<1>11. QED
  BY <1>9, <1>10

LEMMA StreamInvStep ==
  ASSUME StreamInv, [StreamNext]_streamvars PROVE StreamInv'
<1>1. StreamTyped'
  BY StreamTypedStep DEF StreamInv
<1>2. ASSUME Fine' PROVE InStep'
  <2>1. CASE UNCHANGED streamvars
    BY <1>2, <2>1 DEF StreamInv, Fine, InStep, Counted, Opening, Behind,
                      streamvars, threadvars, servervars
  <2>2. CASE Write
    BY <1>2, <2>2, WriteKeeps DEF StreamInv, Fine, Write
  <2>3. CASE WriteFails \/ ReadFails
    BY <1>2, <2>3 DEF StreamInv, StreamTyped, Fine, WriteFails, ReadFails, servervars
  <2>4. CASE JudgeRound
    BY <1>2, <2>4, JudgeKeeps DEF StreamInv, Fine, JudgeRound, servervars
  <2>5. ASSUME NEW n \in 1 .. BufLen, Read(n) PROVE InStep'
    BY <1>2, <2>5, ReadKeeps DEF StreamInv, Fine, Read
  <2>6. ASSUME NEW kind \in Kinds, NEW framed \in BOOLEAN, Answer(kind, framed),
               stage # "ended"
        PROVE  InStep'
    BY <1>2, <2>6, AnswerKeeps DEF StreamInv, Fine, Answer
  <2>7. CASE Stops
    BY <1>2, <2>7 DEF Fine, Stops
  <2>8. QED
    BY <2>1, <2>2, <2>3, <2>4, <2>5, <2>6, <2>7 DEF StreamNext, ThreadStep, ServerStep
<1>3. QED
  BY <1>1, <1>2 DEF StreamInv

(* A server that answers is not given up (protocol.rs 920-1060): the loop  *)
(* ends only when the server or the connection has stopped, when a reply   *)
(* was not the one asked for or came in pieces, or when the server is      *)
(* behind by as many replies as the limit.                                 *)
THEOREM EndsAreDeserved == StreamSpec => []EndIsDeserved
<1>1. StreamInit => StreamInv
  <2> SUFFICES ASSUME StreamInit PROVE InStep
    BY StreamTypedInit DEF StreamInv
  <2>1. /\ stage = "opening" /\ ~opened /\ failures = 0 /\ owed = 0
        /\ buf = <<>> /\ wire = <<>>
    BY DEF StreamInit
  <2>2. QED
    BY <2>1, NothingThere DEF InStep, Opening
<1>2. StreamInv => EndIsDeserved
  <2> SUFFICES ASSUME StreamInv, stage = "ended", Fine
               PROVE  Behind >= IF opened THEN COMMAND_HEARTBEAT_FAILURE_LIMIT ELSE 1
    BY DEF EndIsDeserved, Fine
  <2>1. InStep
    BY DEF StreamInv
  <2>2. QED
    BY <2>1 DEF InStep, Counted, Opening
<1>3. QED
  BY <1>1, <1>2, StreamInvStep, PTL DEF StreamSpec
=============================================================================
