----------------------------- MODULE FatalLatch -----------------------------
(***************************************************************************)
(* TUNNEL_FATAL_STATE of protocol.rs: a mutex-protected Option<String> and *)
(* a condition variable.  Workers that end record a reason; the main       *)
(* thread, inside socks::serve, sleeps until there is one.  The mutex, the *)
(* wait set and every point at which a thread can be preempted are         *)
(* explicit here; module TunnelRuntime uses the latch as one atomic step.  *)
(*                                                                         *)
(* Not modelled: poisoning.  No code that holds the mutex can panic, so    *)
(* the Err arms of lock() and wait() are never taken.                      *)
(***************************************************************************)
EXTENDS FiniteSets

CONSTANTS Workers,   \* threads that call record_tunnel_fatal_reason
          Main,      \* the thread that calls serve
          NoReason,  \* Option::None
          Free       \* the mutex is not held

ASSUME ThreadsAssumption ==
    /\ Main \notin Workers
    /\ Free \notin Workers \cup {Main}
    /\ NoReason \notin Workers

VARIABLES reason,    \* TunnelFatalState.reason; a reason is the worker that gave it
          lock,      \* the thread that holds TunnelFatalState.reason, or Free
          waiting,   \* TRUE while Main is in the wait set of TunnelFatalState.cv
          pc,        \* program counter of every thread
          returned   \* what wait_tunnel_fatal_reason returned

vars == <<reason, lock, waiting, pc, returned>>

Threads == Workers \cup {Main}

MainPC == {"clear", "spawn", "acquire", "check", "wait", "returned"}
WorkerPC == {"unborn", "running", "acquire", "record", "notify", "done"}

TypeOK ==
    /\ reason \in Workers \cup {NoReason}
    /\ lock \in Threads \cup {Free}
    /\ waiting \in BOOLEAN
    /\ pc \in [Threads -> MainPC \cup WorkerPC]
    /\ pc[Main] \in MainPC
    /\ \A w \in Workers : pc[w] \in WorkerPC
    /\ returned \in IF pc[Main] = "returned" THEN Workers ELSE {NoReason}

(* The static is created empty and unlocked; a previous reason cannot      *)
(* survive, but the code clears it all the same.                           *)
Init ==
    /\ reason = NoReason
    /\ lock = Free
    /\ waiting = FALSE
    /\ pc = [t \in Threads |-> IF t = Main THEN "clear" ELSE "unborn"]
    /\ returned = NoReason

Goto(t, label) == pc' = [pc EXCEPT ![t] = label]

(* clear_tunnel_fatal_reason, the first statement of start_tunnel_runtime. *)
Clear ==
    /\ pc[Main] = "clear"
    /\ lock = Free
    /\ reason' = NoReason
    /\ Goto(Main, "spawn")
    /\ UNCHANGED <<lock, waiting, returned>>

(* The workers are spawned one by one while the earlier ones run.          *)
Spawn(w) ==
    /\ pc[Main] = "spawn"
    /\ pc[w] = "unborn"
    /\ Goto(w, "running")
    /\ UNCHANGED <<reason, lock, waiting, returned>>

(* serve reaches wait_tunnel_fatal_reason once everything is started.      *)
Serve ==
    /\ pc[Main] = "spawn"
    /\ \A w \in Workers : pc[w] # "unborn"
    /\ Goto(Main, "acquire")
    /\ UNCHANGED <<reason, lock, waiting, returned>>

(* The worker's loop returns; handle_worker_exit records for Ok and Err.   *)
WorkerEnds(w) ==
    /\ pc[w] = "running"
    /\ Goto(w, "acquire")
    /\ UNCHANGED <<reason, lock, waiting, returned>>

(* state.reason.lock() by a worker. *)
RecordLock(w) ==
    /\ pc[w] = "acquire"
    /\ lock = Free
    /\ lock' = w
    /\ Goto(w, "record")
    /\ UNCHANGED <<reason, waiting, returned>>

(* guard.is_none(): the first reason is stored, a later one is dropped.    *)
\* mutant: a later reason overwrites the first one
RecordOverwrites(w) ==
    /\ pc[w] = "record"
    /\ reason' = w
    /\ Goto(w, "notify")
    /\ UNCHANGED <<lock, waiting, returned>>

Record(w) ==
    /\ pc[w] = "record"
    /\ \/ /\ reason = NoReason
          /\ reason' = w
          /\ Goto(w, "notify")
          /\ UNCHANGED lock
       \/ /\ reason # NoReason
          /\ lock' = Free
          /\ Goto(w, "done")
          /\ UNCHANGED reason
    /\ UNCHANGED <<waiting, returned>>

(* cv.notify_all(), then the guard is dropped. *)
\* mutant: the reason is stored and nobody is told
NotifySkipped(w) ==
    /\ pc[w] = "notify"
    /\ lock' = Free
    /\ Goto(w, "done")
    /\ UNCHANGED <<reason, waiting, returned>>

Notify(w) ==
    /\ pc[w] = "notify"
    /\ waiting' = FALSE
    /\ lock' = Free
    /\ Goto(w, "done")
    /\ UNCHANGED <<reason, returned>>

(* Main takes the mutex: the first time, or to leave cv.wait after it was  *)
(* notified.                                                               *)
WaitLock ==
    /\ pc[Main] \in {"acquire", "wait"}
    /\ ~waiting
    /\ lock = Free
    /\ lock' = Main
    /\ Goto(Main, "check")
    /\ UNCHANGED <<reason, waiting, returned>>

(* The loop of wait_tunnel_fatal_reason: return the reason if there is     *)
(* one, otherwise release the mutex and join the wait set in one step.     *)
Check ==
    /\ pc[Main] = "check"
    /\ lock' = Free
    /\ \/ /\ reason # NoReason
          /\ returned' = reason
          /\ Goto(Main, "returned")
          /\ UNCHANGED waiting
       \/ /\ reason = NoReason
          /\ waiting' = TRUE
          /\ Goto(Main, "wait")
          /\ UNCHANGED returned
    /\ UNCHANGED reason

(* A condition variable may wake up without a notification. *)
SpuriousWakeup ==
    /\ waiting
    /\ waiting' = FALSE
    /\ UNCHANGED <<reason, lock, pc, returned>>

(* serve has returned: the process exits and no thread runs any more.      *)
Running == pc[Main] # "returned"

MainStep == Clear \/ Serve \/ WaitLock \/ Check
WorkerStep(w) == RecordLock(w) \/ Record(w) \/ Notify(w)

Next ==
    /\ Running
    /\ \/ MainStep
       \/ SpuriousWakeup
       \/ \E w \in Workers : Spawn(w) \/ WorkerEnds(w) \/ WorkerStep(w)

Spec == Init /\ [][Next]_vars

(* The mutex is handed over fairly to a thread that keeps asking for it,   *)
(* and a thread that can run does run.  Nothing makes a worker end.        *)
Fairness ==
    /\ SF_vars(Running /\ MainStep)
    /\ \A w \in Workers : /\ WF_vars(Running /\ Spawn(w))
                          /\ SF_vars(Running /\ WorkerStep(w))

FairSpec == Spec /\ Fairness
-----------------------------------------------------------------------------
(* Safety behind "no wakeup is lost" (protocol.rs 388-403, 416-424): if    *)
(* Main sleeps although a reason is stored, a worker is between storing it *)
(* and notifying, still under the mutex.                                   *)
NoMissedWakeup ==
    waiting /\ reason # NoReason => \E w \in Workers : pc[w] = "notify" /\ lock = w

(* The first reason recorded after the start stays (protocol.rs 418-421):  *)
(* later failures never hide the one that started the shutdown.            *)
FirstReasonKept ==
    [][reason # NoReason => reason' = reason]_vars

(* What serve returns for is the recorded reason, of a worker that ended.  *)
ReturnsRecordedReason ==
    pc[Main] = "returned" =>
        /\ returned = reason
        /\ returned \in Workers
        /\ pc[returned] \in {"notify", "done"}

(* The latch implements the fail-stop contract: a worker that ends brings  *)
(* the process down, for the first reason recorded.                        *)
FS == INSTANCE FailStop WITH
          dead <- {w \in Workers : pc[w] \notin {"unborn", "running"}},
          cause <- reason,
          serving <- pc[Main] \notin {"clear", "spawn"},
          exited <- pc[Main] = "returned"

ImplementsFailStop == FS!FSSpec
=============================================================================
