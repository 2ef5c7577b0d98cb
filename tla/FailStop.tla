------------------------------ MODULE FailStop ------------------------------
(***************************************************************************)
(* What the process promises about its background threads once it serves   *)
(* clients: a thread that has died is noticed, the first death reported is *)
(* the cause of the shutdown, the cause never changes afterwards, and the  *)
(* process does not outlive it.  Before it serves it may give up at any    *)
(* moment.  The module has no line-by-line counterpart in the source; it   *)
(* is the contract that protocol.rs (TUNNEL_FATAL_STATE) and socks.rs      *)
(* (serve) are meant to implement together.                                *)
(***************************************************************************)
CONSTANTS Workers,   \* the background threads that report their death
          NoReason   \* "no death reported yet"

VARIABLES dead,      \* the workers that have ended
          cause,     \* the worker whose report is the reason of the shutdown
          serving,   \* the start-up is over: only a cause ends the process now
          exited     \* the process has ended

absVars == <<dead, cause, serving, exited>>

FSInit ==
    /\ dead = {}
    /\ cause = NoReason
    /\ serving = FALSE
    /\ exited = FALSE

(* A worker ends. *)
Die(w) ==
    /\ ~exited
    /\ w \notin dead
    /\ dead' = dead \cup {w}
    /\ UNCHANGED <<cause, serving, exited>>

(* The first dead worker to be reported becomes the cause. *)
Report(w) ==
    /\ ~exited
    /\ w \in dead
    /\ cause = NoReason
    /\ cause' = w
    /\ UNCHANGED <<dead, serving, exited>>

(* The start-up fails, or ends. *)
GiveUp ==
    /\ ~serving /\ ~exited
    /\ exited' = TRUE
    /\ UNCHANGED <<dead, cause, serving>>

StartServing ==
    /\ ~serving /\ ~exited
    /\ serving' = TRUE
    /\ UNCHANGED <<dead, cause, exited>>

(* The process that serves ends, and only because there is a cause. *)
Stop ==
    /\ serving /\ ~exited
    /\ cause # NoReason
    /\ exited' = TRUE
    /\ UNCHANGED <<dead, cause, serving>>

FSNext == \/ \E w \in Workers : Die(w) \/ Report(w)
          \/ GiveUp \/ StartServing \/ Stop

(* A death is reported and the process that serves ends for it. *)
FSSpec == /\ FSInit
          /\ [][FSNext]_absVars
          /\ WF_absVars(\E w \in Workers : Report(w))
          /\ WF_absVars(Stop)
=============================================================================
