---------------------------- MODULE TunnelHandle ----------------------------
(***************************************************************************)
(* What the threads of the SOCKS server and the netstack owe one another   *)
(* over one TunnelTcpConnection or TunnelUdpAssociation, which is an id    *)
(* and the two ends of the uplink channel (netstack.rs 61-195).  The       *)
(* threads send only while they hold it and before they close it, and      *)
(* close it once.  The netstack drops its end of the channel once, puts    *)
(* nothing into the channel afterwards, and never takes that back: no      *)
(* later connection gets the id.                                           *)
(*                                                                         *)
(* The connection may have ended, and data may wait, by the time the       *)
(* answer to the request reaches who asked for it.                         *)
(***************************************************************************)
EXTENDS Naturals

VARIABLES held,     \* the request was answered with a handle
          closed,   \* close() was called
          ended,    \* the netstack has no entry of this id
          sent,     \* what the threads have sent, however it is counted
          waiting   \* how much lies in the uplink channel

handleVars == <<held, closed, ended, sent, waiting>>

HandleInit == ~held /\ ~closed /\ ~ended /\ waiting = 0

Open ==
    /\ ~held /\ held'
    /\ ended' \in BOOLEAN
    /\ UNCHANGED <<closed, sent, waiting>>

Send ==
    /\ held /\ ~closed
    /\ UNCHANGED <<held, closed, ended, waiting>>

Close ==
    /\ held /\ ~closed /\ closed'
    /\ UNCHANGED <<held, ended, sent, waiting>>

Take ==
    /\ waiting' < waiting
    /\ UNCHANGED <<held, closed, ended, sent>>

Deliver ==
    /\ ~ended
    /\ waiting' > waiting
    /\ UNCHANGED <<held, closed, ended, sent>>

(* The last data may come with the end.                                    *)
End ==
    /\ held /\ ~ended /\ ended'
    /\ waiting' >= waiting
    /\ UNCHANGED <<held, closed, sent>>

HandleNext == Open \/ Send \/ Close \/ Take \/ Deliver \/ End

HandleSpec == HandleInit /\ [][HandleNext]_handleVars
=============================================================================
