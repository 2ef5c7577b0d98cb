---------------------------- MODULE CommandStream ----------------------------
(***************************************************************************)
(* The command stream byte for byte where it matters (protocol.rs 453-494, *)
(* 907-1060, protocol_wire.rs 90-97, 132-184): the SEND_IP exchange that   *)
(* opens it, then a heartbeat and its reply in each round.  TunnelRuntime  *)
(* has the rounds as single steps with a reply from a set; here the reply  *)
(* is read from a stream on which it may be late, in pieces, or joined to  *)
(* another one, and what one round leaves unread the next one reads.       *)
(*                                                                         *)
(* A reply is a row of units: two halves of its code (or of the AABB magic *)
(* of a frame), what SEND_IP needs besides, and the rest; a frame has one  *)
(* unit more.  A read returns one TLS record or what is left of it, and    *)
(* records are as the server likes: any number of the units that are there.*)
(***************************************************************************)
EXTENDS Naturals, Sequences, FiniteSets

CONSTANTS Kinds,    \* the replies of the server: "send-ip", "heartbeat", "shutdown", ...
          COMMAND_HEARTBEAT_FAILURE_LIMIT,
          BufLen,   \* bound: units of the reply buffer (128 bytes in the code)
          MaxOwed,  \* bound: requests without a reply that are counted
          MaxWire   \* bound: units that were not read

ASSUME CommandAssumption ==
    /\ COMMAND_HEARTBEAT_FAILURE_LIMIT \in Nat \ {0}
    /\ BufLen \in Nat /\ MaxWire \in Nat
    /\ MaxOwed \in Nat /\ MaxOwed >= COMMAND_HEARTBEAT_FAILURE_LIMIT

CodeLen == 2    \* COMMAND_REPLY_MIN_LEN, 4 bytes
SendIpMin == 3  \* SEND_IP_REPLY_MIN_LEN, 16 bytes
BodyLen == 4    \* COMMAND_REPLY_BODY_EXPECTED_LEN, 36 bytes
FrameLen == 5   \* NATIVE_CONTROL_FRAME_LEN, 40 bytes

VARIABLES stage,    \* of the thread: "opening", "sleeping", "reading", "ended"
          opened,   \* SEND_IP has been answered
          buf,      \* what read_at_least has read in this round
          failures, \* failure_count
          owed,     \* requests the server has yet to answer
          wire,     \* units of its replies that were not read
          silent,   \* the server sends nothing any more
          broken,   \* the connection is gone: reads and writes fail
          torn,     \* history: a read returned other than one whole reply
          told      \* history: a reply was not what the request asks for

threadvars == <<stage, opened, buf, failures>>
servervars == <<owed, silent, broken, torn, told>>
streamvars == <<threadvars, servervars, wire>>

Unit == [kind : Kinds, framed : BOOLEAN, pos : 1 .. FrameLen]

StreamTypeOK ==
    /\ stage \in {"opening", "sleeping", "reading", "ended"}
    /\ opened \in BOOLEAN
    /\ buf \in Seq(Unit) /\ Len(buf) <= BufLen
    /\ failures \in 0 .. COMMAND_HEARTBEAT_FAILURE_LIMIT
    /\ owed \in 0 .. MaxOwed
    /\ wire \in Seq(Unit) /\ Len(wire) <= MaxWire
    /\ silent \in BOOLEAN /\ broken \in BOOLEAN
    /\ torn \in BOOLEAN /\ told \in BOOLEAN

StreamInit ==
    /\ stage = "opening" /\ opened = FALSE
    /\ buf = <<>> /\ failures = 0
    /\ owed = 0 /\ wire = <<>>
    /\ silent = FALSE /\ broken = FALSE /\ torn = FALSE /\ told = FALSE
-----------------------------------------------------------------------------
(* What the bytes say.                                                     *)
Starts(data, framed) ==
    /\ Len(data) >= CodeLen
    /\ data[1].pos = 1 /\ data[2].pos = 2
    /\ data[1].framed = framed /\ data[2].framed = framed

\* the bytes of one frame, and no more
IsFrame(data) ==
    /\ Len(data) = FrameLen
    /\ \A k \in 1 .. FrameLen : data[k].framed /\ data[k].pos = k

(* The kinds parse_command_control_reply may make of the data; "error" is  *)
(* none.  A code read out of the middle of a reply may be any.             *)
Controls(data) ==
    CASE Len(data) < CodeLen -> {"error"}
      [] Starts(data, TRUE)  -> IF IsFrame(data) THEN {data[1].kind} ELSE {"error"}
      [] Starts(data, FALSE) -> {data[1].kind}
      [] OTHER               -> Kinds

(* parse_send_ip_reply: the code and the two addresses; no frames.         *)
SendIpResults(data) ==
    CASE Len(data) < SendIpMin -> {"error"}
      [] Len(data) >= SendIpMin /\ Starts(data, TRUE)  -> {"error"}
      [] Len(data) >= SendIpMin /\ Starts(data, FALSE) -> {data[1].kind}
      [] OTHER -> {"error", "send-ip"}
-----------------------------------------------------------------------------
(* The request is written, or the connection does not take it.             *)
Write ==
    /\ stage \in {"opening", "sleeping"}
    /\ ~broken
    /\ stage' = "reading"
    /\ owed' = IF silent \/ owed = MaxOwed THEN owed ELSE owed + 1
    /\ UNCHANGED <<opened, buf, failures, silent, broken, torn, told, wire>>

\* mutant: the count is compared before the failure is counted
RetryableAfterLimit ==
    /\ failures' = failures + 1
    /\ stage' = IF failures + 2 >= COMMAND_HEARTBEAT_FAILURE_LIMIT THEN "ended" ELSE "sleeping"
    /\ buf' = <<>>
    /\ UNCHANGED opened

\* mutant: the count starts again after every delay
RetryableForgets ==
    /\ failures' = 0
    /\ stage' = "sleeping"
    /\ buf' = <<>>
    /\ UNCHANGED opened

(* CommandHeartbeatFailure::Retryable; the opening has no second try.      *)
Retryable ==
    /\ failures' = failures + 1
    /\ stage' = IF failures + 1 >= COMMAND_HEARTBEAT_FAILURE_LIMIT THEN "ended" ELSE "sleeping"
    /\ buf' = <<>>
    /\ UNCHANGED opened

Ends == stage' = "ended" /\ buf' = <<>> /\ UNCHANGED <<opened, failures>>

Fails == IF opened THEN Retryable ELSE Ends

WriteFails ==
    /\ stage \in {"opening", "sleeping"}
    /\ broken
    /\ Fails
    /\ UNCHANGED <<servervars, wire>>

IsReply(units) ==
    /\ units[1].pos = 1
    /\ Len(units) = IF units[1].framed THEN FrameLen ELSE BodyLen

(* read_at_least, one read, into the room that is left in the buffer.      *)
Read(n) ==
    /\ stage = "reading"
    /\ Len(buf) < BodyLen
    /\ n <= Len(wire) /\ Len(buf) + n <= BufLen
    /\ LET units == SubSeq(wire, 1, n) IN
       /\ buf' = buf \o units
       /\ torn' = (torn \/ ~IsReply(units))
    /\ wire' = SubSeq(wire, n + 1, Len(wire))
    /\ UNCHANGED <<stage, opened, failures, owed, silent, broken, told>>

(* The round is over: enough was read, or its ten seconds have passed, or  *)
(* the stream is at its end.  Too few units are judged like enough.        *)
JudgeRound ==
    /\ stage = "reading"
    /\ IF opened
       THEN \/ buf = <<>> /\ Retryable
            \/ /\ buf # <<>>
               /\ \E control \in Controls(buf) :
                     IF control = "heartbeat"
                     THEN stage' = "sleeping" /\ failures' = 0 /\ buf' = <<>> /\ UNCHANGED opened
                     ELSE Ends
       ELSE \E result \in SendIpResults(buf) :
               IF result = "send-ip"
               THEN stage' = "sleeping" /\ opened' = TRUE /\ buf' = <<>> /\ UNCHANGED failures
               ELSE Ends
    /\ UNCHANGED <<servervars, wire>>

(* A read error drops what this round has read.                            *)
ReadFails ==
    /\ stage = "reading" /\ broken
    /\ Fails
    /\ UNCHANGED <<servervars, wire>>
-----------------------------------------------------------------------------
(* The server answers a request with a reply of its choice.                *)
Asked == IF opened THEN "heartbeat" ELSE "send-ip"

Answer(kind, framed) ==
    /\ ~silent /\ owed > 0
    /\ LET len == IF framed THEN FrameLen ELSE BodyLen IN
       /\ Len(wire) + len <= MaxWire
       /\ wire' = wire \o [k \in 1 .. len |-> [kind |-> kind, framed |-> framed, pos |-> k]]
    /\ owed' = owed - 1
    /\ told' = (told \/ kind # Asked \/ (framed /\ ~opened))
    /\ UNCHANGED <<threadvars, silent, broken, torn>>

(* The server stops, or the connection breaks.                             *)
Stops ==
    /\ ~broken
    /\ silent' = TRUE
    /\ broken' \in {FALSE, TRUE}
    /\ silent' # silent \/ broken' # broken
    /\ owed' = 0
    /\ UNCHANGED <<threadvars, torn, told, wire>>
-----------------------------------------------------------------------------
ThreadStep == \/ Write \/ WriteFails \/ JudgeRound \/ ReadFails
              \/ \E n \in 1 .. BufLen : Read(n)
ServerStep ==
    /\ stage # "ended"
    /\ \/ \E kind \in Kinds, framed \in BOOLEAN : Answer(kind, framed)
       \/ Stops

StreamNext == ThreadStep \/ ServerStep

StreamSpec == StreamInit /\ [][StreamNext]_streamvars

(* The thread runs, and every wait in it has a limit.                      *)
FairStreamSpec == StreamSpec /\ WF_streamvars(ThreadStep)
-----------------------------------------------------------------------------
(* A server that answers is not given up: the loop ends only if the server *)
(* or the connection has stopped, if a reply was not the one asked for, if *)
(* it is behind by as many replies as the limit, or if its replies did not *)
(* come one to a read (protocol.rs 920-1060).                              *)
Replies(units) == Cardinality({k \in DOMAIN units : units[k].pos = 1})
Behind == owed + Replies(wire)

EndIsDeserved ==
    stage = "ended" =>
        \/ silent \/ told \/ torn
        \/ Behind >= IF opened THEN COMMAND_HEARTBEAT_FAILURE_LIMIT ELSE 1

(* A server that has stopped is noticed, whatever it has sent before and   *)
(* however much of that is unread (protocol.rs 920-1001).                  *)
SilenceIsNoticed == silent ~> stage = "ended"
=============================================================================
