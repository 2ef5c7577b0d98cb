---------------------------- MODULE SocksSession ----------------------------
(***************************************************************************)
(* One client of the SOCKS server from accept() to the end of its thread   *)
(* (socks.rs 56-101, 538-679, socks_wire.rs, socks_proxy.rs): the          *)
(* handshake, the route, the connection by tunnel, directly or through a   *)
(* fallback proxy (with a handshake of its own), the reply, and the two    *)
(* pump threads.  What comes after UDP ASSOCIATE is module UdpRelay.       *)
(*                                                                         *)
(* A stream is a row of units, in each direction the handshake's fields    *)
(* first (a unit is what one read_exact of the code asks for) and then     *)
(* data.  It has two positions, what its sender has sent and what the code *)
(* has read, so that a field too many or too few is data lost or invented. *)
(* A client may send its request and its data without waiting for replies, *)
(* and a destination may send data right behind a proxy's reply.           *)
(*                                                                         *)
(* A socket's peer is "open", at "eof" (it will send nothing more) or has  *)
(* "reset" the connection: data that arrived before can still be read, and *)
(* writes fail.  A write to a peer that does not read waits, without a     *)
(* timeout.  For a tunnel connection the peer is the uplink channel of     *)
(* netstack.rs (at eof when the netstack has dropped its entry) and writes *)
(* are messages on the control channel, which always exists and never      *)
(* fills.  Such a connection is there as soon as the netstack has taken    *)
(* the request, when its SYN is on the way at best: the destination may    *)
(* answer it later, refuse it or stay silent.                              *)
(***************************************************************************)
EXTENDS Naturals, Sequences

CONSTANTS Asks,      \* requests of clients: a subset of Ask
          Proxies,   \* answers of fallback proxies: a subset of ProxyAnswer
          HTTP_PROXY_HEAD_MAX_SIZE,
          MaxUp,     \* bound: data units a client sends
          MaxDown    \* bound: data units the other side sends

(* What the fields of a client's handshake say; a garbled domain is not    *)
(* UTF-8.  Fields of no bytes are left out.                                *)
Ask == [version : 0 .. 2,   \* how many of the two version bytes are 5
        noAuth : BOOLEAN,   \* the methods include no authentication
        command : {"connect", "udp", "other"},
        rsv : BOOLEAN,      \* the reserved byte is 0
        atyp : {"ip", "domain", "garbled", "other"}]

(* What a fallback proxy answers; `size` counts the units of an HTTP head  *)
(* with its last one, the empty line.                                      *)
ProxyAnswer == [kind : {"socks5"}, noAuth : BOOLEAN, granted : BOOLEAN,
                bound : {"ip", "domain", "other"}]
          \cup [kind : {"http"}, granted : BOOLEAN, size : Nat \ {0}]

ASSUME SessionAssumption ==
    /\ Asks \subseteq Ask
    /\ Proxies \subseteq ProxyAnswer
    /\ HTTP_PROXY_HEAD_MAX_SIZE \in Nat
    /\ MaxUp \in Nat /\ MaxDown \in Nat

VARIABLES ask,     \* this client's request
          proxy,   \* the answer of the proxy this client may be led to
          pc,      \* where the client's handler is
          route,   \* the transport of the RouteDecision
          link,    \* to the other side: "none", "syn" (through the tunnel, the
                   \* destination has not answered yet) or "up"
          csent, cread, cend,  \* the client's stream
          usent, uread, uend,  \* the other side's stream
          up, down,            \* the two pump threads
          replies,             \* SOCKS replies written to the client
          upGot, downGot,      \* history: data written to each side
          upShut, downShut,    \* the writing end towards each side is closed
          outcome              \* how the handler ended

clientvars == <<csent, cend>>
farvars == <<usent, uend>>
relayvars == <<up, down, upGot, downGot>>
vars == <<ask, proxy, pc, route, link, clientvars, cread, farvars, uread,
          relayvars, replies, upShut, downShut, outcome>>

ClientFields == {"greeting", "methods", "request", "length", "address", "port"}
ProxyFields == {"proxyMethod", "proxyReply", "proxyLength", "proxyAddress",
                "proxyPort", "httpHead"}
PumpPC == {"unborn", "reading", "writing", "shutting", "ended"}
Outcomes == {"none", "refused", "unconnected", "unreplied", "uncloned", "relayed", "udp"}

(* How many units the two handshakes have.                                 *)
HasDomain == ask.atyp \in {"domain", "garbled"}
ClientHead == IF HasDomain THEN 6 ELSE 5
ProxyHead == CASE route = "http" -> proxy.size
               [] route = "socks5" /\ proxy.bound = "domain" -> 5
               [] route = "socks5" /\ proxy.bound # "domain" -> 4
               [] OTHER -> 0

(* The number of a data unit; 0 is a unit of a handshake.                  *)
UpUnit(k) == IF k > ClientHead THEN k - ClientHead ELSE 0
DownUnit(k) == IF k > ProxyHead THEN k - ProxyHead ELSE 0

TypeOK ==
    /\ ask \in Asks /\ proxy \in Proxies
    /\ pc \in ClientFields \cup ProxyFields \cup
              {"accepting", "routing", "connecting", "replying", "relaying", "done"}
    /\ route \in {"none", "tunnel", "direct", proxy.kind}
    /\ link \in {"none", "syn", "up"}
    /\ csent \in Nat /\ cread \in 0 .. csent
    /\ usent \in Nat /\ uread \in 0 .. usent
    /\ cend \in {"open", "eof", "reset"} /\ uend \in {"open", "eof", "reset"}
    /\ up \in PumpPC /\ down \in PumpPC
    /\ replies \in Seq({"no-auth", "not-acceptable", "succeeded", "failure",
                        "command", "atyp"})
    /\ upGot \in Seq(Nat) /\ downGot \in Seq(Nat)
    /\ upShut \in BOOLEAN /\ downShut \in BOOLEAN
    /\ outcome \in Outcomes

Init ==
    /\ ask \in Asks /\ proxy \in Proxies
    /\ pc = "accepting" /\ route = "none" /\ link = "none"
    /\ csent = 0 /\ cread = 0 /\ cend = "open"
    /\ usent = 0 /\ uread = 0 /\ uend = "open"
    /\ up = "unborn" /\ down = "unborn"
    /\ replies = <<>> /\ upGot = <<>> /\ downGot = <<>>
    /\ upShut = FALSE /\ downShut = FALSE
    /\ outcome = "none"
-----------------------------------------------------------------------------
(* The handler returns.  Its sockets are dropped, which ends both streams; *)
(* a tunnel connection that is dropped is not closed by that.              *)
HandlerReturns(how) ==
    /\ pc' = "done"
    /\ outcome' = how
    /\ downShut' = TRUE
    /\ upShut' = (upShut \/ (link = "up" /\ route # "tunnel"))

Goes(label) ==
    /\ pc' = label
    /\ UNCHANGED <<outcome, upShut, downShut>>

Accept ==
    /\ pc = "accepting"
    /\ Goes("greeting")
    /\ UNCHANGED <<ask, proxy, route, link, clientvars, cread, farvars, uread, relayvars, replies>>

(* What the code makes of a field: the reply it writes, or "" for none,    *)
(* and whether it goes on.                                                 *)
RequestReply ==
    IF ask.version < 2 THEN ""
    ELSE IF ask.command = "other" THEN "command"
    ELSE IF ~ask.rsv THEN "failure"
    ELSE IF ask.atyp = "other" THEN "atyp"
    ELSE ""

Reply(field) ==
    CASE field = "methods" -> IF ask.noAuth THEN "no-auth" ELSE "not-acceptable"
      [] field = "request" -> RequestReply
      [] OTHER -> ""

Accepted(field) ==
    CASE field = "greeting" -> ask.version > 0
      [] field = "methods"  -> ask.noAuth
      [] field = "request"  -> ask.version = 2 /\ RequestReply = ""
      [] field = "address"  -> ask.atyp # "garbled"
      [] OTHER -> TRUE

\* mutant: the port of a domain request is left in the stream
AfterFieldForgetsPort(field) ==
    CASE field = "greeting" -> "methods"
      [] field = "methods"  -> "request"
      [] field = "request"  -> IF HasDomain THEN "length" ELSE "address"
      [] field = "length"   -> "address"
      [] field = "address"  -> IF HasDomain THEN "routing" ELSE "port"
      [] field = "port"     -> "routing"

AfterField(field) ==
    CASE field = "greeting" -> "methods"
      [] field = "methods"  -> "request"
      [] field = "request"  -> IF HasDomain THEN "length" ELSE "address"
      [] field = "length"   -> "address"
      [] field = "address"  -> "port"
      [] field = "port"     -> "routing"

(* read_exact of the next field, and what follows up to the next read.     *)
\* mutant: an unsupported command is answered and then served
ReadFieldServesOther ==
    /\ pc \in ClientFields
    /\ cread < csent
    /\ cread' = cread + 1
    /\ replies' = IF Reply(pc) = "" THEN replies ELSE Append(replies, Reply(pc))
    /\ IF Accepted(pc) \/ Reply(pc) = "command" THEN Goes(AfterField(pc)) ELSE HandlerReturns("refused")
    /\ UNCHANGED <<ask, proxy, route, link, clientvars, farvars, uread, relayvars>>

ReadField ==
    /\ pc \in ClientFields
    /\ cread < csent
    /\ cread' = cread + 1
    /\ replies' = IF Reply(pc) = "" THEN replies ELSE Append(replies, Reply(pc))
    /\ IF Accepted(pc) THEN Goes(AfterField(pc)) ELSE HandlerReturns("refused")
    /\ UNCHANGED <<ask, proxy, route, link, clientvars, farvars, uread, relayvars>>

(* A field that does not come, or a method reply that cannot be written.   *)
ReadFieldFails ==
    /\ pc \in ClientFields
    /\ cend = "reset" \/ (cend = "eof" /\ cread = csent)
    /\ HandlerReturns("refused")
    /\ UNCHANGED <<ask, proxy, route, link, clientvars, cread, farvars, uread,
                   relayvars, replies>>

(* handle_client, decide_route.  A planner error is an unsupported route.  *)
DecideRoute ==
    /\ pc = "routing"
    /\ \/ /\ ask.command = "udp"
          /\ HandlerReturns("udp")
          /\ UNCHANGED route
       \/ /\ ask.command # "udp"
          /\ HandlerReturns("unconnected")
          /\ UNCHANGED route
       \/ /\ ask.command # "udp"
          /\ route' \in {"tunnel", "direct", proxy.kind}
          /\ Goes("connecting")
    /\ UNCHANGED <<ask, proxy, link, clientvars, cread, farvars, uread, relayvars, replies>>

(* open_tcp_connection, TcpStream::connect, connect_tcp_stream with the    *)
(* proxy's greeting or request behind it.  Each of them ends in time.  The *)
(* netstack answers when connect() has put the socket into SYN-SENT        *)
(* (netstack.rs 401-430): no handshake has taken place.                    *)
Connect ==
    /\ pc = "connecting"
    /\ \/ /\ link' = IF route = "tunnel" THEN "syn" ELSE "up"
          /\ Goes(CASE route = "socks5" -> "proxyMethod"
                    [] route = "http"   -> "httpHead"
                    [] OTHER            -> "replying")
       \/ /\ HandlerReturns("unconnected")
          /\ UNCHANGED link
    /\ UNCHANGED <<ask, proxy, route, clientvars, cread, farvars, uread, relayvars, replies>>
-----------------------------------------------------------------------------
(* The fallback proxy's answers.                                           *)
ProxyAccepted(field) ==
    CASE field = "proxyMethod" -> proxy.noAuth
      [] field = "proxyReply"  -> proxy.granted /\ proxy.bound # "other"
      [] OTHER -> TRUE

AfterProxyField(field) ==
    CASE field = "proxyMethod"  -> "proxyReply"
      [] field = "proxyReply"   -> IF proxy.bound = "domain" THEN "proxyLength" ELSE "proxyAddress"
      [] field = "proxyLength"  -> "proxyAddress"
      [] field = "proxyAddress" -> "proxyPort"
      [] field = "proxyPort"    -> "replying"

ReadProxyField ==
    /\ pc \in ProxyFields \ {"httpHead"}
    /\ uread < usent
    /\ uread' = uread + 1
    /\ IF ProxyAccepted(pc) THEN Goes(AfterProxyField(pc)) ELSE HandlerReturns("unconnected")
    /\ UNCHANGED <<ask, proxy, route, link, clientvars, cread, farvars, relayvars, replies>>

(* read_http_proxy_head reads one byte after the other up to the empty     *)
(* line; then the status line decides.                                     *)
\* mutant: the head is read in one block, whatever has come with it
ReadHttpHeadInBlocks ==
    /\ pc = "httpHead"
    /\ uread < usent
    /\ uread' = usent
    /\ IF usent >= ProxyHead
       THEN IF proxy.granted THEN Goes("replying") ELSE HandlerReturns("unconnected")
       ELSE IF usent > HTTP_PROXY_HEAD_MAX_SIZE THEN HandlerReturns("unconnected") ELSE Goes("httpHead")
    /\ UNCHANGED <<ask, proxy, route, link, clientvars, cread, farvars, relayvars, replies>>

ReadHttpHead ==
    /\ pc = "httpHead"
    /\ uread < usent
    /\ uread' = uread + 1
    /\ IF uread + 1 = ProxyHead
       THEN IF proxy.granted THEN Goes("replying") ELSE HandlerReturns("unconnected")
       ELSE IF uread + 1 > HTTP_PROXY_HEAD_MAX_SIZE
            THEN HandlerReturns("unconnected") ELSE Goes("httpHead")
    /\ UNCHANGED <<ask, proxy, route, link, clientvars, cread, farvars, relayvars, replies>>

(* The proxy ends the stream within its answer, or a write to it fails.    *)
ProxyFails ==
    /\ pc \in ProxyFields
    /\ uend = "reset" \/ (uend = "eof" /\ uread = usent)
    /\ HandlerReturns("unconnected")
    /\ UNCHANGED <<ask, proxy, route, link, clientvars, cread, farvars, uread, relayvars, replies>>

(* write_connect_ok_reply, then the clones of the sockets for the second   *)
(* thread (which fail when the process has no descriptor left), then the   *)
(* two threads.                                                            *)
WriteOkReply ==
    /\ pc = "replying"
    /\ \/ /\ replies' = Append(replies, "succeeded")
          /\ \/ /\ Goes("relaying")
                /\ up' = "reading" /\ down' = "reading"
             \/ /\ HandlerReturns("uncloned")
                /\ UNCHANGED <<up, down>>
       \/ /\ cend = "reset"
          /\ HandlerReturns("unreplied")
          /\ UNCHANGED <<replies, up, down>>
    /\ UNCHANGED <<ask, proxy, route, link, clientvars, cread, farvars, uread, upGot, downGot>>

Join ==
    /\ pc = "relaying"
    /\ up = "ended" /\ down = "ended"
    /\ HandlerReturns("relayed")
    /\ UNCHANGED <<ask, proxy, route, link, clientvars, cread, farvars, uread, relayvars, replies>>
-----------------------------------------------------------------------------
PumpUnchanged == UNCHANGED <<ask, proxy, pc, route, link, clientvars, farvars, replies, outcome>>

(* From the client: pump_stream, or t1 of relay_tunnel.                    *)
UpRead ==
    /\ up = "reading"
    /\ cread < csent
    /\ cread' = cread + 1
    /\ up' = "writing"
    /\ UNCHANGED <<uread, down, upGot, downGot, upShut, downShut>>
    /\ PumpUnchanged

\* mutant: a read error ends the thread without closing the other side
UpReadEndsOnErrorSilently ==
    /\ up = "reading"
    /\ \/ cend = "eof" /\ cread = csent /\ up' = "shutting"
       \/ cend = "reset" /\ up' = "ended"
    /\ UNCHANGED <<cread, uread, down, upGot, downGot, upShut, downShut>>
    /\ PumpUnchanged

UpReadEnds ==
    /\ up = "reading"
    /\ cend = "reset" \/ (cend = "eof" /\ cread = csent)
    /\ up' = "shutting"
    /\ UNCHANGED <<cread, uread, down, upGot, downGot, upShut, downShut>>
    /\ PumpUnchanged

UpWrite ==
    /\ up = "writing"
    /\ \/ /\ upGot' = Append(upGot, UpUnit(cread))
          /\ up' = "reading"
       \/ /\ route # "tunnel" /\ uend = "reset"
          /\ up' = "shutting"
          /\ UNCHANGED upGot
    /\ UNCHANGED <<cread, uread, down, downGot, upShut, downShut>>
    /\ PumpUnchanged

(* shutdown(Write), or CloseConnection to the netstack.                    *)
UpShutdown ==
    /\ up = "shutting"
    /\ up' = "ended"
    /\ upShut' = TRUE
    /\ UNCHANGED <<cread, uread, down, upGot, downGot, downShut>>
    /\ PumpUnchanged

(* To the client: pump_stream, or t2 of relay_tunnel.                      *)
DownRead ==
    /\ down = "reading"
    /\ uread < usent
    /\ uread' = uread + 1
    /\ down' = "writing"
    /\ UNCHANGED <<cread, up, upGot, downGot, upShut, downShut>>
    /\ PumpUnchanged

(* End of file or an error; of the uplink channel, disconnected and empty. *)
DownReadEnds ==
    /\ down = "reading"
    /\ uend = "reset" \/ (uend = "eof" /\ uread = usent)
    /\ down' = "shutting"
    /\ UNCHANGED <<cread, uread, up, upGot, downGot, upShut, downShut>>
    /\ PumpUnchanged

DownWrite ==
    /\ down = "writing"
    /\ \/ /\ downGot' = Append(downGot, DownUnit(uread))
          /\ down' = "reading"
       \/ /\ cend = "reset"
          /\ down' = "shutting"
          /\ UNCHANGED downGot
    /\ UNCHANGED <<cread, uread, up, upGot, upShut, downShut>>
    /\ PumpUnchanged

DownShutdown ==
    /\ down = "shutting"
    /\ down' = "ended"
    /\ downShut' = TRUE
    /\ UNCHANGED <<cread, uread, up, upGot, downGot, upShut>>
    /\ PumpUnchanged
-----------------------------------------------------------------------------
(* The client sends a field or data, shuts its end, or resets.             *)
OthersUnchanged == UNCHANGED <<ask, proxy, pc, route, link, cread, uread, relayvars,
                               replies, upShut, downShut, outcome>>

ClientSends ==
    /\ pc # "accepting" /\ cend = "open"
    /\ csent < ClientHead + MaxUp
    /\ csent' = csent + 1
    /\ UNCHANGED <<cend, farvars>>
    /\ OthersUnchanged

ClientEnds ==
    /\ pc # "accepting"
    /\ \/ cend = "open" /\ cend' \in {"eof", "reset"}
       \/ cend = "eof" /\ cend' = "reset"
    /\ UNCHANGED <<csent, farvars>>
    /\ OthersUnchanged

(* So does the other side.  A proxy answers the request only after it.     *)
FarSends ==
    /\ link = "up" /\ uend = "open"
    /\ usent < IF pc = "proxyMethod" THEN 1 ELSE ProxyHead + MaxDown
    /\ usent' = usent + 1
    /\ UNCHANGED <<clientvars, uend>>
    /\ OthersUnchanged

(* The destination of a tunnel connection answers the SYN.                 *)
FarAccepts ==
    /\ link = "syn" /\ uend = "open"
    /\ link' = "up"
    /\ UNCHANGED <<ask, proxy, pc, route, clientvars, cread, farvars, uread, relayvars,
                   replies, upShut, downShut, outcome>>

(* It shuts its end or resets, a tunnel destination also instead of        *)
(* answering the SYN.  The uplink channel is at eof when the netstack      *)
(* drops its entry, which after a close takes the destination's FIN, too.  *)
FarEnds ==
    /\ link # "none"
    /\ \/ uend = "open" /\ uend' \in (IF route = "tunnel" THEN {"eof"} ELSE {"eof", "reset"})
       \/ uend = "eof" /\ route # "tunnel" /\ uend' = "reset"
    /\ UNCHANGED <<clientvars, usent>>
    /\ OthersUnchanged
-----------------------------------------------------------------------------
HandlerStep == \/ Accept \/ ReadField \/ ReadFieldFails \/ DecideRoute \/ Connect
               \/ ReadProxyField \/ ReadHttpHead \/ ProxyFails \/ WriteOkReply \/ Join
UpStep == UpRead \/ UpReadEnds \/ UpWrite \/ UpShutdown
DownStep == DownRead \/ DownReadEnds \/ DownWrite \/ DownShutdown
PeerStep == ClientSends \/ ClientEnds \/ FarSends \/ FarAccepts \/ FarEnds

Next == HandlerStep \/ UpStep \/ DownStep \/ PeerStep

Spec == Init /\ [][Next]_vars

(* A thread in write_all waits for a peer that does not read, until that   *)
(* peer resets; no timeout is set.                                         *)
FarSideIsSlow == up = "writing" /\ route # "tunnel" /\ uend # "reset"
ClientIsSlow == down = "writing" /\ cend # "reset"

(* The three threads run, as far as nobody keeps them waiting.  Nothing is *)
(* promised about the client, the proxy, the destination or the netstack,  *)
(* which keeps a closed connection for as long as its destination is       *)
(* silent (module Netstack, CloseEndsConnection).                          *)
FairSpec ==
    /\ Spec
    /\ WF_vars(HandlerStep)
    /\ WF_vars(UpStep /\ ~FarSideIsSlow)
    /\ WF_vars(DownStep /\ ~ClientIsSlow)
-----------------------------------------------------------------------------
GaveUp == outcome \notin {"none", "relayed"}
Broken == cend = "reset" \/ uend = "reset" \/ GaveUp

UpSender == IF Broken THEN "broken" ELSE IF cend = "eof" THEN "finished" ELSE "open"
DownSender == IF Broken THEN "broken" ELSE IF uend = "eof" THEN "finished" ELSE "open"

(* The client's data, once its request is complete, reaches the other side *)
(* as through a pipe: no byte of the request goes along, none of the data  *)
(* sent right behind it is lost, and the other side is told the end only   *)
(* after everything (socks_wire.rs 19-118, socks.rs 601-679).              *)
UpPipe == INSTANCE Pipe WITH
              sent <- UpUnit(csent), sender <- UpSender, got <- upGot, ended <- upShut

UploadIsAPipe == UpPipe!PipeSpec

(* The same of what the other side sends: nothing of a fallback proxy's    *)
(* answer reaches the client, and nothing sent right behind the answer is  *)
(* lost (socks_proxy.rs 136-280, socks.rs 601-679).                        *)
DownPipe == INSTANCE Pipe WITH
                sent <- DownUnit(usent), sender <- DownSender, got <- downGot, ended <- downShut

DownloadIsAPipe == DownPipe!PipeSpec

RequestReplies == {"succeeded", "failure", "command", "atyp"}

(* A client gets one reply to its methods and at most one to its request,  *)
(* and data only after "succeeded".  That reply takes a connection, which  *)
(* a fallback proxy has granted; through the tunnel only that the netstack *)
(* has taken the request (netstack.rs 401-430, socks.rs 547-551): it comes *)
(* before the handshake with the destination, whose refusal the client     *)
(* sees later, as the end of the stream (socks_wire.rs 19-118,             *)
(* socks_proxy.rs 104-230, socks.rs 538-600).                              *)
RepliesAreHonest ==
    /\ Len(replies) <= 2
    /\ Len(replies) = 2 => replies[1] = "no-auth" /\ replies[2] \in RequestReplies
    /\ (\E i \in 1 .. Len(replies) : replies[i] = "succeeded") =>
           /\ link # "none" /\ (route # "tunnel" => link = "up")
           /\ ask.command = "connect"
           /\ route \in {"socks5", "http"} => proxy.granted
    /\ downGot # <<>> => replies = <<"no-auth", "succeeded">>

(* A client that has gone away is noticed before there is a connection to  *)
(* the other side.  Once the session relays, the end of either side, also  *)
(* a reset in the middle of the data, is passed on to the other, and when  *)
(* both have ended the session is over; unless the side that is written to *)
(* never reads again.  The client's end alone is not enough: a destination *)
(* that neither ends nor answers keeps the handler and its threads, also   *)
(* through the tunnel, where the netstack has then been told to close      *)
(* (socks.rs 76-101, 538-679, netstack.rs 475-496).                        *)
SessionEnds ==
    /\ cend # "open" ~> pc = "done" \/ link # "none"
    /\ pc = "relaying" /\ cend # "open" ~> (upShut \/ []FarSideIsSlow)
    /\ pc = "relaying" /\ uend # "open" ~> (downShut \/ []ClientIsSlow)
    /\ link # "none" /\ cend # "open" /\ uend # "open" ~>
           (pc = "done" \/ []FarSideIsSlow \/ []ClientIsSlow)

(* A tunnel connection is closed by the time its session is over.  Two     *)
(* paths of execute_route drop it without: the reply that cannot be        *)
(* written and the clone that fails (socks.rs 547-553, 604-606).           *)
TunnelHandleIsClosed ==
    pc = "done" /\ route = "tunnel" /\ link # "none" =>
        upShut \/ outcome \in {"unreplied", "uncloned"}
=============================================================================
