----------------------------- MODULE AppStartup -----------------------------
(***************************************************************************)
(* The program from its command line to the serving of clients, start      *)
(* after start (main.rs, config.rs, app.rs, auth.rs, token.rs,             *)
(* route_table.rs): the configuration and remembered.json, the login, the  *)
(* download of the route table, the agent token, the tunnel, and the SOCKS *)
(* server.                                                                 *)
(*                                                                         *)
(* One process is modelled step by step; it may be killed between any two  *)
(* steps.  Another one, in the same directory, writes remembered.json in   *)
(* the two steps std::fs::write consists of.  The tunnel and the server    *)
(* that it serves with are the modules TunnelRuntime and SocksSession.     *)
(***************************************************************************)
EXTENDS RouteInput

CONSTANTS Texts,        \* texts on a command line
          Commands,     \* command lines: a subset of Command
          Blank,        \* a text of nothing but white space
          None,
          Remembered,   \* what remembered.json may hold at first
          OtherRecords, \* what the other process may write
          Documents,    \* route tables of the server: sequences of elements
          Extra,        \* the --extra entries of a command line
          MaxStarts,    \* bound: starts of the program
          MaxOthers     \* bound: writes of the other process

(* fallback: no proxy, a usable text, or one the parser refuses; serving   *)
(* sees to it only after the login.                                        *)
Command == [server : Texts \cup {None, Blank}, username : Texts \cup {None, Blank},
            password : BOOLEAN, bind : BOOLEAN, remember : BOOLEAN,
            fallback : {"none", "usable", "refused"}]

(* What remembered.json may hold.                                          *)
Record == [kind : {"record"}, server : Texts \cup {Blank}, username : Texts \cup {Blank}]
Absent == [kind |-> "absent"]
Empty == [kind |-> "empty"]
Garbled == [kind |-> "garbled"]

ASSUME StartupAssumption ==
    /\ Commands \subseteq Command
    /\ Remembered \cup OtherRecords \subseteq Record
    /\ Documents \subseteq Seq(RcElement \cup DnsElement)
    /\ Extra \subseteq Cidr \cup Span \cup Single
    /\ None \notin Nat
    /\ MaxStarts \in Nat /\ MaxOthers \in Nat

VARIABLES file,       \* remembered.json
          other,      \* the other process: "idle" or "writing"
          others,     \* how often it has written
          starts,     \* how often the program was started
          pc,         \* what the process does next, "idle" if there is none
          args,       \* its command line
          remembered, \* the record it has read, or None
          config,     \* the server and user in use, or None
          twfId,      \* number of the session id in use, 0 before the login
          issued,     \* number of the latest session id of the server
          document,   \* the route table the server sends
          arrived,    \* how much of it has arrived
          mode,       \* the RouteMode
          token,      \* the session id in the token of the tunnel
          exit,       \* the exit code, or None
          kept        \* history: the records that a --remember run resolved

filevars == <<file, other, others, kept>>
startvars == <<starts, args>>
confvars == <<remembered, config>>
loginvars == <<twfId, issued>>
tablevars == <<document, arrived, mode>>
vars == <<filevars, startvars, pc, confvars, loginvars, tablevars, token, exit>>

Unavailable == [kind |-> "unavailable"]
TunnelFallback == [kind |-> "tunnel-fallback"]

Running == {"loading", "resolving", "truncating", "writing", "validating", "login_auth",
            "login_psw", "rclist", "token", "command", "tunnel", "netstack", "serve", "serving"}

Init ==
    /\ file \in {Absent, Empty, Garbled} \cup Remembered
    /\ other = "idle" /\ others = 0 /\ starts = 0
    /\ kept = IF file \in Remembered THEN {file} ELSE {}
    /\ pc = "idle" /\ args = None /\ remembered = None /\ config = None
    /\ twfId = 0 /\ issued = 0
    /\ document = <<>> /\ arrived = 0 /\ mode = Unavailable
    /\ token = 0 /\ exit = None
-----------------------------------------------------------------------------
Goes(label) == pc' = label /\ UNCHANGED exit

Exits(code) == pc' = "exited" /\ exit' = code

(* The system starts the program with a command line; a process that is    *)
(* killed, or has exited, leaves the file.                                 *)
Exec ==
    /\ pc = "idle"
    /\ starts < MaxStarts
    /\ starts' = starts + 1
    /\ args' \in Commands
    /\ Goes(IF args'.remember THEN "loading" ELSE "resolving")
    /\ UNCHANGED <<filevars, confvars, loginvars, tablevars, token>>

Gone ==
    /\ pc # "idle"
    /\ pc' = "idle" /\ args' = None /\ remembered' = None /\ config' = None
    /\ twfId' = 0 /\ issued' = 0
    /\ document' = <<>> /\ arrived' = 0 /\ mode' = Unavailable
    /\ token' = 0 /\ exit' = None
    /\ UNCHANGED <<filevars, starts>>
-----------------------------------------------------------------------------
(* load_remembered.  A file that cannot be parsed counts as none.          *)
\* mutant: a file that cannot be parsed is an error
LoadRememberedOrFail ==
    /\ pc = "loading"
    /\ IF file.kind \in {"empty", "garbled"} THEN Exits(2) ELSE Goes("resolving")
    /\ remembered' = IF file.kind # "record" THEN None ELSE file
    /\ UNCHANGED <<filevars, startvars, config, loginvars, tablevars, token>>

LoadRemembered ==
    /\ pc = "loading"
    /\ Goes("resolving")
    /\ remembered' = IF file.kind # "record" THEN None ELSE file
    /\ UNCHANGED <<filevars, startvars, config, loginvars, tablevars, token>>

\* mutant: what is remembered goes before what is given
OrRememberedFirst(given, field) == IF remembered # None THEN remembered[field] ELSE given

OrRemembered(given, field) ==
    IF given = None /\ remembered # None THEN remembered[field] ELSE given

(* resolve: the values in use, which are saved before they are validated.  *)
Resolve ==
    /\ pc = "resolving"
    /\ LET resolved == [kind     |-> "record",
                        server   |-> OrRemembered(args.server, "server"),
                        username |-> OrRemembered(args.username, "username")] IN
       IF resolved.server = None \/ resolved.username = None
       THEN Exits(2) /\ UNCHANGED <<config, kept>>
       ELSE /\ config' = resolved
            /\ IF args.remember
               THEN Goes("truncating") /\ kept' = kept \cup {resolved}
               ELSE Goes("validating") /\ UNCHANGED kept
    /\ UNCHANGED <<file, other, others, startvars, remembered, loginvars, tablevars, token>>

(* save_remembered: std::fs::write opens and truncates, then writes.  When *)
(* it fails the program goes on.                                           *)
Truncate ==
    /\ pc = "truncating"
    /\ \/ file' = Empty /\ Goes("writing")
       \/ Goes("validating") /\ UNCHANGED file
    /\ UNCHANGED <<other, others, kept, startvars, confvars, loginvars, tablevars, token>>

(* Text written over a longer text leaves the end of that.                 *)
Written(record) == IF file = Empty THEN {record} ELSE {record, Garbled}

Write ==
    /\ pc = "writing"
    /\ file' \in Written(config) \cup {file, Garbled}
    /\ Goes("validating")
    /\ UNCHANGED <<other, others, kept, startvars, confvars, loginvars, tablevars, token>>

(* The other process; when this one is past its configuration it will not  *)
(* see the difference, and the model leaves it for later.                  *)
Configuring == pc \in {"idle", "loading", "resolving", "truncating", "writing"}

OtherTruncates ==
    /\ Configuring
    /\ other = "idle" /\ others < MaxOthers
    /\ other' = "writing" /\ others' = others + 1
    /\ file' = Empty
    /\ UNCHANGED <<kept, startvars, pc, confvars, loginvars, tablevars, token, exit>>

OtherWrites ==
    /\ Configuring
    /\ other = "writing"
    /\ other' = "idle"
    /\ \E record \in OtherRecords :
           file' \in Written(record) /\ kept' = kept \cup {record}
    /\ UNCHANGED <<others, startvars, pc, confvars, loginvars, tablevars, token, exit>>

(* AppConfig::new trims, validate refuses what is empty then.              *)
Valid ==
    /\ config.server # Blank /\ config.username # Blank
    /\ args.password /\ args.bind

Validate ==
    /\ pc = "validating"
    /\ IF Valid THEN Goes("login_auth") ELSE Exits(2)
    /\ UNCHANGED <<filevars, startvars, confvars, loginvars, tablevars, token>>
-----------------------------------------------------------------------------
(* login: the first answer has a session id and a key ...                  *)
LoginAuth ==
    /\ pc = "login_auth"
    /\ \/ /\ issued' = issued + 1
          /\ twfId' = issued + 1
          /\ Goes("login_psw")
       \/ /\ Exits(1)
          /\ UNCHANGED loginvars
    /\ UNCHANGED <<filevars, startvars, confvars, tablevars, token>>

(* ... and the second may have another, which replaces it.  What the       *)
(* server will answer to the request for its route table is open until now.*)
\* mutant: the session id stays the first one
LoginPswKeepsId ==
    /\ pc = "login_psw"
    /\ \/ issued' \in {issued, issued + 1} /\ document' \in Documents
          /\ Goes("rclist") /\ UNCHANGED twfId
       \/ Exits(1) /\ UNCHANGED <<loginvars, document>>
    /\ UNCHANGED <<filevars, startvars, confvars, arrived, mode, token>>

LoginPsw ==
    /\ pc = "login_psw"
    /\ \/ /\ issued' \in {issued, issued + 1}
          /\ twfId' = issued'
          /\ document' \in Documents
          /\ Goes("rclist")
       \/ /\ Exits(1)
          /\ UNCHANGED <<loginvars, document>>
    /\ UNCHANGED <<filevars, startvars, confvars, arrived, mode, token>>
-----------------------------------------------------------------------------
(* fetch_route_table.  A document arrives in parts: its beginning, and for *)
(* each element one part within it and its end.                            *)
RclistArrives ==
    /\ pc = "rclist"
    /\ arrived < 2 * Len(document) + 1
    /\ arrived' = arrived + 1
    /\ UNCHANGED <<filevars, startvars, pc, confvars, loginvars, document, mode, token, exit>>

Whole == SubSeq(document, 1, (arrived - 1) \div 2)

(* Whether what has arrived is a document, up to an end between elements.  *)
CutBetweenElements == arrived % 2 = 1

(* from_table: the ranges of the --extra entries.                          *)
ExtraMatchers == [e \in Extra |-> ParseExtraIp(e)]

(* The reading ends: the server closes, or nothing comes for five seconds, *)
(* or the eight seconds are over.  What has arrived is parsed as it is.  A *)
(* table that fails to come or to parse is one that everything is tunnelled*)
(* without; app.rs installs it.                                            *)
\* mutant: the answer is waited for until it is complete
RclistEndsComplete ==
    /\ pc = "rclist"
    /\ arrived = 2 * Len(document) + 1
    /\ mode' = IF ~ParseFails(Whole)
               THEN [kind |-> "matcher", twfId |-> twfId, table |-> ParseTable(Whole)]
               ELSE TunnelFallback
    /\ Goes("token")
    /\ UNCHANGED <<filevars, startvars, confvars, loginvars, document, arrived, token>>

RclistEnds ==
    /\ pc = "rclist"
    /\ mode' = IF CutBetweenElements /\ ~ParseFails(Whole)
               THEN [kind |-> "matcher", twfId |-> twfId, table |-> ParseTable(Whole)]
               ELSE TunnelFallback
    /\ Goes("token")
    /\ UNCHANGED <<filevars, startvars, confvars, loginvars, document, arrived, token>>

(* The connection fails, before or in the middle of the answer.            *)
RclistFails ==
    /\ pc = "rclist"
    /\ mode' = TunnelFallback
    /\ Goes("token")
    /\ UNCHANGED <<filevars, startvars, confvars, loginvars, document, arrived, token>>

(* fetch_agent_token, of the session id and a TLS session that it opens.   *)
FetchToken ==
    /\ pc = "token"
    /\ \/ token' = twfId /\ Goes("command")
       \/ Exits(1) /\ UNCHANGED token
    /\ UNCHANGED <<filevars, startvars, confvars, loginvars, tablevars>>

(* open_command_stream, start_tunnel_runtime and netstack::start_runtime   *)
(* succeed or fail.                                                        *)
AfterStage == [command |-> "tunnel", tunnel |-> "netstack", netstack |-> "serve"]

StartStage ==
    /\ pc \in {"command", "tunnel", "netstack"}
    /\ Goes(AfterStage[pc]) \/ Exits(1)
    /\ UNCHANGED <<filevars, startvars, confvars, loginvars, tablevars, token>>

(* serve parses the fallback proxy and binds, then waits for the tunnel.   *)
Serve ==
    /\ pc = "serve"
    /\ \/ args.fallback # "refused" /\ Goes("serving")
       \/ Exits(1)
    /\ UNCHANGED <<filevars, startvars, confvars, loginvars, tablevars, token>>

TunnelDies ==
    /\ pc = "serving"
    /\ Exits(1)
    /\ UNCHANGED <<filevars, startvars, confvars, loginvars, tablevars, token>>
-----------------------------------------------------------------------------
Step == \/ LoadRemembered \/ Resolve \/ Truncate \/ Write \/ Validate
        \/ LoginAuth \/ LoginPsw \/ RclistEnds \/ FetchToken
        \/ StartStage \/ Serve

Next == \/ Exec \/ Gone \/ Step \/ RclistArrives \/ RclistFails \/ TunnelDies
        \/ OtherTruncates \/ OtherWrites

Spec == Init /\ [][Next]_vars

(* Each wait of the start has a time limit: 30 seconds for an HTTP request *)
(* (the client's own), 5 for reads and writes on a TLS connection, 8 for   *)
(* an answer, and for TcpStream::connect (tls.rs 19) the system's own.     *)
FairSpec == Spec /\ WF_vars(Step)
-----------------------------------------------------------------------------
(* The values in use are those of the command line where it has them, and  *)
(* the others are of one record that some --remember run resolved, however *)
(* the writes of two processes and their crashes met (config.rs 28-102).   *)
ValuesAreChosen ==
    config # None =>
        /\ args.server # None => config.server = args.server
        /\ args.username # None => config.username = args.username
        /\ args.server = None \/ args.username = None =>
               /\ args.remember
               /\ \E record \in kept :
                      /\ args.server = None => config.server = record.server
                      /\ args.username = None => config.username = record.username

(* A complete command line is never a configuration error, whatever        *)
(* remembered.json has come to hold (config.rs 28-45, 62-102, 187-198).    *)
Complete(c) == /\ c.server \notin {None, Blank} /\ c.username \notin {None, Blank}
               /\ c.password /\ c.bind

CompleteCommandsAreAccepted == exit = 2 => ~Complete(args)

(* A serving program has routes, and its routes, its token and the server  *)
(* agree on the session; its routes are the server's rules or "everything  *)
(* through the tunnel", which is what it has when the table did not come   *)
(* (app.rs 17-100, auth.rs 20-88, socks.rs 21-31).                         *)
ServesOneSession ==
    pc = "serving" =>
        /\ token = issued
        /\ mode.kind \in {"tunnel-fallback", "matcher"}
        /\ mode.kind = "matcher" => mode.twfId = issued
        /\ args.fallback # "refused"

(* A downloaded rule joins a host and a port that stand at one place of    *)
(* the two lists of its element.  This is said of elements whose lists are *)
(* of one length and where only one of them has parts that are dropped;    *)
(* the code has no more than the numbers of the parts that are left        *)
(* (route_table.rs 116-181, 259-300).                                      *)
Paired(e) == /\ e.tag = "Rc" /\ RcIsRead(e)
             /\ Len(e.hosts) = Len(e.ports)
             /\ Kept(e.hosts) = e.hosts \/ Kept(e.ports) = e.ports

RulesJoinOnePlace ==
    mode.kind = "matcher" /\ (\A k \in DOMAIN Whole : Whole[k].tag = "Rc" => Paired(Whole[k]))
        =>  \A r \in DOMAIN mode.table.rules :
                \E k \in DOMAIN Whole : \E i \in DOMAIN Whole[k].hosts :
                    /\ Whole[k].tag = "Rc"
                    /\ Whole[k].hosts[i] = mode.table.rules[r].host
                    /\ Whole[k].ports[i] = mode.table.rules[r].port

(* An --extra entry stands for the addresses that share its first bits, or *)
(* that lie between its two (routing.rs 816-852).                          *)
InEntry(address, e) ==
    CASE e.kind = "cidr" /\ e.bits <= Width ->
             LET block == Weight[Width - e.bits] IN address \div block = e.ip \div block
      [] e.kind = "span" -> \/ e.from <= address /\ address <= e.to
                            \/ e.to <= address /\ address <= e.from
      [] e.kind = "single" -> address = e.ip
      [] OTHER -> FALSE

ExtraIsWhatItSays ==
    pc = "token" /\ mode.kind = "matcher" =>
        \A e \in Extra : \A address \in Address :
            InEntry(address, e) <=>
                ExtraMatchers[e][1] <= address /\ address <= ExtraMatchers[e][2]

(* A start ends: the program serves, has ended with an exit code, or was   *)
(* killed.  Each wait has an end, that of TcpStream::connect (tls.rs 19)   *)
(* only by the operating system's timeout (app.rs 17-100, route_table.rs   *)
(* 43-77, token.rs 10-62).                                                 *)
StartupEnds == pc \in Running ~> pc \in {"idle", "serving", "exited"}
=============================================================================
