------------------------ MODULE SocksSession_proofs ------------------------
(***************************************************************************)
(* Replies are honest, the tunnel connection is closed, and both           *)
(* directions are pipes, for every set of requests and proxy answers and   *)
(* every number of data units.                                             *)
(***************************************************************************)
EXTENDS SocksSession, SequenceTheorems, TLAPS

Asking == {"request", "length", "address", "port"}
Greeted == <<"no-auth">>
Granted == <<"no-auth", "succeeded">>

(* What has been answered when the handler is at `pc`.                     *)
Replied ==
    /\ pc \in {"accepting", "greeting", "methods"} => replies = <<>>
    /\ pc \in Asking \cup ProxyFields \cup {"routing", "connecting", "replying"}
          => replies = Greeted
    /\ pc = "relaying" => replies = Granted
    /\ pc = "done" =>
          \/ replies \in {<<>>, <<"not-acceptable">>, Greeted}
          \/ \E r \in RequestReplies : replies = <<"no-auth", r>>

(* What has been found out by then.                                        *)
Admitted ==
    /\ pc \in {"length", "address", "port", "routing"} => ask.command # "other"
    /\ pc \in ProxyFields \cup {"connecting", "replying"} => ask.command = "connect"
    /\ pc \in ProxyFields \cup {"replying", "relaying"} => link # "none"
    /\ link = "syn" => route = "tunnel"
    /\ pc \in ClientFields \cup {"accepting", "routing", "connecting"} => link = "none"
    /\ pc \in ClientFields \cup {"accepting", "routing"} => route = "none"
    /\ pc = "connecting" => route \in {"tunnel", "direct", proxy.kind}
    /\ pc = "httpHead" => route = "http" /\ proxy.kind = "http"
    /\ pc \in ProxyFields \ {"httpHead"} => route = "socks5" /\ proxy.kind = "socks5"
    /\ pc \in {"proxyLength", "proxyAddress", "proxyPort"} => proxy.granted
    /\ pc = "replying" /\ route \in {"socks5", "http"} => proxy.granted
    /\ replies = Granted =>
          /\ link # "none" /\ ask.command = "connect"
          /\ route \in {"socks5", "http"} => proxy.granted

(* The pump threads live between the reply and the return of the handler.  *)
Pumping ==
    /\ (pc = "done") <=> (outcome # "none")
    /\ up = "unborn" <=> down = "unborn"
    /\ up # "unborn" => replies = Granted /\ pc \in {"relaying", "done"}
    /\ up = "unborn" => pc # "relaying" /\ outcome # "relayed" /\ upGot = <<>> /\ downGot = <<>>
    /\ up # "unborn" /\ pc = "done" => up = "ended" /\ down = "ended" /\ outcome = "relayed"
    /\ up # "unborn" => (upShut <=> up = "ended") /\ (downShut <=> down = "ended")
    /\ up = "unborn" /\ pc # "done" => ~upShut /\ ~downShut
    /\ pc = "done" /\ route = "tunnel" /\ link # "none" /\ up = "unborn" =>
          outcome \in {"unreplied", "uncloned"}

CInv == TypeOK /\ Replied /\ Admitted /\ Pumping

LEMMA InitControl == Init => CInv
<1> SUFFICES ASSUME Init PROVE CInv
  OBVIOUS
<1>1. /\ replies \in Seq({"no-auth", "not-acceptable", "succeeded", "failure", "command", "atyp"})
      /\ upGot \in Seq(Nat) /\ downGot \in Seq(Nat)
  BY DEF Init
<1>2. /\ cread \in 0 .. csent /\ uread \in 0 .. usent
      /\ csent \in Nat /\ usent \in Nat
  BY DEF Init
<1>3. upShut \in BOOLEAN /\ downShut \in BOOLEAN
  BY DEF Init
<1>4. /\ ask \in Asks /\ proxy \in Proxies
      /\ pc \in {"accepting", "routing", "connecting", "replying", "relaying", "done"}
      /\ route = "none" /\ link = "none" /\ cend = "open" /\ uend = "open"
      /\ up = "unborn" /\ down = "unborn" /\ outcome = "none"
  BY DEF Init
<1>5. TypeOK
  BY <1>1, <1>2, <1>3, <1>4 DEF TypeOK, PumpPC, Outcomes
<1>6. replies # Granted
  BY DEF Init, Granted
<1>7. Replied /\ Admitted /\ Pumping
  BY <1>6 DEF Init, Replied, Admitted, Pumping, Asking, ClientFields, ProxyFields
<1> QED BY <1>5, <1>7 DEF CInv

(* The operators with cases, case by case.                                 *)
LEMMA Fields ==
    /\ AfterField("greeting") = "methods"
    /\ AfterField("methods") = "request"
    /\ AfterField("request") = IF HasDomain THEN "length" ELSE "address"
    /\ AfterField("length") = "address"
    /\ AfterField("address") = "port"
    /\ AfterField("port") = "routing"
  BY DEF AfterField

LEMMA ProxyFieldsAre ==
    /\ AfterProxyField("proxyMethod") = "proxyReply"
    /\ AfterProxyField("proxyReply") = IF proxy.bound = "domain" THEN "proxyLength" ELSE "proxyAddress"
    /\ AfterProxyField("proxyLength") = "proxyAddress"
    /\ AfterProxyField("proxyAddress") = "proxyPort"
    /\ AfterProxyField("proxyPort") = "replying"
    /\ ProxyAccepted("proxyReply") => proxy.granted
  BY DEF AfterProxyField, ProxyAccepted

LEMMA Judgements ==
    /\ \A f \in {"greeting", "length", "address", "port"} : Reply(f) = ""
    /\ Reply("methods") = IF ask.noAuth THEN "no-auth" ELSE "not-acceptable"
    /\ Reply("request") \in {"", "command", "failure", "atyp"}
    /\ Accepted("methods") = ask.noAuth
    /\ Accepted("request") => Reply("request") = "" /\ ask.command # "other"
  BY DEF Reply, Accepted, RequestReply

LEMMA AppendType ==
  ASSUME NEW S, NEW q \in Seq(S), NEW x \in S
  PROVE  Append(q, x) \in Seq(S)
OBVIOUS

LEMMA ReturnTypes ==
  ASSUME TypeOK, NEW how \in Outcomes, HandlerReturns(how)
  PROVE  /\ pc' = "done" /\ outcome' \in Outcomes
         /\ upShut' \in BOOLEAN /\ downShut' \in BOOLEAN
<1>1. pc' = "done" /\ outcome' \in Outcomes
  BY DEF HandlerReturns
<1>2. upShut' \in BOOLEAN
  BY DEF HandlerReturns, TypeOK
<1>3. downShut' \in BOOLEAN
  BY DEF HandlerReturns
<1> QED BY <1>1, <1>2, <1>3

LEMMA GoesTypes ==
  ASSUME TypeOK, NEW label, Goes(label)
  PROVE  /\ pc' = label /\ outcome' \in Outcomes
         /\ upShut' \in BOOLEAN /\ downShut' \in BOOLEAN
BY DEF Goes, TypeOK

LEMMA UnitTypes ==
  ASSUME TypeOK
  PROVE  /\ ClientHead \in {5, 6} /\ ProxyHead \in Nat
         /\ UpUnit(cread) \in Nat /\ DownUnit(uread) \in Nat
         /\ UpUnit(csent) \in Nat /\ DownUnit(usent) \in Nat
<1>1. ClientHead \in {5, 6}
  BY DEF ClientHead
<1>2. ProxyHead \in Nat
  <2>1. proxy \in ProxyAnswer
    BY SessionAssumption DEF TypeOK
  <2>2. route = "http" => proxy.size \in Nat
    BY <2>1 DEF TypeOK, ProxyAnswer
  <2> QED BY <2>2 DEF ProxyHead
<1>3. cread \in Nat /\ csent \in Nat /\ uread \in Nat /\ usent \in Nat
  BY DEF TypeOK
<1> QED BY <1>1, <1>2, <1>3 DEF UpUnit, DownUnit

LEMMA TypeStep ==
  ASSUME TypeOK, [Next]_vars
  PROVE  TypeOK'
<1> USE DEF PumpPC, Outcomes
<1>1. ASSUME UNCHANGED vars PROVE TypeOK'
  BY <1>1 DEF vars, clientvars, farvars, relayvars, TypeOK
<1>2. ASSUME Accept PROVE TypeOK'
  <2>1. Goes("greeting")
    BY <1>2 DEF Accept
  <2> QED BY <1>2, <2>1, GoesTypes DEF Accept, clientvars, farvars, relayvars, TypeOK, ClientFields
<1>3. ASSUME ReadField PROVE TypeOK'
  <2>1. pc' \in ClientFields \cup {"routing", "done"} /\ outcome' \in Outcomes
        /\ upShut' \in BOOLEAN /\ downShut' \in BOOLEAN
    <3>1. CASE Goes(AfterField(pc))
      BY <1>3, <3>1, GoesTypes, Fields DEF ReadField, ClientFields
    <3>2. CASE HandlerReturns("refused")
      BY <3>2, ReturnTypes
    <3> QED BY <1>3, <3>1, <3>2 DEF ReadField
  <2>2. replies' \in Seq({"no-auth", "not-acceptable", "succeeded", "failure", "command", "atyp"})
    <3>1. Reply(pc) \in {"", "no-auth", "not-acceptable", "failure", "command", "atyp"}
      BY <1>3, Judgements DEF ReadField, ClientFields
    <3>2. replies' = replies \/ (Reply(pc) # "" /\ replies' = Append(replies, Reply(pc)))
      BY <1>3 DEF ReadField
    <3> DEFINE Words == {"no-auth", "not-acceptable", "succeeded", "failure", "command", "atyp"}
    <3>3. replies \in Seq(Words) /\ (Reply(pc) # "" => Reply(pc) \in Words)
      BY <3>1 DEF TypeOK
    <3> HIDE DEF Words
    <3>4. replies' \in Seq(Words)
      <4>1. CASE replies' = replies
        BY <3>3, <4>1
      <4>2. CASE Reply(pc) # "" /\ replies' = Append(replies, Reply(pc))
        BY <3>3, <4>2, AppendType
      <4> QED BY <3>2, <4>1, <4>2
    <3> QED BY <3>4 DEF Words
  <2>3. /\ cread < csent /\ cread' = cread + 1
        /\ UNCHANGED <<ask, proxy, route, link, csent, cend, usent, uend, uread,
                        up, down, upGot, downGot>>
    BY <1>3 DEF ReadField, clientvars, farvars, relayvars
  <2>4. cread' \in 0 .. csent'
    BY <2>3 DEF TypeOK
  <2> QED BY <2>1, <2>2, <2>3, <2>4 DEF TypeOK
<1>4. ASSUME ReadFieldFails PROVE TypeOK'
  <2>1. HandlerReturns("refused")
    BY <1>4 DEF ReadFieldFails
  <2> QED BY <1>4, <2>1, ReturnTypes DEF ReadFieldFails, clientvars, farvars, relayvars, TypeOK
<1>5. ASSUME DecideRoute PROVE TypeOK'
  <2>1. route' \in {"none", "tunnel", "direct", proxy.kind}
    BY <1>5 DEF DecideRoute, TypeOK
  <2>2. pc' \in {"connecting", "done"} /\ outcome' \in Outcomes
        /\ upShut' \in BOOLEAN /\ downShut' \in BOOLEAN
    BY <1>5, ReturnTypes, GoesTypes DEF DecideRoute
  <2> QED BY <1>5, <2>1, <2>2 DEF DecideRoute, clientvars, farvars, relayvars, TypeOK
<1>6. ASSUME Connect PROVE TypeOK'
  <2>1. /\ pc' \in {"proxyMethod", "httpHead", "replying", "done"} /\ outcome' \in Outcomes
        /\ upShut' \in BOOLEAN /\ downShut' \in BOOLEAN /\ link' \in {"none", "syn", "up"}
    <3>1. CASE HandlerReturns("unconnected")
      BY <1>6, <3>1, ReturnTypes DEF Connect, TypeOK
    <3>2. CASE link' \in {"syn", "up"} /\ ~HandlerReturns("unconnected")
      BY <1>6, <3>2, GoesTypes DEF Connect
    <3> QED BY <1>6, <3>1, <3>2 DEF Connect
  <2> QED BY <1>6, <2>1 DEF Connect, clientvars, farvars, relayvars, TypeOK, ProxyFields
<1>7. ASSUME ReadProxyField PROVE TypeOK'
  <2>1. /\ pc' \in ProxyFields \cup {"replying", "done"} /\ outcome' \in Outcomes
        /\ upShut' \in BOOLEAN /\ downShut' \in BOOLEAN
    <3>1. CASE Goes(AfterProxyField(pc))
      BY <1>7, <3>1, GoesTypes, ProxyFieldsAre DEF ReadProxyField, ProxyFields
    <3>2. CASE HandlerReturns("unconnected")
      BY <3>2, ReturnTypes
    <3> QED BY <1>7, <3>1, <3>2 DEF ReadProxyField
  <2>2. uread' \in 0 .. usent'
    BY <1>7 DEF ReadProxyField, farvars, TypeOK
  <2> QED BY <1>7, <2>1, <2>2 DEF ReadProxyField, clientvars, farvars, relayvars, TypeOK
<1>8. ASSUME ReadHttpHead PROVE TypeOK'
  <2>1. /\ pc' \in {"httpHead", "replying", "done"} /\ outcome' \in Outcomes
        /\ upShut' \in BOOLEAN /\ downShut' \in BOOLEAN
    <3>1. CASE HandlerReturns("unconnected")
      BY <3>1, ReturnTypes
    <3>2. CASE Goes("replying")
      BY <3>2, GoesTypes
    <3>3. CASE Goes("httpHead")
      BY <3>3, GoesTypes
    <3> QED BY <1>8, <3>1, <3>2, <3>3 DEF ReadHttpHead
  <2>2. uread' \in 0 .. usent'
    BY <1>8 DEF ReadHttpHead, farvars, TypeOK
  <2> QED BY <1>8, <2>1, <2>2 DEF ReadHttpHead, clientvars, farvars, relayvars, TypeOK, ProxyFields
<1>9. ASSUME ProxyFails PROVE TypeOK'
  <2>1. HandlerReturns("unconnected")
    BY <1>9 DEF ProxyFails
  <2> QED BY <1>9, <2>1, ReturnTypes DEF ProxyFails, clientvars, farvars, relayvars, TypeOK
<1>10. ASSUME WriteOkReply PROVE TypeOK'
  <2>1. /\ pc' \in {"relaying", "done"} /\ outcome' \in Outcomes
        /\ upShut' \in BOOLEAN /\ downShut' \in BOOLEAN
        /\ up' \in PumpPC /\ down' \in PumpPC
    <3>1. CASE Goes("relaying") /\ up' = "reading" /\ down' = "reading"
      BY <3>1, GoesTypes
    <3>2. CASE HandlerReturns("uncloned") /\ UNCHANGED <<up, down>>
      BY <3>2, ReturnTypes DEF TypeOK
    <3>3. CASE HandlerReturns("unreplied") /\ UNCHANGED <<up, down>>
      BY <3>3, ReturnTypes DEF TypeOK
    <3> QED BY <1>10, <3>1, <3>2, <3>3 DEF WriteOkReply
  <2>2. replies' \in Seq({"no-auth", "not-acceptable", "succeeded", "failure", "command", "atyp"})
    BY SMTT(30), <1>10 DEF WriteOkReply, TypeOK
  <2> QED BY <1>10, <2>1, <2>2 DEF WriteOkReply, clientvars, farvars, TypeOK
<1>11. ASSUME Join PROVE TypeOK'
  <2>1. HandlerReturns("relayed")
    BY <1>11 DEF Join
  <2> QED BY <1>11, <2>1, ReturnTypes DEF Join, clientvars, farvars, relayvars, TypeOK
<1>12. UpUnit(cread) \in Nat /\ DownUnit(uread) \in Nat
  BY UnitTypes
<1>13. ASSUME UpStep PROVE TypeOK'
  <2>1. /\ upGot' \in Seq(Nat)
        /\ cread' \in 0 .. csent
    <3>1. upGot \in Seq(Nat)
      BY DEF TypeOK
    <3>2. upGot' = upGot \/ upGot' = Append(upGot, UpUnit(cread))
      BY <1>13 DEF UpStep, UpRead, UpReadEnds, UpWrite, UpShutdown
    <3>3. cread' = cread \/ (cread < csent /\ cread' = cread + 1)
      BY <1>13 DEF UpStep, UpRead, UpReadEnds, UpWrite, UpShutdown
    <3>4. cread' \in 0 .. csent
      BY <3>3 DEF TypeOK
    <3> QED BY <1>12, <3>1, <3>2, <3>4
  <2>2. upShut' \in BOOLEAN
    BY <1>13 DEF UpStep, UpRead, UpReadEnds, UpWrite, UpShutdown, TypeOK
  <2> QED BY <1>13, <2>1, <2>2 DEF UpStep, UpRead, UpReadEnds, UpWrite, UpShutdown, PumpUnchanged,
            clientvars, farvars, TypeOK
<1>14. ASSUME DownStep PROVE TypeOK'
  <2>1. /\ downGot' \in Seq(Nat)
        /\ uread' \in 0 .. usent
    <3>1. downGot \in Seq(Nat)
      BY DEF TypeOK
    <3>2. downGot' = downGot \/ downGot' = Append(downGot, DownUnit(uread))
      BY <1>14 DEF DownStep, DownRead, DownReadEnds, DownWrite, DownShutdown
    <3>3. uread' = uread \/ (uread < usent /\ uread' = uread + 1)
      BY <1>14 DEF DownStep, DownRead, DownReadEnds, DownWrite, DownShutdown
    <3>4. uread' \in 0 .. usent
      BY <3>3 DEF TypeOK
    <3> QED BY <1>12, <3>1, <3>2, <3>4
  <2>2. downShut' \in BOOLEAN
    BY <1>14 DEF DownStep, DownRead, DownReadEnds, DownWrite, DownShutdown, TypeOK
  <2> QED BY <1>14, <2>1, <2>2 DEF DownStep, DownRead, DownReadEnds, DownWrite, DownShutdown,
            PumpUnchanged, clientvars, farvars, TypeOK
<1>15. ASSUME PeerStep PROVE TypeOK'
  <2>1. /\ csent' \in Nat /\ cread' \in 0 .. csent'
        /\ usent' \in Nat /\ uread' \in 0 .. usent'
    BY <1>15 DEF PeerStep, ClientSends, ClientEnds, FarSends, FarAccepts, FarEnds,
         OthersUnchanged, clientvars, farvars, TypeOK
  <2>2. cend' \in {"open", "eof", "reset"} /\ uend' \in {"open", "eof", "reset"}
    BY <1>15 DEF PeerStep, ClientSends, ClientEnds, FarSends, FarAccepts, FarEnds,
         OthersUnchanged, clientvars, farvars, TypeOK
  <2>3. /\ UNCHANGED <<ask, proxy, pc, route, up, down, upGot, downGot, replies,
                       upShut, downShut, outcome>>
        /\ link' \in {"none", "syn", "up"}
    BY <1>15 DEF PeerStep, ClientSends, ClientEnds, FarSends, FarAccepts, FarEnds,
         OthersUnchanged, relayvars, TypeOK
  <2> QED BY <2>1, <2>2, <2>3 DEF TypeOK
<1> QED
  BY <1>1, <1>2, <1>3, <1>4, <1>5, <1>6, <1>7, <1>8, <1>9, <1>10, <1>11, <1>13, <1>14, <1>15
  DEF Next, HandlerStep

LEMMA AppendSecond ==
  ASSUME NEW S, NEW a \in S, NEW x \in S
  PROVE  Append(<<a>>, x) = <<a, x>>
<1>1. PICK s : s = Append(<<a>>, x)
  OBVIOUS
<1>2. PICK t : t = <<a, x>>
  OBVIOUS
<1>3. s \in Seq(S) /\ Len(s) = 2 /\ s[1] = a /\ s[2] = x
  BY <1>1
<1>4. t \in Seq(S) /\ Len(t) = 2 /\ t[1] = a /\ t[2] = x
  BY <1>2
<1>5. \A i \in 1 .. Len(s) : s[i] = t[i]
  BY <1>3, <1>4
<1> QED BY <1>1, <1>2, <1>3, <1>4, <1>5, SeqEqual

LEMMA ReplyShapes ==
    /\ \A x \in {"no-auth", "not-acceptable"} : Append(<<>>, x) = <<x>> /\ <<x>> # Granted
    /\ \A x \in RequestReplies :
           /\ Append(Greeted, x) = <<"no-auth", x>>
           /\ <<"no-auth", x>> = Granted <=> x = "succeeded"
    /\ <<>> # Granted /\ <<>> # Greeted /\ Greeted # Granted
<1>1. ASSUME NEW x \in {"no-auth", "not-acceptable"}
      PROVE  Append(<<>>, x) = <<x>> /\ <<x>> # Granted
  BY <1>1 DEF Granted
<1>2. ASSUME NEW x \in RequestReplies
      PROVE  /\ Append(Greeted, x) = <<"no-auth", x>>
             /\ <<"no-auth", x>> = Granted <=> x = "succeeded"
  <2>1. Append(<<"no-auth">>, x) = <<"no-auth", x>>
    <3>1. "no-auth" \in RequestReplies \cup {"no-auth"} /\ x \in RequestReplies \cup {"no-auth"}
      BY <1>2
    <3> QED BY <3>1, AppendSecond
  <2>2. <<"no-auth", x>> = <<"no-auth", "succeeded">> <=> x = "succeeded"
    OBVIOUS
  <2> QED BY <2>1, <2>2 DEF Greeted, Granted
<1>3. <<>> # Granted /\ <<>> # Greeted /\ Greeted # Granted
  BY DEF Greeted, Granted
<1> QED BY <1>1, <1>2, <1>3

(* The handler returns before there are pump threads.                      *)
LEMMA ReturnsUnpumped ==
  ASSUME CInv, NEW how \in Outcomes \ {"none", "relayed"}, HandlerReturns(how),
         pc \notin {"relaying", "done"},
         UNCHANGED <<ask, proxy, route, up, down, upGot, downGot>>,
         link' # "none" /\ route = "tunnel" => how \in {"unreplied", "uncloned"}
  PROVE  Pumping'
<1>1. /\ up = "unborn" /\ down = "unborn" /\ upGot = <<>> /\ downGot = <<>>
      /\ up' = "unborn" /\ down' = "unborn" /\ upGot' = <<>> /\ downGot' = <<>>
  BY DEF CInv, Pumping
<1>2. pc' = "done" /\ outcome' = how
  BY DEF HandlerReturns
<1>3. how # "none" /\ how # "relayed" /\ route' = route
  OBVIOUS
<1> QED BY <1>1, <1>2, <1>3 DEF Pumping

(* The handler goes on before there are pump threads.                      *)
LEMMA GoesUnpumped ==
  ASSUME CInv, NEW label, Goes(label), label \notin {"relaying", "done"},
         pc \notin {"relaying", "done"},
         UNCHANGED <<up, down, upGot, downGot>>
  PROVE  Pumping'
BY DEF CInv, Pumping, Goes

LEMMA ControlStep ==
  ASSUME CInv, [Next]_vars
  PROVE  CInv'
<1> USE DEF CInv
<1>1. TypeOK'
  BY TypeStep
<1>2. SUFFICES Replied' /\ Admitted' /\ Pumping'
  BY <1>1
<1>3. ASSUME UNCHANGED <<ask, proxy, pc, route, link, outcome, replies>>
      PROVE  Replied' /\ Admitted'
  BY <1>3 DEF Replied, Admitted
<1>4. CASE UNCHANGED vars
  <2>1. UNCHANGED <<ask, proxy, pc, route, link, outcome, replies, up, down, upGot, downGot,
                    upShut, downShut>>
    BY <1>4 DEF vars, relayvars
  <2>2. Pumping'
    BY <2>1 DEF Pumping
  <2> QED BY <1>3, <2>1, <2>2
<1>5. CASE Accept
  <2>1. UNCHANGED <<ask, proxy, route, link, replies, up, down, upGot, downGot>>
        /\ pc = "accepting" /\ Goes("greeting") /\ pc' = "greeting"
    BY <1>5 DEF Accept, relayvars, Goes
  <2>2. Pumping'
    BY <2>1, GoesUnpumped
  <2>3. Replied' /\ Admitted'
    BY <2>1 DEF Replied, Admitted, ClientFields, ProxyFields, Asking
  <2> QED BY <2>2, <2>3
<1>6. CASE ReadField
  <2>1. /\ pc \in ClientFields /\ pc \notin {"relaying", "done"}
        /\ UNCHANGED <<ask, proxy, route, link, up, down, upGot, downGot>>
        /\ link = "none" /\ route = "none"
    BY <1>6 DEF ReadField, relayvars, ClientFields, Admitted
  <2>2. replies' = IF Reply(pc) = "" THEN replies ELSE Append(replies, Reply(pc))
    BY <1>6 DEF ReadField
  <2>3. CASE Accepted(pc) /\ Goes(AfterField(pc))
    <3>1. /\ pc' = AfterField(pc) /\ pc' \in (ClientFields \ {"greeting"}) \cup {"routing"}
          /\ pc' = "methods" => pc = "greeting"
          /\ pc' = "request" => pc = "methods"
          /\ pc' \in {"length", "address", "port", "routing"} =>
                 pc \in {"request", "length", "address", "port"}
      BY <2>1, <2>3, Fields DEF Goes, ClientFields
    <3>2. Pumping'
      BY <2>1, <2>3, <3>1, GoesUnpumped DEF ClientFields
    <3>3. pc = "greeting" => replies' = <<>>
      BY <2>2, Judgements DEF Replied
    <3>4. pc = "methods" => replies' = Greeted
      BY <2>2, <2>3, Judgements, ReplyShapes DEF Replied, Greeted, RequestReplies
    <3>5. pc \in Asking => replies' = Greeted
      BY <2>2, <2>3, Judgements DEF Replied, Asking
    <3>6. pc' \in {"length", "address", "port", "routing"} => ask.command # "other"
      BY <3>1, <2>3, Judgements DEF Admitted
    <3>7. Replied'
      BY <3>1, <3>3, <3>4, <3>5 DEF Replied, ClientFields, ProxyFields, Asking
    <3>8. replies' # Granted
      BY <2>1, <3>3, <3>4, <3>5, ReplyShapes DEF ClientFields, Asking
    <3>9. Admitted'
      BY <2>1, <3>1, <3>6, <3>8 DEF Admitted, ClientFields, ProxyFields
    <3> QED BY <3>2, <3>7, <3>9
  <2>4. CASE ~Accepted(pc) /\ HandlerReturns("refused")
    <3>1. pc' = "done"
      BY <2>4 DEF HandlerReturns
    <3>2. Pumping'
      BY <2>1, <2>4, ReturnsUnpumped DEF Outcomes
    <3>3. pc \in {"greeting", "length", "address", "port"} => replies' = replies
      BY <2>2, Judgements
    <3>4. pc = "methods" => replies' = <<"not-acceptable">>
      BY <2>2, <2>4, Judgements, ReplyShapes DEF Replied
    <3>5. pc = "request" =>
             replies' = Greeted \/ \E r \in {"command", "failure", "atyp"} : replies' = <<"no-auth", r>>
      BY <2>2, Judgements, ReplyShapes DEF Replied, Asking, RequestReplies
    <3>6. replies' \in {<<>>, <<"not-acceptable">>, Greeted}
          \/ \E r \in {"command", "failure", "atyp"} : replies' = <<"no-auth", r>>
      BY <2>1, <3>3, <3>4, <3>5 DEF Replied, ClientFields, Asking
    <3>7. replies' # Granted
      BY <3>6, ReplyShapes DEF RequestReplies
    <3>8. Replied'
      BY <3>1, <3>6 DEF Replied, RequestReplies, ProxyFields, Asking
    <3>9. Admitted'
      BY <2>1, <3>1, <3>7 DEF Admitted, ProxyFields, ClientFields
    <3> QED BY <3>2, <3>8, <3>9
  <2> QED BY <1>6, <2>3, <2>4 DEF ReadField
<1>7. CASE ReadFieldFails
  <2>1. /\ pc \in ClientFields /\ pc \notin {"relaying", "done"}
        /\ UNCHANGED <<ask, proxy, route, link, up, down, upGot, downGot, replies>>
        /\ HandlerReturns("refused") /\ pc' = "done"
    BY <1>7 DEF ReadFieldFails, relayvars, HandlerReturns, ClientFields
  <2>2. Pumping'
    BY <2>1, ReturnsUnpumped DEF Outcomes, Admitted
  <2>3. replies \in {<<>>, Greeted} /\ replies # Granted
    BY <2>1, ReplyShapes DEF Replied, ClientFields, Asking
  <2>4. Replied' /\ Admitted'
    BY <2>1, <2>3 DEF Replied, Admitted, ProxyFields, ClientFields, Asking
  <2> QED BY <2>2, <2>4
<1>8. CASE DecideRoute
  <2>1. /\ pc = "routing" /\ link = "none" /\ route = "none" /\ replies = Greeted
        /\ UNCHANGED <<ask, proxy, link, up, down, upGot, downGot, replies>>
        /\ replies # Granted
    BY <1>8, ReplyShapes DEF DecideRoute, relayvars, Replied, Admitted, ClientFields
  <2>2. CASE (HandlerReturns("udp") \/ HandlerReturns("unconnected")) /\ UNCHANGED route
    <3>1. pc' = "done"
      BY <2>2 DEF HandlerReturns
    <3>2. Pumping'
      BY <2>1, <2>2, ReturnsUnpumped DEF Outcomes
    <3>3. Replied' /\ Admitted'
      BY <2>1, <2>2, <3>1 DEF Replied, Admitted, ProxyFields, ClientFields, Asking
    <3> QED BY <3>2, <3>3
  <2>3. CASE /\ ask.command # "udp" /\ Goes("connecting")
             /\ route' \in {"tunnel", "direct", proxy.kind}
    <3>1. pc' = "connecting"
      BY <2>3 DEF Goes
    <3>2. Pumping'
      BY <2>1, <2>3, GoesUnpumped
    <3>3. ask.command = "connect"
      <4>1. ask \in Ask
        BY SessionAssumption DEF TypeOK
      <4>2. ask.command \in {"connect", "udp", "other"}
        BY <4>1 DEF Ask
      <4> QED BY <2>1, <2>3, <4>2 DEF Admitted
    <3>4. Replied'
      BY <2>1, <3>1 DEF Replied, ProxyFields, Asking
    <3>5. Admitted'
      BY <2>1, <2>3, <3>1, <3>3 DEF Admitted, ProxyFields, ClientFields
    <3> QED BY <3>2, <3>4, <3>5
  <2> QED BY <1>8, <2>2, <2>3 DEF DecideRoute
<1>9. CASE Connect
  <2>1. /\ pc = "connecting" /\ link = "none" /\ replies = Greeted /\ replies # Granted
        /\ route \in {"tunnel", "direct", proxy.kind} /\ ask.command = "connect"
        /\ UNCHANGED <<ask, proxy, route, up, down, upGot, downGot, replies>>
    BY <1>9, ReplyShapes DEF Connect, relayvars, Replied, Admitted
  <2>2. CASE HandlerReturns("unconnected") /\ UNCHANGED link
    <3>1. pc' = "done"
      BY <2>2 DEF HandlerReturns
    <3>2. Pumping'
      BY <2>1, <2>2, ReturnsUnpumped DEF Outcomes
    <3>3. Replied' /\ Admitted'
      BY <2>1, <2>2, <3>1 DEF Replied, Admitted, ProxyFields, ClientFields, Asking
    <3> QED BY <3>2, <3>3
  <2>3. ASSUME NEW label, Goes(label), link' = IF route = "tunnel" THEN "syn" ELSE "up",
               label = CASE route = "socks5" -> "proxyMethod"
                         [] route = "http"   -> "httpHead"
                         [] OTHER            -> "replying"
        PROVE  Replied' /\ Admitted' /\ Pumping'
    <3>1. /\ pc' = label
          /\ \/ route = "socks5" /\ label = "proxyMethod"
             \/ route = "http" /\ label = "httpHead"
             \/ route \notin {"socks5", "http"} /\ label = "replying"
      BY <2>3 DEF Goes
    <3>2. proxy.kind \in {"socks5", "http"}
      <4>1. proxy \in ProxyAnswer
        BY SessionAssumption DEF TypeOK
      <4> QED BY <4>1 DEF ProxyAnswer
    <3>3. Pumping'
      BY <2>1, <2>3, <3>1, GoesUnpumped
    <3>4. Replied'
      BY <2>1, <3>1 DEF Replied, ProxyFields, Asking
    <3>5. Admitted'
      BY <2>1, <2>3, <3>1, <3>2 DEF Admitted, ProxyFields, ClientFields
    <3> QED BY <3>3, <3>4, <3>5
  <2> QED BY <1>9, <2>2, <2>3 DEF Connect
<1>10. CASE ReadProxyField
  <2>1. /\ pc \in ProxyFields \ {"httpHead"} /\ pc \notin {"relaying", "done"}
        /\ link # "none" /\ route = "socks5" /\ proxy.kind = "socks5" /\ ask.command = "connect"
        /\ replies = Greeted /\ replies # Granted
        /\ UNCHANGED <<ask, proxy, route, link, up, down, upGot, downGot, replies>>
    BY <1>10, ReplyShapes DEF ReadProxyField, relayvars, Replied, Admitted, ProxyFields
  <2>2. CASE ProxyAccepted(pc) /\ Goes(AfterProxyField(pc))
    <3>1. /\ pc' \in (ProxyFields \ {"httpHead", "proxyMethod"}) \cup {"replying"}
          /\ pc' \in {"proxyLength", "proxyAddress", "proxyPort", "replying"} => proxy.granted
      <4>1. pc' = AfterProxyField(pc)
        BY <2>2 DEF Goes
      <4>2. pc = "proxyMethod" => pc' = "proxyReply"
        BY <4>1, ProxyFieldsAre
      <4>3. pc = "proxyReply" => pc' \in {"proxyLength", "proxyAddress"} /\ proxy.granted
        BY <4>1, <2>2, ProxyFieldsAre
      <4>4. pc \in {"proxyLength", "proxyAddress", "proxyPort"} =>
               pc' \in {"proxyAddress", "proxyPort", "replying"} /\ proxy.granted
        BY <4>1, ProxyFieldsAre DEF Admitted
      <4> QED BY <2>1, <4>2, <4>3, <4>4 DEF ProxyFields
    <3>2. Pumping'
      BY <2>1, <2>2, <3>1, GoesUnpumped DEF Goes, ProxyFields
    <3>3. Replied'
      BY <2>1, <3>1 DEF Replied, ProxyFields, Asking
    <3>4. Admitted'
      BY <2>1, <3>1 DEF Admitted, ProxyFields, ClientFields
    <3> QED BY <3>2, <3>3, <3>4
  <2>3. CASE HandlerReturns("unconnected")
    <3>1. pc' = "done"
      BY <2>3 DEF HandlerReturns
    <3>2. Pumping'
      BY <2>1, <2>3, ReturnsUnpumped DEF Outcomes
    <3>3. Replied' /\ Admitted'
      BY <2>1, <3>1 DEF Replied, Admitted, ProxyFields, ClientFields, Asking
    <3> QED BY <3>2, <3>3
  <2> QED BY <1>10, <2>2, <2>3 DEF ReadProxyField
<1>11. CASE ReadHttpHead
  <2>1. /\ pc = "httpHead" /\ link # "none" /\ route = "http" /\ proxy.kind = "http"
        /\ ask.command = "connect" /\ replies = Greeted /\ replies # Granted
        /\ UNCHANGED <<ask, proxy, route, link, up, down, upGot, downGot, replies>>
    BY <1>11, ReplyShapes DEF ReadHttpHead, relayvars, Replied, Admitted, ProxyFields
  <2>2. CASE Goes("httpHead") \/ (proxy.granted /\ Goes("replying"))
    <3>1. pc' = "httpHead" \/ (pc' = "replying" /\ proxy.granted)
      BY <2>2 DEF Goes
    <3>2. Pumping'
      BY <2>1, <2>2, GoesUnpumped
    <3>3. Replied' /\ Admitted'
      BY <2>1, <3>1 DEF Replied, Admitted, ProxyFields, ClientFields, Asking
    <3> QED BY <3>2, <3>3
  <2>3. CASE HandlerReturns("unconnected")
    <3>1. pc' = "done"
      BY <2>3 DEF HandlerReturns
    <3>2. Pumping'
      BY <2>1, <2>3, ReturnsUnpumped DEF Outcomes
    <3>3. Replied' /\ Admitted'
      BY <2>1, <3>1 DEF Replied, Admitted, ProxyFields, ClientFields, Asking
    <3> QED BY <3>2, <3>3
  <2> QED BY <1>11, <2>2, <2>3 DEF ReadHttpHead
<1>12. CASE ProxyFails
  <2>1. /\ pc \in ProxyFields /\ pc \notin {"relaying", "done"} /\ link # "none"
        /\ replies = Greeted /\ replies # Granted /\ route \in {"socks5", "http"}
        /\ UNCHANGED <<ask, proxy, route, link, up, down, upGot, downGot, replies>>
        /\ HandlerReturns("unconnected") /\ pc' = "done"
    BY <1>12, ReplyShapes DEF ProxyFails, relayvars, Replied, Admitted, ProxyFields, HandlerReturns
  <2>2. Pumping'
    BY <2>1, ReturnsUnpumped DEF Outcomes
  <2>3. Replied' /\ Admitted'
    BY <2>1 DEF Replied, Admitted, ProxyFields, ClientFields, Asking
  <2> QED BY <2>2, <2>3
<1>13. CASE WriteOkReply
  <2>1. /\ pc = "replying" /\ link # "none" /\ ask.command = "connect" /\ replies = Greeted
        /\ route \in {"socks5", "http"} => proxy.granted
        /\ UNCHANGED <<ask, proxy, route, link, upGot, downGot>>
    BY <1>13 DEF WriteOkReply, Replied, Admitted
  <2>2. Append(replies, "succeeded") = Granted /\ Granted = <<"no-auth", "succeeded">>
    BY <2>1, ReplyShapes DEF RequestReplies, Granted
  <2>3. up = "unborn" /\ down = "unborn" /\ outcome = "none" /\ ~upShut /\ ~downShut
    BY <2>1 DEF Pumping
  <2>4. CASE Goes("relaying") /\ up' = "reading" /\ down' = "reading" /\ replies' = Granted
    <3>1. pc' = "relaying" /\ UNCHANGED <<outcome, upShut, downShut>>
      BY <2>4 DEF Goes
    <3>2. Replied' /\ Admitted'
      BY <2>1, <2>4, <3>1 DEF Replied, Admitted, ProxyFields, ClientFields, Asking
    <3>3. Pumping'
      BY <2>3, <2>4, <3>1 DEF Pumping
    <3> QED BY <3>2, <3>3
  <2>5. CASE /\ HandlerReturns("uncloned") /\ replies' = Granted /\ UNCHANGED <<up, down>>
    <3>1. pc' = "done"
      BY <2>5 DEF HandlerReturns
    <3>2. Pumping'
      BY <2>1, <2>5, ReturnsUnpumped DEF Outcomes
    <3>3. Replied' /\ Admitted'
      BY <2>1, <2>2, <2>5, <3>1 DEF Replied, Admitted, ProxyFields, ClientFields, Asking, RequestReplies
    <3> QED BY <3>2, <3>3
  <2>6. CASE HandlerReturns("unreplied") /\ UNCHANGED <<replies, up, down>>
    <3>1. pc' = "done"
      BY <2>6 DEF HandlerReturns
    <3>2. Pumping'
      BY <2>1, <2>6, ReturnsUnpumped DEF Outcomes
    <3>3. Replied' /\ Admitted'
      BY <2>1, <2>6, <3>1 DEF Replied, Admitted, ProxyFields, ClientFields, Asking
    <3> QED BY <3>2, <3>3
  <2> QED BY <1>13, <2>2, <2>4, <2>5, <2>6 DEF WriteOkReply
<1>14. CASE Join
  <2>1. /\ pc = "relaying" /\ up = "ended" /\ down = "ended" /\ replies = Granted
        /\ UNCHANGED <<ask, proxy, route, link, up, down, upGot, downGot, replies>>
        /\ HandlerReturns("relayed")
    BY <1>14 DEF Join, relayvars, Replied
  <2>2. /\ pc' = "done" /\ outcome' = "relayed" /\ downShut'
        /\ upShut' = (upShut \/ (link = "up" /\ route # "tunnel"))
    BY <2>1 DEF HandlerReturns
  <2>3. upShut /\ downShut
    BY <2>1 DEF Pumping
  <2>4. Replied' /\ Admitted'
    BY <2>1, <2>2 DEF Replied, Admitted, ProxyFields, ClientFields, Asking, Granted, RequestReplies
  <2>5. Pumping'
    BY <2>1, <2>2, <2>3 DEF Pumping
  <2> QED BY <2>4, <2>5
<1>15. CASE UpStep
  <2>1. /\ UNCHANGED <<ask, proxy, pc, route, link, outcome, replies, down, downGot, downShut>>
        /\ up \in {"reading", "writing", "shutting"}
        /\ up' \in {"reading", "writing", "shutting", "ended"}
        /\ IF up' = "ended" THEN upShut' ELSE UNCHANGED upShut
    BY <1>15 DEF UpStep, UpRead, UpReadEnds, UpWrite, UpShutdown, PumpUnchanged
  <2>2. Pumping'
    BY <2>1 DEF Pumping
  <2> QED BY <1>3, <2>1, <2>2
<1>16. CASE DownStep
  <2>1. /\ UNCHANGED <<ask, proxy, pc, route, link, outcome, replies, up, upGot, upShut>>
        /\ down \in {"reading", "writing", "shutting"}
        /\ down' \in {"reading", "writing", "shutting", "ended"}
        /\ IF down' = "ended" THEN downShut' ELSE UNCHANGED downShut
    BY <1>16 DEF DownStep, DownRead, DownReadEnds, DownWrite, DownShutdown, PumpUnchanged
  <2>2. Pumping'
    BY <2>1 DEF Pumping
  <2> QED BY <1>3, <2>1, <2>2
<1>17. CASE PeerStep
  <2>1. /\ UNCHANGED <<ask, proxy, pc, route, outcome, replies, up, down, upGot, downGot,
                       upShut, downShut>>
        /\ link' = link \/ (link = "syn" /\ link' = "up")
    BY <1>17 DEF PeerStep, ClientSends, ClientEnds, FarSends, FarAccepts, FarEnds,
         OthersUnchanged, relayvars
  <2>2. Replied'
    BY <2>1 DEF Replied
  <2>3. Admitted'
    BY <2>1 DEF Admitted
  <2>4. Pumping'
    BY <2>1 DEF Pumping
  <2> QED BY <2>2, <2>3, <2>4
<1> QED
  BY <1>2, <1>4, <1>5, <1>6, <1>7, <1>8, <1>9, <1>10, <1>11, <1>12, <1>13, <1>14, <1>15, <1>16,
     <1>17 DEF Next, HandlerStep

LEMMA ControlInvariant == Spec => []CInv
<1>1. Init => CInv
  BY InitControl
<1>2. CInv /\ [Next]_vars => CInv'
  BY ControlStep
<1> QED BY <1>1, <1>2, PTL DEF Spec

(* The handshake gives one reply to each of the client's two questions,    *)
(* says "succeeded" only when the netstack has taken the request or a      *)
(* direct or proxied connection is there, and sends data only after that   *)
(* (socks_wire.rs 19-118, socks_proxy.rs 104-230, socks.rs 538-600).       *)
THEOREM SessionRepliesAreHonest == Spec => []RepliesAreHonest
<1>1. CInv => RepliesAreHonest
  <2> SUFFICES ASSUME CInv PROVE RepliesAreHonest
    OBVIOUS
  <2> USE DEF CInv
  <2>1. \/ replies \in {<<>>, <<"not-acceptable">>, <<"no-auth">>}
        \/ \E r \in RequestReplies : replies = <<"no-auth", r>>
    BY DEF TypeOK, Replied, Asking, ClientFields, ProxyFields, Greeted, Granted, RequestReplies
  <2>2. replies = <<"no-auth", "succeeded">> =>
          /\ link # "none" /\ (route # "tunnel" => link = "up")
          /\ ask.command = "connect"
          /\ route \in {"socks5", "http"} => proxy.granted
    BY DEF Admitted, Granted, TypeOK
  <2>3. downGot # <<>> => replies = <<"no-auth", "succeeded">>
    BY DEF Pumping, Granted
  <2>4. CASE replies \in {<<>>, <<"not-acceptable">>, <<"no-auth">>}
    <3>1. Len(replies) <= 1 /\ \A i \in 1 .. Len(replies) : replies[i] # "succeeded"
      BY <2>4
    <3> QED BY <2>3, <3>1 DEF RepliesAreHonest
  <2>5. ASSUME NEW r \in RequestReplies, replies = <<"no-auth", r>>
        PROVE  RepliesAreHonest
    <3>1. Len(replies) = 2 /\ replies[1] = "no-auth" /\ replies[2] = r
      BY <2>5
    <3>2. (\E i \in 1 .. Len(replies) : replies[i] = "succeeded") => r = "succeeded"
      BY <3>1
    <3> QED BY <2>2, <2>3, <2>5, <3>1, <3>2 DEF RepliesAreHonest
  <2> QED BY <2>1, <2>4, <2>5
<1> QED BY <1>1, ControlInvariant, PTL

(* A tunnel connection whose session is over has been closed, but on the   *)
(* two paths that drop its handle (socks.rs 547-553, 604-606).             *)
THEOREM SessionClosesTunnelHandle == Spec => []TunnelHandleIsClosed
<1>1. CInv => TunnelHandleIsClosed
  BY DEF CInv, Pumping, TunnelHandleIsClosed
<1> QED BY <1>1, ControlInvariant, PTL
-----------------------------------------------------------------------------
(* The guards of the steps that SessionEnds takes to be fair.              *)
CanMove ==
    \/ pc \in {"accepting", "routing", "connecting", "replying"}
    \/ pc \in ClientFields /\ (cread < csent \/ cend # "open")
    \/ pc \in ProxyFields /\ (uread < usent \/ uend # "open")
    \/ pc = "relaying" /\ up = "ended" /\ down = "ended"
    \/ up = "reading" /\ (cread < csent \/ cend # "open")
    \/ up = "writing" /\ ~FarSideIsSlow
    \/ down = "reading" /\ (uread < usent \/ uend # "open")
    \/ down = "writing" /\ ~ClientIsSlow
    \/ up = "shutting" \/ down = "shutting"

(* What a pump thread that cannot move is doing: it has read everything    *)
(* from a peer that is still there, or writes to one that does not read,   *)
(* or is over, having told the other side the end.                         *)
UpWaits ==
    \/ up = "reading" /\ cend = "open" /\ cread = csent
    \/ FarSideIsSlow
    \/ up = "ended" /\ upShut

DownWaits ==
    \/ down = "reading" /\ uend = "open" /\ uread = usent
    \/ ClientIsSlow
    \/ down = "ended" /\ downShut

(* A session that is not over and in which nothing can move waits for one  *)
(* of its two peers, never for itself: while it reads a handshake, for a   *)
(* peer that is still there; while it relays, at least one thread is not   *)
(* over, and each of the two that is not waits for its own peer, the one   *)
(* that is over having passed the end on.  Nothing is said of how long a   *)
(* peer keeps it: a proxy or a destination, also behind the tunnel, may do *)
(* so for ever (socks.rs 76-101, 601-679).                                 *)
OnlyPeersAreWaitedFor ==
    \/ CanMove \/ pc = "done"
    \/ pc \in ClientFields /\ cend = "open"
    \/ pc \in ProxyFields /\ uend = "open"
    \/ /\ pc = "relaying" /\ UpWaits /\ DownWaits
       /\ ~(up = "ended" /\ down = "ended")

THEOREM SessionIsNeverStuck == Spec => []OnlyPeersAreWaitedFor
<1>1. CInv => OnlyPeersAreWaitedFor
  <2> SUFFICES ASSUME CInv, ~CanMove PROVE OnlyPeersAreWaitedFor
    BY DEF OnlyPeersAreWaitedFor
  <2>1. pc \in ClientFields \cup ProxyFields \cup {"relaying", "done"}
    BY DEF CInv, TypeOK, CanMove
  <2>2. CASE pc \in ClientFields \cup ProxyFields \cup {"done"}
    BY <2>2 DEF OnlyPeersAreWaitedFor, CanMove
  <2>3. CASE pc = "relaying"
    <3>1. up \in {"reading", "writing", "ended"} /\ down \in {"reading", "writing", "ended"}
      BY <2>3 DEF CInv, TypeOK, Pumping, PumpPC, CanMove
    <3>2. /\ up = "ended" => upShut
          /\ down = "ended" => downShut
          /\ ~(up = "ended" /\ down = "ended")
      BY <2>3, <3>1 DEF CInv, Pumping, CanMove
    <3>3. cread \in Nat /\ csent \in Nat /\ cread <= csent
          /\ uread \in Nat /\ usent \in Nat /\ uread <= usent
      BY DEF CInv, TypeOK
    <3>4. UpWaits
      BY <3>1, <3>2, <3>3 DEF UpWaits, CanMove
    <3>5. DownWaits
      BY <3>1, <3>2, <3>3 DEF DownWaits, CanMove
    <3> QED BY <2>3, <3>2, <3>4, <3>5 DEF OnlyPeersAreWaitedFor
  <2> QED BY <2>1, <2>2, <2>3
<1> QED BY <1>1, ControlInvariant, PTL
-----------------------------------------------------------------------------
(* The upload: how far the client's stream has been read, where the        *)
(* handler is, and what the other side has got.                            *)
UpFlow ==
    /\ pc \in {"accepting", "greeting"} => cread = 0
    /\ pc = "methods" => cread = 1
    /\ pc = "request" => cread = 2
    /\ pc = "length" => cread = 3 /\ ClientHead = 6
    /\ pc = "address" => cread + 2 = ClientHead
    /\ pc = "port" => cread + 1 = ClientHead
    /\ pc \in ProxyFields \cup {"routing", "connecting", "replying"} => cread = ClientHead
    /\ up = "reading" => Len(upGot) + ClientHead = cread
    /\ up = "writing" => Len(upGot) + ClientHead + 1 = cread
    /\ up \in {"shutting", "ended"} =>
          \/ cend = "reset" \/ uend = "reset"
          \/ cend = "eof" /\ Len(upGot) + ClientHead = csent

LEMMA Fixed ==
  ASSUME [Next]_vars
  PROVE  ask' = ask /\ proxy' = proxy
<1>1. HandlerStep => ask' = ask /\ proxy' = proxy
  BY DEF HandlerStep, Accept, ReadField, ReadFieldFails, DecideRoute, Connect, ReadProxyField,
     ReadHttpHead, ProxyFails, WriteOkReply, Join
<1>2. UpStep \/ DownStep => ask' = ask /\ proxy' = proxy
  BY DEF UpStep, UpRead, UpReadEnds, UpWrite, UpShutdown, DownStep, DownRead, DownReadEnds,
     DownWrite, DownShutdown, PumpUnchanged
<1>3. PeerStep => ask' = ask /\ proxy' = proxy
  BY DEF PeerStep, ClientSends, ClientEnds, FarSends, FarAccepts, FarEnds, OthersUnchanged
<1>4. UNCHANGED vars => ask' = ask /\ proxy' = proxy
  BY DEF vars
<1> QED BY <1>1, <1>2, <1>3, <1>4 DEF Next

(* What the handler leaves to the others.                                  *)
LEMMA HandlerLeaves ==
  ASSUME HandlerStep
  PROVE  /\ UNCHANGED <<csent, cend, usent, uend, upGot, downGot>>
         /\ ~WriteOkReply => UNCHANGED <<up, down>>
         /\ ~ReadField => cread' = cread
         /\ ~ReadProxyField /\ ~ReadHttpHead => uread' = uread
         /\ ~Connect => link' = link
         /\ ~DecideRoute => route' = route
<1>1. CASE ReadField \/ ReadProxyField \/ ReadHttpHead
  BY <1>1 DEF ReadField, ReadProxyField, ReadHttpHead, clientvars, farvars, relayvars
<1>2. CASE DecideRoute \/ Connect
  BY <1>2 DEF DecideRoute, Connect, clientvars, farvars, relayvars
<1>3. CASE WriteOkReply
  BY <1>3 DEF WriteOkReply, clientvars, farvars
<1>4. CASE Accept \/ ReadFieldFails \/ ProxyFails \/ Join
  BY <1>4 DEF Accept, ReadFieldFails, ProxyFails, Join, clientvars, farvars, relayvars
<1> QED BY <1>1, <1>2, <1>3, <1>4 DEF HandlerStep

LEMMA InitUpFlow == Init => UpFlow
BY DEF Init, UpFlow, ProxyFields

LEMMA UpFlowStep ==
  ASSUME CInv, UpFlow, [Next]_vars
  PROVE  UpFlow'
<1>1. PICK h \in {5, 6} : h = ClientHead
  BY UnitTypes DEF CInv
<1>2. ClientHead' = h /\ HasDomain' = HasDomain /\ (HasDomain <=> h = 6)
  BY <1>1, Fixed DEF ClientHead, HasDomain
<1>3. /\ cread \in Nat /\ csent \in Nat /\ cread <= csent /\ upGot \in Seq(Nat)
      /\ Len(upGot) \in Nat
  BY DEF CInv, TypeOK
<1>4. CASE UNCHANGED vars
  <2>1. UNCHANGED <<pc, cread, csent, cend, uend, up, upGot>>
    BY <1>4 DEF vars, clientvars, farvars, relayvars
  <2> QED BY <1>1, <1>2, <2>1 DEF UpFlow
<1>5. CASE HandlerStep /\ ~ReadField /\ ~WriteOkReply
  <2>1. UNCHANGED <<cread, csent, cend, uend, up, upGot>>
    BY <1>5, HandlerLeaves
  <2>2. \/ pc' = "done"
        \/ pc = "accepting" /\ pc' = "greeting"
        \/ /\ pc \in ProxyFields \cup {"routing", "connecting"}
           /\ pc' \in ProxyFields \cup {"connecting", "replying"}
    <3>1. CASE Accept
      BY <3>1 DEF Accept, Goes
    <3>2. CASE ReadFieldFails \/ ProxyFails \/ Join
      BY <3>2 DEF ReadFieldFails, ProxyFails, Join, HandlerReturns
    <3>3. CASE DecideRoute
      BY <3>3 DEF DecideRoute, HandlerReturns, Goes
    <3>4. CASE Connect
      BY <3>4 DEF Connect, HandlerReturns, Goes, ProxyFields
    <3>5. CASE ReadProxyField
      <4>1. pc \in ProxyFields \ {"httpHead"}
            /\ (pc' = AfterProxyField(pc) \/ pc' = "done")
        BY <3>5 DEF ReadProxyField, HandlerReturns, Goes
      <4> QED BY <4>1, ProxyFieldsAre DEF ProxyFields
    <3>6. CASE ReadHttpHead
      BY <3>6 DEF ReadHttpHead, HandlerReturns, Goes, ProxyFields
    <3> QED BY <1>5, <3>1, <3>2, <3>3, <3>4, <3>5, <3>6 DEF HandlerStep
  <2> QED BY <1>1, <1>2, <2>1, <2>2 DEF UpFlow, ProxyFields
<1>6. CASE ReadField
  <2>1. /\ UNCHANGED <<csent, cend, uend, up, upGot>>
        /\ pc \in ClientFields /\ cread' = cread + 1
        /\ pc' = AfterField(pc) \/ pc' = "done"
        /\ up = "unborn"
    BY <1>6 DEF ReadField, clientvars, farvars, relayvars, Goes, HandlerReturns, CInv, Pumping,
       ClientFields
  <2>2. CASE pc' = "done"
    BY <2>1, <2>2 DEF UpFlow, ProxyFields
  <2>3. CASE pc' = AfterField(pc)
    <3>1. \/ pc = "greeting" /\ pc' = "methods"
          \/ pc = "methods" /\ pc' = "request"
          \/ pc = "request" /\ HasDomain /\ pc' = "length"
          \/ pc = "request" /\ ~HasDomain /\ pc' = "address"
          \/ pc = "length" /\ pc' = "address"
          \/ pc = "address" /\ pc' = "port"
          \/ pc = "port" /\ pc' = "routing"
      BY <2>1, <2>3, Fields DEF ClientFields
    <3> QED BY <1>1, <1>2, <1>3, <2>1, <3>1 DEF UpFlow, ProxyFields
  <2> QED BY <2>1, <2>2, <2>3
<1>7. CASE WriteOkReply
  <2>1. /\ pc = "replying" /\ UNCHANGED <<cread, csent, cend, uend, upGot>>
        /\ up = "unborn" /\ upGot = <<>>
        /\ \/ pc' = "relaying" /\ up' = "reading"
           \/ pc' = "done" /\ up' = "unborn"
    BY <1>7 DEF WriteOkReply, clientvars, farvars, CInv, Pumping, Goes, HandlerReturns
  <2>2. cread = h /\ Len(upGot) = 0
    BY <1>1, <2>1 DEF UpFlow
  <2> QED BY <1>2, <1>3, <2>1, <2>2 DEF UpFlow, ProxyFields
<1>8. CASE UpStep
  <2>1. /\ UNCHANGED <<pc, csent, cend, uend>> /\ pc \in {"relaying", "done"}
        /\ up # "unborn"
    BY <1>8 DEF UpStep, UpRead, UpReadEnds, UpWrite, UpShutdown, PumpUnchanged, clientvars, farvars,
       CInv, Pumping
  <2>2. CASE UpRead
    <3>1. up = "reading" /\ up' = "writing" /\ cread' = cread + 1 /\ upGot' = upGot
      BY <2>2 DEF UpRead
    <3> QED BY <1>1, <1>2, <1>3, <2>1, <3>1 DEF UpFlow, ProxyFields
  <2>3. CASE UpReadEnds
    <3>1. /\ up = "reading" /\ up' = "shutting" /\ cread' = cread /\ upGot' = upGot
          /\ cend = "reset" \/ (cend = "eof" /\ cread = csent)
      BY <2>3 DEF UpReadEnds
    <3> QED BY <1>1, <1>2, <1>3, <2>1, <3>1 DEF UpFlow, ProxyFields
  <2>4. CASE UpWrite
    <3>1. /\ up = "writing" /\ cread' = cread
          /\ \/ up' = "reading" /\ upGot' = Append(upGot, UpUnit(cread))
             \/ up' = "shutting" /\ uend = "reset" /\ upGot' = upGot
      BY <2>4 DEF UpWrite
    <3>2. UpUnit(cread) \in Nat
      BY UnitTypes DEF CInv
    <3>3. upGot' = Append(upGot, UpUnit(cread)) => Len(upGot') = Len(upGot) + 1
      BY <1>3, <3>2
    <3> QED BY <1>1, <1>2, <1>3, <2>1, <3>1, <3>3 DEF UpFlow, ProxyFields
  <2>5. CASE UpShutdown
    <3>1. up = "shutting" /\ up' = "ended" /\ cread' = cread /\ upGot' = upGot
      BY <2>5 DEF UpShutdown
    <3> QED BY <1>1, <1>2, <1>3, <2>1, <3>1 DEF UpFlow, ProxyFields
  <2> QED BY <1>8, <2>2, <2>3, <2>4, <2>5 DEF UpStep
<1>9. CASE DownStep
  <2>1. UNCHANGED <<pc, cread, csent, cend, uend, up, upGot>>
    BY <1>9 DEF DownStep, DownRead, DownReadEnds, DownWrite, DownShutdown, PumpUnchanged,
       clientvars, farvars
  <2> QED BY <1>1, <1>2, <2>1 DEF UpFlow
<1>10. CASE PeerStep
  <2>1. /\ UNCHANGED <<pc, cread, up, upGot>>
        /\ cend = "reset" => cend' = "reset"
        /\ uend = "reset" => uend' = "reset"
        /\ cend = "eof" => csent' = csent /\ cend' \in {"eof", "reset"}
    BY <1>10 DEF PeerStep, ClientSends, ClientEnds, FarSends, FarAccepts, FarEnds,
       OthersUnchanged, relayvars, farvars, clientvars
  <2> QED BY <1>1, <1>2, <2>1 DEF UpFlow
<1> QED
  BY <1>4, <1>5, <1>6, <1>7, <1>8, <1>9, <1>10 DEF Next, HandlerStep

LEMMA UpFlowInvariant == Spec => [](CInv /\ UpFlow)
<1>1. Init => UpFlow
  BY InitUpFlow
<1>2. CInv /\ UpFlow /\ [Next]_vars => UpFlow'
  BY UpFlowStep
<1> QED BY <1>1, <1>2, ControlInvariant, PTL DEF Spec

(* A handler that returns has given up, unless it returns from the join.   *)
LEMMA ReturnsBroken ==
  ASSUME CInv, HandlerStep, ~Join
  PROVE  \/ /\ UNCHANGED <<outcome, upShut, downShut>>
         \/ /\ GaveUp' /\ downShut' /\ (upShut' \/ upShut' = upShut)
<1>1. ASSUME NEW how \in Outcomes \ {"none", "relayed"}, HandlerReturns(how)
      PROVE  GaveUp' /\ downShut' /\ (upShut' \/ upShut' = upShut)
  <2>1. GaveUp' /\ downShut'
    BY <1>1 DEF HandlerReturns, GaveUp
  <2>2. upShut \in BOOLEAN
    BY DEF CInv, TypeOK
  <2>3. CASE link = "up" /\ route # "tunnel"
    BY <1>1, <2>1, <2>3 DEF HandlerReturns
  <2>4. CASE ~(link = "up" /\ route # "tunnel")
    BY <1>1, <2>1, <2>2, <2>4 DEF HandlerReturns
  <2> QED BY <2>3, <2>4
<1>2. ASSUME NEW label, Goes(label)
      PROVE  UNCHANGED <<outcome, upShut, downShut>>
  BY <1>2 DEF Goes
<1>3. (\E how \in Outcomes \ {"none", "relayed"} : HandlerReturns(how)) \/ (\E label : Goes(label))
  <2>1. Accept \/ ReadField \/ ReadFieldFails => HandlerReturns("refused") \/ \E label : Goes(label)
    BY DEF Accept, ReadField, ReadFieldFails
  <2>2. DecideRoute => HandlerReturns("udp") \/ HandlerReturns("unconnected") \/ \E label : Goes(label)
    BY DEF DecideRoute
  <2>3. Connect \/ ReadProxyField \/ ReadHttpHead \/ ProxyFails
          => HandlerReturns("unconnected") \/ \E label : Goes(label)
    BY DEF Connect, ReadProxyField, ReadHttpHead, ProxyFails
  <2>4. WriteOkReply => HandlerReturns("uncloned") \/ HandlerReturns("unreplied") \/ \E label : Goes(label)
    BY DEF WriteOkReply
  <2>5. {"refused", "udp", "unconnected", "uncloned", "unreplied"} \subseteq Outcomes \ {"none", "relayed"}
    BY DEF Outcomes
  <2> QED BY <2>1, <2>2, <2>3, <2>4, <2>5 DEF HandlerStep
<1> QED BY <1>1, <1>2, <1>3

LEMMA UpPipeStep ==
  ASSUME CInv, UpFlow, [Next]_vars
  PROVE  [UpPipe!PipeNext]_UpPipe!pipeVars
<1> USE DEF UpPipe!PipeNext, UpPipe!pipeVars
<1>1. /\ UpUnit(csent) \in Nat /\ upGot \in Seq(Nat) /\ Len(upGot) \in Nat
      /\ cread \in Nat /\ csent \in Nat /\ cread <= csent
  BY UnitTypes DEF CInv, TypeOK
<1>2. PICK h \in {5, 6} : h = ClientHead /\ h = ClientHead'
  <2>1. ClientHead' = ClientHead
    BY Fixed DEF ClientHead, HasDomain
  <2> QED BY <2>1, UnitTypes DEF CInv
<1>3. /\ UpUnit(csent) = IF csent > h THEN csent - h ELSE 0
      /\ UpUnit(cread) = IF cread > h THEN cread - h ELSE 0
      /\ UpUnit(csent)' = IF csent' > h THEN csent' - h ELSE 0
  BY <1>2 DEF UpUnit
<1>units. h \in Nat /\ csent \in Nat /\ cread \in Nat /\ cread <= csent
  BY <1>1
<1>4. UNCHANGED csent => UNCHANGED UpUnit(csent)
  BY <1>3
<1>5. UNCHANGED <<cend, uend, outcome>> => UNCHANGED UpSender
  BY DEF UpSender, Broken, GaveUp
<1>6. CASE UNCHANGED vars
  <2>1. UNCHANGED <<csent, cend, uend, outcome, upGot, upShut>>
    BY <1>6 DEF vars, clientvars, farvars, relayvars
  <2> QED BY <1>4, <1>5, <2>1
<1>7. CASE HandlerStep /\ ~Join
  <2>1. UNCHANGED <<csent, cend, uend, upGot>>
    BY <1>7, HandlerLeaves
  <2>2. CASE UNCHANGED <<outcome, upShut, downShut>>
    BY <1>4, <1>5, <2>1, <2>2
  <2>3. CASE GaveUp' /\ (upShut' \/ upShut' = upShut)
    <3>1. UpSender' = "broken"
      BY <2>3 DEF UpSender, Broken
    <3>2. upShut' \in BOOLEAN
      BY TypeStep DEF CInv, TypeOK
    <3>3. CASE upShut'
      BY <1>4, <2>1, <3>1, <3>2, <3>3 DEF UpPipe!End
    <3>4. CASE upShut' = upShut
      BY <1>4, <2>1, <3>1, <3>4 DEF UpPipe!Break
    <3> QED BY <2>3, <3>3, <3>4
  <2> QED BY <1>7, <2>2, <2>3, ReturnsBroken
<1>8. CASE Join
  <2>1. UNCHANGED <<csent, cend, uend, upGot>>
    BY <1>8, HandlerLeaves DEF HandlerStep
  <2>2. /\ pc = "relaying" /\ up = "ended" /\ outcome' = "relayed"
        /\ upShut' = (upShut \/ (link = "up" /\ route # "tunnel"))
    BY <1>8 DEF Join, HandlerReturns
  <2>3. outcome = "none" /\ upShut
    BY <2>2 DEF CInv, Pumping
  <2>4. ~GaveUp /\ ~GaveUp'
    BY <2>2, <2>3 DEF GaveUp
  <2>5. UNCHANGED UpSender
    BY <2>1, <2>4 DEF UpSender, Broken
  <2>6. upShut' = upShut
    <3>1. upShut \in BOOLEAN
      BY DEF CInv, TypeOK
    <3> QED BY <2>2, <2>3, <3>1
  <2> QED BY <1>4, <2>1, <2>5, <2>6
<1>9. CASE UpStep
  <2>1. UNCHANGED <<csent, cend, uend, outcome>> /\ UNCHANGED UpUnit(csent) /\ UNCHANGED UpSender
    <3>1. UNCHANGED <<csent, cend, uend, outcome>>
      BY <1>9 DEF UpStep, UpRead, UpReadEnds, UpWrite, UpShutdown, PumpUnchanged, clientvars, farvars
    <3> QED BY <1>4, <1>5, <3>1
  <2>2. CASE UpRead \/ UpReadEnds
    <3>1. UNCHANGED <<upGot, upShut>>
      BY <2>2 DEF UpRead, UpReadEnds
    <3> QED BY <2>1, <3>1
  <2>3. CASE UpWrite
    <3>1. up = "writing" /\ upShut' = upShut
          /\ (upGot' = Append(upGot, UpUnit(cread)) \/ upGot' = upGot)
      BY <2>3 DEF UpWrite
    <3>2. Len(upGot) + h + 1 = cread /\ ~upShut
      BY <1>2, <3>1 DEF UpFlow, CInv, Pumping
    <3>3. UpUnit(cread) = Len(upGot) + 1 /\ Len(upGot) < UpUnit(csent)
      BY <1>1, <1>2, <1>3, <3>2
    <3>4. CASE upGot' = Append(upGot, UpUnit(cread))
      BY <2>1, <3>1, <3>2, <3>3, <3>4 DEF UpPipe!Deliver
    <3>5. CASE upGot' = upGot
      BY <2>1, <3>1, <3>5
    <3> QED BY <3>1, <3>4, <3>5
  <2>4. CASE UpShutdown
    <3>1. up = "shutting" /\ upShut' = TRUE /\ upGot' = upGot
      BY <2>4 DEF UpShutdown
    <3>2. cend = "reset" \/ uend = "reset" \/ (cend = "eof" /\ Len(upGot) + h = csent)
      BY <1>2, <3>1 DEF UpFlow
    <3>3. CASE Broken
      <4>1. UpSender = "broken"
        BY <3>3 DEF UpSender
      <4> QED BY <2>1, <3>1, <4>1 DEF UpPipe!End
    <3>4. CASE ~Broken
      <4>1. cend = "eof" /\ Len(upGot) + h = csent
        BY <3>2, <3>4 DEF Broken
      <4>2. UpSender = "finished"
        BY <3>4, <4>1 DEF UpSender
      <4>3. Len(upGot) = UpUnit(csent)
        BY <1>units, <1>3, <4>1
      <4> QED BY <2>1, <3>1, <4>2, <4>3 DEF UpPipe!End
    <3> QED BY <3>3, <3>4
  <2> QED BY <1>9, <2>2, <2>3, <2>4 DEF UpStep
<1>10. CASE DownStep
  <2>1. UNCHANGED <<csent, cend, uend, outcome, upGot, upShut>>
    BY <1>10 DEF DownStep, DownRead, DownReadEnds, DownWrite, DownShutdown, PumpUnchanged,
       clientvars, farvars
  <2> QED BY <1>4, <1>5, <2>1
<1>11. CASE PeerStep
  <2>1. UNCHANGED <<outcome, upGot, upShut>>
    BY <1>11 DEF PeerStep, ClientSends, ClientEnds, FarSends, FarAccepts, FarEnds,
       OthersUnchanged, relayvars
  <2>2. CASE ClientSends
    <3>1. cend = "open" /\ csent' = csent + 1 /\ UNCHANGED <<cend, uend>>
      BY <2>2 DEF ClientSends, farvars
    <3>2. UpSender # "finished" /\ UNCHANGED UpSender
      BY <1>5, <2>1, <3>1 DEF UpSender
    <3>3. CASE csent + 1 > h
      <4>1. UpUnit(csent)' = UpUnit(csent) + 1
        BY <1>units, <1>3, <3>1, <3>3
      <4> QED BY <2>1, <3>2, <4>1 DEF UpPipe!Send
    <3>4. CASE ~(csent + 1 > h)
      <4>1. UNCHANGED UpUnit(csent)
        BY <1>units, <1>3, <3>1, <3>4
      <4> QED BY <2>1, <3>2, <4>1
    <3> QED BY <3>3, <3>4
  <2>3. CASE ClientEnds \/ FarEnds \/ FarAccepts
    <3>1. /\ csent' = csent
          /\ cend' # cend => cend' \in {"eof", "reset"} /\ cend # "reset"
          /\ cend' = "eof" => cend \in {"open", "eof"}
          /\ uend = "reset" => uend' = "reset"
      BY <2>3 DEF ClientEnds, FarEnds, FarAccepts, clientvars, farvars
    <3>2. GaveUp' = GaveUp
      BY <2>1 DEF GaveUp
    <3>3. CASE Broken'
      <4>1. UpSender' = "broken"
        BY <3>3 DEF UpSender
      <4> QED BY <1>4, <2>1, <3>1, <4>1 DEF UpPipe!Break
    <3>4. CASE ~Broken'
      <4>1. ~Broken
        BY <3>1, <3>2, <3>4 DEF Broken
      <4>2. CASE cend' = cend
        <5>1. UNCHANGED UpSender
          BY <3>4, <4>1, <4>2 DEF UpSender
        <5> QED BY <1>4, <2>1, <3>1, <5>1
      <4>3. CASE cend' # cend
        <5>1. cend = "open" /\ cend' = "eof"
          BY <3>1, <3>4, <4>3 DEF Broken
        <5>2. UpSender = "open" /\ UpSender' = "finished"
          BY <3>4, <4>1, <5>1 DEF UpSender
        <5> QED BY <1>4, <2>1, <3>1, <5>2 DEF UpPipe!Finish
      <4> QED BY <4>2, <4>3
    <3> QED BY <3>3, <3>4
  <2>4. CASE FarSends
    <3>1. UNCHANGED <<csent, cend, uend>>
      BY <2>4 DEF FarSends, clientvars
    <3> QED BY <1>4, <1>5, <2>1, <3>1
  <2> QED BY <1>11, <2>2, <2>3, <2>4 DEF PeerStep
<1> QED
  BY <1>6, <1>7, <1>8, <1>9, <1>10, <1>11 DEF Next

(* The upload is a pipe: the request's bytes stay out of it, no data unit  *)
(* is lost, repeated or invented, and the other side is told the end only  *)
(* behind everything (socks_wire.rs 19-118, socks.rs 601-679).             *)
THEOREM SessionUploadIsAPipe == Spec => UploadIsAPipe
<1>1. Init => UpPipe!PipeInit
  <2> SUFFICES ASSUME Init PROVE UpPipe!PipeInit
    OBVIOUS
  <2>1. UpUnit(csent) = 0
    BY UnitTypes, InitControl DEF Init, UpUnit, CInv
  <2>2. UpSender = "open"
    BY DEF Init, UpSender, Broken, GaveUp
  <2> QED BY <2>1, <2>2 DEF Init, UpPipe!PipeInit
<1>2. CInv /\ UpFlow /\ [Next]_vars => [UpPipe!PipeNext]_UpPipe!pipeVars
  BY UpPipeStep
<1> QED BY <1>1, <1>2, UpFlowInvariant, PTL DEF Spec, UploadIsAPipe, UpPipe!PipeSpec
-----------------------------------------------------------------------------
(* The download: how far the other side's stream has been read, where the  *)
(* handler is, and what the client has got.                                *)
DownFlow ==
    /\ link = "none" => usent = 0 /\ uread = 0
    /\ pc = "proxyMethod" => uread = 0
    /\ pc = "proxyReply" => uread = 1
    /\ pc = "proxyLength" => uread = 2 /\ proxy.bound = "domain"
    /\ pc = "proxyAddress" => uread + 2 = ProxyHead
    /\ pc = "proxyPort" => uread + 1 = ProxyHead
    /\ pc = "httpHead" => uread < ProxyHead
    /\ pc = "replying" => uread = ProxyHead
    /\ down = "reading" => Len(downGot) + ProxyHead = uread
    /\ down = "writing" => Len(downGot) + ProxyHead + 1 = uread
    /\ down \in {"shutting", "ended"} =>
          \/ cend = "reset" \/ uend = "reset"
          \/ uend = "eof" /\ Len(downGot) + ProxyHead = usent

LEMMA ProxyHeads ==
  ASSUME CInv
  PROVE  /\ route = "http" /\ proxy.kind = "http" => ProxyHead = proxy.size /\ proxy.size \in Nat \ {0}
         /\ route = "socks5" => ProxyHead = IF proxy.bound = "domain" THEN 5 ELSE 4
         /\ route \notin {"http", "socks5"} => ProxyHead = 0
<1>1. proxy \in ProxyAnswer
  BY SessionAssumption DEF CInv, TypeOK
<1>2. proxy.kind = "http" => proxy.size \in Nat \ {0}
  BY <1>1 DEF ProxyAnswer
<1> QED BY <1>2 DEF ProxyHead

LEMMA InitDownFlow == Init => DownFlow
BY DEF Init, DownFlow

LEMMA DownFlowStep ==
  ASSUME CInv, DownFlow, [Next]_vars
  PROVE  DownFlow'
<1>1. PICK h \in Nat : h = ProxyHead
  BY UnitTypes DEF CInv
<1>2. route' = route => ProxyHead' = h
  BY <1>1, Fixed DEF ProxyHead
<1>3. proxy' = proxy
  BY Fixed
<1>4. /\ uread \in Nat /\ usent \in Nat /\ uread <= usent /\ downGot \in Seq(Nat)
      /\ Len(downGot) \in Nat
  BY DEF CInv, TypeOK
<1>5. CASE UNCHANGED vars
  <2>1. UNCHANGED <<pc, route, link, uread, usent, cend, uend, down, downGot>>
    BY <1>5 DEF vars, clientvars, farvars, relayvars
  <2> QED BY <1>1, <1>2, <1>3, <2>1 DEF DownFlow
<1>6. CASE Accept \/ ReadField \/ ReadFieldFails \/ ProxyFails \/ Join
  <2>1. UNCHANGED <<route, link, uread, usent, cend, uend, down, downGot>>
    <3>1. CASE ReadField \/ ReadFieldFails
      BY <3>1 DEF ReadField, ReadFieldFails, clientvars, farvars, relayvars
    <3>2. CASE Accept \/ ProxyFails \/ Join
      BY <3>2 DEF Accept, ProxyFails, Join, clientvars, farvars, relayvars
    <3> QED BY <1>6, <3>1, <3>2
  <2>2. pc' \in ClientFields \cup {"routing", "done"}
    <3>1. ReadField => pc' = AfterField(pc) \/ pc' = "done"
      BY DEF ReadField, Goes, HandlerReturns
    <3>2. ReadField => pc' \in ClientFields \cup {"routing", "done"}
      BY <3>1, Fields DEF ReadField, ClientFields
    <3> QED BY <1>6, <3>2 DEF Accept, ReadFieldFails, ProxyFails, Join, Goes, HandlerReturns,
               ClientFields
  <2> QED BY <1>1, <1>2, <2>1, <2>2 DEF DownFlow, ClientFields
<1>7. CASE DecideRoute
  <2>1. /\ UNCHANGED <<link, uread, usent, down>> /\ pc' \in {"connecting", "done"}
        /\ link = "none" /\ down = "unborn"
    BY <1>7 DEF DecideRoute, farvars, relayvars, Goes, HandlerReturns, CInv, Pumping, Admitted,
       ClientFields
  <2> QED BY <2>1 DEF DownFlow
<1>8. CASE Connect
  <2>1. /\ UNCHANGED <<route, uread, usent, down>> /\ pc = "connecting" /\ link = "none"
        /\ down = "unborn" /\ route \in {"tunnel", "direct", proxy.kind}
    BY <1>8 DEF Connect, farvars, relayvars, CInv, Pumping, Admitted
  <2>2. uread = 0 /\ usent = 0
    BY <2>1 DEF DownFlow
  <2>3. proxy.kind \in {"socks5", "http"}
    <3>1. proxy \in ProxyAnswer
      BY SessionAssumption DEF CInv, TypeOK
    <3> QED BY <3>1 DEF ProxyAnswer
  <2>4. \/ pc' = "done"
        \/ pc' = "proxyMethod"
        \/ pc' = "httpHead" /\ h # 0
        \/ pc' = "replying" /\ h = 0
    <3>1. \/ pc' = "done"
          \/ pc' = "proxyMethod"
          \/ pc' = "httpHead" /\ route = "http"
          \/ pc' = "replying" /\ route \notin {"socks5", "http"}
      BY <1>8 DEF Connect, Goes, HandlerReturns
    <3>2. route = "http" => h # 0
      BY <1>1, <2>1, <2>3, ProxyHeads
    <3>3. route \notin {"socks5", "http"} => h = 0
      BY <1>1, ProxyHeads
    <3> QED BY <3>1, <3>2, <3>3
  <2>5. ProxyHead' = h
    BY <1>2, <2>1
  <2>6. CASE pc' \in {"done", "proxyMethod"}
    BY <2>1, <2>2, <2>6 DEF DownFlow
  <2>7. CASE pc' = "httpHead" /\ h # 0
    <3>1. uread' < ProxyHead'
      BY <2>1, <2>2, <2>5, <2>7
    <3> QED BY <2>1, <2>2, <2>7, <3>1 DEF DownFlow
  <2>8. CASE pc' = "replying" /\ h = 0
    <3>1. uread' = ProxyHead'
      BY <2>1, <2>2, <2>5, <2>8
    <3> QED BY <2>1, <2>2, <2>8, <3>1 DEF DownFlow
  <2> QED BY <2>4, <2>6, <2>7, <2>8
<1>9. CASE ReadProxyField
  <2>1. /\ UNCHANGED <<route, link, usent, cend, uend, down, downGot>> /\ link # "none"
        /\ uread' = uread + 1 /\ pc \in ProxyFields \ {"httpHead"} /\ route = "socks5"
        /\ down = "unborn" /\ (pc' = AfterProxyField(pc) \/ pc' = "done")
    <3>1. /\ UNCHANGED <<route, link, usent, cend, uend, down, downGot>>
          /\ uread' = uread + 1 /\ pc \in ProxyFields \ {"httpHead"}
      BY <1>9 DEF ReadProxyField, clientvars, farvars, relayvars
    <3>2. pc' = AfterProxyField(pc) \/ pc' = "done"
      BY <1>9 DEF ReadProxyField, Goes, HandlerReturns
    <3>3. link # "none" /\ route = "socks5" /\ down = "unborn"
      BY <3>1 DEF CInv, Pumping, Admitted, ProxyFields
    <3> QED BY <3>1, <3>2, <3>3
  <2>2. h = IF proxy.bound = "domain" THEN 5 ELSE 4
    BY <1>1, <2>1, ProxyHeads
  <2>3. \/ pc' = "done"
        \/ pc = "proxyMethod" /\ pc' = "proxyReply"
        \/ pc = "proxyReply" /\ pc' = "proxyLength" /\ proxy.bound = "domain"
        \/ pc = "proxyReply" /\ pc' = "proxyAddress" /\ proxy.bound # "domain"
        \/ pc = "proxyLength" /\ pc' = "proxyAddress"
        \/ pc = "proxyAddress" /\ pc' = "proxyPort"
        \/ pc = "proxyPort" /\ pc' = "replying"
    BY <2>1, ProxyFieldsAre DEF ProxyFields
  <2>4. ProxyHead' = h
    BY <1>2, <2>1
  <2>5. CASE pc' = "done" \/ (pc = "proxyMethod" /\ pc' = "proxyReply")
    BY <1>4, <2>1, <2>5 DEF DownFlow
  <2>6. CASE pc = "proxyReply"
    BY <1>3, <1>4, <2>1, <2>2, <2>3, <2>4, <2>6 DEF DownFlow
  <2>7. CASE pc = "proxyLength"
    BY <1>3, <1>4, <2>1, <2>2, <2>3, <2>4, <2>7 DEF DownFlow
  <2>8. CASE pc \in {"proxyAddress", "proxyPort"}
    BY <1>1, <1>3, <1>4, <2>1, <2>3, <2>4, <2>8 DEF DownFlow
  <2> QED BY <2>3, <2>5, <2>6, <2>7, <2>8
<1>10. CASE ReadHttpHead
  <2>1. /\ UNCHANGED <<route, link, usent, cend, uend, down, downGot>> /\ link # "none"
        /\ uread' = uread + 1 /\ pc = "httpHead" /\ down = "unborn"
        /\ \/ pc' = "done"
           \/ pc' = "replying" /\ uread + 1 = ProxyHead
           \/ pc' = "httpHead" /\ uread + 1 # ProxyHead
    <3>1. /\ UNCHANGED <<route, link, usent, cend, uend, down, downGot>>
          /\ uread' = uread + 1 /\ pc = "httpHead"
      BY <1>10 DEF ReadHttpHead, clientvars, farvars, relayvars
    <3>2. \/ pc' = "done"
          \/ pc' = "replying" /\ uread + 1 = ProxyHead
          \/ pc' = "httpHead" /\ uread + 1 # ProxyHead
      BY <1>10 DEF ReadHttpHead, Goes, HandlerReturns
    <3>3. link # "none" /\ down = "unborn"
      BY <3>1 DEF CInv, Pumping, Admitted, ProxyFields
    <3> QED BY <3>1, <3>2, <3>3
  <2>2. uread < ProxyHead /\ ProxyHead' = h
    BY <1>2, <2>1 DEF DownFlow
  <2>3. CASE pc' = "done"
    BY <2>1, <2>3 DEF DownFlow
  <2>4. CASE pc' = "replying" /\ uread + 1 = ProxyHead
    <3>1. uread' = ProxyHead'
      BY <1>1, <2>1, <2>2, <2>4
    <3> QED BY <2>1, <2>4, <3>1 DEF DownFlow
  <2>5. CASE pc' = "httpHead" /\ uread + 1 # ProxyHead
    <3>1. uread' < ProxyHead'
      BY <1>1, <1>4, <2>1, <2>2, <2>5
    <3> QED BY <2>1, <2>5, <3>1 DEF DownFlow
  <2> QED BY <2>1, <2>3, <2>4, <2>5
<1>11. CASE WriteOkReply
  <2>1. /\ pc = "replying" /\ UNCHANGED <<route, link, uread, usent, downGot>>
        /\ link # "none" /\ down = "unborn" /\ downGot = <<>>
        /\ \/ pc' = "relaying" /\ down' = "reading"
           \/ pc' = "done" /\ down' = "unborn"
    BY <1>11 DEF WriteOkReply, farvars, CInv, Pumping, Goes, HandlerReturns, Admitted
  <2>2. uread = h /\ Len(downGot) = 0
    BY <1>1, <2>1 DEF DownFlow
  <2> QED BY <1>2, <1>4, <2>1, <2>2 DEF DownFlow
<1>12. CASE DownStep
  <2>1. /\ UNCHANGED <<pc, route, link, usent, cend, uend>> /\ pc \in {"relaying", "done"}
        /\ down # "unborn" /\ link # "none"
    BY <1>12 DEF DownStep, DownRead, DownReadEnds, DownWrite, DownShutdown, PumpUnchanged,
       clientvars, farvars, CInv, Pumping, Admitted
  <2> DEFINE n == Len(downGot)
             m == Len(downGot')
             Rows == /\ down' = "reading" => m + h = uread'
                     /\ down' = "writing" => m + h + 1 = uread'
                     /\ down' \in {"shutting", "ended"} =>
                           \/ cend = "reset" \/ uend = "reset"
                           \/ uend = "eof" /\ m + h = usent
  <2>2. ProxyHead = h /\ ProxyHead' = h
    BY <1>1, <1>2, <2>1
  <2>3. Rows => DownFlow'
    BY <2>1, <2>2 DEF DownFlow
  <2>4. /\ down = "reading" => n + h = uread
        /\ down = "writing" => n + h + 1 = uread
        /\ down = "shutting" =>
              \/ cend = "reset" \/ uend = "reset"
              \/ uend = "eof" /\ n + h = usent
    BY <2>2 DEF DownFlow
  <2>5. CASE DownRead
    <3>1. down = "reading" /\ down' = "writing" /\ uread' = uread + 1 /\ m = n
      BY <2>5 DEF DownRead
    <3>2. Rows
      BY <2>4, <3>1
    <3> QED BY <2>3, <3>2
  <2>6. CASE DownReadEnds
    <3>1. /\ down = "reading" /\ down' = "shutting" /\ uread' = uread /\ m = n
          /\ uend = "reset" \/ (uend = "eof" /\ uread = usent)
      BY <2>6 DEF DownReadEnds
    <3>2. Rows
      BY <2>4, <3>1
    <3> QED BY <2>3, <3>2
  <2>7. CASE DownWrite
    <3>1. /\ down = "writing" /\ uread' = uread
          /\ \/ down' = "reading" /\ downGot' = Append(downGot, DownUnit(uread))
             \/ down' = "shutting" /\ cend = "reset" /\ downGot' = downGot
      BY <2>7 DEF DownWrite
    <3>2. DownUnit(uread) \in Nat
      BY UnitTypes DEF CInv
    <3>3. downGot' = Append(downGot, DownUnit(uread)) => m = n + 1
      BY <1>4, <3>2
    <3>4. n \in Nat /\ uread \in Nat
      BY <1>4
    <3>5. Rows
      BY <2>4, <3>1, <3>3, <3>4
    <3> QED BY <2>3, <3>5
  <2>8. CASE DownShutdown
    <3>1. down = "shutting" /\ down' = "ended" /\ uread' = uread /\ m = n
      BY <2>8 DEF DownShutdown
    <3>2. Rows
      BY <2>4, <3>1
    <3> QED BY <2>3, <3>2
  <2> QED BY <1>12, <2>5, <2>6, <2>7, <2>8 DEF DownStep
<1>13. CASE UpStep
  <2>1. UNCHANGED <<pc, route, link, uread, usent, cend, uend, down, downGot>>
    BY <1>13 DEF UpStep, UpRead, UpReadEnds, UpWrite, UpShutdown, PumpUnchanged,
       clientvars, farvars
  <2> QED BY <1>1, <1>2, <1>3, <2>1 DEF DownFlow
<1>14. CASE PeerStep
  <2>1. /\ UNCHANGED <<pc, route, uread, down, downGot>>
        /\ cend = "reset" => cend' = "reset"
        /\ uend = "reset" => uend' = "reset"
        /\ uend = "eof" => usent' = usent /\ uend' \in {"eof", "reset"}
        /\ link = "none" => usent' = usent
        /\ link' = "none" => link = "none"
    BY <1>14 DEF PeerStep, ClientSends, ClientEnds, FarSends, FarAccepts, FarEnds,
       OthersUnchanged, relayvars, farvars, clientvars
  <2> QED BY <1>1, <1>2, <1>3, <2>1 DEF DownFlow
<1> QED
  BY <1>5, <1>6, <1>7, <1>8, <1>9, <1>10, <1>11, <1>12, <1>13, <1>14 DEF Next, HandlerStep

LEMMA DownFlowInvariant == Spec => [](CInv /\ DownFlow)
<1>1. Init => DownFlow
  BY InitDownFlow
<1>2. CInv /\ DownFlow /\ [Next]_vars => DownFlow'
  BY DownFlowStep
<1> QED BY <1>1, <1>2, ControlInvariant, PTL DEF Spec

LEMMA DownPipeStep ==
  ASSUME CInv, DownFlow, [Next]_vars
  PROVE  [DownPipe!PipeNext]_DownPipe!pipeVars
<1> USE DEF DownPipe!PipeNext, DownPipe!pipeVars
<1>1. PICK h \in Nat : h = ProxyHead
  BY UnitTypes DEF CInv
<1>2. /\ uread \in Nat /\ usent \in Nat /\ uread <= usent /\ downGot \in Seq(Nat)
      /\ Len(downGot) \in Nat
  BY DEF CInv, TypeOK
<1>3. /\ DownUnit(usent) = IF usent > h THEN usent - h ELSE 0
      /\ DownUnit(uread) = IF uread > h THEN uread - h ELSE 0
  BY <1>1 DEF DownUnit
<1>4. route' = route => DownUnit(usent)' = IF usent' > h THEN usent' - h ELSE 0
  BY <1>1, Fixed DEF DownUnit, ProxyHead
<1>5. UNCHANGED <<route, usent>> => UNCHANGED DownUnit(usent)
  BY <1>3, <1>4
<1>6. UNCHANGED <<cend, uend, outcome>> => UNCHANGED DownSender
  BY DEF DownSender, Broken, GaveUp
<1>7. CASE UNCHANGED vars
  <2>1. UNCHANGED <<route, usent, cend, uend, outcome, downGot, downShut>>
    BY <1>7 DEF vars, clientvars, farvars, relayvars
  <2> QED BY <1>5, <1>6, <2>1
<1>8. CASE HandlerStep /\ ~Join
  <2>1. UNCHANGED <<usent, cend, uend, downGot>>
    BY <1>8, HandlerLeaves
  <2>2. UNCHANGED DownUnit(usent)
    <3>1. CASE DecideRoute
      <4>1. link = "none" /\ usent' = 0 /\ usent = 0
        BY <2>1, <3>1 DEF DecideRoute, DownFlow, CInv, Admitted
      <4>2. ProxyHead' \in Nat
        <5>1. TypeOK'
          BY TypeStep DEF CInv
        <5>2. proxy' \in ProxyAnswer
          BY <5>1, SessionAssumption DEF TypeOK
        <5>3. route' = "http" => proxy'.size \in Nat
          BY <5>1, <5>2 DEF TypeOK, ProxyAnswer
        <5> QED BY <5>3 DEF ProxyHead
      <4>3. DownUnit(usent)' = IF usent' > ProxyHead' THEN usent' - ProxyHead' ELSE 0
        BY DEF DownUnit
      <4> QED BY <1>1, <1>3, <4>1, <4>2, <4>3
    <3>2. CASE ~DecideRoute
      BY <1>5, <1>8, <2>1, <3>2, HandlerLeaves
    <3> QED BY <3>1, <3>2
  <2>3. CASE UNCHANGED <<outcome, upShut, downShut>>
    BY <1>6, <2>1, <2>2, <2>3
  <2>4. CASE GaveUp' /\ downShut'
    <3>1. DownSender' = "broken"
      BY <2>4 DEF DownSender, Broken
    <3>2. downShut' = TRUE
      <4>1. downShut' \in BOOLEAN
        BY TypeStep DEF CInv, TypeOK
      <4> QED BY <2>4, <4>1
    <3> QED BY <2>1, <2>2, <3>1, <3>2 DEF DownPipe!End
  <2> QED BY <1>8, <2>3, <2>4, ReturnsBroken
<1>9. CASE Join
  <2>1. UNCHANGED <<route, usent, cend, uend, downGot>>
    BY <1>9 DEF Join, clientvars, farvars, relayvars
  <2>2. pc = "relaying" /\ down = "ended" /\ outcome' = "relayed" /\ downShut' = TRUE
    BY <1>9 DEF Join, HandlerReturns
  <2>3. outcome = "none" /\ downShut
    BY <2>2 DEF CInv, Pumping
  <2>4. ~GaveUp /\ ~GaveUp'
    BY <2>2, <2>3 DEF GaveUp
  <2>5. UNCHANGED DownSender
    BY <2>1, <2>4 DEF DownSender, Broken
  <2>6. downShut' = downShut
    <3>1. downShut \in BOOLEAN
      BY DEF CInv, TypeOK
    <3> QED BY <2>2, <2>3, <3>1
  <2> QED BY <1>5, <2>1, <2>5, <2>6
<1>10. CASE DownStep
  <2>1. UNCHANGED DownUnit(usent) /\ UNCHANGED DownSender
    <3>1. UNCHANGED <<route, usent, cend, uend, outcome>>
      BY <1>10 DEF DownStep, DownRead, DownReadEnds, DownWrite, DownShutdown, PumpUnchanged,
         clientvars, farvars
    <3> QED BY <1>5, <1>6, <3>1
  <2>2. CASE DownRead \/ DownReadEnds
    <3>1. UNCHANGED <<downGot, downShut>>
      BY <2>2 DEF DownRead, DownReadEnds
    <3> QED BY <2>1, <3>1
  <2>3. CASE DownWrite
    <3>1. down = "writing" /\ downShut' = downShut
          /\ (downGot' = Append(downGot, DownUnit(uread)) \/ downGot' = downGot)
      BY <2>3 DEF DownWrite
    <3>2. ~downShut
      BY <3>1 DEF CInv, Pumping
    <3>3. Len(downGot) + h + 1 = uread
      BY <1>1, <3>1 DEF DownFlow
    <3>4. DownUnit(uread) = Len(downGot) + 1 /\ Len(downGot) < DownUnit(usent)
      BY <1>2, <1>3, <3>3
    <3>5. CASE downGot' = Append(downGot, DownUnit(uread))
      BY <2>1, <3>1, <3>2, <3>4, <3>5 DEF DownPipe!Deliver
    <3>6. CASE downGot' = downGot
      BY <2>1, <3>1, <3>6
    <3> QED BY <3>1, <3>5, <3>6
  <2>4. CASE DownShutdown
    <3>1. down = "shutting" /\ downShut' = TRUE /\ downGot' = downGot
      BY <2>4 DEF DownShutdown
    <3>2. cend = "reset" \/ uend = "reset" \/ (uend = "eof" /\ Len(downGot) + h = usent)
      BY <1>1, <3>1 DEF DownFlow
    <3>3. CASE Broken
      <4>1. DownSender = "broken"
        BY <3>3 DEF DownSender
      <4> QED BY <2>1, <3>1, <4>1 DEF DownPipe!End
    <3>4. CASE ~Broken
      <4>1. uend = "eof" /\ Len(downGot) + h = usent
        BY <3>2, <3>4 DEF Broken
      <4>2. DownSender = "finished"
        BY <3>4, <4>1 DEF DownSender
      <4>3. Len(downGot) = DownUnit(usent)
        BY <1>2, <1>3, <4>1
      <4> QED BY <2>1, <3>1, <4>2, <4>3 DEF DownPipe!End
    <3> QED BY <3>3, <3>4
  <2> QED BY <1>10, <2>2, <2>3, <2>4 DEF DownStep
<1>11. CASE UpStep
  <2>1. UNCHANGED <<route, usent, cend, uend, outcome, downGot, downShut>>
    BY <1>11 DEF UpStep, UpRead, UpReadEnds, UpWrite, UpShutdown, PumpUnchanged,
       clientvars, farvars
  <2> QED BY <1>5, <1>6, <2>1
<1>12. CASE PeerStep
  <2>1. UNCHANGED <<route, outcome, downGot, downShut>>
    BY <1>12 DEF PeerStep, ClientSends, ClientEnds, FarSends, FarAccepts, FarEnds,
       OthersUnchanged, relayvars
  <2>2. CASE FarSends
    <3>1. uend = "open" /\ usent' = usent + 1 /\ UNCHANGED <<cend, uend>>
      BY <2>2 DEF FarSends, clientvars
    <3>2. DownSender # "finished" /\ UNCHANGED DownSender
      BY <1>6, <2>1, <3>1 DEF DownSender
    <3>3. CASE usent + 1 > h
      <4>1. DownUnit(usent)' = DownUnit(usent) + 1
        BY <1>2, <1>3, <1>4, <2>1, <3>1, <3>3
      <4> QED BY <2>1, <3>2, <4>1 DEF DownPipe!Send
    <3>4. CASE ~(usent + 1 > h)
      <4>1. UNCHANGED DownUnit(usent)
        BY <1>2, <1>3, <1>4, <2>1, <3>1, <3>4
      <4> QED BY <2>1, <3>2, <4>1
    <3> QED BY <3>3, <3>4
  <2>3. CASE ClientEnds \/ FarEnds \/ FarAccepts
    <3>1. /\ usent' = usent
          /\ uend' # uend => uend' \in {"eof", "reset"} /\ uend # "reset"
          /\ uend' = "eof" => uend \in {"open", "eof"}
          /\ cend = "reset" => cend' = "reset"
      BY <2>3 DEF ClientEnds, FarEnds, FarAccepts, clientvars, farvars
    <3>2. GaveUp' = GaveUp
      BY <2>1 DEF GaveUp
    <3>3. CASE Broken'
      <4>1. DownSender' = "broken"
        BY <3>3 DEF DownSender
      <4> QED BY <1>5, <2>1, <3>1, <4>1 DEF DownPipe!Break
    <3>4. CASE ~Broken'
      <4>1. ~Broken
        BY <3>1, <3>2, <3>4 DEF Broken
      <4>2. CASE uend' = uend
        <5>1. UNCHANGED DownSender
          BY <3>4, <4>1, <4>2 DEF DownSender
        <5> QED BY <1>5, <2>1, <3>1, <5>1
      <4>3. CASE uend' # uend
        <5>1. uend = "open" /\ uend' = "eof"
          BY <3>1, <3>4, <4>3 DEF Broken
        <5>2. DownSender = "open" /\ DownSender' = "finished"
          BY <3>4, <4>1, <5>1 DEF DownSender
        <5> QED BY <1>5, <2>1, <3>1, <5>2 DEF DownPipe!Finish
      <4> QED BY <4>2, <4>3
    <3> QED BY <3>3, <3>4
  <2>4. CASE ClientSends
    <3>1. UNCHANGED <<usent, cend, uend>>
      BY <2>4 DEF ClientSends, farvars
    <3> QED BY <1>5, <1>6, <2>1, <3>1
  <2> QED BY <1>12, <2>2, <2>3, <2>4 DEF PeerStep
<1> QED
  BY <1>7, <1>8, <1>9, <1>10, <1>11, <1>12 DEF Next

(* The download is a pipe: nothing of a fallback proxy's answer goes into  *)
(* it and nothing sent right behind the answer is lost                     *)
(* (socks_proxy.rs 136-280, socks.rs 601-679).                             *)
THEOREM SessionDownloadIsAPipe == Spec => DownloadIsAPipe
<1>1. Init => DownPipe!PipeInit
  <2> SUFFICES ASSUME Init PROVE DownPipe!PipeInit
    OBVIOUS
  <2>1. DownUnit(usent) = 0
    BY UnitTypes, InitControl DEF Init, DownUnit, CInv
  <2>2. DownSender = "open"
    BY DEF Init, DownSender, Broken, GaveUp
  <2> QED BY <2>1, <2>2 DEF Init, DownPipe!PipeInit
<1>2. CInv /\ DownFlow /\ [Next]_vars => [DownPipe!PipeNext]_DownPipe!pipeVars
  BY DownPipeStep
<1> QED BY <1>1, <1>2, DownFlowInvariant, PTL DEF Spec, DownloadIsAPipe, DownPipe!PipeSpec
-----------------------------------------------------------------------------
(* The session's end of a tunnel connection: t1 sends and closes, t2 takes *)
(* what waits in the uplink channel (relay_tunnel 601-643).                *)
Tunnelled == route = "tunnel" /\ link # "none"

TunnelConnection == INSTANCE TunnelHandle WITH
    held    <- Tunnelled,
    closed  <- Tunnelled /\ upShut,
    ended   <- Tunnelled /\ uend # "open",
    sent    <- IF Tunnelled THEN upGot ELSE <<>>,
    waiting <- IF Tunnelled THEN usent - uread ELSE 0

HandleUnchanged == UNCHANGED <<Tunnelled, upShut, uend, upGot, usent, uread>>

LEMMA HandlerKeepsHandle ==
  ASSUME CInv, DownFlow, HandlerStep
  PROVE  [TunnelConnection!HandleNext]_TunnelConnection!handleVars
<1> USE DEF TunnelConnection!HandleNext, TunnelConnection!handleVars
<1>1. UNCHANGED <<uend, usent, upGot>>
  BY HandlerLeaves
<1>2. Tunnelled => pc \notin ClientFields \cup {"accepting", "routing", "connecting"}
                   /\ pc \notin ProxyFields
  BY DEF CInv, Admitted, Tunnelled
<1>3. upShut \in BOOLEAN /\ usent \in Nat /\ uread \in Nat
  BY DEF CInv, TypeOK
<1>4. CASE Tunnelled
  <2>1. UNCHANGED <<route, link, uread>>
    BY <1>2, <1>4, HandlerLeaves DEF DecideRoute, Connect, ReadProxyField, ReadHttpHead,
       ProxyFields
  <2>2. upShut' = upShut
    BY <1>2, <1>3, <1>4 DEF HandlerStep, Accept, ReadField, ReadFieldFails, DecideRoute, Connect,
       ReadProxyField, ReadHttpHead, ProxyFails, WriteOkReply, Join, Goes, HandlerReturns,
       Tunnelled, ProxyFields
  <2> QED BY <1>1, <2>1, <2>2 DEF Tunnelled
<1>5. CASE ~Tunnelled /\ ~Tunnelled'
  <2>1. Tunnelled = FALSE /\ Tunnelled' = FALSE
    BY <1>5 DEF Tunnelled
  <2> QED BY <2>1
<1>6. CASE ~Tunnelled /\ Tunnelled'
  <2>1. Connect
    BY <1>2, <1>6, HandlerLeaves DEF Tunnelled, CInv, Admitted, DecideRoute
  <2>2. link = "none" /\ link' = "syn" /\ ~upShut /\ upGot = <<>> /\ upShut' = upShut
    BY <1>6, <2>1 DEF Connect, Tunnelled, CInv, TypeOK, Admitted, Pumping, Goes, HandlerReturns
  <2>3. usent = 0 /\ uread = 0 /\ uread' = uread
    BY <2>1, <2>2 DEF DownFlow, Connect
  <2>4. TunnelConnection!Open
    BY <1>1, <1>6, <2>2, <2>3 DEF TunnelConnection!Open
  <2> QED BY <2>4
<1> QED BY <1>4, <1>5, <1>6

LEMMA HandleStep ==
  ASSUME CInv, DownFlow, [Next]_vars
  PROVE  [TunnelConnection!HandleNext]_TunnelConnection!handleVars
<1> USE DEF TunnelConnection!HandleNext, TunnelConnection!handleVars
<1>1. usent \in Nat /\ uread \in Nat /\ upShut \in BOOLEAN
  BY DEF CInv, TypeOK
<1>2. ASSUME HandleUnchanged PROVE UNCHANGED TunnelConnection!handleVars
  BY <1>2 DEF HandleUnchanged
<1>3. CASE UNCHANGED vars
  BY <1>2, <1>3 DEF vars, farvars, relayvars, HandleUnchanged, Tunnelled
<1>4. CASE HandlerStep
  BY <1>4, HandlerKeepsHandle
<1>5. CASE UpRead \/ UpReadEnds
  BY <1>2, <1>5 DEF UpRead, UpReadEnds, PumpUnchanged, farvars, HandleUnchanged, Tunnelled
<1>6. CASE UpWrite
  <2>1. up = "writing" /\ ~upShut
    BY <1>6 DEF UpWrite, CInv, Pumping
  <2>2. UNCHANGED <<Tunnelled, upShut, uend, usent, uread>>
    BY <1>6 DEF UpWrite, PumpUnchanged, farvars, Tunnelled
  <2>3. CASE Tunnelled
    <3>1. TunnelConnection!Send
      BY <2>1, <2>2, <2>3 DEF TunnelConnection!Send
    <3> QED BY <3>1
  <2> QED BY <2>2, <2>3
<1>7. CASE UpShutdown
  <2>1. up = "shutting" /\ ~upShut /\ upShut'
    BY <1>7 DEF UpShutdown, CInv, Pumping
  <2>2. UNCHANGED <<Tunnelled, uend, upGot, usent, uread>>
    BY <1>7 DEF UpShutdown, PumpUnchanged, farvars, Tunnelled
  <2>3. CASE Tunnelled
    <3>1. TunnelConnection!Close
      BY <2>1, <2>2, <2>3 DEF TunnelConnection!Close
    <3> QED BY <3>1
  <2> QED BY <2>2, <2>3
<1>8. CASE DownRead
  <2>1. uread' = uread + 1 /\ UNCHANGED <<Tunnelled, upShut, uend, upGot, usent>>
    BY <1>8 DEF DownRead, PumpUnchanged, farvars, Tunnelled
  <2>2. CASE Tunnelled
    <3>1. TunnelConnection!Take
      BY <1>1, <2>1, <2>2 DEF TunnelConnection!Take
    <3> QED BY <3>1
  <2> QED BY <2>1, <2>2
<1>9. CASE DownReadEnds \/ DownWrite \/ DownShutdown
  BY <1>2, <1>9 DEF DownReadEnds, DownWrite, DownShutdown, PumpUnchanged, farvars,
     HandleUnchanged, Tunnelled
<1>10. CASE ClientSends \/ ClientEnds
  BY <1>2, <1>10 DEF ClientSends, ClientEnds, OthersUnchanged, farvars, relayvars,
     HandleUnchanged, Tunnelled
<1>11. CASE FarSends
  <2>1. /\ uend = "open" /\ usent' = usent + 1
        /\ UNCHANGED <<Tunnelled, upShut, uend, upGot, uread>>
    BY <1>11 DEF FarSends, OthersUnchanged, relayvars, Tunnelled
  <2>2. CASE Tunnelled
    <3>1. TunnelConnection!Deliver
      BY <1>1, <2>1, <2>2 DEF TunnelConnection!Deliver
    <3> QED BY <3>1
  <2> QED BY <2>1, <2>2
<1>12. CASE FarAccepts
  BY <1>2, <1>12 DEF FarAccepts, farvars, relayvars, HandleUnchanged, Tunnelled
<1>13. CASE FarEnds
  <2>1. UNCHANGED <<Tunnelled, upShut, upGot, usent, uread>>
    BY <1>13 DEF FarEnds, clientvars, OthersUnchanged, relayvars, Tunnelled
  <2>2. CASE Tunnelled
    <3>1. uend = "open" /\ uend' = "eof"
      BY <1>13, <2>2 DEF FarEnds, Tunnelled
    <3>2. TunnelConnection!End
      BY <1>1, <2>1, <2>2, <3>1 DEF TunnelConnection!End
    <3> QED BY <3>2
  <2> QED BY <2>1, <2>2
<1> QED
  BY <1>3, <1>4, <1>5, <1>6, <1>7, <1>8, <1>9, <1>10, <1>11, <1>12, <1>13
     DEF Next, UpStep, DownStep, PeerStep

(* The session sends into the tunnel only before it closes the connection, *)
(* and closes it at most once; and what the other side of a tunnel         *)
(* connection does here keeps the same rules that module Netstack is       *)
(* proved to keep for a client (socks.rs 601-643).                         *)
THEOREM SessionKeepsHandle == Spec => TunnelConnection!HandleSpec
<1>1. Init => TunnelConnection!HandleInit
  BY DEF Init, Tunnelled, TunnelConnection!HandleInit
<1>2. CInv /\ DownFlow /\ [Next]_vars
      => [TunnelConnection!HandleNext]_TunnelConnection!handleVars
  BY HandleStep
<1> QED BY <1>1, <1>2, DownFlowInvariant, PTL DEF Spec, TunnelConnection!HandleSpec
=============================================================================
