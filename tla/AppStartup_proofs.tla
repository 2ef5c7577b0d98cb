-------------------------- MODULE AppStartup_proofs --------------------------
(***************************************************************************)
(* TLAPS proofs about the start of the program: the values in use, the     *)
(* configuration errors, the session a serving program has, its downloaded *)
(* rules and its --extra entries, for any command lines, texts, records,   *)
(* route tables and entries, any number of starts, any number of writes by *)
(* the other process, and addresses of any width.                          *)
(***************************************************************************)
EXTENDS AppStartup, WellFoundedInduction, TLAPS

(* The values in use are chosen as ValuesAreChosen says.                   *)
Chosen ==
    /\ args.server # None => config.server = args.server
    /\ args.username # None => config.username = args.username
    /\ args.server = None \/ args.username = None =>
           /\ args.remember
           /\ \E record \in kept :
                  /\ args.server = None => config.server = record.server
                  /\ args.username = None => config.username = record.username

(* What can be read from remembered.json was resolved by some run, and so  *)
(* was what this run has read from it and what it is about to write.       *)
Records ==
    /\ file.kind = "record" => file \in kept
    /\ remembered # None => remembered \in kept /\ args.remember
    /\ pc = "loading" => args.remember
    /\ pc \in {"truncating", "writing"} => config \in kept

(* The values of a process are chosen from when they are resolved; one     *)
(* that is yet to start has none.                                          *)
Configured ==
    /\ pc = "idle" => config = None /\ remembered = None
    /\ config # None \/ pc \in {"truncating", "writing", "validating"} => Chosen

(* Only a process that has exited has an exit code.                        *)
Exited ==
    /\ exit # None => pc = "exited"
    /\ exit = 2 => ~Complete(args)

Early == {"idle", "loading", "resolving", "truncating", "writing", "validating"}
AfterTable == {"token", "command", "tunnel", "netstack", "serve", "serving"}
AfterToken == {"command", "tunnel", "netstack", "serve", "serving"}

(* From the second answer of the login on, the session id in use is the    *)
(* server's latest; the mode and the token take it over.                   *)
Session ==
    /\ pc \in {"rclist"} \cup AfterTable => twfId = issued
    /\ pc \in AfterTable => /\ mode.kind \in {"tunnel-fallback", "matcher"}
                            /\ mode.kind = "matcher" => mode.twfId = twfId
    /\ pc \in AfterToken => token = twfId
    /\ pc = "serving" => args.fallback # "refused"

Elements == RcElement \cup DnsElement

(* What has arrived of the document is no more than it, and a table in use *)
(* is that of the elements that had arrived whole when the reading ended.  *)
Tabled ==
    /\ document \in Seq(Elements)
    /\ arrived \in 0 .. 2 * Len(document) + 1
    /\ pc \in Early \cup {"login_auth", "login_psw"} => arrived = 0
    /\ mode.kind = "matcher" => /\ pc \in AfterTable \cup {"exited"}
                                /\ CutBetweenElements
                                /\ mode.table = ParseTable(Whole)

IInv == Records /\ Configured /\ Exited /\ Session /\ Tabled

(* "exited" and the exit codes are told apart from None.                   *)
LEMMA NoneIsNoCode == None # 2 /\ None # 1
  BY StartupAssumption

LEMMA InitIInv == Init => IInv
<1> SUFFICES ASSUME Init PROVE IInv
  OBVIOUS
<1>1. Records
  BY DEF Init, Records, Absent, Empty, Garbled
<1>2. Configured
  BY DEF Init, Configured
<1>3. Exited
  BY NoneIsNoCode DEF Init, Exited
<1>4. Session
  BY DEF Init, Session, AfterTable, AfterToken
<1>5. Tabled
  BY DEF Init, Tabled, Unavailable
<1> QED BY <1>1, <1>2, <1>3, <1>4, <1>5 DEF IInv
-----------------------------------------------------------------------------
(* The actions after the configuration leave it and remembered.json alone, *)
(* and those before the login leave the session alone.                     *)
LateActions ==
    \/ LoginAuth \/ LoginPsw \/ RclistArrives \/ RclistEnds \/ RclistFails
    \/ FetchToken \/ StartStage \/ Serve \/ TunnelDies

Others == OtherTruncates \/ OtherWrites

LEMMA LateKeepsConfiguration ==
  LateActions => /\ UNCHANGED <<filevars, startvars, confvars>>
                 /\ pc \notin Early /\ pc' \notin Early
                 /\ \/ pc # "exited" /\ exit' = exit
                    \/ pc' = "exited" /\ exit' = 1
<1> DEFINE Goal == /\ UNCHANGED <<filevars, startvars, confvars>>
                   /\ pc \notin Early /\ pc' \notin Early
                   /\ \/ pc # "exited" /\ exit' = exit
                      \/ pc' = "exited" /\ exit' = 1
<1>1. LoginAuth \/ LoginPsw => Goal
  BY DEF LoginAuth, LoginPsw, Goes, Exits, Early, filevars, startvars, confvars
<1>2. RclistArrives \/ RclistEnds \/ RclistFails => Goal
  BY DEF RclistArrives, RclistEnds, RclistFails, Goes, Early, filevars, startvars, confvars
<1>3. FetchToken \/ Serve \/ TunnelDies => Goal
  BY DEF FetchToken, Serve, TunnelDies, Goes, Exits, Early, filevars, startvars, confvars
<1>4. StartStage => Goal
  BY DEF StartStage, AfterStage, Goes, Exits, Early, filevars, startvars, confvars
<1> QED BY <1>1, <1>2, <1>3, <1>4 DEF LateActions

(* Records only become more, and a file that parses has one of them.       *)
LEMMA OthersKeepConfiguration ==
  ASSUME Others, Records
  PROVE  /\ UNCHANGED <<startvars, pc, confvars, loginvars, tablevars, token, exit>>
         /\ kept \subseteq kept'
         /\ file'.kind = "record" => file' \in kept'
<1>1. CASE OtherTruncates
  BY <1>1 DEF OtherTruncates, Empty
<1>2. CASE OtherWrites
  <2>1. PICK record \in OtherRecords : file' \in Written(record) /\ kept' = kept \cup {record}
    BY <1>2 DEF OtherWrites
  <2>2. file' = record \/ file' = Garbled
    BY <2>1 DEF Written
  <2>3. file'.kind = "record" => file' \in kept'
    BY <2>1, <2>2 DEF Garbled
  <2> QED BY <1>2, <2>1, <2>3 DEF OtherWrites
<1> QED BY <1>1, <1>2 DEF Others

LEMMA NextRecords == Records /\ Configured /\ [Next]_vars => Records'
<1> SUFFICES ASSUME Records, Configured, [Next]_vars PROVE Records'
  OBVIOUS
<1>1. CASE Exec
  <2>1. args'.remember \in BOOLEAN
    BY <1>1, StartupAssumption DEF Exec, Command
  <2>2. pc' = IF args'.remember THEN "loading" ELSE "resolving"
    BY <1>1 DEF Exec, Goes
  <2>3. remembered' = None
    BY <1>1 DEF Exec, Configured, confvars
  <2> QED BY <1>1, <2>1, <2>2, <2>3 DEF Exec, Records, filevars
<1>2. CASE Gone
  BY <1>2 DEF Gone, Records, filevars
<1>3. CASE LoadRemembered
  BY <1>3 DEF LoadRemembered, Records, Goes, filevars, startvars
<1>4. CASE Resolve
  <2>1. CASE args.remember /\ pc' = "truncating" /\ kept' = kept \cup {config'}
    BY <1>4, <2>1 DEF Resolve, Records, startvars
  <2>2. CASE pc' \in {"exited", "validating"} /\ kept' = kept
    BY <1>4, <2>2 DEF Resolve, Records, startvars
  <2> QED BY <1>4, <2>1, <2>2 DEF Resolve, Goes, Exits
<1>5. CASE Truncate
  BY <1>5 DEF Truncate, Records, Goes, Empty, startvars, confvars
<1>6. CASE Write
  <2>1. file' = config \/ file' = Garbled \/ file' = file
    BY <1>6 DEF Write, Written
  <2>2. config \in kept
    BY <1>6 DEF Write, Records
  <2>3. file'.kind = "record" => file' \in kept
    BY <2>1, <2>2 DEF Records, Garbled
  <2> QED BY <1>6, <2>3 DEF Write, Records, Goes, startvars, confvars
<1>7. CASE Validate
  BY <1>7 DEF Validate, Records, Goes, Exits, filevars, startvars, confvars
<1>8. CASE LateActions
  BY <1>8, LateKeepsConfiguration DEF Records, Early, filevars, startvars, confvars
<1>9. CASE Others
  BY <1>9, OthersKeepConfiguration DEF Records, startvars, confvars
<1>10. CASE UNCHANGED vars
  BY <1>10 DEF Records, vars, filevars, startvars, confvars
<1> QED
  BY <1>1, <1>2, <1>3, <1>4, <1>5, <1>6, <1>7, <1>8, <1>9, <1>10 DEF Next, Step, LateActions, Others

LEMMA ChosenStays ==
  ASSUME Chosen, UNCHANGED <<args, config>>, kept \subseteq kept'
  PROVE  Chosen'
  BY DEF Chosen

(* A value that is not on the command line is the one of the record that   *)
(* was read; with neither, resolving ends in an error.                     *)
LEMMA ResolveChooses ==
  ASSUME Records, Resolve
  PROVE  /\ UNCHANGED <<args, remembered>> /\ kept \subseteq kept'
         /\ \/ /\ pc' \in {"truncating", "validating"} /\ exit' = exit
               /\ Chosen'
            \/ /\ pc' = "exited" /\ exit' = 2 /\ config' = config
               /\ args.server = None \/ args.username = None
<1> DEFINE server == OrRemembered(args.server, "server")
           username == OrRemembered(args.username, "username")
           resolved == [kind |-> "record", server |-> server, username |-> username]
<1>1. UNCHANGED <<args, remembered>> /\ kept \subseteq kept'
  BY DEF Resolve, startvars
<1>2. CASE server = None \/ username = None
  <2>1. pc' = "exited" /\ exit' = 2 /\ config' = config
    BY <1>2 DEF Resolve, Exits
  <2>2. args.server = None \/ args.username = None
    BY <1>2 DEF OrRemembered
  <2> QED BY <1>1, <2>1, <2>2
<1>3. CASE server # None /\ username # None
  <2>1. config' = resolved /\ pc' \in {"truncating", "validating"} /\ exit' = exit
    BY <1>3 DEF Resolve, Goes
  <2>2. config'.server = server /\ config'.username = username
    BY <2>1
  <2>3. args.server # None => server = args.server
    BY DEF OrRemembered
  <2>4. args.username # None => username = args.username
    BY DEF OrRemembered
  <2>5. ASSUME args.server = None \/ args.username = None
        PROVE  remembered # None
    BY <1>3, <2>5 DEF OrRemembered
  <2>6. ASSUME args.server = None \/ args.username = None
        PROVE  remembered \in kept /\ args.remember
    BY <2>5, <2>6 DEF Records
  <2>7. args.server = None => server = remembered.server
    BY <2>5 DEF OrRemembered
  <2>8. args.username = None => username = remembered.username
    BY <2>5 DEF OrRemembered
  <2>9. Chosen'
    BY <1>1, <2>2, <2>3, <2>4, <2>6, <2>7, <2>8 DEF Chosen
  <2> QED BY <1>1, <2>1, <2>9
<1> QED BY <1>2, <1>3

LEMMA NextConfigured == Records /\ Configured /\ [Next]_vars => Configured'
<1> SUFFICES ASSUME Records, Configured, [Next]_vars PROVE Configured'
  OBVIOUS
<1>1. CASE Exec
  BY <1>1 DEF Exec, Configured, Goes, confvars
<1>2. CASE Gone
  BY <1>2 DEF Gone, Configured
<1>3. CASE LoadRemembered
  <2>1. config' = config /\ UNCHANGED <<args, kept>>
    BY <1>3 DEF LoadRemembered, startvars, filevars
  <2>2. config # None => Chosen'
    BY <2>1, ChosenStays DEF Configured
  <2> QED BY <1>3, <2>1, <2>2 DEF LoadRemembered, Configured, Goes
<1>4. CASE Resolve
  <2>1. CASE Chosen' /\ pc' \in {"truncating", "validating"}
    BY <2>1 DEF Configured
  <2>2. CASE UNCHANGED <<args, config>> /\ kept \subseteq kept' /\ pc' = "exited"
    BY <2>2, ChosenStays DEF Configured
  <2> QED BY <1>4, <2>1, <2>2, ResolveChooses
<1>5. CASE Truncate \/ Write \/ Validate
  <2>1. pc \in {"truncating", "writing", "validating"} /\ UNCHANGED <<args, config, kept>>
    BY <1>5 DEF Truncate, Write, Validate, startvars, confvars, filevars
  <2>2. pc' # "idle"
    BY <1>5 DEF Truncate, Write, Validate, Goes, Exits
  <2>3. Chosen'
    BY <2>1, ChosenStays DEF Configured
  <2> QED BY <2>2, <2>3 DEF Configured
<1>6. CASE LateActions
  <2>1. UNCHANGED <<args, config, kept>> /\ pc' \notin Early
    BY <1>6, LateKeepsConfiguration DEF filevars, startvars, confvars
  <2>2. config # None => Chosen'
    BY <2>1, ChosenStays DEF Configured
  <2> QED BY <2>1, <2>2 DEF Configured, Early
<1>7. CASE Others
  <2>1. UNCHANGED <<args, pc, config, remembered>> /\ kept \subseteq kept'
    BY <1>7, OthersKeepConfiguration DEF startvars, confvars
  <2>2. Chosen => Chosen'
    BY <2>1, ChosenStays
  <2> QED BY <2>1, <2>2 DEF Configured
<1>8. CASE UNCHANGED vars
  BY <1>8 DEF Configured, Chosen, vars, filevars, startvars, confvars
<1> QED
  BY <1>1, <1>2, <1>3, <1>4, <1>5, <1>6, <1>7, <1>8 DEF Next, Step, LateActions, Others

(* What is given and not blank is in use and valid.                        *)
LEMMA NextExited == Configured /\ Records /\ Exited /\ [Next]_vars => Exited'
<1> SUFFICES ASSUME Configured, Records, Exited, [Next]_vars PROVE Exited'
  OBVIOUS
<1>1. CASE Exec
  BY <1>1, NoneIsNoCode DEF Exec, Exited, Goes
<1>2. CASE Gone
  BY <1>2, NoneIsNoCode DEF Gone, Exited
<1>3. CASE LoadRemembered \/ Truncate \/ Write
  BY <1>3, NoneIsNoCode DEF LoadRemembered, Truncate, Write, Exited, Goes
<1>4. CASE Resolve
  <2>1. pc # "exited" /\ args' = args
    BY <1>4 DEF Resolve, startvars
  <2>2. CASE exit' = exit
    BY <2>1, <2>2, NoneIsNoCode DEF Exited
  <2>3. CASE pc' = "exited" /\ exit' = 2 /\ (args.server = None \/ args.username = None)
    BY <2>1, <2>3 DEF Exited, Complete
  <2> QED BY <1>4, <2>2, <2>3, ResolveChooses
<1>5. CASE Validate
  <2>1. pc = "validating" /\ args' = args
    BY <1>5 DEF Validate, startvars
  <2>2. CASE exit' = exit
    BY <2>1, <2>2, NoneIsNoCode DEF Exited
  <2>3. CASE ~Valid /\ pc' = "exited"
    <3>1. Chosen
      BY <2>1 DEF Configured
    <3>2. Complete(args) => Valid
      BY <3>1 DEF Chosen, Complete, Valid
    <3> QED BY <2>1, <2>3, <3>2 DEF Exited
  <2> QED BY <1>5, <2>2, <2>3 DEF Validate, Goes, Exits
<1>6. CASE LateActions
  BY <1>6, LateKeepsConfiguration, NoneIsNoCode DEF Exited
<1>7. CASE Others
  BY <1>7, OthersKeepConfiguration DEF Exited, startvars
<1>8. CASE UNCHANGED vars
  BY <1>8 DEF Exited, vars, startvars
<1> QED
  BY <1>1, <1>2, <1>3, <1>4, <1>5, <1>6, <1>7, <1>8 DEF Next, Step, LateActions, Others
-----------------------------------------------------------------------------
(* A process that gets no further than it is keeps what Session says.      *)
LEMMA SessionStays ==
  ASSUME Session, UNCHANGED <<args, loginvars, tablevars, token>>,
         pc' = pc \/ pc' \notin {"rclist"} \cup AfterTable
  PROVE  Session'
  BY DEF Session, AfterTable, AfterToken, loginvars, tablevars

LEMMA NextSession == Session /\ [Next]_vars => Session'
<1> SUFFICES ASSUME Session, [Next]_vars PROVE Session'
  OBVIOUS
<1>1. CASE Exec
  BY <1>1 DEF Exec, Goes, Session, AfterTable, AfterToken
<1>2. CASE Gone
  BY <1>2 DEF Gone, Session, AfterTable, AfterToken
<1>3. CASE LoadRemembered \/ Resolve \/ Truncate \/ Write \/ Validate
  <2>1. pc' \in {"resolving", "truncating", "writing", "validating", "login_auth", "exited"}
    BY <1>3 DEF LoadRemembered, Resolve, Truncate, Write, Validate, Goes, Exits
  <2>2. UNCHANGED <<args, loginvars, tablevars, token>>
    BY <1>3 DEF LoadRemembered, Resolve, Truncate, Write, Validate, startvars
  <2> QED BY <2>1, <2>2, SessionStays DEF AfterTable
<1>4. CASE LoginAuth
  BY <1>4 DEF LoginAuth, Goes, Exits, Session, AfterTable, AfterToken
<1>5. CASE LoginPsw
  BY <1>5 DEF LoginPsw, Goes, Exits, Session, AfterTable, AfterToken
<1>6. CASE RclistArrives
  BY <1>6 DEF RclistArrives, Session, AfterTable, AfterToken, startvars, loginvars
<1>7. CASE RclistEnds \/ RclistFails
  <2>1. pc = "rclist" /\ pc' = "token" /\ UNCHANGED loginvars
    BY <1>7 DEF RclistEnds, RclistFails, Goes
  <2>2. twfId' = issued' /\ twfId' = twfId
    BY <2>1 DEF Session, loginvars
  <2>3. mode' = TunnelFallback \/ mode' = [kind |-> "matcher", twfId |-> twfId, table |-> ParseTable(Whole)]
    BY <1>7 DEF RclistEnds, RclistFails
  <2>4. mode'.kind \in {"tunnel-fallback", "matcher"} /\ (mode'.kind = "matcher" => mode'.twfId = twfId)
    BY <2>3 DEF TunnelFallback
  <2> QED BY <2>1, <2>2, <2>4 DEF Session, AfterTable, AfterToken
<1>8. CASE FetchToken
  BY <1>8 DEF FetchToken, Goes, Exits, Session, AfterTable, AfterToken, loginvars, tablevars
<1>9. CASE StartStage
  BY <1>9 DEF StartStage, AfterStage, Goes, Exits, Session, AfterTable, AfterToken,
              loginvars, tablevars
<1>10. CASE Serve
  BY <1>10 DEF Serve, Goes, Exits, Session, AfterTable, AfterToken, startvars, loginvars, tablevars
<1>11. CASE TunnelDies
  BY <1>11, SessionStays DEF TunnelDies, Exits, AfterTable, startvars
<1>12. CASE Others
  BY <1>12, SessionStays DEF Others, OtherTruncates, OtherWrites, startvars
<1>13. CASE UNCHANGED vars
  BY <1>13, SessionStays DEF vars, startvars
<1> QED
  BY <1>1, <1>2, <1>3, <1>4, <1>5, <1>6, <1>7, <1>8, <1>9, <1>10, <1>11, <1>12, <1>13
     DEF Next, Step, Others

LEMMA TabledStays ==
  ASSUME Tabled, UNCHANGED tablevars,
         pc' \in Early \cup {"login_auth", "login_psw"} => arrived = 0,
         mode.kind = "matcher" => pc' \in AfterTable \cup {"exited"}
  PROVE  Tabled'
  BY DEF Tabled, tablevars, Whole, CutBetweenElements

LEMMA NextTabled == Tabled /\ [Next]_vars => Tabled'
<1> SUFFICES ASSUME Tabled, [Next]_vars PROVE Tabled'
  OBVIOUS
<1> DEFINE Before == Early \cup {"login_auth", "login_psw"}
<1>1. pc \in Before \cup {"rclist"} => ~ (mode.kind = "matcher")
  BY DEF Tabled, Early, AfterTable
<1>2. pc \in Before => arrived = 0
  BY DEF Tabled
<1>3. CASE Exec
  <2>1. pc = "idle" /\ UNCHANGED tablevars
    BY <1>3 DEF Exec
  <2> QED BY <1>1, <1>2, <2>1, TabledStays DEF Early
<1>4. CASE Gone
  <2>1. document' = <<>> /\ arrived' = 0 /\ mode' = Unavailable
    BY <1>4 DEF Gone
  <2>2. document' \in Seq(Elements) /\ Len(document') = 0
    BY <2>1
  <2> QED BY <2>1, <2>2 DEF Tabled, Unavailable
<1>5. CASE LoadRemembered \/ Resolve \/ Truncate \/ Write \/ Validate \/ LoginAuth
  <2>1. pc \in Before
    BY <1>5 DEF LoadRemembered, Resolve, Truncate, Write, Validate, LoginAuth, Early
  <2>2. UNCHANGED tablevars
    BY <1>5 DEF LoadRemembered, Resolve, Truncate, Write, Validate, LoginAuth
  <2> QED BY <1>1, <1>2, <2>1, <2>2, TabledStays
<1>6. CASE LoginPsw
  <2>1. pc = "login_psw" /\ arrived' = arrived /\ mode' = mode
    BY <1>6 DEF LoginPsw
  <2>2. arrived = 0 /\ ~ (mode.kind = "matcher")
    BY <1>1, <1>2, <2>1
  <2>3. document' \in Documents \/ document' = document
    BY <1>6 DEF LoginPsw, loginvars
  <2>4. document' \in Seq(Elements)
    BY <2>3, StartupAssumption DEF Tabled, Elements
  <2>5. Len(document') \in Nat
    BY <2>4
  <2> QED BY <2>1, <2>2, <2>4, <2>5 DEF Tabled
<1>7. CASE RclistArrives
  <2>1. pc = "rclist" /\ pc' = pc /\ arrived < 2 * Len(document) + 1 /\ arrived' = arrived + 1
        /\ document' = document /\ mode' = mode
    BY <1>7 DEF RclistArrives
  <2>2. Len(document) \in Nat
    BY DEF Tabled
  <2>3. arrived' \in 0 .. 2 * Len(document) + 1
    BY <2>1, <2>2 DEF Tabled
  <2> QED BY <1>1, <2>1, <2>3 DEF Tabled, Early
<1>8. CASE RclistEnds \/ RclistFails
  <2>1. pc' = "token" /\ document' = document /\ arrived' = arrived
    BY <1>8 DEF RclistEnds, RclistFails, Goes
  <2>2. \/ mode' = TunnelFallback
        \/ CutBetweenElements /\ mode' = [kind |-> "matcher", twfId |-> twfId, table |-> ParseTable(Whole)]
    BY <1>8 DEF RclistEnds, RclistFails
  <2>3. mode'.kind = "matcher" => CutBetweenElements' /\ mode'.table = ParseTable(Whole')
    <3>1. Whole' = Whole /\ (CutBetweenElements' <=> CutBetweenElements)
      BY <2>1 DEF Whole, CutBetweenElements
    <3> QED BY <2>2, <3>1 DEF TunnelFallback
  <2>4. mode'.kind = "matcher" => CutBetweenElements' /\ mode'.table = ParseTable(Whole)'
    BY <2>3 DEF ParseTable
  <2> QED BY <2>1, <2>4 DEF Tabled, Early, AfterTable
<1>9. CASE FetchToken \/ StartStage \/ Serve \/ TunnelDies
  <2>1. UNCHANGED tablevars
    BY <1>9 DEF FetchToken, StartStage, Serve, TunnelDies
  <2>2. pc' \in AfterTable \cup {"exited"}
    BY <1>9 DEF FetchToken, StartStage, AfterStage, Serve, TunnelDies, Goes, Exits, AfterTable
  <2>3. pc' \notin Before
    BY <2>2 DEF Early, AfterTable
  <2> QED BY <2>1, <2>2, <2>3, TabledStays
<1>10. CASE Others \/ UNCHANGED vars
  <2>1. UNCHANGED <<pc, tablevars>>
    BY <1>10 DEF Others, OtherTruncates, OtherWrites, vars
  <2>2. pc' \in Before => arrived = 0
    BY <1>2, <2>1
  <2>3. mode.kind = "matcher" => pc' \in AfterTable \cup {"exited"}
    BY <2>1 DEF Tabled
  <2> QED BY <2>1, <2>2, <2>3, TabledStays
<1> QED
  BY <1>3, <1>4, <1>5, <1>6, <1>7, <1>8, <1>9, <1>10 DEF Next, Step, Others

LEMMA IInvHolds == Spec => []IInv
<1>1. IInv /\ [Next]_vars => IInv'
  BY NextRecords, NextConfigured, NextExited, NextSession, NextTabled DEF IInv
<1> QED BY <1>1, InitIInv, PTL DEF Spec
-----------------------------------------------------------------------------
(* ValuesAreChosen: the server and the user in use are those of the        *)
(* command line where it has them, and the others are of one record that   *)
(* some --remember run resolved, whatever the writes of two processes and  *)
(* their crashes leave in remembered.json (AppConfig::resolve, config.rs). *)
THEOREM StartupValuesAreChosen == Spec => []ValuesAreChosen
<1>1. IInv => ValuesAreChosen
  BY DEF IInv, Configured, Chosen, ValuesAreChosen
<1> QED BY <1>1, IInvHolds, PTL

(* CompleteCommandsAreAccepted: a complete command line never ends in a    *)
(* configuration error (load_remembered and AppConfig::validate).          *)
THEOREM StartupAcceptsCompleteCommands == Spec => []CompleteCommandsAreAccepted
<1>1. IInv => CompleteCommandsAreAccepted
  BY DEF IInv, Exited, CompleteCommandsAreAccepted
<1> QED BY <1>1, IInvHolds, PTL

(* ServesOneSession: the routes, the token and the server of a serving     *)
(* program agree on the session, through a login that may replace the      *)
(* session id (AppRunner::run, app.rs; login, auth.rs).                    *)
THEOREM StartupServesOneSession == Spec => []ServesOneSession
<1>1. IInv => ServesOneSession
  BY DEF IInv, Session, AfterTable, AfterToken, ServesOneSession
<1> QED BY <1>1, IInvHolds, PTL
-----------------------------------------------------------------------------
(* A set of numbers that is not empty has a least element.                 *)
LEMMA LeastNumber ==
  ASSUME NEW S \in SUBSET Nat, S # {}
  PROVE  \E x \in S : \A y \in S : x <= y
<1>1. PICK x \in S : \A y \in S : <<y, x>> \notin OpToRel(<, Nat)
  BY WFMin, NatLessThanWellFounded, Zenon
<1>2. \A y \in S : ~ (y < x)
  BY <1>1, Zenon DEF OpToRel
<1> QED
  BY <1>2
-----------------------------------------------------------------------------
(* The weights of the bits: they are defined, and double from bit to bit.  *)
Doubles(w, n) == w = [k \in 0 .. n |-> IF k = 0 THEN 1 ELSE 2 * w[k - 1]]

LEMMA DoublesExtends ==
  ASSUME NEW n \in Nat, NEW w, Doubles(w, n)
  PROVE  \E v : Doubles(v, n + 1)
<1> DEFINE v == [k \in 0 .. n + 1 |-> IF k = n + 1 THEN 2 * w[n] ELSE w[k]]
<1>1. ASSUME NEW k \in 0 .. n + 1 PROVE v[k] = IF k = 0 THEN 1 ELSE 2 * v[k - 1]
  <2>1. CASE k = n + 1
    <3>1. k # 0 /\ k - 1 = n /\ n \in 0 .. n + 1 /\ n # n + 1
      BY <2>1
    <3>2. v[n] = w[n] /\ v[k] = 2 * w[n]
      BY <2>1, <3>1
    <3> QED BY <3>1, <3>2
  <2>2. CASE k \in 1 .. n
    <3>1. k # 0 /\ k - 1 \in 0 .. n /\ k \in 0 .. n /\ k # n + 1 /\ k - 1 # n + 1
      BY <2>2
    <3>2. v[k] = w[k] /\ v[k - 1] = w[k - 1]
      BY <3>1
    <3>3. w[k] = 2 * w[k - 1]
      BY <3>1 DEF Doubles
    <3> QED BY <3>1, <3>2, <3>3
  <2>3. CASE k = 0
    <3>1. k \in 0 .. n /\ k # n + 1
      BY <2>3
    <3>2. v[k] = w[k] /\ w[k] = 1
      BY <2>3, <3>1 DEF Doubles
    <3> QED BY <2>3, <3>2
  <2> QED BY <2>1, <2>2, <2>3
<1>2. v = [k \in 0 .. n + 1 |-> v[k]]
  OBVIOUS
<1> HIDE DEF v
<1>3. v = [k \in 0 .. n + 1 |-> IF k = 0 THEN 1 ELSE 2 * v[k - 1]]
  BY <1>1, <1>2
<1> QED BY <1>3 DEF Doubles

LEMMA DoublesExists == ASSUME NEW n \in Nat PROVE \E w : Doubles(w, n)
<1> DEFINE Without == {m \in Nat : ~ \E w : Doubles(w, m)}
<1>1. CASE Without = {}
  BY <1>1
<1>2. CASE Without # {}
  <2>1. PICK m \in Without : \A l \in Without : m <= l
    BY <1>2, LeastNumber
  <2>2. m # 0
    <3>1. Doubles([k \in 0 .. 0 |-> 1], 0)
      BY DEF Doubles
    <3> QED BY <3>1
  <2>3. m - 1 \in Nat /\ m - 1 \notin Without
    BY <2>1, <2>2
  <2>4. PICK w : Doubles(w, m - 1)
    BY <2>3
  <2>5. \E v : Doubles(v, (m - 1) + 1)
    BY <2>3, <2>4, DoublesExtends
  <2>6. (m - 1) + 1 = m
    OBVIOUS
  <2>7. \E v : Doubles(v, m)
    BY <2>5, <2>6
  <2> QED BY <2>7
<1> QED BY <1>1, <1>2

LEMMA WeightDoubles ==
  /\ Weight[0] = 1
  /\ \A k \in 0 .. Width - 1 : Weight[k + 1] = 2 * Weight[k]
<1>1. Width \in Nat
  BY InputAssumption
<1>2. Doubles(Weight, Width)
  BY <1>1, DoublesExists DEF Doubles, Weight
<1>3. Weight[0] = 1
  BY <1>1, <1>2 DEF Doubles
<1>4. ASSUME NEW k \in 0 .. Width - 1 PROVE Weight[k + 1] = 2 * Weight[k]
  <2>1. k + 1 \in 0 .. Width /\ k + 1 # 0 /\ (k + 1) - 1 = k
    BY <1>1
  <2> QED BY <1>2, <2>1 DEF Doubles
<1> QED BY <1>3, <1>4
-----------------------------------------------------------------------------
(* What holds of 0, and of the number after each one below n it holds of,  *)
(* holds up to n.                                                          *)
LEMMA HoldsUpTo ==
  ASSUME NEW S, NEW n \in Nat, 0 \in S,
         \A k \in 0 .. n - 1 : k \in S => k + 1 \in S
  PROVE  \A k \in 0 .. n : k \in S
<1> DEFINE Outside == {k \in 0 .. n : k \notin S}
<1>1. CASE Outside = {}
  BY <1>1
<1>2. CASE Outside # {}
  <2>1. PICK k \in Outside : \A l \in Outside : k <= l
    <3>1. Outside \in SUBSET Nat
      OBVIOUS
    <3> HIDE DEF Outside
    <3> QED BY <1>2, <3>1, LeastNumber
  <2>2. k # 0 /\ k - 1 \in 0 .. n - 1 /\ (k - 1) + 1 = k
    BY <2>1
  <2>3. k - 1 \notin Outside
    BY <2>1, <2>2
  <2>4. k - 1 \in S
    BY <2>2, <2>3
  <2> QED BY <2>1, <2>2, <2>4
<1> QED BY <1>1, <1>2

LEMMA WeightIsPositive == \A k \in 0 .. Width : Weight[k] \in Nat /\ Weight[k] >= 1
<1> DEFINE S == {k \in 0 .. Width : Weight[k] \in Nat /\ Weight[k] >= 1}
<1>1. Width \in Nat
  BY InputAssumption
<1>2. 0 \in S
  BY <1>1, WeightDoubles
<1>3. ASSUME NEW k \in 0 .. Width - 1, k \in S PROVE k + 1 \in S
  BY <1>1, <1>3, WeightDoubles
<1>4. \A k \in 0 .. Width : k \in S
  <2> HIDE DEF S
  <2> QED BY <1>1, <1>2, <1>3, HoldsUpTo
<1> QED BY <1>4

LEMMA WeightOfSum ==
  ASSUME NEW a \in 0 .. Width, NEW b \in 0 .. Width - a
  PROVE  Weight[a + b] = Weight[a] * Weight[b]
<1> DEFINE S == {k \in 0 .. Width - a : Weight[a + k] = Weight[a] * Weight[k]}
<1>1. Width \in Nat /\ Width - a \in Nat /\ a \in Nat
  BY InputAssumption
<1>2. 0 \in S
  <2>1. a + 0 = a /\ Weight[a] * 1 = Weight[a]
    BY <1>1, WeightIsPositive
  <2> QED BY <1>1, <2>1, WeightDoubles
<1>3. ASSUME NEW k \in 0 .. (Width - a) - 1, k \in S PROVE k + 1 \in S
  <2>1. a + k \in 0 .. Width - 1 /\ k \in 0 .. Width - 1 /\ a + (k + 1) = (a + k) + 1
    BY <1>1
  <2>2. Weight[a + (k + 1)] = 2 * Weight[a + k] /\ Weight[k + 1] = 2 * Weight[k]
    BY <2>1, WeightDoubles
  <2>3. Weight[a] \in Nat /\ Weight[k] \in Nat
    BY <1>1, <2>1, WeightIsPositive
  <2>4. Weight[a + k] = Weight[a] * Weight[k]
    BY <1>3
  <2>5. 2 * (Weight[a] * Weight[k]) = Weight[a] * (2 * Weight[k])
    BY <2>3
  <2> QED BY <1>1, <2>2, <2>4, <2>5
<1>4. \A k \in 0 .. Width - a : k \in S
  <2> HIDE DEF S
  <2> QED BY <1>1, <1>2, <1>3, HoldsUpTo
<1> QED BY <1>4
-----------------------------------------------------------------------------
(* Arithmetic.                                                             *)
LEMMA QuotientOf ==
  ASSUME NEW d \in Nat, d >= 1, NEW q \in Nat, NEW r \in Nat, r < d
  PROVE  (q * d + r) \div d = q /\ (q * d + r) % d = r
  OBVIOUS

LEMMA QuotientSplits ==
  ASSUME NEW d \in Nat, d >= 1, NEW x \in Nat
  PROVE  \E q \in Nat, r \in Nat :
            x = q * d + r /\ r < d /\ x \div d = q
<1>1. x \div d \in Nat /\ x % d \in Nat /\ x % d < d /\ x = (x \div d) * d + (x % d)
  OBVIOUS
<1> QED BY <1>1

LEMMA QuotientOfQuotient ==
  ASSUME NEW d \in Nat, d >= 1, NEW c \in Nat, c >= 1, NEW x \in Nat
  PROVE  x \div (c * d) = (x \div d) \div c
<1>1. PICK q \in Nat, r \in Nat : x = q * d + r /\ r < d /\ x \div d = q
  BY QuotientSplits
<1>2. PICK h \in Nat, b \in Nat : q = h * c + b /\ b < c /\ q \div c = h
  BY QuotientSplits
<1> DEFINE s == b * d + r
<1>3. x = h * (c * d) + s
  BY <1>1, <1>2
<1>4. b + 1 <= c /\ (b + 1) * d <= c * d
  BY <1>2
<1>5. s \in Nat /\ s < c * d
  BY <1>1, <1>4
<1>6. c * d \in Nat /\ c * d >= 1
  BY <1>5
<1> HIDE DEF s
<1> DEFINE p == c * d
<1>7. p \in Nat /\ p >= 1 /\ s < p /\ x = h * p + s
  BY <1>3, <1>5, <1>6
<1> HIDE DEF p
<1>8. x \div p = h
  BY <1>5, <1>7, QuotientOf
<1> QED BY <1>1, <1>2, <1>8 DEF p
-----------------------------------------------------------------------------
(* Bits.  The lower of two bits divides the higher one.                    *)
LEMMA WeightDivides ==
  ASSUME NEW k \in 0 .. Width, NEW n \in k .. Width
  PROVE  \E c \in Nat : c >= 1 /\ Weight[n] = c * Weight[k]
<1>1. Width \in Nat /\ n - k \in 0 .. Width /\ k \in 0 .. Width - (n - k) /\ (n - k) + k = n
  BY InputAssumption
<1>2. Weight[n] = Weight[n - k] * Weight[k]
  <2>1. Weight[(n - k) + k] = Weight[n - k] * Weight[k]
    BY <1>1, WeightOfSum
  <2> QED BY <1>1, <2>1
<1> QED BY <1>1, <1>2, WeightIsPositive

LEMMA WeightDividesEvenly ==
  ASSUME NEW k \in 0 .. Width, NEW n \in k + 1 .. Width
  PROVE  \E c \in Nat : c >= 1 /\ Weight[n] = (2 * c) * Weight[k]
<1>1. Width \in Nat /\ k \in 0 .. Width - 1 /\ k + 1 \in 0 .. Width /\ n \in 0 .. Width
  BY InputAssumption
<1>2. PICK c \in Nat : c >= 1 /\ Weight[n] = c * Weight[k + 1]
  BY <1>1, WeightDivides
<1>3. Weight[k + 1] = 2 * Weight[k] /\ Weight[k] \in Nat
  BY <1>1, WeightDoubles, WeightIsPositive
<1>4. c * (2 * Weight[k]) = (2 * c) * Weight[k]
  BY <1>2, <1>3
<1> QED BY <1>2, <1>3, <1>4

(* A multiple of a weight has no lower bits ...                            *)
LEMMA MultipleHasNoLowerBits ==
  ASSUME NEW n \in 0 .. Width, NEW m \in Nat, NEW k \in 0 .. n - 1
  PROVE  ~ IsSet(m * Weight[n], k)
<1>1. Width \in Nat /\ k \in 0 .. Width /\ n \in k + 1 .. Width
  BY InputAssumption
<1>2. PICK c \in Nat : c >= 1 /\ Weight[n] = (2 * c) * Weight[k]
  BY <1>1, WeightDividesEvenly
<1> DEFINE d == Weight[k]
           h == m * c
<1>3. d \in Nat /\ d >= 1 /\ h \in Nat
  BY <1>1, <1>2, WeightIsPositive
<1>4. m * Weight[n] = (2 * h) * d + 0
  <2>1. m * ((2 * c) * d) = (2 * (m * c)) * d + 0
    BY <1>2, <1>3
  <2> QED BY <1>2, <2>1
<1> HIDE DEF h
<1>5. (m * Weight[n]) \div d = 2 * h
  <2> HIDE DEF d
  <2>1. ((2 * h) * d + 0) \div d = 2 * h
    BY <1>3, QuotientOf
  <2> QED BY <1>4, <2>1
<1>6. (2 * h) % 2 = 0
  BY <1>3
<1> QED BY <1>5, <1>6 DEF IsSet

(* ... and the number before it has all of them.                           *)
LEMMA BeforeMultipleHasLowerBits ==
  ASSUME NEW n \in 0 .. Width, NEW m \in Nat, m >= 1, NEW k \in 0 .. n - 1
  PROVE  IsSet(m * Weight[n] - 1, k)
<1>1. Width \in Nat /\ k \in 0 .. Width /\ n \in k + 1 .. Width
  BY InputAssumption
<1>2. PICK c \in Nat : c >= 1 /\ Weight[n] = (2 * c) * Weight[k]
  BY <1>1, WeightDividesEvenly
<1> DEFINE d == Weight[k]
           h == m * c - 1
<1>3. d \in Nat /\ d >= 1 /\ h \in Nat
  BY <1>1, <1>2, WeightIsPositive
<1>4. m * Weight[n] - 1 = (2 * h + 1) * d + (d - 1)
  <2>1. m * ((2 * c) * d) - 1 = (2 * (m * c - 1) + 1) * d + (d - 1)
    BY <1>2, <1>3
  <2> QED BY <1>2, <2>1
<1> HIDE DEF h
<1>5. (m * Weight[n] - 1) \div d = 2 * h + 1
  <2> HIDE DEF d
  <2>1. 2 * h + 1 \in Nat /\ d - 1 \in Nat /\ d - 1 < d
    BY <1>3
  <2>2. ((2 * h + 1) * d + (d - 1)) \div d = 2 * h + 1
    BY <1>3, <2>1, QuotientOf
  <2> QED BY <1>4, <2>2
<1>6. (2 * h + 1) % 2 = 1
  BY <1>3
<1> QED BY <1>5, <1>6 DEF IsSet

(* Numbers of one block have the same higher bits.                         *)
LEMMA BlockHasHigherBits ==
  ASSUME NEW n \in 0 .. Width, NEW x \in Nat, NEW y \in Nat,
         x \div Weight[n] = y \div Weight[n],
         NEW k \in n .. Width
  PROVE  /\ x \div Weight[k] = y \div Weight[k]
         /\ IsSet(x, k) <=> IsSet(y, k)
<1>1. Width \in Nat /\ k \in 0 .. Width
  BY InputAssumption
<1>2. PICK c \in Nat : c >= 1 /\ Weight[k] = c * Weight[n]
  BY <1>1, WeightDivides
<1>3. Weight[n] \in Nat /\ Weight[n] >= 1
  BY WeightIsPositive
<1>4. x \div (c * Weight[n]) = (x \div Weight[n]) \div c
  BY <1>2, <1>3, QuotientOfQuotient
<1>5. y \div (c * Weight[n]) = (y \div Weight[n]) \div c
  BY <1>2, <1>3, QuotientOfQuotient
<1>6. x \div Weight[k] = y \div Weight[k]
  BY <1>2, <1>4, <1>5
<1> QED BY <1>6 DEF IsSet

(* An address is known by its bits.                                        *)
LEMMA BitsDetermine ==
  ASSUME NEW x \in Address, NEW y \in Address,
         \A k \in 0 .. Width - 1 : IsSet(x, k) <=> IsSet(y, k)
  PROVE  x = y
<1> DEFINE S == {j \in 0 .. Width : x \div Weight[Width - j] = y \div Weight[Width - j]}
<1>1. Width \in Nat /\ Weight[Width] \in Nat /\ Weight[Width] >= 1
      /\ x \in Nat /\ y \in Nat /\ x < Weight[Width] /\ y < Weight[Width]
  BY InputAssumption, WeightIsPositive DEF Address
<1>2. 0 \in S
  <2>1. Width - 0 = Width
    BY <1>1
  <2>2. 0 * Weight[Width] + x = x /\ 0 * Weight[Width] + y = y
    BY <1>1
  <2>3. (0 * Weight[Width] + x) \div Weight[Width] = 0
    BY <1>1, QuotientOf
  <2>4. (0 * Weight[Width] + y) \div Weight[Width] = 0
    BY <1>1, QuotientOf
  <2>5. x \div Weight[Width] = y \div Weight[Width]
    BY <2>2, <2>3, <2>4
  <2> QED BY <1>1, <2>1, <2>5
<1>3. ASSUME NEW j \in 0 .. Width - 1, j \in S PROVE j + 1 \in S
  <2> DEFINE k == Width - (j + 1)
             d == Weight[k]
             p == x \div d
             q == y \div d
  <2>1. k \in 0 .. Width - 1 /\ k + 1 = Width - j /\ k \in 0 .. Width
    BY <1>1
  <2>2. d \in Nat /\ d >= 1 /\ Weight[Width - j] = 2 * d
    BY <2>1, WeightDoubles, WeightIsPositive
  <2>3. p \in Nat /\ q \in Nat
    BY <1>1, <2>2
  <2>4. x \div (2 * d) = p \div 2 /\ y \div (2 * d) = q \div 2
    BY <1>1, <2>2, QuotientOfQuotient
  <2>5. p \div 2 = q \div 2
    BY <1>3, <2>2, <2>4
  <2>6. (p % 2 = 1) <=> (q % 2 = 1)
    BY <2>1 DEF IsSet
  <2>7. p = q
    <3> HIDE DEF p, q
    <3> QED BY <2>3, <2>5, <2>6
  <2> QED BY <1>1, <2>7
<1>4. \A j \in 0 .. Width : j \in S
  <2> HIDE DEF S
  <2> QED BY <1>1, <1>2, <1>3, HoldsUpTo
<1>5. Width \in S /\ Width - Width = 0
  BY <1>1, <1>4
<1>6. x \div 1 = y \div 1
  BY <1>1, <1>5, WeightDoubles
<1> QED BY <1>1, <1>6
-----------------------------------------------------------------------------
(* The mask of a prefix length: with n the number of the bits after the    *)
(* prefix, the bits from n on, for every length from 0 to Width.           *)
LEMMA MaskIs ==
  ASSUME NEW bits \in 0 .. Width
  PROVE  Mask(bits) = Weight[Width] - Weight[Width - bits]
<1> DEFINE w == Weight[Width]
           b == Weight[Width - bits]
<1>1. Width \in Nat /\ Width - bits \in 0 .. Width /\ w \in Nat /\ w >= 1 /\ b \in Nat /\ b >= 1
  BY InputAssumption, WeightIsPositive
<1>2. CASE bits = 0
  <2>1. Width - bits = Width
    BY <1>1, <1>2
  <2> QED BY <1>1, <1>2, <2>1 DEF Mask
<1>3. CASE bits # 0
  <2>1. PICK c \in Nat : c >= 1 /\ w = c * b
    BY <1>1, WeightDivides
  <2>2. b <= w
    BY <1>1, <2>1
  <2>3. (w - 1) * b = (b - 1) * w + (w - b)
    <3> HIDE DEF w, b
    <3> QED BY <1>1
  <2>4. ((b - 1) * w + (w - b)) % w = w - b
    <3>1. b - 1 \in Nat /\ w - b \in Nat /\ w - b < w
      BY <1>1, <2>2
    <3> HIDE DEF w, b
    <3> QED BY <1>1, <3>1, QuotientOf
  <2>5. Mask(bits) = ((w - 1) * b) % w
    BY <1>3 DEF Mask, ShiftLeft, AllOnes
  <2> QED BY <2>3, <2>4, <2>5
<1> QED BY <1>2, <1>3

LEMMA MaskBits ==
  ASSUME NEW bits \in 0 .. Width, NEW k \in 0 .. Width - 1
  PROVE  /\ IsSet(Mask(bits), k) <=> k >= Width - bits
         /\ IsSet(Complement(Mask(bits)), k) <=> k < Width - bits
<1> DEFINE n == Width - bits
           b == Weight[n]
           w == Weight[Width]
<1>1. Width \in Nat /\ n \in 0 .. Width /\ w \in Nat /\ w >= 1 /\ b \in Nat /\ b >= 1
  BY InputAssumption, WeightIsPositive
<1>2. PICK c \in Nat : c >= 1 /\ w = c * b
  BY <1>1, WeightDivides
<1>3. Mask(bits) = (c - 1) * b
  <2>1. Mask(bits) = w - b
    BY MaskIs
  <2>2. w - b = (c - 1) * b
    BY <1>1, <1>2
  <2> QED BY <2>1, <2>2
<1>4. Complement(Mask(bits)) = 1 * b - 1
  <2>1. Mask(bits) = w - b
    BY MaskIs
  <2> QED BY <1>1, <2>1 DEF Complement, AllOnes
<1>5. CASE k < n
  <2>1. k \in 0 .. n - 1 /\ ~ (k >= n)
    BY <1>1, <1>5
  <2>2. ~ IsSet((c - 1) * b, k)
    BY <1>1, <1>2, <2>1, MultipleHasNoLowerBits
  <2>3. IsSet(1 * b - 1, k)
    BY <1>1, <2>1, BeforeMultipleHasLowerBits
  <2> QED BY <1>3, <1>4, <1>5, <2>1, <2>2, <2>3
<1>6. CASE k >= n
  <2>1. k \in n .. Width /\ k \in 0 .. Width - 1 /\ ~ (k < n) /\ Width \in 0 .. Width
    BY <1>1, <1>6
  <2>2. (c - 1) * b \in Nat /\ 1 * w - 1 \in Nat /\ 1 * b - 1 \in Nat /\ 0 \in Nat
    BY <1>1, <1>2
  <2>3. ((c - 1) * b) \div b = (1 * w - 1) \div b
    <3> HIDE DEF b, w
    <3>1. c - 1 \in Nat /\ 0 < b /\ b - 1 \in Nat /\ b - 1 < b
      BY <1>1, <1>2
    <3>2. ((c - 1) * b + 0) \div b = c - 1
      BY <1>1, <3>1, QuotientOf
    <3>3. ((c - 1) * b + (b - 1)) \div b = c - 1
      BY <1>1, <3>1, QuotientOf
    <3>4. (c - 1) * b + 0 = (c - 1) * b /\ 1 * w - 1 = (c - 1) * b + (b - 1)
      BY <1>1, <1>2
    <3> QED BY <3>2, <3>3, <3>4
  <2>4. IsSet((c - 1) * b, k) <=> IsSet(1 * w - 1, k)
    BY <1>1, <2>1, <2>2, <2>3, BlockHasHigherBits
  <2>5. IsSet(1 * w - 1, k)
    BY <2>1, BeforeMultipleHasLowerBits
  <2>6. (1 * b - 1) \div b = (0 * w) \div b
    <3> HIDE DEF b, w
    <3>1. b - 1 \in Nat /\ b - 1 < b /\ 0 < b
      BY <1>1
    <3>2. (0 * b + (b - 1)) \div b = 0
      BY <1>1, <3>1, QuotientOf
    <3>3. (0 * b + 0) \div b = 0
      BY <1>1, <3>1, QuotientOf
    <3>4. 0 * b + (b - 1) = 1 * b - 1 /\ 0 * b + 0 = 0 * w
      BY <1>1
    <3> QED BY <3>2, <3>3, <3>4
  <2>7. 0 * w \in Nat
    BY <1>1
  <2>8. IsSet(1 * b - 1, k) <=> IsSet(0 * w, k)
    BY <1>1, <2>1, <2>2, <2>6, <2>7, BlockHasHigherBits
  <2>9. ~ IsSet(0 * w, k)
    BY <2>1, MultipleHasNoLowerBits
  <2> QED BY <1>3, <1>4, <1>6, <2>1, <2>4, <2>5, <2>8, <2>9
<1> QED BY <1>1, <1>5, <1>6

(* An address without the bits below n, and with all of them.              *)
LEMMA BlockOf ==
  ASSUME NEW bits \in 0 .. Width, NEW ip \in Address
  PROVE  LET b == Weight[Width - bits]
             q == ip \div b IN
         /\ b \in Nat /\ b >= 1 /\ q \in Nat
         /\ BitAnd(ip, Mask(bits)) = q * b
         /\ BitOr(ip, Complement(Mask(bits))) = q * b + (b - 1)
<1> DEFINE n == Width - bits
           b == Weight[n]
           w == Weight[Width]
           q == ip \div b
           low == q * b
           high == q * b + (b - 1)
<1>1. Width \in Nat /\ n \in 0 .. Width /\ w \in Nat /\ w >= 1 /\ b \in Nat /\ b >= 1
      /\ ip \in Nat /\ ip < w
  BY InputAssumption, WeightIsPositive DEF Address
<1>2. PICK c \in Nat : c >= 1 /\ w = c * b
  BY <1>1, WeightDivides
<1>3. PICK p \in Nat, r \in Nat : ip = p * b + r /\ r < b /\ ip \div b = p
  BY <1>1, QuotientSplits
<1>4. q = p /\ q \in Nat /\ low <= ip
  BY <1>1, <1>3
<1>5. q < c
  <2> HIDE DEF q, b, w
  <2>1. q * b < c * b
    BY <1>1, <1>2, <1>4
  <2>2. ASSUME q >= c PROVE FALSE
    <3>1. c * b <= q * b
      BY <1>1, <1>2, <1>4, <2>2
    <3> QED BY <1>1, <1>2, <1>4, <2>1, <3>1
  <2> QED BY <1>2, <1>4, <2>2
<1>6. (q + 1) * b <= w
  <2>1. (q + 1) * b <= c * b
    BY <1>1, <1>2, <1>4, <1>5
  <2> QED BY <1>2, <2>1
<1>7. low \in Nat /\ high \in Nat /\ low \in Address /\ high \in Address
      /\ high = (q + 1) * b - 1
  <2> HIDE DEF q, b, w
  <2>1. low \in Nat /\ high \in Nat /\ high = (q + 1) * b - 1
    BY <1>1, <1>4
  <2>2. low < w /\ high < w
    BY <1>1, <1>4, <1>6, <2>1
  <2> QED BY <1>1, <2>1, <2>2 DEF Address, w
<1>8. low \div b = q /\ high \div b = q
  <2> HIDE DEF q, b
  <2>1. b - 1 \in Nat /\ b - 1 < b /\ 0 < b
    BY <1>1
  <2>2. (q * b + 0) \div b = q
    BY <1>1, <1>4, <2>1, QuotientOf
  <2>3. (q * b + (b - 1)) \div b = q
    BY <1>1, <1>4, <2>1, QuotientOf
  <2>4. q * b + 0 = q * b
    BY <1>1, <1>4
  <2> QED BY <2>2, <2>3, <2>4
<1>9. ASSUME NEW k \in 0 .. Width - 1
      PROVE  /\ IsSet(low, k) <=> IsSet(ip, k) /\ IsSet(Mask(bits), k)
             /\ IsSet(high, k) <=> IsSet(ip, k) \/ IsSet(Complement(Mask(bits)), k)
  <2>1. CASE k < n
    <3>1. k \in 0 .. n - 1 /\ ~ (k >= n)
      BY <1>1, <2>1
    <3>2. ~ IsSet(low, k)
      BY <1>1, <1>4, <3>1, MultipleHasNoLowerBits
    <3>3. IsSet((q + 1) * b - 1, k)
      <4>1. q + 1 \in Nat /\ q + 1 >= 1
        BY <1>4
      <4> QED BY <1>1, <3>1, <4>1, BeforeMultipleHasLowerBits
    <3> QED BY <1>7, <2>1, <3>1, <3>2, <3>3, MaskBits
  <2>2. CASE k >= n
    <3>1. k \in n .. Width /\ ~ (k < n)
      BY <1>1, <2>2
    <3>2. IsSet(low, k) <=> IsSet(ip, k)
      BY <1>1, <1>7, <1>8, <3>1, BlockHasHigherBits
    <3>3. IsSet(high, k) <=> IsSet(ip, k)
      BY SMTT(30), <1>1, <1>7, <1>8, <3>1, BlockHasHigherBits
    <3> QED BY <2>2, <3>1, <3>2, <3>3, MaskBits
  <2> QED BY <1>1, <2>1, <2>2
<1>10. BitAnd(ip, Mask(bits)) = low
  <2> DEFINE z == BitAnd(ip, Mask(bits))
  <2>1. z \in Address /\ \A k \in 0 .. Width - 1 : IsSet(z, k) <=> IsSet(ip, k) /\ IsSet(Mask(bits), k)
    BY <1>7, <1>9, Zenon DEF BitAnd
  <2> HIDE DEF z, low
  <2>2. \A k \in 0 .. Width - 1 : IsSet(z, k) <=> IsSet(low, k)
    BY <1>9, <2>1, Zenon
  <2>3. z = low
    BY <1>7, <2>1, <2>2, BitsDetermine
  <2> QED BY <2>3 DEF z
<1>11. BitOr(ip, Complement(Mask(bits))) = high
  <2> DEFINE z == BitOr(ip, Complement(Mask(bits)))
  <2>1. z \in Address
        /\ \A k \in 0 .. Width - 1 : IsSet(z, k) <=> IsSet(ip, k) \/ IsSet(Complement(Mask(bits)), k)
    BY <1>7, <1>9, Zenon DEF BitOr
  <2> HIDE DEF z, high
  <2>2. \A k \in 0 .. Width - 1 : IsSet(z, k) <=> IsSet(high, k)
    BY <1>9, <2>1, Zenon
  <2>3. z = high
    BY <1>7, <2>1, <2>2, BitsDetermine
  <2> QED BY <2>3 DEF z
<1> QED BY <1>1, <1>4, <1>10, <1>11

(* The numbers between the two are those of the same block.                *)
LEMMA BlockIsRange ==
  ASSUME NEW b \in Nat, b >= 1, NEW q \in Nat, NEW a \in Nat
  PROVE  a \div b = q <=> q * b <= a /\ a <= q * b + (b - 1)
<1>1. PICK p \in Nat, r \in Nat : a = p * b + r /\ r < b /\ a \div b = p
  BY QuotientSplits
<1>2. CASE p = q
  BY <1>1, <1>2
<1>3. CASE p < q
  <2>1. (p + 1) * b <= q * b
    BY <1>1, <1>3
  <2> QED BY <1>1, <1>3, <2>1
<1>4. CASE p > q
  <2>1. (q + 1) * b <= p * b
    BY <1>1, <1>4
  <2> QED BY <1>1, <1>4, <2>1
<1> QED BY <1>1, <1>2, <1>3, <1>4

LEMMA EntryIsRange ==
  ASSUME NEW e \in Cidr \cup Span \cup Single, NEW address \in Address
  PROVE  InEntry(address, e) <=>
            ParseExtraIp(e)[1] <= address /\ address <= ParseExtraIp(e)[2]
<1>1. Width \in Nat /\ Weight[Width] \in Nat /\ address \in Nat
  BY InputAssumption, WeightIsPositive DEF Address
<1>2. CASE e \in Cidr
  <2>1. e.kind = "cidr" /\ e.ip \in Address /\ e.bits \in Nat
    BY <1>2 DEF Cidr
  <2>2. CASE e.bits <= Width
    <3> DEFINE b == Weight[Width - e.bits]
               q == e.ip \div b
               low == BitAnd(e.ip, Mask(e.bits))
               high == BitOr(e.ip, Complement(Mask(e.bits)))
    <3>1. e.bits \in 0 .. Width
      BY <1>1, <2>1, <2>2
    <3>2. b \in Nat /\ b >= 1 /\ q \in Nat /\ low = q * b /\ high = q * b + (b - 1)
      BY <2>1, <3>1, BlockOf
    <3>3. ParseExtraIp(e) = <<low, high>>
      BY <2>1, <2>2 DEF ParseExtraIp
    <3>4. InEntry(address, e) <=> address \div b = q
      BY <2>1, <2>2 DEF InEntry
    <3> HIDE DEF b, q, low, high
    <3>5. address \div b = q <=> low <= address /\ address <= high
      BY <1>1, <3>2, BlockIsRange
    <3> QED BY <3>3, <3>4, <3>5
  <2>3. CASE ~ (e.bits <= Width)
    <3>1. ParseExtraIp(e) = <<1, 0>>
      BY <2>1, <2>3 DEF ParseExtraIp
    <3>2. ~ InEntry(address, e)
      BY <2>1, <2>3 DEF InEntry
    <3> QED BY <1>1, <3>1, <3>2
  <2> QED BY <2>2, <2>3
<1>3. CASE e \in Span
  <2>1. e.kind = "span" /\ e.from \in Nat /\ e.to \in Nat
    BY <1>1, <1>3 DEF Span, Address
  <2>2. ParseExtraIp(e) = IF e.from <= e.to THEN <<e.from, e.to>> ELSE <<e.to, e.from>>
    BY <2>1 DEF ParseExtraIp
  <2>3. InEntry(address, e) <=> \/ e.from <= address /\ address <= e.to
                                \/ e.to <= address /\ address <= e.from
    BY <2>1 DEF InEntry
  <2> QED BY <1>1, <2>1, <2>2, <2>3
<1>4. CASE e \in Single
  <2>1. e.kind = "single" /\ e.ip \in Nat
    BY <1>1, <1>4 DEF Single, Address
  <2>2. ParseExtraIp(e) = <<e.ip, e.ip>>
    BY <2>1 DEF ParseExtraIp
  <2>3. InEntry(address, e) <=> address = e.ip
    BY <2>1 DEF InEntry
  <2> QED BY <1>1, <2>1, <2>2, <2>3
<1> QED BY <1>2, <1>3, <1>4
-----------------------------------------------------------------------------
(* FlattenSeq: the parts before and with the i-th one.                     *)
Accumulates(f, seqs, n) ==
    f = [i \in 1 .. n |-> IF i = 1 THEN seqs[i] ELSE f[i - 1] \o seqs[i]]

LEMMA AccumulatesExtends ==
  ASSUME NEW seqs, NEW n \in Nat, n >= 1, NEW f, Accumulates(f, seqs, n)
  PROVE  \E g : Accumulates(g, seqs, n + 1)
<1> DEFINE g == [i \in 1 .. n + 1 |-> IF i = n + 1 THEN f[n] \o seqs[n + 1] ELSE f[i]]
<1>1. ASSUME NEW i \in 1 .. n + 1
      PROVE  g[i] = IF i = 1 THEN seqs[i] ELSE g[i - 1] \o seqs[i]
  <2>1. CASE i = n + 1
    <3>1. i # 1 /\ i - 1 = n /\ n \in 1 .. n + 1 /\ n # n + 1
      BY <2>1
    <3>2. g[n] = f[n] /\ g[i] = f[n] \o seqs[n + 1]
      BY <2>1, <3>1
    <3> QED BY <2>1, <3>1, <3>2
  <2>2. CASE i \in 2 .. n
    <3>1. i # 1 /\ i - 1 \in 1 .. n /\ i \in 1 .. n /\ i # n + 1 /\ i - 1 # n + 1 /\ i - 1 \in 1 .. n + 1
      BY <2>2
    <3>2. g[i] = f[i] /\ g[i - 1] = f[i - 1]
      BY <3>1
    <3>3. f[i] = f[i - 1] \o seqs[i]
      BY <3>1 DEF Accumulates
    <3> QED BY <3>1, <3>2, <3>3
  <2>3. CASE i = 1
    <3>1. i \in 1 .. n /\ i # n + 1
      BY <2>3
    <3>2. g[i] = f[i] /\ f[i] = seqs[i]
      BY <2>3, <3>1 DEF Accumulates
    <3> QED BY <2>3, <3>2
  <2> QED BY <2>1, <2>2, <2>3
<1>2. g = [i \in 1 .. n + 1 |-> g[i]]
  OBVIOUS
<1> HIDE DEF g
<1>3. g = [i \in 1 .. n + 1 |-> IF i = 1 THEN seqs[i] ELSE g[i - 1] \o seqs[i]]
  BY <1>1, <1>2
<1> QED BY <1>3 DEF Accumulates

LEMMA AccumulatesExists ==
  ASSUME NEW seqs, NEW n \in Nat, n >= 1
  PROVE  \E f : Accumulates(f, seqs, n)
<1> DEFINE S == {m \in Nat : \E f : Accumulates(f, seqs, m + 1)}
<1>1. 0 \in S
  <2>1. Accumulates([i \in 1 .. 1 |-> seqs[1]], seqs, 0 + 1)
    BY DEF Accumulates
  <2> QED BY <2>1
<1>2. ASSUME NEW k \in 0 .. (n - 1) - 1, k \in S PROVE k + 1 \in S
  <2>1. k + 1 \in Nat /\ k + 1 >= 1
    OBVIOUS
  <2>2. PICK f : Accumulates(f, seqs, k + 1)
    BY <1>2
  <2>3. \E g : Accumulates(g, seqs, (k + 1) + 1)
    BY <2>1, <2>2, AccumulatesExtends
  <2> QED BY <2>1, <2>3
<1>3. \A k \in 0 .. n - 1 : k \in S
  <2> HIDE DEF S
  <2>1. n - 1 \in Nat
    OBVIOUS
  <2> QED BY <1>1, <1>2, <2>1, HoldsUpTo
<1>4. n - 1 \in S /\ (n - 1) + 1 = n
  BY <1>3
<1>5. \E f : Accumulates(f, seqs, (n - 1) + 1)
  BY <1>4
<1> QED BY <1>4, <1>5

(* A sequence is the last one of its parts, joined one after the other.    *)
LEMMA FlattenSteps ==
  ASSUME NEW seqs, Len(seqs) \in Nat, Len(seqs) >= 1
  PROVE  \E f : /\ FlattenSeq(seqs) = f[Len(seqs)]
                /\ f[1] = seqs[1]
                /\ \A i \in 1 .. Len(seqs) - 1 : f[i + 1] = f[i] \o seqs[i + 1]
<1> DEFINE n == Len(seqs)
           f == CHOOSE g : Accumulates(g, seqs, n)
<1>1. Accumulates(f, seqs, n)
  BY AccumulatesExists
<1>2. FlattenSeq(seqs) = f[n]
  BY DEF FlattenSeq, Accumulates
<1> HIDE DEF f
<1>3. f[1] = seqs[1]
  BY <1>1 DEF Accumulates
<1>4. ASSUME NEW i \in 1 .. n - 1 PROVE f[i + 1] = f[i] \o seqs[i + 1]
  <2>1. i + 1 \in 1 .. n /\ i + 1 # 1 /\ (i + 1) - 1 = i
    OBVIOUS
  <2> QED BY <1>1, <2>1 DEF Accumulates
<1> QED BY <1>2, <1>3, <1>4

(* A flattened sequence has no elements but those of its parts.            *)
LEMMA FlattenElements ==
  ASSUME NEW T, NEW seqs \in Seq(Seq(T))
  PROVE  FlattenSeq(seqs) \in Seq(T)
<1> DEFINE n == Len(seqs)
<1>1. n \in Nat /\ DOMAIN seqs = 1 .. n /\ \A k \in 1 .. n : seqs[k] \in Seq(T)
  OBVIOUS
<1>2. CASE n = 0
  <2>1. FlattenSeq(seqs) = seqs
    BY <1>2 DEF FlattenSeq
  <2> QED BY <1>1, <1>2, <2>1
<1>3. CASE n >= 1
  <2>1. PICK f : /\ FlattenSeq(seqs) = f[n]
                 /\ f[1] = seqs[1]
                 /\ \A i \in 1 .. n - 1 : f[i + 1] = f[i] \o seqs[i + 1]
    <3>1. Len(seqs) \in Nat /\ Len(seqs) >= 1
      BY <1>1, <1>3
    <3>2. \E f : /\ FlattenSeq(seqs) = f[Len(seqs)]
                 /\ f[1] = seqs[1]
                 /\ \A i \in 1 .. Len(seqs) - 1 : f[i + 1] = f[i] \o seqs[i + 1]
      BY <3>1, FlattenSteps, Zenon
    <3> QED BY <3>2, Zenon
  <2> DEFINE S == {k \in Nat : k >= 1 => f[k] \in Seq(T)}
  <2>2. 0 \in S
    OBVIOUS
  <2>3. ASSUME NEW k \in 0 .. n - 1, k \in S PROVE k + 1 \in S
    <3>1. k + 1 \in 1 .. n /\ k \in Nat /\ k + 1 \in Nat
      BY <1>1
    <3>2. CASE k = 0
      <4>1. f[k + 1] = seqs[k + 1]
        BY <2>1, <3>2
      <4> QED BY <1>1, <3>1, <4>1
    <3>3. CASE k >= 1
      <4>1. f[k] \in Seq(T) /\ seqs[k + 1] \in Seq(T)
        BY <1>1, <2>3, <3>1, <3>3
      <4>2. f[k + 1] = f[k] \o seqs[k + 1]
        <5>1. k \in 1 .. n - 1
          BY <1>1, <3>3
        <5> QED BY <2>1, <5>1, Zenon
      <4>3. f[k + 1] \in Seq(T)
        BY <4>1, <4>2
      <4> QED BY <3>1, <4>3
    <3> QED BY <3>1, <3>2, <3>3
  <2>4. \A k \in 0 .. n : k \in S
    <3> HIDE DEF S
    <3> QED BY <1>1, <2>2, <2>3, HoldsUpTo
  <2>5. f[n] \in Seq(T)
    BY <1>1, <1>3, <2>4
  <2> QED BY <2>1, <2>5
<1> QED BY <1>1, <1>2, <1>3

(* A list has at most as many parts that are kept as it has parts, and if  *)
(* it has as many, it is what is kept.                                     *)
LEMMA KeptFacts ==
  ASSUME NEW T, NEW list \in Seq(T)
  PROVE  /\ Kept(list) \in Seq(T)
         /\ Len(Kept(list)) <= Len(list)
         /\ Len(Kept(list)) = Len(list) => Kept(list) = list
<1> DEFINE n == Len(list)
           seqs == [k \in DOMAIN list |-> IF list[k] = Dropped THEN <<>> ELSE <<list[k]>>]
<1>1. n \in Nat /\ DOMAIN list = 1 .. n /\ \A k \in 1 .. n : list[k] \in T
  OBVIOUS
<1>2. seqs \in Seq(Seq(T)) /\ Len(seqs) = n
  <2>1. \A k \in 1 .. n : (IF list[k] = Dropped THEN <<>> ELSE <<list[k]>>) \in Seq(T)
    BY <1>1
  <2> QED BY <1>1, <2>1
<1>3. Kept(list) = FlattenSeq(seqs)
  BY DEF Kept
<1>4. Kept(list) \in Seq(T)
  <2> HIDE DEF seqs
  <2> QED BY <1>2, <1>3, FlattenElements
<1>5. CASE n = 0
  <2>1. FlattenSeq(seqs) = seqs
    BY <1>2, <1>5 DEF FlattenSeq
  <2> HIDE DEF seqs
  <2> QED BY <1>1, <1>2, <1>3, <1>4, <1>5, <2>1
<1>6. CASE n >= 1
  <2>1. PICK f : /\ FlattenSeq(seqs) = f[n]
                 /\ f[1] = seqs[1]
                 /\ \A i \in 1 .. n - 1 : f[i + 1] = f[i] \o seqs[i + 1]
    <3> HIDE DEF seqs
    <3>1. Len(seqs) \in Nat /\ Len(seqs) >= 1
      BY <1>1, <1>2, <1>6
    <3>2. \E f : /\ FlattenSeq(seqs) = f[Len(seqs)]
                 /\ f[1] = seqs[1]
                 /\ \A i \in 1 .. Len(seqs) - 1 : f[i + 1] = f[i] \o seqs[i + 1]
      BY <3>1, FlattenSteps, Zenon
    <3> QED BY <1>2, <3>2
  <2> DEFINE Upto(s, k) == /\ s \in Seq(T) /\ Len(s) <= k
                           /\ Len(s) = k => \A i \in 1 .. k : s[i] = list[i]
             S == {k \in Nat : k >= 1 => Upto(f[k], k)}
  <2>2. 0 \in S
    OBVIOUS
  <2>3. ASSUME NEW k \in 0 .. n - 1, k \in S PROVE k + 1 \in S
    <3> DEFINE t == seqs[k + 1]
    <3>1. k + 1 \in 1 .. n /\ k \in Nat /\ k + 1 \in Nat /\ list[k + 1] \in T
      BY <1>1
    <3>2. t = <<>> \/ t = <<list[k + 1]>>
      BY <1>1, <3>1
    <3>3. CASE k = 0
      <4>1. f[k + 1] = t
        BY <2>1, <3>3
      <4>2. Upto(t, k + 1)
        BY <3>1, <3>2, <3>3
      <4> QED BY <3>1, <4>1, <4>2
    <3>4. CASE k >= 1
      <4> DEFINE s == f[k]
      <4>1. s \in Seq(T) /\ Len(s) <= k /\ (Len(s) = k => \A i \in 1 .. k : s[i] = list[i])
        BY <2>3, <3>4
      <4>2. f[k + 1] = s \o t
        <5>1. k \in 1 .. n - 1
          BY <1>1, <3>4
        <5> QED BY <2>1, <5>1, Zenon
      <4>3. Upto(s \o t, k + 1)
        <5> HIDE DEF s, t
        <5>1. CASE t = <<>>
          BY <3>1, <4>1, <5>1
        <5>2. CASE t = <<list[k + 1]>>
          BY <3>1, <4>1, <5>2
        <5> QED BY <3>2, <5>1, <5>2 DEF t
      <4> QED BY <3>1, <4>2, <4>3
    <3> QED BY <3>1, <3>3, <3>4
  <2>4. \A k \in 0 .. n : k \in S
    <3> HIDE DEF S
    <3> QED BY <1>1, <2>2, <2>3, HoldsUpTo
  <2>5. Upto(f[n], n)
    BY <1>1, <1>6, <2>4
  <2>6. Upto(Kept(list), n)
    BY <1>3, <2>1, <2>5
  <2> QED BY <1>1, <1>4, <2>6
<1> QED BY <1>1, <1>5, <1>6
-----------------------------------------------------------------------------
(* The rules whose host and port stand at one place of an element's lists. *)
Listed == Parts \cup {Dropped}
PlacesOf(e) == {rule \in [host : Listed, port : Listed] :
                   \E i \in DOMAIN e.hosts : e.hosts[i] = rule.host /\ e.ports[i] = rule.port}

LEMMA RcJoinsOnePlace ==
  ASSUME NEW e \in RcElement, Paired(e)
  PROVE  ParseRc(e) \in Seq(PlacesOf(e))
<1> DEFINE hosts == SplitHosts(e.hosts)
           ports == SplitPorts(e.ports)
<1>1. RcIsRead(e) /\ Len(e.hosts) = Len(e.ports)
      /\ (Kept(e.hosts) = e.hosts \/ Kept(e.ports) = e.ports)
  BY DEF Paired
<1>2. e.hosts \in Seq(Listed) /\ e.ports \in Seq(Listed)
  BY <1>1 DEF RcElement, RcIsRead, Listed
<1>3. CASE Len(hosts) = Len(ports)
  <2>1. Len(Kept(e.hosts)) = Len(Kept(e.ports))
    BY <1>3 DEF SplitHosts, SplitPorts
  <2>2. hosts = e.hosts /\ ports = e.ports
    BY <1>1, <1>2, <2>1, KeptFacts DEF SplitHosts, SplitPorts
  <2>3. ParseRc(e) = [k \in 1 .. Len(e.hosts) |-> [host |-> e.hosts[k], port |-> e.ports[k]]]
    BY <1>1, <1>3, <2>2 DEF ParseRc
  <2>4. ASSUME NEW k \in 1 .. Len(e.hosts)
        PROVE  [host |-> e.hosts[k], port |-> e.ports[k]] \in PlacesOf(e)
    <3>1. k \in DOMAIN e.hosts /\ e.hosts[k] \in Listed /\ e.ports[k] \in Listed
      BY <1>1, <1>2
    <3> QED BY <3>1 DEF PlacesOf
  <2>5. Len(e.hosts) \in Nat
    BY <1>2
  <2> QED BY <2>3, <2>4, <2>5
<1>4. CASE Len(hosts) # Len(ports)
  BY <1>4 DEF ParseRc
<1> QED BY <1>3, <1>4

PlacesIn(elements) ==
    {rule \in [host : Listed, port : Listed] :
        \E k \in DOMAIN elements : elements[k].tag = "Rc" /\ rule \in PlacesOf(elements[k])}

LEMMA TableJoinsOnePlace ==
  ASSUME NEW elements \in Seq(RcElement \cup DnsElement),
         \A k \in DOMAIN elements : elements[k].tag = "Rc" => Paired(elements[k])
  PROVE  ParseTable(elements).rules \in Seq(PlacesIn(elements))
<1> DEFINE T == PlacesIn(elements)
           seqs == [k \in DOMAIN elements |-> IF elements[k].tag = "Rc" THEN ParseRc(elements[k]) ELSE <<>>]
<1>1. Len(elements) \in Nat /\ DOMAIN elements = 1 .. Len(elements)
  OBVIOUS
<1>2. ASSUME NEW k \in DOMAIN elements
      PROVE  (IF elements[k].tag = "Rc" THEN ParseRc(elements[k]) ELSE <<>>) \in Seq(T)
  <2>1. CASE elements[k].tag = "Rc"
    <3>1. elements[k] \in RcElement \cup DnsElement
      OBVIOUS
    <3>2. elements[k] \in RcElement
      BY <2>1, <3>1 DEF DnsElement
    <3>3. ParseRc(elements[k]) \in Seq(PlacesOf(elements[k]))
      BY <2>1, <3>2, RcJoinsOnePlace
    <3>4. PlacesOf(elements[k]) \subseteq T
      BY <2>1 DEF PlacesIn, PlacesOf
    <3>5. ParseRc(elements[k]) \in Seq(T)
      <4> HIDE DEF T
      <4> QED BY <3>3, <3>4
    <3> QED BY <2>1, <3>5
  <2>2. CASE elements[k].tag # "Rc"
    BY <2>2
  <2> QED BY <2>1, <2>2
<1>3. seqs \in Seq(Seq(T))
  <2> HIDE DEF T
  <2> QED BY <1>1, <1>2
<1>4. ParseTable(elements).rules = FlattenSeq(seqs)
  BY DEF ParseTable
<1> HIDE DEF seqs, T
<1>5. FlattenSeq(seqs) \in Seq(T)
  BY <1>3, FlattenElements
<1> QED BY <1>4, <1>5 DEF T
-----------------------------------------------------------------------------
(* RulesJoinOnePlace: a downloaded rule joins a host and a port that stand *)
(* at one place of the two lists of its element, when those lists are of   *)
(* one length and only one of them has parts that are dropped              *)
(* (parse_rc, route_table.rs).                                             *)
THEOREM StartupRulesJoinOnePlace == Spec => []RulesJoinOnePlace
<1>1. IInv => RulesJoinOnePlace
  <2> SUFFICES ASSUME IInv, mode.kind = "matcher",
                      \A k \in DOMAIN Whole : Whole[k].tag = "Rc" => Paired(Whole[k]),
                      NEW r \in DOMAIN mode.table.rules
               PROVE  \E k \in DOMAIN Whole : \E i \in DOMAIN Whole[k].hosts :
                          /\ Whole[k].tag = "Rc"
                          /\ Whole[k].hosts[i] = mode.table.rules[r].host
                          /\ Whole[k].ports[i] = mode.table.rules[r].port
    BY DEF RulesJoinOnePlace
  <2> DEFINE rules == mode.table.rules
  <2>1. mode.table = ParseTable(Whole) /\ document \in Seq(Elements)
        /\ arrived \in 0 .. 2 * Len(document) + 1 /\ arrived % 2 = 1
    BY DEF IInv, Tabled, CutBetweenElements
  <2>2. Whole \in Seq(RcElement \cup DnsElement)
    <3>1. Len(document) \in Nat
      BY <2>1
    <3>2. (arrived - 1) \div 2 \in 0 .. Len(document)
      BY <2>1, <3>1
    <3> DEFINE n == (arrived - 1) \div 2
    <3> HIDE DEF n
    <3>3. SubSeq(document, 1, n) \in Seq(Elements)
      BY <2>1, <3>1, <3>2 DEF n
    <3> QED BY <3>3 DEF n, Whole, Elements
  <2>3. rules \in Seq(PlacesIn(Whole))
    BY <2>1, <2>2, TableJoinsOnePlace
  <2>4. rules[r] \in PlacesIn(Whole)
    BY <2>3
  <2>5. PICK k \in DOMAIN Whole : Whole[k].tag = "Rc" /\ rules[r] \in PlacesOf(Whole[k])
    BY <2>4 DEF PlacesIn
  <2>6. PICK i \in DOMAIN Whole[k].hosts :
            Whole[k].hosts[i] = rules[r].host /\ Whole[k].ports[i] = rules[r].port
    BY <2>5 DEF PlacesOf
  <2> QED BY <2>5, <2>6
<1> QED BY <1>1, IInvHolds, PTL

(* ExtraIsWhatItSays: the range that an --extra entry is turned into has   *)
(* the addresses that share its first bits, all of them for /0 and one for *)
(* a whole address, or that lie between its two, for addresses of any      *)
(* width (parse_extra_ip, routing.rs).                                     *)
THEOREM StartupExtraIsWhatItSays == Spec => []ExtraIsWhatItSays
<1>1. ExtraIsWhatItSays
  <2> SUFFICES ASSUME NEW e \in Extra, NEW address \in Address
               PROVE  InEntry(address, e) <=>
                         ExtraMatchers[e][1] <= address /\ address <= ExtraMatchers[e][2]
    BY Zenon DEF ExtraIsWhatItSays
  <2>1. e \in Cidr \cup Span \cup Single
    BY StartupAssumption, Zenon
  <2>2. ExtraMatchers[e] = ParseExtraIp(e)
    BY DEF ExtraMatchers
  <2> QED BY <2>1, <2>2, EntryIsRange
<1> QED BY <1>1, PTL
=============================================================================
