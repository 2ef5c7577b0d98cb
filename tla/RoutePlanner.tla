----------------------------- MODULE RoutePlanner -----------------------------
(***************************************************************************)
(* routing.rs and dns_resolver.rs: how a thread of the SOCKS server gets a *)
(* route.  plan_target_with_proto holds the ROUTER mutex from its first    *)
(* look at the rules to the plan, queries of DNS servers and of the        *)
(* system's resolver included, so the two DNS caches are only used under   *)
(* that mutex.  A plan is made in stages: a rule on the target itself, the *)
(* DNS records of the table, --extra addresses, what the table's DNS       *)
(* servers say of the name, and what the system's resolver says.           *)
(* Finding a rule is FirstMatch, which RouteIndex shows the index computes.*)
(***************************************************************************)
EXTENDS RouteRules, FiniteSets

CONSTANTS Threads,      \* threads of the SOCKS server
          Tables,       \* downloaded tables: rules, servers, records, extra
          Answers,      \* what a DNS server may answer: aliases, ips
          Servers,      \* addresses of DNS servers
          Targets,      \* what clients ask for: a subset of Target
          Protos,       \* Tcp (CONNECT) or Udp (a datagram)
          TTL,          \* DNS_CACHE_TTL in ticks of the clock
          MaxClock,     \* bound: clock
          MaxRequests   \* bound: requests

RcIds == {flow.rc_id : flow \in RuleFlows}

ASSUME PlannerAssumption ==
    /\ TTL \in Nat \ {0} /\ MaxClock \in Nat /\ MaxRequests \in Nat
    /\ Targets \subseteq Target /\ Protos \subseteq FlowProto
    /\ None \notin Servers /\ None \notin Threads
    /\ Answers \subseteq [aliases : Seq(Domains), ips : Seq(Ip)]
    /\ Tables \subseteq [rules : Seq(CompiledRule), servers : Seq(Servers \cup {None}),
                       records : Seq([rc_id : Nat, host : Domains, ip : Ip \cup {None}]),
                       extra : SUBSET HostMatcher]

VARIABLES mode,          \* RouteMode: "unavailable", "matcher" or "tunnel"
          table,         \* the installed RouteMatcher
          router,        \* holder of the ROUTER mutex, or None
          pc, request, job, plan,   \* of each thread
          cache,         \* DNS_CACHE
          lookups,       \* DNS_LOOKUP_CACHE
          clock,
          requests       \* requests made so far

caches == <<cache, lookups>>
installed == <<mode, table>>
vars == <<installed, router, pc, request, job, plan, caches, clock, requests>>

(* An answer as an action or a cache keeps it; "of" and "at" are history:  *)
(* the name it is about and the time it came.                              *)
Stamp == [of : Domains, at : 0 .. MaxClock]
CacheEntry == [ip : Ip, expires : 0 .. MaxClock + TTL, from : Stamp]
LookupEntry == [answer : Answers, expires : 0 .. MaxClock + TTL, from : Stamp]

\* A query in progress: for the address of a rule's name, or about the target.
Job == [kind : {"address"}, rule : CompiledRule, name : Domains, cname : BOOLEAN, server : Nat]
       \cup [kind : {"lookup"}, name : Domains, server : Nat]

(* RoutePlan; "from" and "at" are history: the answer it rests on, and the *)
(* time it was made.                                                       *)
Source == {"route-table-unavailable", "rule-ip", "dns-map", "dns-data-ip-rule", "dns-cache",
           "dns-server", "cname-dns-map", "cname-dns-cache", "cname-dns-server", "extra-ip",
           "dns-server-ip-rule-cache", "dns-server-ip-rule"}
Plan == [kind : {"fallback"}]
        \cup [kind : {"remote"}, dial : Target, rc_id : Nat, source : Source,
              from : Stamp \cup {None}, at : 0 .. MaxClock]

TypeOK ==
    /\ mode \in {"unavailable", "matcher", "tunnel"}
    /\ table.rules \in Seq(CompiledRule) /\ table.dns_servers \in Seq(Servers)
    /\ table.dns_map \in [RcIds \X Domains -> Seq(Ip)]
    /\ table.dns_exact \in [Domains -> Seq(Ip)]
    /\ router \in Threads \cup {None}
    /\ pc \in [Threads -> {"idle", "lock", "plan", "query", "system", "planned"}]
    /\ request \in [Threads -> [target : Targets, port : Ports, proto : Protos] \cup {None}]
    /\ job \in [Threads -> Job \cup {None}]
    /\ \A t \in Threads : pc[t] = "query" => job[t].server \in DOMAIN table.dns_servers
    /\ plan \in [Threads -> Plan \cup {None}]
    /\ cache \in [RcIds \X Domains -> CacheEntry \cup {None}]
    /\ lookups \in [Domains -> LookupEntry \cup {None}]
    /\ clock \in 0 .. MaxClock /\ requests \in 0 .. MaxRequests
-----------------------------------------------------------------------------
(* build_dns_indexes, normalize_dns_servers: what is usable, once.         *)
Distinct(s, usable) ==
    LET firsts == {i \in usable : \A j \in usable : j < i => s[j] # s[i]}
        rank(i) == Cardinality({j \in firsts : j <= i})
    IN [n \in 1 .. Cardinality(firsts) |-> s[CHOOSE i \in firsts : rank(i) = n]]

IpsOf(records, wanted) ==
    Distinct([i \in DOMAIN records |-> records[i].ip], {i \in wanted : records[i].ip # None})

DnsMap(records) == [key \in RcIds \X Domains |->
    IpsOf(records, {i \in DOMAIN records : records[i].rc_id = key[1] /\ records[i].host = key[2]})]
DnsExact(records) == [name \in Domains |->
    IpsOf(records, {i \in DOMAIN records : records[i].host = name})]
UsableServers(servers) == Distinct(servers, {i \in DOMAIN servers : servers[i] # None})

NoTable == [rules |-> <<>>, dns_servers |-> <<>>, dns_map |-> DnsMap(<<>>),
            dns_exact |-> DnsExact(<<>>), extra |-> {}]

(* dns_resolver::clear_cache, and the state before the first query. *)
Cleared(c) == [key \in DOMAIN c |-> None]

Init ==
    /\ mode = "unavailable" /\ table = NoTable
    /\ router = None
    /\ pc = [t \in Threads |-> "idle"]
    /\ request = [t \in Threads |-> None]
    /\ job = [t \in Threads |-> None]
    /\ plan = [t \in Threads |-> None]
    /\ cache = [key \in RcIds \X Domains |-> None]
    /\ lookups = [name \in Domains |-> None]
    /\ clock = 0 /\ requests = 0

(* AppRunner::run installs one of the modes before it serves anybody.      *)
InstallRouteTable(raw) ==
    /\ mode = "unavailable"
    /\ mode' = "matcher"
    /\ table' = [rules |-> raw.rules, dns_servers |-> UsableServers(raw.servers),
                 dns_map |-> DnsMap(raw.records), dns_exact |-> DnsExact(raw.records),
                 extra |-> raw.extra]
    /\ cache' = Cleared(cache) /\ lookups' = Cleared(lookups)
    /\ UNCHANGED <<router, pc, request, job, plan, clock, requests>>

InstallTunnelFallback ==
    /\ mode = "unavailable"
    /\ mode' = "tunnel"
    /\ cache' = Cleared(cache) /\ lookups' = Cleared(lookups)
    /\ UNCHANGED <<table, router, pc, request, job, plan, clock, requests>>

Tick ==
    /\ clock < MaxClock /\ clock' = clock + 1
    /\ UNCHANGED <<installed, router, pc, request, job, plan, caches, requests>>
-----------------------------------------------------------------------------
Name(n) == [kind |-> "domain", name |-> n]
Address(a) == [kind |-> "ip", ip |-> a]

\* find_first_match for a thread's port and protocol: a rule, or None
RuleFor(target, r) ==
    LET k == FirstMatch(table.rules, target, r.port, r.proto)
    IN IF k = None THEN None ELSE table.rules[k]

IsExtra(target) ==
    target.kind = "ip" /\ \E m \in table.extra : HostMatches(m, target)

\* mutant: the first address of a list in which a rule matches some address
FirstIpIfAnyRule(ips, r) ==
    LET hits == {n \in DOMAIN ips : RuleFor(Address(ips[n]), r) # None}
    IN IF hits = {} THEN None ELSE <<RuleFor(Address(ips[Least(hits)]), r), ips[1]>>

\* the first of a list of addresses that a rule matches: <<rule, address>>, or None
FirstIpWithRule(ips, r) ==
    LET hits == {n \in DOMAIN ips : RuleFor(Address(ips[n]), r) # None}
    IN IF hits = {} THEN None
       ELSE <<RuleFor(Address(ips[Least(hits)]), r), ips[Least(hits)]>>

FirstAliasWithRule(aliases, r) ==
    LET hits == {n \in DOMAIN aliases : RuleFor(Name(aliases[n]), r) # None}
    IN IF hits = {} THEN None
       ELSE <<RuleFor(Name(aliases[Least(hits)]), r), aliases[Least(hits)]>>

Remote(dial, rc_id, source, from) ==
    [kind |-> "remote", dial |-> dial, rc_id |-> rc_id, source |-> source,
     from |-> from, at |-> clock]
Fallback == [kind |-> "fallback"]

(* The plan is returned and the guard on ROUTER dropped.                   *)
Return(t, p) ==
    /\ plan' = [plan EXCEPT ![t] = p]
    /\ pc' = [pc EXCEPT ![t] = "planned"]
    /\ job' = [job EXCEPT ![t] = None]
    /\ router' = None

\* mutant: the guard on ROUTER is dropped for the query
QueryUnlocked(t, j) ==
    /\ job' = [job EXCEPT ![t] = j]
    /\ pc' = [pc EXCEPT ![t] = "query"]
    /\ router' = None
    /\ UNCHANGED plan

Query(t, j) ==
    /\ job' = [job EXCEPT ![t] = j]
    /\ pc' = [pc EXCEPT ![t] = "query"]
    /\ UNCHANGED <<plan, router>>

AskSystem(t) ==
    /\ job' = [job EXCEPT ![t] = None]
    /\ pc' = [pc EXCEPT ![t] = "system"]
    /\ UNCHANGED <<plan, router>>

\* mutant: an entry that has expired is used
HitForEver(entry) == entry # None

Hit(entry) == entry # None /\ entry.expires > clock

(* plan_remote_with_rule for a name, the target or an alias of it, with    *)
(* resolve_first_ipv4 up to its first query.                               *)
PlanRemoteWithRule(t, rule, name, cname) ==
    LET key == <<rule.flow.rc_id, name>>
        known == table.dns_map[key]
        Via(ip, source, from) == Return(t, Remote(Address(ip), rule.flow.rc_id, source, from))
    IN \/ /\ known # <<>>
          /\ Via(known[1], IF cname THEN "cname-dns-map" ELSE "dns-map", None)
          /\ UNCHANGED cache
       \/ /\ known = <<>> /\ table.dns_servers = <<>>
          /\ Return(t, Fallback)
          /\ UNCHANGED cache
       \/ /\ known = <<>> /\ table.dns_servers # <<>> /\ Hit(cache[key])
          /\ Via(cache[key].ip, IF cname THEN "cname-dns-cache" ELSE "dns-cache", cache[key].from)
          /\ UNCHANGED cache
       \/ /\ known = <<>> /\ table.dns_servers # <<>> /\ ~Hit(cache[key])
          /\ cache' = [cache EXCEPT ![key] = None]
          /\ Query(t, [kind |-> "address", rule |-> rule, name |-> name,
                       cname |-> cname, server |-> 1])

(* The rest of plan_dnsserver_derived_rules once the name is looked up,    *)
(* and the way on to plan_via_domain_ip_resolution.                        *)
PlanFromLookup(t, answer, source, from) ==
    LET r == request[t]
        alias == FirstAliasWithRule(answer.aliases, r)
        ip == FirstIpWithRule(answer.ips, r)
    IN \/ /\ alias # None
          /\ PlanRemoteWithRule(t, alias[1], alias[2], TRUE)
       \/ /\ alias = None /\ ip # None
          /\ Return(t, Remote(Address(ip[2]), ip[1].flow.rc_id, source, from))
          /\ UNCHANGED cache
       \/ /\ alias = None /\ ip = None
          /\ AskSystem(t)
          /\ UNCHANGED cache

(* plan_dnsserver_derived_rules up to the first query of resolve_lookup.   *)
PlanDnsServerDerivedRules(t, name) ==
    \/ /\ table.dns_servers = <<>>
       /\ AskSystem(t)
       /\ UNCHANGED caches
    \/ /\ table.dns_servers # <<>> /\ Hit(lookups[name])
       /\ PlanFromLookup(t, lookups[name].answer, "dns-server-ip-rule-cache", lookups[name].from)
       /\ UNCHANGED lookups
    \/ /\ table.dns_servers # <<>> /\ ~Hit(lookups[name])
       /\ lookups' = [lookups EXCEPT ![name] = None]
       /\ Query(t, [kind |-> "lookup", name |-> name, server |-> 1])
       /\ UNCHANGED cache
-----------------------------------------------------------------------------
Request(t, target, port, proto) ==
    /\ mode # "unavailable" /\ pc[t] = "idle" /\ requests < MaxRequests
    /\ request' = [request EXCEPT ![t] = [target |-> target, port |-> port, proto |-> proto]]
    /\ pc' = [pc EXCEPT ![t] = "lock"]
    /\ requests' = requests + 1
    /\ UNCHANGED <<installed, router, job, plan, caches, clock>>

Lock(t) ==
    /\ pc[t] = "lock" /\ router = None
    /\ router' = t
    /\ pc' = [pc EXCEPT ![t] = "plan"]
    /\ UNCHANGED <<installed, request, job, plan, caches, clock, requests>>

\* mutant: the table's DNS records before the rules
DirectRuleAfterRecords(r) ==
    IF r.target.kind = "domain" /\ FirstIpWithRule(table.dns_exact[r.target.name], r) # None
    THEN None ELSE RuleFor(r.target, r)

DirectRule(r) == RuleFor(r.target, r)

PlanFromMode(t) ==
    /\ pc[t] = "plan"
    /\ LET r == request[t]
           rule == DirectRule(r)
           exact == IF r.target.kind = "domain"
                    THEN FirstIpWithRule(table.dns_exact[r.target.name], r) ELSE None
       IN \/ /\ mode = "tunnel"
             /\ Return(t, Remote(r.target, 0, "route-table-unavailable", None))
             /\ UNCHANGED caches
          \/ /\ mode = "matcher" /\ rule # None /\ r.target.kind = "ip"
             /\ Return(t, Remote(r.target, rule.flow.rc_id, "rule-ip", None))
             /\ UNCHANGED caches
          \/ /\ mode = "matcher" /\ rule # None /\ r.target.kind = "domain"
             /\ PlanRemoteWithRule(t, rule, r.target.name, FALSE)
             /\ UNCHANGED lookups
          \/ /\ mode = "matcher" /\ rule = None /\ exact # None
             /\ Return(t, Remote(Address(exact[2]), exact[1].flow.rc_id, "dns-data-ip-rule", None))
             /\ UNCHANGED caches
          \/ /\ mode = "matcher" /\ rule = None /\ r.target.kind = "ip"
             /\ Return(t, IF IsExtra(r.target) THEN Remote(r.target, 0, "extra-ip", None)
                          ELSE Fallback)
             /\ UNCHANGED caches
          \/ /\ mode = "matcher" /\ rule = None /\ exact = None /\ r.target.kind = "domain"
             /\ PlanDnsServerDerivedRules(t, r.target.name)
    /\ UNCHANGED <<installed, request, clock, requests>>

(* A DNS server answers: query_server_message returns a message, whose     *)
(* addresses are empty or not.  resolve_first_ipv4 caches an address,      *)
(* resolve_lookup the whole answer.                                        *)
AddressAnswered(t, answer) ==
    /\ pc[t] = "query" /\ job[t].kind = "address" /\ answer.ips # <<>>
    /\ LET j == job[t]
           from == [of |-> j.name, at |-> clock]
       IN /\ cache' = [cache EXCEPT ![<<j.rule.flow.rc_id, j.name>>] =
                          [ip |-> answer.ips[1], expires |-> clock + TTL, from |-> from]]
          /\ Return(t, Remote(Address(answer.ips[1]), j.rule.flow.rc_id,
                              IF j.cname THEN "cname-dns-server" ELSE "dns-server", from))
    /\ UNCHANGED <<installed, request, lookups, clock, requests>>

LookupAnswered(t, answer) ==
    /\ pc[t] = "query" /\ job[t].kind = "lookup"
    /\ LET from == [of |-> job[t].name, at |-> clock]
       IN /\ lookups' = [lookups EXCEPT ![job[t].name] =
                            [answer |-> answer, expires |-> clock + TTL, from |-> from]]
          /\ PlanFromLookup(t, answer, "dns-server-ip-rule", from)
    /\ UNCHANGED <<installed, request, clock, requests>>

(* It fails: no reply in time, a reply that is refused, or one without an  *)
(* address where one is wanted.  The next server is asked, if there is one.*)
\* mutant: one server beyond the last
HasNextServerAtEnd(j) == j.server <= Len(table.dns_servers)

HasNextServer(j) == j.server < Len(table.dns_servers)

\* mutant: round and round the servers
NextServerWraps(t) ==
    /\ pc[t] = "query"
    /\ job' = [job EXCEPT ![t].server = (@ % Len(table.dns_servers)) + 1]
    /\ UNCHANGED <<installed, router, pc, request, plan, caches, clock, requests>>

NextServer(t) ==
    /\ pc[t] = "query" /\ HasNextServer(job[t])
    /\ job' = [job EXCEPT ![t].server = @ + 1]
    /\ UNCHANGED <<installed, router, pc, request, plan, caches, clock, requests>>

\* mutant: a rule's name that its servers do not know goes to the system's resolver
AllServersFailedAskSystem(t) == AskSystem(t)

AllServersFailed(t) ==
    \/ /\ job[t].kind = "address" /\ Return(t, Fallback)
    \/ /\ job[t].kind = "lookup" /\ AskSystem(t)

LastServerFails(t) ==
    /\ pc[t] = "query" /\ ~HasNextServer(job[t])
    /\ AllServersFailed(t)
    /\ UNCHANGED <<installed, request, caches, clock, requests>>

(* plan_via_domain_ip_resolution: the system's resolver finds an IPv4      *)
(* address of the name, or none.                                           *)
SystemAnswers(t, ip) ==
    /\ pc[t] = "system"
    /\ LET r == request[t]
           rule == RuleFor(Address(ip), r)
       IN \/ /\ rule # None
             /\ Return(t, Remote(Address(ip), rule.flow.rc_id, "rule-ip", None))
          \/ /\ rule = None /\ IsExtra(Address(ip))
             /\ Return(t, Remote(r.target, 0, "extra-ip", None))
          \/ /\ rule = None /\ ~IsExtra(Address(ip))
             /\ Return(t, Fallback)
    /\ UNCHANGED <<installed, request, caches, clock, requests>>

SystemFails(t) ==
    /\ pc[t] = "system"
    /\ Return(t, Fallback)
    /\ UNCHANGED <<installed, request, caches, clock, requests>>

(* decide_route goes on with the plan, and the thread is done here.        *)
Leave(t) ==
    /\ pc[t] = "planned"
    /\ pc' = [pc EXCEPT ![t] = "idle"]
    /\ plan' = [plan EXCEPT ![t] = None]
    /\ request' = [request EXCEPT ![t] = None]
    /\ UNCHANGED <<installed, router, job, caches, clock, requests>>

QueryEnds(t) ==
    \/ \E answer \in Answers : AddressAnswered(t, answer) \/ LookupAnswered(t, answer)
    \/ NextServer(t)
    \/ LastServerFails(t)
SystemEnds(t) == (\E ip \in Ip : SystemAnswers(t, ip)) \/ SystemFails(t)

Next ==
    \/ \E raw \in Tables : InstallRouteTable(raw)
    \/ InstallTunnelFallback
    \/ Tick
    \/ \E t \in Threads :
          \/ \E target \in Targets, port \in Ports, proto \in Protos : Request(t, target, port, proto)
          \/ Lock(t) \/ PlanFromMode(t) \/ QueryEnds(t) \/ SystemEnds(t) \/ Leave(t)

(* std's Mutex is not a queue, so a thread that waits for ROUTER is only   *)
(* promised it if it is free again and again.  A query ends, since every   *)
(* socket of dns_resolver has a timeout; that the system's resolver ends   *)
(* is an assumption on it.                                                 *)
Fairness ==
    \A t \in Threads : /\ SF_vars(Lock(t))
                       /\ WF_vars(PlanFromMode(t))
                       /\ WF_vars(QueryEnds(t))
                       /\ WF_vars(SystemEnds(t))

Spec == Init /\ [][Next]_vars
FairSpec == Spec /\ Fairness
-----------------------------------------------------------------------------
(* A plan to go through the tunnel has its reason when it is returned: a   *)
(* rule with its resource id that matches the flow and the target, the     *)
(* address dialled or a name the target is an alias of, or an --extra      *)
(* entry (plan 323-358 and every stage it calls).                          *)
CnameSources == {"cname-dns-map", "cname-dns-cache", "cname-dns-server"}

Justified(t) ==
    LET p == plan[t]
        r == request[t]
        IsAlias(name) == name \in {lookups[r.target.name].answer.aliases[n] :
                                      n \in DOMAIN lookups[r.target.name].answer.aliases}
    IN \/ mode = "tunnel" /\ p.dial = r.target
       \/ p.source = "extra-ip" /\ p.dial = r.target
          /\ (r.target.kind = "ip" => IsExtra(r.target))
       \/ \E k \in DOMAIN table.rules :
             LET rule == table.rules[k] IN
             /\ rule.flow.rc_id = p.rc_id /\ p.dial.kind = "ip"
             /\ RuleMatchesFlow(rule, r.port, r.proto)
             /\ \/ HostMatches(rule.matcher, r.target)
                \/ p.source \notin CnameSources /\ HostMatches(rule.matcher, p.dial)
                \/ p.source \in CnameSources /\ rule.matcher.kind = "domain"
                   /\ IsAlias(rule.matcher.name)

RemotePlansAreJustified ==
    [][\A t \in Threads : pc[t] # "planned" /\ pc'[t] = "planned" /\ plan'[t].kind = "remote"
                             => Justified(t)']_vars

(* If a rule matches what the client asked for, the first such rule        *)
(* decides: a remote plan carries its resource id and dials the client's   *)
(* address unchanged (plan 325-330).                                       *)
DirectRuleWins ==
    \A t \in Threads :
        LET rule == RuleFor(request[t].target, request[t]) IN
        mode = "matcher" /\ pc[t] = "planned" /\ rule # None /\ plan[t].kind = "remote" =>
            /\ plan[t].rc_id = rule.flow.rc_id
            /\ request[t].target.kind = "ip" => plan[t].dial = request[t].target

(* While a plan is made, nobody is asked for what an earlier stage knows.  *)
(* The system's resolver, which is outside of the tunnel, and the table's  *)
(* servers for the aliases of a name are only asked when neither a rule on *)
(* the name nor a record of the table decides it (plan 325-351); and for   *)
(* the address of a name that a rule decides, the table's servers are only *)
(* asked when the table has no record of it, an alias only when no rule is *)
(* on the target itself (plan_remote_with_rule 373-424).  This is about    *)
(* planning alone.  When those servers fail, or there is none, the plan of *)
(* a decided name is a fallback with host:port (388-423), which the        *)
(* fallback proxy or the system's resolver resolves when the route is      *)
(* executed (socks.rs 555-562).                                            *)
PlanningAsksInOrder ==
    \A t \in Threads :
        LET r == request[t]
            j == job[t]
        IN /\ pc[t] = "system" \/ (pc[t] = "query" /\ j.kind = "lookup") =>
                 /\ r.target.kind = "domain" /\ RuleFor(r.target, r) = None
                 /\ FirstIpWithRule(table.dns_exact[r.target.name], r) = None
           /\ pc[t] = "query" /\ j.kind = "address" =>
                 /\ j.rule # None /\ j.rule = RuleFor(Name(j.name), r)
                 /\ table.dns_map[<<j.rule.flow.rc_id, j.name>>] = <<>>
                 /\ IF j.cname THEN RuleFor(r.target, r) = None ELSE j.name = r.target.name

(* A plan rests on an answer about the right name that is younger than the *)
(* cache's lifetime (cache_get 347-362, lookup_cache_get 377-392).         *)
AnswersAreFresh ==
    \A t \in Threads :
        pc[t] = "planned" /\ plan[t].kind = "remote" /\ plan[t].from # None =>
            /\ plan[t].at < plan[t].from.at + TTL
            /\ plan[t].source \notin CnameSources => plan[t].from.of = request[t].target.name

(* No server is asked for what a cache holds, however the threads meet:    *)
(* one that waited for the first one's answer uses it (plan_target_with_   *)
(* proto 221-229, resolve_first_ipv4 76-120, resolve_lookup 122-166).      *)
NoNeedlessQuery ==
    \A t \in Threads : pc[t] = "query" =>
        ~Hit(IF job[t].kind = "address" THEN cache[<<job[t].rule.flow.rc_id, job[t].name>>]
             ELSE lookups[job[t].name])

(* Every request gets its plan, although a thread may wait for others'     *)
(* queries with ROUTER locked (routing.rs 225).                            *)
PlanEnds == \A t \in Threads : pc[t] = "lock" ~> pc[t] = "planned"

(* The design document says of --extra that its entries match only IPv4    *)
(* targets; plan_via_domain_ip_resolution 551 applies them to the address  *)
(* that the system's resolver finds for a name.                            *)
ExtraMatchesOnlyAddresses ==
    \A t \in Threads :
        pc[t] = "planned" /\ plan[t].kind = "remote" /\ plan[t].source = "extra-ip" =>
            request[t].target.kind = "ip"
=============================================================================
