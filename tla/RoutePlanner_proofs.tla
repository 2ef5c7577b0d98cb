------------------------- MODULE RoutePlanner_proofs -------------------------
(***************************************************************************)
(* What the planner promises about rules, caches and queries, for any      *)
(* number of threads and requests, any tables and any answers.             *)
(***************************************************************************)
EXTENDS RoutePlanner, FiniteSetTheorems, WellFoundedInduction, TLAPS

(* A set of numbers that is not empty has a least element, and Least is    *)
(* that element.                                                           *)
LEMMA LeastExists ==
  ASSUME NEW S \in SUBSET Nat, S # {}
  PROVE  Least(S) \in S /\ \A y \in S : Least(S) <= y
<1>1. PICK x \in S : \A y \in S : <<y, x>> \notin OpToRel(<, Nat)
  BY WFMin, NatLessThanWellFounded, Zenon
<1>2. \A y \in S : ~ (y < x)
  BY <1>1, Zenon DEF OpToRel
<1>3. \A y \in S : x <= y
  BY <1>2
<1> QED
  BY <1>3 DEF Least

(* What FirstMatch returns, when it is not None, is a place in the list    *)
(* whose rule matches.                                                     *)
LEMMA FirstMatchMatches ==
  ASSUME NEW list \in Seq(CompiledRule), NEW target, NEW port, NEW proto,
         FirstMatch(list, target, port, proto) # None
  PROVE  /\ FirstMatch(list, target, port, proto) \in DOMAIN list
         /\ Matches(list[FirstMatch(list, target, port, proto)], target, port, proto)
<1> DEFINE hits == {k \in DOMAIN list : Matches(list[k], target, port, proto)}
<1>1. hits # {}
  BY DEF FirstMatch
<1>2. hits \in SUBSET Nat
  OBVIOUS
<1>3. Least(hits) \in hits
  BY <1>1, <1>2, LeastExists
<1> QED
  BY <1>1, <1>3 DEF FirstMatch
-----------------------------------------------------------------------------
Requests == [target : Targets, port : Ports, proto : Protos]
Holding == {"plan", "query", "system"}

Shape ==
    /\ DOMAIN pc = Threads /\ DOMAIN request = Threads
    /\ DOMAIN job = Threads /\ DOMAIN plan = Threads
    /\ DOMAIN cache = RcIds \X Domains /\ DOMAIN lookups = Domains
    /\ table.rules \in Seq(CompiledRule)
    /\ clock \in Nat

(* The mutex is held from the look at the rules to the plan.               *)
Locked == \A t \in Threads : pc[t] \in Holding <=> router = t

Asked ==
    \A t \in Threads : pc[t] # "idle" => request[t] \in Requests /\ mode # "unavailable"

(* No stage before the aliases decides the request.                        *)
Undecided(r) ==
    /\ r.target.kind = "domain"
    /\ RuleFor(r.target, r) = None
    /\ FirstIpWithRule(table.dns_exact[r.target.name], r) = None

IsAliasOf(name, r) ==
    \E n \in DOMAIN lookups[r.target.name].answer.aliases :
        lookups[r.target.name].answer.aliases[n] = name

(* A query for the address of a name that a rule names: the target itself, *)
(* which the rule is the first to match, or an alias of it.                *)
AddressJob(j, r) ==
    /\ j.kind = "address" /\ j.name \in Domains
    /\ DOMAIN j = {"kind", "rule", "name", "cname", "server"}
    /\ cache[<<j.rule.flow.rc_id, j.name>>] = None
    /\ table.dns_map[<<j.rule.flow.rc_id, j.name>>] = <<>>
    /\ r.target.kind = "domain"
    /\ IF j.cname
       THEN /\ Undecided(r) /\ IsAliasOf(j.name, r)
            /\ RuleFor(Name(j.name), r) # None /\ j.rule = RuleFor(Name(j.name), r)
       ELSE /\ j.name = r.target.name
            /\ RuleFor(r.target, r) # None /\ j.rule = RuleFor(r.target, r)

LookupJob(j, r) ==
    /\ j.kind = "lookup" /\ j.name = r.target.name
    /\ DOMAIN j = {"kind", "name", "server"}
    /\ lookups[j.name] = None
    /\ Undecided(r)

Jobs ==
    \A t \in Threads :
        /\ pc[t] = "query" => AddressJob(job[t], request[t]) \/ LookupJob(job[t], request[t])
        /\ pc[t] = "system" => Undecided(request[t])

(* An entry is about its key and expires TTL after its answer came.        *)
Dated(entry, name) ==
    /\ entry.from.at \in Nat /\ entry.from.of = name
    /\ entry.expires = entry.from.at + TTL

CacheDated == \A key \in RcIds \X Domains : cache[key] # None => Dated(cache[key], key[2])
LookupsDated ==
    \A name \in Domains : lookups[name] # None =>
        Dated(lookups[name], name) /\ lookups[name].answer \in Answers

Follows(p, r) ==
    mode = "matcher" /\ RuleFor(r.target, r) # None =>
        /\ p.rc_id = RuleFor(r.target, r).flow.rc_id
        /\ r.target.kind = "ip" => p.dial = r.target

Fresh(p, r) ==
    p.from # None =>
        /\ p.at < p.from.at + TTL
        /\ p.source \notin CnameSources => p.from.of = r.target.name

Planned ==
    \A t \in Threads : pc[t] = "planned" /\ plan[t].kind = "remote" =>
        Follows(plan[t], request[t]) /\ Fresh(plan[t], request[t])

IInv == Shape /\ Locked /\ Asked /\ Jobs /\ CacheDated /\ LookupsDated /\ Planned

LEMMA InitIInv == Init => IInv
<1> SUFFICES ASSUME Init PROVE IInv
  OBVIOUS
<1>1. Shape
  <2>1. table.rules \in Seq(CompiledRule)
    BY DEF Init, NoTable
  <2> QED BY <2>1 DEF Init, Shape
<1>2. None \notin Threads
  BY PlannerAssumption
<1>3. Locked
  BY <1>2 DEF Init, Locked, Holding
<1>4. Asked /\ Jobs /\ Planned
  BY DEF Init, Asked, Jobs, Planned
<1>5. CacheDated /\ LookupsDated
  <2>1. \A key \in RcIds \X Domains : cache[key] = None
    BY DEF Init
  <2>2. \A name \in Domains : lookups[name] = None
    BY DEF Init
  <2> QED BY <2>1, <2>2 DEF CacheDated, LookupsDated
<1> QED BY <1>1, <1>3, <1>4, <1>5 DEF IInv

-----------------------------------------------------------------------------
(* A rule that is found is one of the table that matches.                  *)
LEMMA RuleFound ==
  ASSUME Shape, NEW target, NEW r, RuleFor(target, r) # None
  PROVE  /\ RuleFor(target, r) \in CompiledRule
         /\ RuleFor(target, r).flow.rc_id \in RcIds
         /\ \E k \in DOMAIN table.rules : RuleFor(target, r) = table.rules[k]
         /\ HostMatches(RuleFor(target, r).matcher, target)
         /\ RuleMatchesFlow(RuleFor(target, r), r.port, r.proto)
<1> DEFINE k == FirstMatch(table.rules, target, r.port, r.proto)
<1>1. k # None /\ RuleFor(target, r) = table.rules[k]
  BY DEF RuleFor
<1>2. table.rules \in Seq(CompiledRule)
  BY DEF Shape
<1>3. k \in DOMAIN table.rules /\ Matches(table.rules[k], target, r.port, r.proto)
  BY <1>1, <1>2, FirstMatchMatches
<1>4. table.rules[k] \in CompiledRule
  BY <1>2, <1>3
<1>5. table.rules[k].flow \in RuleFlows
  BY <1>4 DEF CompiledRule
<1> QED BY <1>1, <1>3, <1>4, <1>5 DEF Matches, RcIds

LEMMA TargetName ==
  ASSUME NEW r \in Requests, r.target.kind = "domain"
  PROVE  r.target.name \in Domains
<1>1. r.target \in Target
  BY PlannerAssumption DEF Requests
<1> QED BY <1>1 DEF Target

(* What becomes of a rule and a name that are found.                       *)
LEMMA RemoteOutcomes ==
  ASSUME Shape, CacheDated, NEW t, NEW rule, rule.flow.rc_id \in RcIds, NEW name \in Domains,
         NEW cname \in BOOLEAN, PlanRemoteWithRule(t, rule, name, cname)
  PROVE  \/ cache' = cache /\ Return(t, Fallback)
         \/ /\ cache' = cache
            /\ \E ip, source, from :
                  /\ Return(t, Remote(Address(ip), rule.flow.rc_id, source, from))
                  /\ source \in CnameSources <=> cname
                  /\ from # None => clock < from.at + TTL /\ from.of = name
         \/ /\ cache' = [cache EXCEPT ![<<rule.flow.rc_id, name>>] = None]
            /\ table.dns_map[<<rule.flow.rc_id, name>>] = <<>>
            /\ Query(t, [kind |-> "address", rule |-> rule, name |-> name,
                         cname |-> cname, server |-> 1])
<1> DEFINE key == <<rule.flow.rc_id, name>>
<1>1. key \in RcIds \X Domains
  OBVIOUS
<1>2. clock \in Nat /\ TTL \in Nat
  BY PlannerAssumption DEF Shape
<1>3. CASE /\ Return(t, Remote(Address(table.dns_map[key][1]), rule.flow.rc_id,
                               IF cname THEN "cname-dns-map" ELSE "dns-map", None))
           /\ UNCHANGED cache
  BY <1>3 DEF CnameSources
<1>4. CASE /\ Hit(cache[key])
           /\ Return(t, Remote(Address(cache[key].ip), rule.flow.rc_id,
                               IF cname THEN "cname-dns-cache" ELSE "dns-cache", cache[key].from))
           /\ UNCHANGED cache
  <2>1. Dated(cache[key], name)
    BY <1>1, <1>4 DEF CacheDated, Hit
  <2>2. clock < cache[key].from.at + TTL /\ cache[key].from.of = name
    BY <1>2, <1>4, <2>1 DEF Dated, Hit
  <2> QED BY <1>4, <2>2 DEF CnameSources
<1> QED BY <1>3, <1>4 DEF PlanRemoteWithRule

LEMMA Pairs == \A x, y : <<x, y>>[1] = x /\ <<x, y>>[2] = y
OBVIOUS

LEMMA AliasFound ==
  ASSUME NEW aliases \in Seq(Domains), NEW r, FirstAliasWithRule(aliases, r) # None
  PROVE  \E n \in DOMAIN aliases :
             /\ RuleFor(Name(aliases[n]), r) # None
             /\ FirstAliasWithRule(aliases, r) = <<RuleFor(Name(aliases[n]), r), aliases[n]>>
<1> DEFINE hits == {n \in DOMAIN aliases : RuleFor(Name(aliases[n]), r) # None}
<1>1. hits \in SUBSET Nat
  OBVIOUS
<1>2. hits # {}
  BY DEF FirstAliasWithRule
<1>3. Least(hits) \in hits
  BY <1>1, <1>2, LeastExists
<1> QED BY <1>2, <1>3 DEF FirstAliasWithRule

LEMMA IpFound ==
  ASSUME NEW ips, DOMAIN ips \subseteq Nat, NEW r, FirstIpWithRule(ips, r) # None
  PROVE  \E n \in DOMAIN ips :
             /\ RuleFor(Address(ips[n]), r) # None
             /\ FirstIpWithRule(ips, r) = <<RuleFor(Address(ips[n]), r), ips[n]>>
<1> DEFINE hits == {n \in DOMAIN ips : RuleFor(Address(ips[n]), r) # None}
<1>1. hits \in SUBSET Nat
  OBVIOUS
<1>2. hits # {}
  BY DEF FirstIpWithRule
<1>3. Least(hits) \in hits
  BY <1>1, <1>2, LeastExists
<1> QED BY <1>2, <1>3 DEF FirstIpWithRule

(* What becomes of the answer of a lookup.                                 *)
LEMMA LookupOutcomes ==
  ASSUME Shape, NEW t, NEW answer \in Answers, NEW source, NEW from,
         PlanFromLookup(t, answer, source, from)
  PROVE  \/ \E n \in DOMAIN answer.aliases :
                /\ answer.aliases[n] \in Domains
                /\ RuleFor(Name(answer.aliases[n]), request[t]) # None
                /\ PlanRemoteWithRule(t, RuleFor(Name(answer.aliases[n]), request[t]),
                                      answer.aliases[n], TRUE)
         \/ /\ cache' = cache
            /\ \E ip \in Ip :
                  /\ RuleFor(Address(ip), request[t]) # None
                  /\ Return(t, Remote(Address(ip), RuleFor(Address(ip), request[t]).flow.rc_id,
                                      source, from))
         \/ cache' = cache /\ AskSystem(t)
<1>1. PICK alias, ip : /\ alias = FirstAliasWithRule(answer.aliases, request[t])
                       /\ ip = FirstIpWithRule(answer.ips, request[t])
  OBVIOUS
<1>2. answer.aliases \in Seq(Domains) /\ answer.ips \in Seq(Ip)
  BY PlannerAssumption
<1>3. CASE alias # None /\ PlanRemoteWithRule(t, alias[1], alias[2], TRUE)
  <2>1. PICK n \in DOMAIN answer.aliases :
            /\ RuleFor(Name(answer.aliases[n]), request[t]) # None
            /\ alias = <<RuleFor(Name(answer.aliases[n]), request[t]), answer.aliases[n]>>
    BY <1>1, <1>2, <1>3, AliasFound
  <2>2. answer.aliases[n] \in Domains
    BY <1>2
  <2>3. alias[1] = RuleFor(Name(answer.aliases[n]), request[t]) /\ alias[2] = answer.aliases[n]
    BY <2>1, Pairs
  <2> QED BY <1>3, <2>1, <2>2, <2>3
<1>4. CASE /\ ip # None /\ UNCHANGED cache
           /\ Return(t, Remote(Address(ip[2]), ip[1].flow.rc_id, source, from))
  <2>1. DOMAIN answer.ips \subseteq Nat
    BY <1>2
  <2>2. PICK n \in DOMAIN answer.ips :
            /\ RuleFor(Address(answer.ips[n]), request[t]) # None
            /\ ip = <<RuleFor(Address(answer.ips[n]), request[t]), answer.ips[n]>>
    BY <1>1, <1>4, <2>1, IpFound
  <2>3. ip[1] = RuleFor(Address(answer.ips[n]), request[t]) /\ ip[2] = answer.ips[n]
    BY <2>2, Pairs
  <2>4. answer.ips[n] \in Ip
    BY <1>2
  <2> QED BY <1>4, <2>2, <2>3, <2>4
<1>5. CASE AskSystem(t) /\ UNCHANGED cache
  BY <1>5
<1> QED BY <1>1, <1>3, <1>4, <1>5 DEF PlanFromLookup
-----------------------------------------------------------------------------
(* What does not change with the caches and the clock.                     *)
LEMMA TableStays ==
  ASSUME UNCHANGED <<mode, table>>
  PROVE  /\ \A target, r : RuleFor(target, r)' = RuleFor(target, r)
         /\ \A r : Undecided(r)' = Undecided(r)
         /\ \A p, r : Follows(p, r)' = Follows(p, r)
<1>1. table' = table /\ mode' = mode
  OBVIOUS
<1>2. \A target, r : RuleFor(target, r)' = RuleFor(target, r)
  BY <1>1 DEF RuleFor
<1>3. \A ips, r : FirstIpWithRule(ips, r)' = FirstIpWithRule(ips, r)
  BY <1>2 DEF FirstIpWithRule
<1>4. \A r : Undecided(r)' = Undecided(r)
  BY <1>1, <1>2, <1>3 DEF Undecided
<1>5. \A p, r : Follows(p, r)' = Follows(p, r)
  BY <1>1, <1>2 DEF Follows
<1> QED BY <1>2, <1>4, <1>5

CachesRight ==
    /\ DOMAIN cache = RcIds \X Domains /\ DOMAIN lookups = Domains
    /\ CacheDated /\ LookupsDated

(* The three ends of a stage, for the thread that holds the mutex.         *)
LEMMA ReturnKeeps ==
  ASSUME IInv, NEW t \in Threads, NEW p, router = t, Return(t, p),
         UNCHANGED <<mode, table, request, clock>>, CachesRight',
         p.kind = "remote" => Follows(p, request[t]) /\ Fresh(p, request[t])
  PROVE  IInv'
<1>0. None \notin Threads
  BY PlannerAssumption
<1>1. /\ DOMAIN pc' = Threads /\ DOMAIN job' = Threads /\ DOMAIN plan' = Threads
      /\ pc'[t] = "planned" /\ plan'[t] = p /\ router' = None
      /\ \A u \in Threads \ {t} : pc'[u] = pc[u] /\ plan'[u] = plan[u] /\ job'[u] = job[u]
  BY DEF IInv, Shape, Return
<1>2. \A u \in Threads \ {t} : pc[u] \notin Holding
  BY DEF IInv, Locked
<1>3. Shape'
  BY <1>1 DEF IInv, Shape, CachesRight
<1>4. Locked'
  BY <1>0, <1>1, <1>2 DEF Locked, Holding
<1>5. Asked'
  <2>1. pc[t] # "idle"
    BY DEF IInv, Locked, Holding
  <2> QED BY <1>1, <2>1 DEF IInv, Asked
<1>6. Jobs'
  BY <1>1, <1>2 DEF Jobs, Holding
<1>7. Planned'
  <2> SUFFICES ASSUME NEW u \in Threads, pc'[u] = "planned", plan'[u].kind = "remote"
               PROVE  Follows(plan[u], request[u])' /\ Fresh(plan[u], request[u])'
    BY DEF Planned
  <2>1. Follows(plan'[u], request[u]) /\ Fresh(plan'[u], request[u])
    <3>1. CASE u = t
      BY <1>1, <3>1
    <3>2. CASE u # t
      BY <1>1, <3>2 DEF IInv, Planned
    <3> QED BY <3>1, <3>2
  <2>2. request' = request /\ mode' = mode /\ table' = table
    OBVIOUS
  <2>3. Fresh(plan[u], request[u])'
    BY <2>1, <2>2 DEF Fresh
  <2>4. Follows(plan[u], request[u])'
    BY <2>1, <2>2 DEF Follows, RuleFor
  <2> QED BY <2>3, <2>4
<1> QED BY <1>3, <1>4, <1>5, <1>6, <1>7 DEF IInv, CachesRight

LEMMA StageKeeps ==
  ASSUME IInv, NEW t \in Threads, router = t, UNCHANGED <<mode, table, request, clock>>,
         CachesRight', NEW label \in {"query", "system"}, NEW j,
         pc' = [pc EXCEPT ![t] = label], job' = [job EXCEPT ![t] = j],
         UNCHANGED <<plan, router>>,
         label = "query" => (AddressJob(j, request[t]) \/ LookupJob(j, request[t]))',
         label = "system" => Undecided(request[t])
  PROVE  IInv'
<1>1. /\ DOMAIN pc' = Threads /\ DOMAIN job' = Threads /\ DOMAIN plan' = Threads
      /\ pc'[t] = label /\ job'[t] = j
      /\ \A u \in Threads \ {t} : pc'[u] = pc[u] /\ job'[u] = job[u]
  BY DEF IInv, Shape
<1>2. \A u \in Threads \ {t} : pc[u] \notin Holding
  BY DEF IInv, Locked
<1>3. Shape'
  BY <1>1 DEF IInv, Shape, CachesRight
<1>4. Locked'
  BY <1>1 DEF IInv, Locked, Holding
<1>5. Asked'
  <2>1. pc[t] # "idle"
    BY DEF IInv, Locked, Holding
  <2> QED BY <1>1, <2>1 DEF IInv, Asked
<1>6. Jobs'
  <2> SUFFICES ASSUME NEW u \in Threads
               PROVE  /\ pc'[u] = "query" => (AddressJob(job[u], request[u]) \/ LookupJob(job[u], request[u]))'
                      /\ pc'[u] = "system" => Undecided(request[u])'
    BY DEF Jobs
  <2>1. CASE u # t
    BY <1>1, <1>2, <2>1 DEF Holding
  <2>2. CASE u = t
    <3>1. request' = request
      OBVIOUS
    <3>2. label = "system" => Undecided(request[t])'
      <4>1. PICK r : r = request[t] /\ r = request'[t]
        BY <3>1
      <4>2. Undecided(r)' = Undecided(r)
        BY TableStays
      <4> QED BY <4>1, <4>2 DEF Undecided
    <3>3. label = "query" => (AddressJob(job[t], request[t]) \/ LookupJob(job[t], request[t]))'
      <4>1. PICK r : r = request[t] /\ r = request'[t]
        BY <3>1
      <4> QED BY <1>1, <4>1 DEF AddressJob, LookupJob
    <3> QED BY <1>1, <2>2, <3>2, <3>3
  <2> QED BY <2>1, <2>2
<1>7. Planned'
  <2> SUFFICES ASSUME NEW u \in Threads, pc'[u] = "planned", plan'[u].kind = "remote"
               PROVE  Follows(plan[u], request[u])' /\ Fresh(plan[u], request[u])'
    BY DEF Planned
  <2>1. u # t /\ Follows(plan[u], request[u]) /\ Fresh(plan[u], request[u])
    BY <1>1 DEF IInv, Planned
  <2>2. request' = request /\ mode' = mode /\ table' = table /\ plan' = plan
    OBVIOUS
  <2>3. Fresh(plan[u], request[u])'
    BY <2>1, <2>2 DEF Fresh
  <2>4. Follows(plan[u], request[u])'
    BY <2>1, <2>2 DEF Follows, RuleFor
  <2> QED BY <2>3, <2>4
<1> QED BY <1>3, <1>4, <1>5, <1>6, <1>7 DEF IInv, CachesRight

LEMMA CacheClears ==
  ASSUME Shape, CacheDated, NEW key \in RcIds \X Domains,
         cache' = [cache EXCEPT ![key] = None]
  PROVE  DOMAIN cache' = RcIds \X Domains /\ cache'[key] = None /\ CacheDated'
<1>1. DOMAIN cache' = RcIds \X Domains /\ cache'[key] = None
  BY DEF Shape
<1>2. \A k \in RcIds \X Domains : cache'[k] = None \/ cache'[k] = cache[k]
  BY DEF Shape
<1>3. CacheDated'
  <2> SUFFICES ASSUME NEW k \in RcIds \X Domains, cache'[k] # None
               PROVE  Dated(cache'[k], k[2])
    BY DEF CacheDated, Dated
  <2> QED BY <1>2 DEF CacheDated
<1> QED BY <1>1, <1>3

LEMMA CacheStays ==
  ASSUME Shape, CacheDated, cache' = cache
  PROVE  DOMAIN cache' = RcIds \X Domains /\ CacheDated'
BY DEF Shape, CacheDated, Dated

LEMMA LookupsStay ==
  ASSUME Shape, LookupsDated, lookups' = lookups
  PROVE  DOMAIN lookups' = Domains /\ LookupsDated'
BY DEF Shape, LookupsDated, Dated

(* A rule and a name were found and lead to a plan or a query.             *)
LEMMA FoundKeeps ==
  ASSUME IInv, NEW t \in Threads, router = t, UNCHANGED <<mode, table, request, clock>>,
         DOMAIN lookups' = Domains, LookupsDated',
         request[t].target.kind = "domain",
         NEW name \in Domains, NEW cname \in BOOLEAN, NEW target, target = Name(name),
         RuleFor(target, request[t]) # None,
         PlanRemoteWithRule(t, RuleFor(target, request[t]), name, cname),
         IF cname THEN Undecided(request[t]) /\ IsAliasOf(name, request[t])'
                  ELSE target = request[t].target
  PROVE  IInv'
<1> DEFINE rule == RuleFor(target, request[t])
<1>1. PICK r : r = request[t] /\ r = request'[t]
  OBVIOUS
<1>2. PICK f : f = RuleFor(target, r)
  OBVIOUS
<1>3. f # None /\ f.flow.rc_id \in RcIds /\ f = RuleFor(target, request[t])
  BY <1>1, <1>2, RuleFound DEF IInv
<1>4. Shape /\ CacheDated /\ clock' = clock
  BY DEF IInv
<1>5. \/ cache' = cache /\ Return(t, Fallback)
      \/ /\ cache' = cache
         /\ \E ip, source, from :
               /\ Return(t, Remote(Address(ip), f.flow.rc_id, source, from))
               /\ source \in CnameSources <=> cname
               /\ from # None => clock < from.at + TTL /\ from.of = name
      \/ /\ cache' = [cache EXCEPT ![<<f.flow.rc_id, name>>] = None]
         /\ table.dns_map[<<f.flow.rc_id, name>>] = <<>>
         /\ Query(t, [kind |-> "address", rule |-> f, name |-> name,
                      cname |-> cname, server |-> 1])
  <2>1. f.flow.rc_id \in RcIds /\ PlanRemoteWithRule(t, f, name, cname)
    BY <1>3
  <2> QED BY <1>4, <2>1, RemoteOutcomes
<1>6. CASE cache' = cache /\ Return(t, Fallback)
  <2>1. CachesRight'
    BY <1>4, <1>6, CacheStays DEF CachesRight
  <2> QED BY <1>6, <2>1, ReturnKeeps DEF Fallback
<1>7. ASSUME cache' = cache, NEW ip, NEW source, NEW from,
             Return(t, Remote(Address(ip), f.flow.rc_id, source, from)),
             source \in CnameSources <=> cname,
             from # None => clock < from.at + TTL /\ from.of = name
      PROVE  IInv'
  <2>1. CachesRight'
    BY <1>4, <1>7, CacheStays DEF CachesRight
  <2>2. PICK p : p = Remote(Address(ip), f.flow.rc_id, source, from)
    OBVIOUS
  <2>3. p.rc_id = f.flow.rc_id /\ p.from = from /\ p.at = clock /\ p.source = source
    BY <2>2 DEF Remote
  <2>4. Follows(p, request[t])
    <3>1. cname => RuleFor(request[t].target, request[t]) = None
      BY DEF Undecided
    <3>2. ~cname => f = RuleFor(request[t].target, request[t])
      BY <1>3
    <3> QED BY <2>3, <3>1, <3>2 DEF Follows
  <2>5. Fresh(p, request[t])
    <3>1. ~cname => request[t].target.name = name
      BY DEF Name
    <3> QED BY <1>7, <2>3, <3>1 DEF Fresh
  <2> QED BY <1>7, <2>1, <2>2, <2>4, <2>5, ReturnKeeps
<1>8. CASE /\ cache' = [cache EXCEPT ![<<f.flow.rc_id, name>>] = None]
           /\ table.dns_map[<<f.flow.rc_id, name>>] = <<>>
           /\ Query(t, [kind |-> "address", rule |-> f, name |-> name,
                        cname |-> cname, server |-> 1])
  <2>1. PICK j : j = [kind |-> "address", rule |-> f, name |-> name, cname |-> cname, server |-> 1]
    OBVIOUS
  <2>2. /\ j.kind = "address" /\ j.rule = f /\ j.name = name /\ j.cname = cname
        /\ DOMAIN j = {"kind", "rule", "name", "cname", "server"}
    BY <2>1
  <2>3. /\ pc' = [pc EXCEPT ![t] = "query"] /\ job' = [job EXCEPT ![t] = j]
        /\ UNCHANGED <<plan, router>>
    BY <1>8, <2>1 DEF Query
  <2>4. <<f.flow.rc_id, name>> \in RcIds \X Domains
    BY <1>3
  <2>5. /\ DOMAIN cache' = RcIds \X Domains /\ CacheDated'
        /\ cache'[<<f.flow.rc_id, name>>] = None
        /\ table'.dns_map[<<f.flow.rc_id, name>>] = <<>>
    BY <1>4, <1>8, <2>4, CacheClears
  <2>6. CachesRight'
    BY <2>5 DEF CachesRight
  <2>7. \A x, q : RuleFor(x, q)' = RuleFor(x, q)
    BY TableStays
  <2>8. Undecided(r)' = Undecided(r)
    BY TableStays
  <2>9. AddressJob(j, r)'
    <3>1. CASE cname
      <4>1. Undecided(r)' /\ IsAliasOf(name, r)'
        BY <1>1, <2>8, <3>1 DEF IsAliasOf
      <4>2. RuleFor(Name(name), r)' # None /\ f = RuleFor(Name(name), r)'
        BY <1>2, <1>3, <2>7
      <4> QED BY <1>1, <2>2, <2>5, <3>1, <4>1, <4>2 DEF AddressJob
    <3>2. CASE ~cname
      <4>1. target = r.target /\ name = r.target.name
        BY <1>1, <3>2 DEF Name
      <4>2. RuleFor(r.target, r)' # None /\ f = RuleFor(r.target, r)'
        BY <1>2, <1>3, <2>7, <4>1
      <4> QED BY <1>1, <2>2, <2>5, <3>2, <4>1, <4>2 DEF AddressJob
    <3> QED BY <3>1, <3>2
  <2>10. AddressJob(j, request[t])'
    BY <1>1, <2>9 DEF AddressJob
  <2> QED BY <2>3, <2>6, <2>10, StageKeeps
<1> QED BY <1>5, <1>6, <1>7, <1>8
-----------------------------------------------------------------------------
(* A step that leaves the rules and the caches alone.                      *)
LEMMA JobsStay ==
  ASSUME UNCHANGED <<mode, table, cache, lookups>>
  PROVE  \A j, r : /\ AddressJob(j, r)' = AddressJob(j, r)
                   /\ LookupJob(j, r)' = LookupJob(j, r)
<1>1. cache' = cache /\ lookups' = lookups /\ table' = table
  OBVIOUS
<1>2. \A target, r : RuleFor(target, r)' = RuleFor(target, r)
  BY TableStays
<1>3. \A r : Undecided(r)' = Undecided(r)
  BY TableStays
<1>4. \A name, r : IsAliasOf(name, r)' = IsAliasOf(name, r)
  BY <1>1 DEF IsAliasOf
<1>5. \A j, r : AddressJob(j, r)' = AddressJob(j, r)
  BY <1>1, <1>2, <1>3, <1>4 DEF AddressJob
<1>6. \A j, r : LookupJob(j, r)' = LookupJob(j, r)
  BY <1>1, <1>3 DEF LookupJob
<1> QED BY <1>5, <1>6

Asking(j, r) == AddressJob(j, r) \/ LookupJob(j, r)

LEMMA QuietKeeps ==
  ASSUME IInv, UNCHANGED <<mode, table, cache, lookups>>, Shape', Locked',
         \A u \in Threads :
            \/ pc'[u] = "idle"
            \/ pc'[u] = "lock" /\ request'[u] \in Requests /\ mode # "unavailable"
            \/ /\ pc[u] # "idle" /\ request'[u] = request[u]
               /\ \/ pc'[u] = "plan"
                  \/ /\ pc'[u] = pc[u] /\ plan'[u] = plan[u]
                     /\ pc[u] = "query" => Asking(job'[u], request[u])
  PROVE  IInv'
<1>1. Asked'
  BY DEF IInv, Asked
<1>2. Jobs'
  <2> SUFFICES ASSUME NEW u \in Threads
               PROVE  /\ pc'[u] = "query" => (AddressJob(job[u], request[u]) \/ LookupJob(job[u], request[u]))'
                      /\ pc'[u] = "system" => Undecided(request[u])'
    BY DEF Jobs
  <2>1. PICK j, r : j = job'[u] /\ r = request'[u]
    OBVIOUS
  <2>2. pc'[u] = "query" => Asking(j, r)
    BY <2>1
  <2>3. pc'[u] = "query" => (AddressJob(j, r) \/ LookupJob(j, r))'
    BY <2>2, JobsStay DEF Asking
  <2>4. pc'[u] = "query" => (AddressJob(job[u], request[u]) \/ LookupJob(job[u], request[u]))'
    BY <2>1, <2>3 DEF AddressJob, LookupJob
  <2>5. pc'[u] = "system" => Undecided(r)
    BY <2>1 DEF IInv, Jobs
  <2>6. Undecided(r)' = Undecided(r)
    BY TableStays
  <2>7. pc'[u] = "system" => Undecided(request[u])'
    BY <2>1, <2>5, <2>6 DEF Undecided
  <2> QED BY <2>4, <2>7
<1>3. CacheDated' /\ LookupsDated'
  BY CacheStays, LookupsStay DEF IInv
<1>4. Planned'
  <2> SUFFICES ASSUME NEW u \in Threads, pc'[u] = "planned", plan'[u].kind = "remote"
               PROVE  Follows(plan[u], request[u])' /\ Fresh(plan[u], request[u])'
    BY DEF Planned
  <2>1. PICK p, r : p = plan[u] /\ r = request[u] /\ p = plan'[u] /\ r = request'[u]
    OBVIOUS
  <2>2. Follows(p, r) /\ Fresh(p, r)
    BY <2>1 DEF IInv, Planned
  <2>3. Follows(p, r)'
    BY <2>2, TableStays
  <2>4. Fresh(plan[u], request[u])'
    BY <2>1, <2>2 DEF Fresh
  <2>5. Follows(plan[u], request[u])'
    BY <2>1, <2>3 DEF Follows, RuleFor
  <2> QED BY <2>4, <2>5
<1> QED BY <1>1, <1>2, <1>3, <1>4 DEF IInv

(* The mode is set before anybody asks, so no plan is under way then.      *)
LEMMA InstallKeeps ==
  ASSUME IInv, mode = "unavailable",
         table'.rules \in Seq(CompiledRule),
         cache' = Cleared(cache), lookups' = Cleared(lookups),
         UNCHANGED <<router, pc, request, job, plan, clock, requests>>
  PROVE  IInv'
<1>1. \A u \in Threads : pc[u] = "idle" /\ pc'[u] = "idle"
  BY DEF IInv, Asked
<1>2. /\ DOMAIN cache' = RcIds \X Domains /\ DOMAIN lookups' = Domains
      /\ \A key \in RcIds \X Domains : cache'[key] = None
      /\ \A name \in Domains : lookups'[name] = None
  BY DEF IInv, Shape, Cleared
<1>3. CacheDated' /\ LookupsDated'
  BY <1>2 DEF CacheDated, LookupsDated
<1>4. Shape'
  BY <1>2 DEF IInv, Shape
<1>5. Locked'
  BY DEF IInv, Locked
<1>6. Asked' /\ Jobs' /\ Planned'
  BY <1>1 DEF Asked, Jobs, Planned
<1> QED BY <1>3, <1>4, <1>5, <1>6 DEF IInv

LEMMA StutterKeeps == IInv /\ UNCHANGED vars => IInv'
<1> SUFFICES ASSUME IInv, UNCHANGED vars PROVE IInv'
  OBVIOUS
<1>1. UNCHANGED <<mode, table, cache, lookups>> /\ UNCHANGED <<pc, request, job, plan, router, clock>>
  BY DEF vars, installed, caches
<1>2. Shape' /\ Locked'
  BY <1>1 DEF IInv, Shape, Locked
<1>3. \A u \in Threads : pc[u] = "query" => Asking(job[u], request[u])
  BY DEF IInv, Jobs, Asking
<1> QED BY <1>1, <1>2, <1>3, QuietKeeps

LEMMA TickKeeps == IInv /\ Tick => IInv'
<1> SUFFICES ASSUME IInv, Tick PROVE IInv'
  OBVIOUS
<1>1. UNCHANGED <<mode, table, cache, lookups>> /\ UNCHANGED <<pc, request, job, plan, router>>
  BY DEF Tick, installed, caches
<1>2. clock' \in Nat
  BY DEF IInv, Shape, Tick
<1>3. Shape' /\ Locked'
  BY <1>1, <1>2 DEF IInv, Shape, Locked
<1>4. \A u \in Threads : pc[u] = "query" => Asking(job[u], request[u])
  BY DEF IInv, Jobs, Asking
<1> QED BY <1>1, <1>3, <1>4, QuietKeeps

LEMMA RequestKeeps ==
  ASSUME IInv, NEW t \in Threads, NEW target \in Targets, NEW port \in Ports,
         NEW proto \in Protos, Request(t, target, port, proto)
  PROVE  IInv'
<1>1. /\ UNCHANGED <<mode, table, cache, lookups>> /\ UNCHANGED <<job, plan, router, clock>>
      /\ pc[t] = "idle" /\ mode # "unavailable"
  BY DEF Request, installed, caches
<1>2. /\ DOMAIN pc' = Threads /\ DOMAIN request' = Threads /\ pc'[t] = "lock"
      /\ request'[t] = [target |-> target, port |-> port, proto |-> proto]
      /\ \A u \in Threads \ {t} : pc'[u] = pc[u] /\ request'[u] = request[u]
  BY DEF Request, IInv, Shape
<1>3. request'[t] \in Requests
  BY <1>2 DEF Requests
<1>4. Shape'
  BY <1>1, <1>2 DEF IInv, Shape
<1>5. Locked'
  BY <1>1, <1>2 DEF IInv, Locked, Holding
<1>6. \A u \in Threads : pc[u] = "query" => Asking(job[u], request[u])
  BY DEF IInv, Jobs, Asking
<1> QED BY <1>1, <1>2, <1>3, <1>4, <1>5, <1>6, QuietKeeps

LEMMA LockKeeps ==
  ASSUME IInv, NEW t \in Threads, Lock(t)
  PROVE  IInv'
<1>0. None \notin Threads
  BY PlannerAssumption
<1>1. /\ UNCHANGED <<mode, table, cache, lookups>> /\ UNCHANGED <<job, plan, request, clock>>
      /\ pc[t] = "lock" /\ router = None /\ router' = t
  BY DEF Lock, installed, caches
<1>2. /\ DOMAIN pc' = Threads /\ pc'[t] = "plan"
      /\ \A u \in Threads \ {t} : pc'[u] = pc[u]
  BY DEF Lock, IInv, Shape
<1>3. Shape'
  BY <1>1, <1>2 DEF IInv, Shape
<1>4. Locked'
  BY <1>0, <1>1, <1>2 DEF IInv, Locked, Holding
<1>5. \A u \in Threads : pc[u] = "query" => Asking(job[u], request[u])
  BY DEF IInv, Jobs, Asking
<1> QED BY <1>1, <1>2, <1>3, <1>4, <1>5, QuietKeeps

LEMMA LeaveKeeps ==
  ASSUME IInv, NEW t \in Threads, Leave(t)
  PROVE  IInv'
<1>1. /\ UNCHANGED <<mode, table, cache, lookups>> /\ UNCHANGED <<job, router, clock>>
      /\ pc[t] = "planned"
  BY DEF Leave, installed, caches
<1>2. /\ DOMAIN pc' = Threads /\ DOMAIN plan' = Threads /\ DOMAIN request' = Threads
      /\ pc'[t] = "idle"
      /\ \A u \in Threads \ {t} : pc'[u] = pc[u] /\ plan'[u] = plan[u] /\ request'[u] = request[u]
  BY DEF Leave, IInv, Shape
<1>3. Shape'
  BY <1>1, <1>2 DEF IInv, Shape
<1>4. Locked'
  BY <1>1, <1>2 DEF IInv, Locked, Holding
<1>5. \A u \in Threads : pc[u] = "query" => Asking(job[u], request[u])
  BY DEF IInv, Jobs, Asking
<1> QED BY <1>1, <1>2, <1>3, <1>4, <1>5, QuietKeeps

LEMMA NextServerKeeps ==
  ASSUME IInv, NEW t \in Threads, NextServer(t)
  PROVE  IInv'
<1>1. /\ UNCHANGED <<mode, table, cache, lookups>>
      /\ UNCHANGED <<pc, request, plan, router, clock>> /\ pc[t] = "query"
  BY DEF NextServer, installed, caches
<1>2. PICK j : j = job[t]
  OBVIOUS
<1>3. Asking(j, request[t])
  BY <1>1, <1>2 DEF IInv, Jobs, Asking
<1>4. PICK k : k = [j EXCEPT !.server = @ + 1]
  OBVIOUS
<1>5. DOMAIN job' = Threads /\ job'[t] = k /\ \A u \in Threads \ {t} : job'[u] = job[u]
  BY <1>2, <1>4 DEF NextServer, IInv, Shape
<1>6. Asking(k, request[t])
  <2>1. CASE AddressJob(j, request[t])
    <3>1. /\ k.kind = j.kind /\ k.name = j.name /\ k.rule = j.rule /\ k.cname = j.cname
          /\ DOMAIN k = DOMAIN j
      BY <1>4, <2>1 DEF AddressJob
    <3> QED BY <2>1, <3>1 DEF AddressJob, Asking
  <2>2. CASE LookupJob(j, request[t])
    <3>1. k.kind = j.kind /\ k.name = j.name /\ DOMAIN k = DOMAIN j
      BY <1>4, <2>2 DEF LookupJob
    <3> QED BY <2>2, <3>1 DEF LookupJob, Asking
  <2> QED BY <1>3, <2>1, <2>2 DEF Asking
<1>7. \A u \in Threads : pc[u] = "query" => Asking(job'[u], request[u])
  BY <1>5, <1>6 DEF IInv, Jobs, Asking
<1>8. Shape'
  BY <1>1, <1>5 DEF IInv, Shape
<1>9. Locked'
  BY <1>1 DEF IInv, Locked
<1>10. \A u \in Threads : pc[u] = "idle" => pc'[u] = "idle"
  BY <1>1
<1> QED BY <1>1, <1>7, <1>8, <1>9, QuietKeeps
-----------------------------------------------------------------------------
(* The steps of the thread that holds the mutex.                           *)
LEMMA HolderIs ==
  ASSUME IInv, NEW t \in Threads, pc[t] \in Holding
  PROVE  /\ router = t /\ request[t] \in Requests /\ mode # "unavailable"
         /\ request[t].target.kind \in {"domain", "ip"}
         /\ request[t].target.kind = "domain" =>
               /\ request[t].target.name \in Domains
               /\ request[t].target = Name(request[t].target.name)
<1>1. router = t /\ request[t] \in Requests /\ mode # "unavailable"
  BY DEF IInv, Locked, Asked, Holding
<1>2. request[t].target \in Target
  BY <1>1, PlannerAssumption DEF Requests
<1> QED BY <1>1, <1>2 DEF Target, Name

LEMMA AskSystemKeeps ==
  ASSUME IInv, NEW t \in Threads, router = t, UNCHANGED <<mode, table, request, clock>>,
         CachesRight', AskSystem(t), Undecided(request[t])
  PROVE  IInv'
<1>1. /\ pc' = [pc EXCEPT ![t] = "system"] /\ job' = [job EXCEPT ![t] = None]
      /\ UNCHANGED <<plan, router>>
  BY DEF AskSystem
<1> QED BY <1>1, StageKeeps

(* The answer of a lookup, from the cache or from a server.                *)
LEMMA LookupKeeps ==
  ASSUME IInv, NEW t \in Threads, pc[t] \in Holding, UNCHANGED <<mode, table, request, clock>>,
         DOMAIN lookups' = Domains, LookupsDated', Undecided(request[t]),
         NEW answer \in Answers, NEW source, source \notin CnameSources, NEW from,
         lookups'[request[t].target.name].answer = answer,
         from # None => clock < from.at + TTL /\ from.of = request[t].target.name,
         PlanFromLookup(t, answer, source, from)
  PROVE  IInv'
<1>1. router = t /\ request' = request /\ Shape /\ CacheDated
  BY HolderIs DEF IInv
<1>2. request[t].target.kind = "domain" /\ RuleFor(request[t].target, request[t]) = None
  BY DEF Undecided
<1>3. ASSUME NEW n \in DOMAIN answer.aliases, answer.aliases[n] \in Domains,
             RuleFor(Name(answer.aliases[n]), request[t]) # None,
             PlanRemoteWithRule(t, RuleFor(Name(answer.aliases[n]), request[t]),
                                answer.aliases[n], TRUE)
      PROVE  IInv'
  <2>1. IsAliasOf(answer.aliases[n], request[t])'
    BY <1>1 DEF IsAliasOf
  <2> QED BY <1>1, <1>2, <1>3, <2>1, FoundKeeps
<1>4. ASSUME cache' = cache, NEW ip \in Ip, RuleFor(Address(ip), request[t]) # None,
             Return(t, Remote(Address(ip), RuleFor(Address(ip), request[t]).flow.rc_id, source, from))
      PROVE  IInv'
  <2>1. PICK p : p = Remote(Address(ip), RuleFor(Address(ip), request[t]).flow.rc_id, source, from)
    OBVIOUS
  <2>2. p.from = from /\ p.at = clock /\ p.source = source
    BY <2>1 DEF Remote
  <2>3. Follows(p, request[t]) /\ Fresh(p, request[t])
    BY <1>2, <2>2 DEF Follows, Fresh
  <2>4. CachesRight'
    BY <1>1, <1>4, CacheStays DEF CachesRight
  <2> QED BY <1>1, <1>4, <2>1, <2>3, <2>4, ReturnKeeps
<1>5. CASE cache' = cache /\ AskSystem(t)
  <2>1. CachesRight'
    BY <1>1, <1>5, CacheStays DEF CachesRight
  <2> QED BY <1>1, <1>5, <2>1, AskSystemKeeps
<1> QED BY <1>1, <1>3, <1>4, <1>5, LookupOutcomes

LEMMA CachesStay ==
  ASSUME IInv, UNCHANGED caches
  PROVE  CachesRight'
<1>1. cache' = cache /\ lookups' = lookups
  BY DEF caches
<1> QED BY <1>1, CacheStays, LookupsStay DEF IInv, CachesRight

LEMMA DerivedKeeps ==
  ASSUME IInv, NEW t \in Threads, pc[t] \in Holding, UNCHANGED <<mode, table, request, clock>>,
         Undecided(request[t]), PlanDnsServerDerivedRules(t, request[t].target.name)
  PROVE  IInv'
<1>1. router = t /\ request' = request /\ Shape /\ CacheDated /\ LookupsDated
  BY HolderIs DEF IInv
<1>2. PICK name : name = request[t].target.name
  OBVIOUS
<1>3. name \in Domains
  BY <1>2, HolderIs DEF Undecided
<1>4. CASE AskSystem(t) /\ UNCHANGED caches
  BY <1>1, <1>4, CachesStay, AskSystemKeeps
<1>5. CASE /\ Hit(lookups[name]) /\ UNCHANGED lookups
           /\ PlanFromLookup(t, lookups[name].answer, "dns-server-ip-rule-cache", lookups[name].from)
  <2>1. Dated(lookups[name], name) /\ lookups[name].answer \in Answers
    BY <1>1, <1>3, <1>5 DEF LookupsDated, Hit
  <2>2. clock \in Nat /\ TTL \in Nat
    BY <1>1, PlannerAssumption DEF Shape
  <2>3. clock < lookups[name].from.at + TTL /\ lookups[name].from.of = name
    BY <1>5, <2>1, <2>2 DEF Dated, Hit
  <2>4. DOMAIN lookups' = Domains /\ LookupsDated'
    BY <1>1, <1>5, LookupsStay
  <2>5. "dns-server-ip-rule-cache" \notin CnameSources
    BY DEF CnameSources
  <2> QED BY <1>1, <1>2, <1>5, <2>1, <2>3, <2>4, <2>5, LookupKeeps
<1>6. CASE /\ lookups' = [lookups EXCEPT ![name] = None] /\ UNCHANGED cache
           /\ Query(t, [kind |-> "lookup", name |-> name, server |-> 1])
  <2>1. PICK j : j = [kind |-> "lookup", name |-> name, server |-> 1]
    OBVIOUS
  <2>2. j.kind = "lookup" /\ j.name = name /\ DOMAIN j = {"kind", "name", "server"}
    BY <2>1
  <2>3. DOMAIN lookups' = Domains /\ lookups'[name] = None
        /\ \A n \in Domains : lookups'[n] = None \/ lookups'[n] = lookups[n]
    BY <1>1, <1>3, <1>6 DEF Shape
  <2>4. LookupsDated'
    <3> SUFFICES ASSUME NEW n \in Domains, lookups'[n] # None
                 PROVE  Dated(lookups'[n], n) /\ lookups'[n].answer \in Answers
      BY DEF LookupsDated, Dated
    <3> QED BY <1>1, <2>3 DEF LookupsDated
  <2>5. CachesRight'
    BY <1>1, <1>6, <2>3, <2>4, CacheStays DEF CachesRight
  <2>6. Undecided(request[t])'
    <3>1. PICK r : r = request[t] /\ r = request'[t]
      BY <1>1
    <3>2. Undecided(r)' = Undecided(r)
      BY TableStays
    <3> QED BY <3>1, <3>2 DEF Undecided
  <2>7. LookupJob(j, request[t])'
    BY <1>1, <1>2, <2>2, <2>3, <2>6 DEF LookupJob
  <2>8. /\ pc' = [pc EXCEPT ![t] = "query"] /\ job' = [job EXCEPT ![t] = j]
        /\ UNCHANGED <<plan, router>>
    BY <1>6, <2>1 DEF Query
  <2> QED BY <1>1, <2>5, <2>7, <2>8, StageKeeps
<1> QED BY <1>2, <1>4, <1>5, <1>6 DEF PlanDnsServerDerivedRules

LEMMA PlanFromModeKeeps ==
  ASSUME IInv, NEW t \in Threads, PlanFromMode(t)
  PROVE  IInv'
<1>1. pc[t] \in Holding /\ UNCHANGED <<mode, table, request, clock>>
  BY DEF PlanFromMode, Holding, installed
<1>2. PICK r : r = request[t]
  OBVIOUS
<1>3. /\ router = t /\ r.target.kind \in {"domain", "ip"}
      /\ r.target.kind = "domain" => r.target.name \in Domains /\ r.target = Name(r.target.name)
  BY <1>1, <1>2, HolderIs
<1>4. PICK rule, exact :
         /\ rule = RuleFor(r.target, r)
         /\ exact = IF r.target.kind = "domain"
                    THEN FirstIpWithRule(table.dns_exact[r.target.name], r) ELSE None
  OBVIOUS
<1>5. ASSUME NEW p, UNCHANGED caches, Return(t, p),
             p.kind = "remote" =>
                /\ p.from = None
                /\ mode = "matcher" /\ rule # None =>
                      p.rc_id = rule.flow.rc_id /\ p.dial = r.target
      PROVE  IInv'
  <2>1. p.kind = "remote" => Follows(p, request[t]) /\ Fresh(p, request[t])
    BY <1>2, <1>4, <1>5 DEF Follows, Fresh
  <2> QED BY <1>1, <1>3, <1>5, <2>1, CachesStay, ReturnKeeps
<1>6. \A dial, rc_id, source, from : LET p == Remote(dial, rc_id, source, from)
        IN p.kind = "remote" /\ p.from = from /\ p.rc_id = rc_id /\ p.dial = dial
  BY DEF Remote
<1>7. CASE mode = "tunnel" /\ UNCHANGED caches
           /\ Return(t, Remote(r.target, 0, "route-table-unavailable", None))
  BY <1>5, <1>6, <1>7
<1>8. CASE UNCHANGED caches /\ Return(t, Remote(r.target, rule.flow.rc_id, "rule-ip", None))
  BY <1>5, <1>6, <1>8
<1>9. CASE /\ rule # None /\ r.target.kind = "domain"
           /\ PlanRemoteWithRule(t, rule, r.target.name, FALSE) /\ UNCHANGED lookups
  <2>1. DOMAIN lookups' = Domains /\ LookupsDated'
    BY <1>9, LookupsStay DEF IInv
  <2>2. FALSE \in BOOLEAN
    OBVIOUS
  <2>3. PlanRemoteWithRule(t, RuleFor(r.target, request[t]), r.target.name, FALSE)
    BY <1>2, <1>4, <1>9
  <2> QED BY <1>1, <1>2, <1>3, <1>4, <1>9, <2>1, <2>2, <2>3, FoundKeeps
<1>10. CASE /\ rule = None /\ UNCHANGED caches
            /\ Return(t, Remote(Address(exact[2]), exact[1].flow.rc_id, "dns-data-ip-rule", None))
  BY <1>5, <1>6, <1>10
<1>11. CASE /\ rule = None /\ UNCHANGED caches
            /\ Return(t, IF IsExtra(r.target) THEN Remote(r.target, 0, "extra-ip", None)
                         ELSE Fallback)
  <2>1. PICK p : p = IF IsExtra(r.target) THEN Remote(r.target, 0, "extra-ip", None) ELSE Fallback
    OBVIOUS
  <2>2. p.kind = "remote" => p.from = None
    BY <1>6, <2>1 DEF Fallback
  <2> QED BY <1>5, <1>11, <2>1, <2>2
<1>12. CASE /\ rule = None /\ exact = None /\ r.target.kind = "domain"
            /\ PlanDnsServerDerivedRules(t, r.target.name)
  <2>1. Undecided(r)
    BY <1>4, <1>12 DEF Undecided
  <2> QED BY <1>1, <1>2, <1>12, <2>1, DerivedKeeps
<1> QED BY <1>2, <1>4, <1>7, <1>8, <1>9, <1>10, <1>11, <1>12 DEF PlanFromMode, DirectRule

LEMMA AddressAnsweredKeeps ==
  ASSUME IInv, NEW t \in Threads, NEW answer \in Answers, AddressAnswered(t, answer)
  PROVE  IInv'
<1>1. /\ pc[t] \in Holding /\ pc[t] = "query" /\ job[t].kind = "address"
      /\ UNCHANGED <<mode, table, request, lookups, clock>>
  BY DEF AddressAnswered, Holding, installed
<1>2. PICK j, r : j = job[t] /\ r = request[t]
  OBVIOUS
<1>3. router = t
  BY <1>1, HolderIs
<1>4. AddressJob(j, r)
  BY <1>1, <1>2 DEF IInv, Jobs, LookupJob
<1>5. PICK from : from = [of |-> j.name, at |-> clock]
  OBVIOUS
<1>6. PICK entry : entry = [ip |-> answer.ips[1], expires |-> clock + TTL, from |-> from]
  OBVIOUS
<1>7. PICK p : p = Remote(Address(answer.ips[1]), j.rule.flow.rc_id,
                          IF j.cname THEN "cname-dns-server" ELSE "dns-server", from)
  OBVIOUS
<1>8. /\ cache' = [cache EXCEPT ![<<j.rule.flow.rc_id, j.name>>] = entry]
      /\ Return(t, p)
  BY <1>2, <1>5, <1>6, <1>7 DEF AddressAnswered
<1>9. clock \in Nat /\ TTL \in Nat \ {0} /\ clock < clock + TTL
  BY PlannerAssumption DEF IInv, Shape
<1>10. j.rule.flow.rc_id \in RcIds /\ j.name \in Domains
  BY <1>4, RuleFound DEF IInv, AddressJob
<1>11. /\ entry.from = from /\ entry.expires = clock + TTL
       /\ from.of = j.name /\ from.at = clock
  BY <1>5, <1>6
<1>12. CachesRight'
  <2>1. DOMAIN lookups' = Domains /\ LookupsDated'
    BY <1>1, LookupsStay DEF IInv
  <2>2. DOMAIN cache' = RcIds \X Domains
    BY <1>8 DEF IInv, Shape
  <2>3. CacheDated'
    <3> SUFFICES ASSUME NEW key \in RcIds \X Domains, cache'[key] # None
                 PROVE  Dated(cache'[key], key[2])
      BY DEF CacheDated, Dated
    <3>1. CASE key = <<j.rule.flow.rc_id, j.name>>
      <4>1. cache'[key] = entry
        BY <1>8, <3>1 DEF IInv, Shape
      <4>2. key[2] = j.name
        BY <3>1, Pairs
      <4> QED BY <1>9, <1>11, <4>1, <4>2 DEF Dated
    <3>2. CASE key # <<j.rule.flow.rc_id, j.name>>
      BY <1>8, <3>2 DEF IInv, Shape, CacheDated
    <3> QED BY <3>1, <3>2
  <2> QED BY <2>1, <2>2, <2>3 DEF CachesRight
<1>13. p.rc_id = j.rule.flow.rc_id /\ p.from = from /\ p.at = clock
       /\ p.source = IF j.cname THEN "cname-dns-server" ELSE "dns-server"
  BY <1>7 DEF Remote
<1>14. Follows(p, r)
  <2>1. RuleFor(r.target, r) # None => j.rule = RuleFor(r.target, r)
    BY <1>4 DEF AddressJob, Undecided
  <2>2. r.target.kind = "domain"
    BY <1>4 DEF AddressJob
  <2> QED BY <1>13, <2>1, <2>2 DEF Follows
<1>15. Fresh(p, r)
  <2>1. ~j.cname => j.name = r.target.name
    BY <1>4 DEF AddressJob
  <2> QED BY <1>9, <1>11, <1>13, <2>1 DEF Fresh, CnameSources
<1> QED BY <1>1, <1>2, <1>3, <1>8, <1>12, <1>14, <1>15, ReturnKeeps

LEMMA LookupAnsweredKeeps ==
  ASSUME IInv, NEW t \in Threads, NEW answer \in Answers, LookupAnswered(t, answer)
  PROVE  IInv'
<1>1. /\ pc[t] \in Holding /\ pc[t] = "query" /\ job[t].kind = "lookup"
      /\ UNCHANGED <<mode, table, request, clock>>
  BY DEF LookupAnswered, Holding, installed
<1>2. PICK name : name = request[t].target.name
  OBVIOUS
<1>3. LookupJob(job[t], request[t])
  BY <1>1 DEF IInv, Jobs, AddressJob
<1>4. job[t].name = name /\ Undecided(request[t])
  BY <1>2, <1>3 DEF LookupJob
<1>5. name \in Domains
  BY <1>1, <1>2, <1>4, HolderIs DEF Undecided
<1>6. PICK from : from = [of |-> name, at |-> clock]
  OBVIOUS
<1>7. PICK entry : entry = [answer |-> answer, expires |-> clock + TTL, from |-> from]
  OBVIOUS
<1>8. /\ lookups' = [lookups EXCEPT ![name] = entry]
      /\ PlanFromLookup(t, answer, "dns-server-ip-rule", from)
  BY <1>4, <1>6, <1>7 DEF LookupAnswered
<1>9. clock \in Nat /\ TTL \in Nat \ {0} /\ clock < clock + TTL
  BY PlannerAssumption DEF IInv, Shape
<1>10. /\ entry.from = from /\ entry.expires = clock + TTL /\ entry.answer = answer
       /\ from.of = name /\ from.at = clock
  BY <1>6, <1>7
<1>11. DOMAIN lookups' = Domains /\ lookups'[name] = entry
       /\ \A n \in Domains \ {name} : lookups'[n] = lookups[n]
  BY <1>5, <1>8 DEF IInv, Shape
<1>12. LookupsDated'
  <2> SUFFICES ASSUME NEW n \in Domains, lookups'[n] # None
               PROVE  Dated(lookups'[n], n) /\ lookups'[n].answer \in Answers
    BY DEF LookupsDated, Dated
  <2>1. CASE n = name
    BY <1>9, <1>10, <1>11, <2>1 DEF Dated
  <2>2. CASE n # name
    BY <1>11, <2>2 DEF IInv, LookupsDated
  <2> QED BY <2>1, <2>2
<1>13. "dns-server-ip-rule" \notin CnameSources
  BY DEF CnameSources
<1>14. from # None => clock < from.at + TTL /\ from.of = name
  BY <1>9, <1>10
<1> QED BY <1>1, <1>2, <1>4, <1>8, <1>10, <1>11, <1>12, <1>13, <1>14, LookupKeeps

LEMMA LastServerFailsKeeps ==
  ASSUME IInv, NEW t \in Threads, LastServerFails(t)
  PROVE  IInv'
<1>1. /\ pc[t] \in Holding /\ pc[t] = "query" /\ UNCHANGED caches
      /\ UNCHANGED <<mode, table, request, clock>>
  BY DEF LastServerFails, Holding, installed
<1>2. router = t /\ CachesRight'
  BY <1>1, HolderIs, CachesStay
<1>3. CASE Return(t, Fallback)
  BY <1>1, <1>2, <1>3, ReturnKeeps DEF Fallback
<1>4. CASE job[t].kind = "lookup" /\ AskSystem(t)
  <2>1. Undecided(request[t])
    BY <1>1, <1>4 DEF IInv, Jobs, AddressJob, LookupJob
  <2> QED BY <1>1, <1>2, <1>4, <2>1, AskSystemKeeps
<1> QED BY <1>3, <1>4 DEF LastServerFails, AllServersFailed

LEMMA SystemKeeps ==
  ASSUME IInv, NEW t \in Threads, SystemEnds(t)
  PROVE  IInv'
<1>1. /\ pc[t] \in Holding /\ pc[t] = "system" /\ UNCHANGED caches
      /\ UNCHANGED <<mode, table, request, clock>>
  BY DEF SystemEnds, SystemAnswers, SystemFails, Holding, installed
<1>2. router = t /\ CachesRight'
  BY <1>1, HolderIs, CachesStay
<1>3. RuleFor(request[t].target, request[t]) = None
  BY <1>1 DEF IInv, Jobs, Undecided
<1>4. \E p : Return(t, p) /\ (p.kind = "remote" => p.from = None)
  <2>1. \A dial, rc_id, source : Remote(dial, rc_id, source, None).from = None
    BY DEF Remote
  <2>2. Fallback.kind # "remote"
    BY DEF Fallback
  <2>3. CASE SystemFails(t)
    BY <2>2, <2>3 DEF SystemFails
  <2>4. ASSUME NEW ip \in Ip, SystemAnswers(t, ip)
        PROVE  \E p : Return(t, p) /\ (p.kind = "remote" => p.from = None)
    BY <2>1, <2>2, <2>4 DEF SystemAnswers
  <2> QED BY <2>3, <2>4 DEF SystemEnds
<1>5. PICK p : Return(t, p) /\ (p.kind = "remote" => p.from = None)
  BY <1>4
<1>6. p.kind = "remote" => Follows(p, request[t]) /\ Fresh(p, request[t])
  BY <1>3, <1>5 DEF Follows, Fresh
<1> QED BY <1>1, <1>2, <1>5, <1>6, ReturnKeeps

LEMMA NextIInv == IInv /\ [Next]_vars => IInv'
<1> SUFFICES ASSUME IInv, [Next]_vars PROVE IInv'
  OBVIOUS
<1>1. ASSUME NEW raw \in Tables, InstallRouteTable(raw) PROVE IInv'
  <2>1. table'.rules \in Seq(CompiledRule)
    BY <1>1, PlannerAssumption DEF InstallRouteTable
  <2> QED BY <1>1, <2>1, InstallKeeps DEF InstallRouteTable
<1>2. CASE InstallTunnelFallback
  <2>1. table'.rules \in Seq(CompiledRule)
    BY <1>2 DEF InstallTunnelFallback, IInv, Shape
  <2> QED BY <1>2, <2>1, InstallKeeps DEF InstallTunnelFallback
<1>3. CASE Tick
  BY <1>3, TickKeeps
<1>4. ASSUME NEW t \in Threads, NEW target \in Targets, NEW port \in Ports, NEW proto \in Protos,
             Request(t, target, port, proto)
      PROVE  IInv'
  BY <1>4, RequestKeeps
<1>5. ASSUME NEW t \in Threads, Lock(t) \/ PlanFromMode(t) \/ Leave(t) PROVE IInv'
  BY <1>5, LockKeeps, PlanFromModeKeeps, LeaveKeeps
<1>6. ASSUME NEW t \in Threads, QueryEnds(t) PROVE IInv'
  BY <1>6, AddressAnsweredKeeps, LookupAnsweredKeeps, NextServerKeeps, LastServerFailsKeeps
  DEF QueryEnds
<1>7. ASSUME NEW t \in Threads, SystemEnds(t) PROVE IInv'
  BY <1>7, SystemKeeps
<1>8. CASE UNCHANGED vars
  BY <1>8, StutterKeeps
<1> QED BY <1>1, <1>2, <1>3, <1>4, <1>5, <1>6, <1>7, <1>8 DEF Next

LEMMA IInvHolds == Spec => []IInv
BY InitIInv, NextIInv, PTL DEF Spec

-----------------------------------------------------------------------------
(* The first rule that matches what the client asked for decides its route *)
(* (plan 325-330), whatever caches and servers answer meanwhile.           *)
THEOREM PlannerDirectRuleWins == Spec => []DirectRuleWins
<1>1. IInv => DirectRuleWins
  <2> SUFFICES ASSUME IInv, NEW t \in Threads, mode = "matcher", pc[t] = "planned",
                      RuleFor(request[t].target, request[t]) # None, plan[t].kind = "remote"
               PROVE  /\ plan[t].rc_id = RuleFor(request[t].target, request[t]).flow.rc_id
                      /\ request[t].target.kind = "ip" => plan[t].dial = request[t].target
    BY DEF DirectRuleWins
  <2> QED BY DEF IInv, Planned, Follows
<1> QED BY <1>1, IInvHolds, PTL

(* While planning, a stage asks only for what the earlier ones do not      *)
(* know: the system's resolver and, for aliases, the table's servers never *)
(* for a name that a rule or a record decides, and the servers for the     *)
(* address of a rule's name only without a record of it (plan 325-351,     *)
(* plan_remote_with_rule 373-424).                                         *)
THEOREM PlannerAsksInOrder == Spec => []PlanningAsksInOrder
<1>1. IInv => PlanningAsksInOrder
  <2> SUFFICES ASSUME IInv, NEW t \in Threads, NEW r, r = request[t], NEW j, j = job[t]
               PROVE  /\ pc[t] = "system" \/ (pc[t] = "query" /\ j.kind = "lookup") => Undecided(r)
                      /\ pc[t] = "query" /\ j.kind = "address" =>
                            /\ j.rule # None /\ j.rule = RuleFor(Name(j.name), r)
                            /\ table.dns_map[<<j.rule.flow.rc_id, j.name>>] = <<>>
                            /\ IF j.cname THEN RuleFor(r.target, r) = None
                               ELSE j.name = r.target.name
    BY DEF PlanningAsksInOrder, Undecided
  <2>1. pc[t] = "system" \/ (pc[t] = "query" /\ j.kind = "lookup") => Undecided(r)
    BY DEF IInv, Jobs, AddressJob, LookupJob
  <2>2. ASSUME pc[t] = "query", j.kind = "address"
        PROVE  /\ j.rule # None /\ j.rule = RuleFor(Name(j.name), r)
               /\ table.dns_map[<<j.rule.flow.rc_id, j.name>>] = <<>>
               /\ IF j.cname THEN RuleFor(r.target, r) = None ELSE j.name = r.target.name
    <3>1. AddressJob(j, r)
      BY <2>2 DEF IInv, Jobs, LookupJob
    <3>2. r.target.kind = "domain" => r.target = Name(r.target.name)
      BY <2>2, HolderIs DEF Holding
    <3> QED BY <3>1, <3>2 DEF AddressJob, Undecided
  <2> QED BY <2>1, <2>2
<1> QED BY <1>1, IInvHolds, PTL

(* A plan rests on an answer about the right name that is younger than the *)
(* lifetime of a cache entry (cache_get 347-362, lookup_cache_get 377-392).*)
THEOREM PlannerAnswersAreFresh == Spec => []AnswersAreFresh
<1>1. IInv => AnswersAreFresh
  BY DEF IInv, Planned, Fresh, AnswersAreFresh
<1> QED BY <1>1, IInvHolds, PTL

(* While a thread queries a server, no cache holds what it asks for: the   *)
(* mutex is held from the look into the cache on (plan_target_with_proto   *)
(* 221-229).                                                               *)
THEOREM PlannerQueriesAreNeeded == Spec => []NoNeedlessQuery
<1>1. IInv => NoNeedlessQuery
  BY DEF IInv, Jobs, AddressJob, LookupJob, Hit, NoNeedlessQuery
<1> QED BY <1>1, IInvHolds, PTL
-----------------------------------------------------------------------------
(* The positions of a set up to one of them.                               *)
UpTo(F, i) == {j \in F : j <= i}

LEMMA UpToFinite ==
  ASSUME NEW m \in Nat, NEW F \in SUBSET (1 .. m)
  PROVE  /\ IsFiniteSet(F) /\ Cardinality(F) \in Nat
         /\ \A i : IsFiniteSet(UpTo(F, i)) /\ Cardinality(UpTo(F, i)) \in Nat
<1>1. IsFiniteSet(1 .. m)
  BY FS_Interval
<1>2. IsFiniteSet(F) /\ Cardinality(F) \in Nat
  BY <1>1, FS_Subset, FS_CardinalityType
<1>3. \A i : UpTo(F, i) \in SUBSET F
  BY DEF UpTo
<1>4. \A i : IsFiniteSet(UpTo(F, i))
  BY <1>2, <1>3, FS_Subset
<1>5. \A i : Cardinality(UpTo(F, i)) \in Nat
  BY <1>4, FS_CardinalityType
<1> QED BY <1>2, <1>4, <1>5

LEMMA UpToEnds ==
  ASSUME NEW m \in Nat, NEW F \in SUBSET (1 .. m)
  PROVE  UpTo(F, m) = F /\ UpTo(F, 0) = {}
<1>1. \A j \in F : j <= m /\ ~ (j <= 0)
  OBVIOUS
<1> QED BY <1>1, Zenon DEF UpTo

LEMMA UpToNext ==
  ASSUME NEW m \in Nat, NEW F \in SUBSET (1 .. m), NEW i \in 1 .. m
  PROVE  UpTo(F, i) = IF i \in F THEN UpTo(F, i - 1) \cup {i} ELSE UpTo(F, i - 1)
<1>1. \A j \in F : j <= i <=> j <= i - 1 \/ j = i
  OBVIOUS
<1>2. CASE i \in F
  <2>1. UpTo(F, i) = UpTo(F, i - 1) \cup {i}
    BY <1>1, <1>2, Zenon DEF UpTo
  <2> QED BY <1>2, <2>1
<1>3. CASE i \notin F
  <2>1. UpTo(F, i) = UpTo(F, i - 1)
    BY <1>1, <1>3, Zenon DEF UpTo
  <2> QED BY <1>3, <2>1
<1> QED BY <1>2, <1>3

(* The n-th of a set of positions exists, for every n up to its size: it   *)
(* is the least position up to which the set has n or more.                *)
LEMMA RankReached ==
  ASSUME NEW m \in Nat, NEW F \in SUBSET (1 .. m), NEW n \in 1 .. Cardinality(F)
  PROVE  \E i \in F : Cardinality(UpTo(F, i)) = n
<1> DEFINE enough == {i \in 1 .. m : Cardinality(UpTo(F, i)) >= n}
<1>1. Cardinality(F) \in Nat /\ \A i : IsFiniteSet(UpTo(F, i)) /\ Cardinality(UpTo(F, i)) \in Nat
  BY UpToFinite
<1>2. n \in Nat /\ n >= 1 /\ n <= Cardinality(F)
  BY <1>1
<1>3. m \in enough
  <2>1. Cardinality(UpTo(F, m)) = Cardinality(F)
    BY UpToEnds
  <2>2. F # {}
    BY <1>2, FS_EmptySet
  <2>3. m \in 1 .. m
    <3>1. PICK f \in F : f \in 1 .. m
      BY <2>2
    <3> QED BY <3>1
  <2> QED BY <1>2, <2>1, <2>3
<1>4. PICK i : i = Least(enough)
  OBVIOUS
<1>5. i \in enough /\ \A k \in enough : i <= k
  <2>1. enough \in SUBSET Nat
    <3>1. 1 .. m \subseteq Nat
      OBVIOUS
    <3> QED BY <3>1, Zenon
  <2>2. enough # {}
    BY <1>3
  <2> HIDE DEF enough
  <2> QED BY <1>4, <2>1, <2>2, LeastExists
<1>6. i \in 1 .. m /\ Cardinality(UpTo(F, i)) >= n
  BY <1>5
<1>7. PICK h : h = i - 1
  OBVIOUS
<1>8. Cardinality(UpTo(F, h)) < n
  <2>1. CASE i = 1
    <3>1. UpTo(F, h) = {}
      BY <1>7, <2>1, UpToEnds
    <3> QED BY <1>2, <3>1, FS_EmptySet
  <2>2. CASE i # 1
    <3>1. h \in 1 .. m /\ ~ (i <= h)
      BY <1>6, <1>7, <2>2
    <3>2. h \notin enough
      BY <1>5, <3>1, Zenon
    <3>3. ~ (Cardinality(UpTo(F, h)) >= n)
      BY <3>1, <3>2
    <3> QED BY <1>1, <1>2, <3>3
  <2> QED BY <2>1, <2>2
<1>9. UpTo(F, i) = IF i \in F THEN UpTo(F, h) \cup {i} ELSE UpTo(F, h)
  BY <1>6, <1>7, UpToNext
<1>10. i \in F
  <2>1. CASE i \notin F
    <3>1. Cardinality(UpTo(F, i)) = Cardinality(UpTo(F, h))
      BY <1>9, <2>1
    <3> QED BY <1>1, <1>2, <1>6, <1>8, <3>1
  <2> QED BY <2>1
<1>11. Cardinality(UpTo(F, i)) <= Cardinality(UpTo(F, h)) + 1
  <2>1. Cardinality(UpTo(F, i)) = Cardinality(UpTo(F, h) \cup {i})
    BY <1>9, <1>10
  <2>2. Cardinality(UpTo(F, h) \cup {i}) <= Cardinality(UpTo(F, h)) + 1
    BY <1>1, FS_AddElement
  <2> QED BY <2>1, <2>2
<1>12. Cardinality(UpTo(F, i)) = n
  BY <1>1, <1>2, <1>6, <1>8, <1>11
<1> QED BY <1>10, <1>12

(* The usable elements of a list, once, are a list of such elements.       *)
LEMMA DistinctType ==
  ASSUME NEW m \in Nat, NEW usable \in SUBSET (1 .. m), NEW S, NEW s,
         \A i \in usable : s[i] \in S
  PROVE  Distinct(s, usable) \in Seq(S)
<1> DEFINE firsts == {i \in usable : \A j \in usable : j < i => s[j] # s[i]}
<1>1. firsts \in SUBSET (1 .. m) /\ firsts \subseteq usable
  OBVIOUS
<1>2. Distinct(s, usable) =
        [n \in 1 .. Cardinality(firsts) |->
            s[CHOOSE i \in firsts : Cardinality(UpTo(firsts, i)) = n]]
  BY DEF Distinct, UpTo
<1> HIDE DEF firsts
<1>3. Cardinality(firsts) \in Nat
  BY <1>1, UpToFinite
<1>4. ASSUME NEW n \in 1 .. Cardinality(firsts)
      PROVE  s[CHOOSE i \in firsts : Cardinality(UpTo(firsts, i)) = n] \in S
  <2>1. \E i \in firsts : Cardinality(UpTo(firsts, i)) = n
    BY <1>1, RankReached
  <2>2. PICK k : k = CHOOSE i \in firsts : Cardinality(UpTo(firsts, i)) = n
    OBVIOUS
  <2>3. k \in firsts
    BY <2>1, <2>2
  <2> QED BY <1>1, <2>2, <2>3
<1>5. \A f, c : c \in Nat /\ f \in [1 .. c -> S] => f \in Seq(S)
  OBVIOUS
<1>6. Distinct(s, usable) \in [1 .. Cardinality(firsts) -> S]
  BY <1>2, <1>4
<1> QED BY <1>3, <1>5, <1>6

DnsRecord == [rc_id : Nat, host : Domains, ip : Ip \cup {None}]

LEMMA RecordListsType ==
  ASSUME NEW records \in Seq(DnsRecord)
  PROVE  /\ DnsMap(records) \in [RcIds \X Domains -> Seq(Ip)]
         /\ DnsExact(records) \in [Domains -> Seq(Ip)]
<1>1. ASSUME NEW wanted \in SUBSET (DOMAIN records)
      PROVE  IpsOf(records, wanted) \in Seq(Ip)
  <2>1. PICK m \in Nat : DOMAIN records = 1 .. m
    OBVIOUS
  <2>2. PICK ips : ips = [i \in DOMAIN records |-> records[i].ip]
    OBVIOUS
  <2>3. PICK usable : usable = {i \in wanted : records[i].ip # None}
    OBVIOUS
  <2>4. usable \in SUBSET (1 .. m)
    BY <2>1, <2>3
  <2>5. ASSUME NEW i \in usable PROVE ips[i] \in Ip
    <3>1. i \in DOMAIN records /\ records[i].ip # None
      BY <2>3, <2>5
    <3>2. records[i] \in DnsRecord
      BY <3>1
    <3>3. records[i].ip \in Ip
      BY <3>1, <3>2 DEF DnsRecord
    <3> QED BY <2>2, <3>1, <3>3
  <2>6. Distinct(ips, usable) \in Seq(Ip)
    BY <2>4, <2>5, DistinctType
  <2> QED BY <2>2, <2>3, <2>6 DEF IpsOf
<1>2. DnsMap(records) \in [RcIds \X Domains -> Seq(Ip)]
  <2>1. \A key \in RcIds \X Domains :
          {i \in DOMAIN records : records[i].rc_id = key[1] /\ records[i].host = key[2]}
             \in SUBSET (DOMAIN records)
    OBVIOUS
  <2> QED BY <1>1, <2>1 DEF DnsMap
<1>3. DnsExact(records) \in [Domains -> Seq(Ip)]
  BY <1>1 DEF DnsExact
<1> QED BY <1>2, <1>3

LEMMA UsableServersType ==
  ASSUME NEW servers \in Seq(Servers \cup {None})
  PROVE  UsableServers(servers) \in Seq(Servers)
<1>1. PICK m \in Nat : DOMAIN servers = 1 .. m
  OBVIOUS
<1>2. PICK usable : usable = {i \in DOMAIN servers : servers[i] # None}
  OBVIOUS
<1>3. usable \in SUBSET (1 .. m)
  BY <1>1, <1>2
<1>4. \A i \in usable : servers[i] \in Servers
  BY <1>2
<1>5. Distinct(servers, usable) \in Seq(Servers)
  BY <1>3, <1>4, DistinctType
<1> QED BY <1>2, <1>5 DEF UsableServers
-----------------------------------------------------------------------------
(* TypeOK, by what changes together; and a query has its job.              *)
TableTyped ==
    /\ mode \in {"unavailable", "matcher", "tunnel"}
    /\ table.rules \in Seq(CompiledRule) /\ table.dns_servers \in Seq(Servers)
    /\ table.dns_map \in [RcIds \X Domains -> Seq(Ip)]
    /\ table.dns_exact \in [Domains -> Seq(Ip)]

ThreadsTyped ==
    /\ router \in Threads \cup {None}
    /\ pc \in [Threads -> {"idle", "lock", "plan", "query", "system", "planned"}]
    /\ job \in [Threads -> Job \cup {None}]
    /\ \A t \in Threads : pc[t] = "query" =>
           job[t] \in Job /\ job[t].server \in DOMAIN table.dns_servers
    /\ plan \in [Threads -> Plan \cup {None}]

RequestsTyped ==
    /\ request \in [Threads -> Requests \cup {None}]
    /\ requests \in 0 .. MaxRequests

CachesTyped ==
    /\ cache \in [RcIds \X Domains -> CacheEntry \cup {None}]
    /\ lookups \in [Domains -> LookupEntry \cup {None}]

ClockTyped == clock \in 0 .. MaxClock

Typed == TableTyped /\ ThreadsTyped /\ RequestsTyped /\ CachesTyped /\ ClockTyped

LEMMA TypedIsTypeOK == Typed => TypeOK
BY DEF Typed, TypeOK, TableTyped, ThreadsTyped, RequestsTyped, CachesTyped, ClockTyped, Requests

LEMMA InitTyped == Init => Typed
<1> SUFFICES ASSUME Init PROVE Typed
  OBVIOUS
<1>1. TableTyped
  <2>1. <<>> \in Seq(DnsRecord) /\ <<>> \in Seq(CompiledRule) /\ <<>> \in Seq(Servers)
    OBVIOUS
  <2>2. /\ table.rules = <<>> /\ table.dns_servers = <<>>
        /\ table.dns_map = DnsMap(<<>>) /\ table.dns_exact = DnsExact(<<>>)
    BY DEF Init, NoTable
  <2> QED BY <2>1, <2>2, RecordListsType DEF Init, TableTyped
<1>2. ThreadsTyped
  BY DEF Init, ThreadsTyped
<1>3. RequestsTyped
  BY PlannerAssumption DEF Init, RequestsTyped
<1>4. CachesTyped
  BY DEF Init, CachesTyped
<1>5. ClockTyped
  BY PlannerAssumption DEF Init, ClockTyped
<1> QED BY <1>1, <1>2, <1>3, <1>4, <1>5 DEF Typed

LEMMA InstallTyped ==
  ASSUME Typed, NEW raw \in Tables, InstallRouteTable(raw)
  PROVE  TableTyped' /\ CachesTyped'
<1>1. /\ raw.rules \in Seq(CompiledRule) /\ raw.servers \in Seq(Servers \cup {None})
      /\ raw.records \in Seq(DnsRecord)
  BY PlannerAssumption DEF DnsRecord
<1>2. /\ table'.rules = raw.rules /\ table'.dns_servers = UsableServers(raw.servers)
      /\ table'.dns_map = DnsMap(raw.records) /\ table'.dns_exact = DnsExact(raw.records)
      /\ mode' = "matcher"
  BY DEF InstallRouteTable
<1>3. TableTyped'
  BY <1>1, <1>2, RecordListsType, UsableServersType DEF TableTyped
<1>4. CachesTyped'
  BY DEF InstallRouteTable, Typed, CachesTyped, Cleared
<1> QED BY <1>3, <1>4

LEMMA RemoteType ==
  ASSUME ClockTyped, NEW dial \in Target, NEW rc_id \in Nat, NEW source \in Source,
         NEW from \in Stamp \cup {None}
  PROVE  Remote(dial, rc_id, source, from) \in Plan
BY DEF ClockTyped, Remote, Plan

LEMMA FallbackType == Fallback \in Plan
BY DEF Fallback, Plan

LEMMA NowType ==
  ASSUME ClockTyped, NEW name \in Domains
  PROVE  /\ [of |-> name, at |-> clock] \in Stamp
         /\ clock + TTL \in 0 .. MaxClock + TTL
<1>1. clock \in 0 .. MaxClock /\ TTL \in Nat /\ MaxClock \in Nat
  BY PlannerAssumption DEF ClockTyped
<1> QED BY <1>1 DEF Stamp

LEMMA RcIdsType == RcIds \subseteq Nat
<1>1. \A flow \in RuleFlows : flow.rc_id \in Nat
  BY RulesAssumption
<1> QED BY <1>1 DEF RcIds

LEMMA TargetsOfNames ==
  /\ \A name \in Domains : Name(name) \in Target
  /\ \A ip \in Ip : Address(ip) \in Target
BY DEF Name, Address, Target

(* The ends of a stage.                                                    *)
LEMMA ReturnTyped ==
  ASSUME ThreadsTyped, NEW t \in Threads, NEW p \in Plan, Return(t, p), UNCHANGED table
  PROVE  ThreadsTyped'
<1>1. /\ pc' = [pc EXCEPT ![t] = "planned"] /\ job' = [job EXCEPT ![t] = None]
      /\ plan' = [plan EXCEPT ![t] = p] /\ router' = None
  BY DEF Return
<1>2. \A u \in Threads : pc'[u] = "query" => u # t /\ pc[u] = "query" /\ job'[u] = job[u]
  BY <1>1 DEF ThreadsTyped
<1> QED BY <1>1, <1>2 DEF ThreadsTyped

LEMMA QueryTyped ==
  ASSUME ThreadsTyped, NEW t \in Threads, NEW j \in Job, Query(t, j), UNCHANGED table,
         j.server \in DOMAIN table.dns_servers
  PROVE  ThreadsTyped'
<1>1. /\ pc' = [pc EXCEPT ![t] = "query"] /\ job' = [job EXCEPT ![t] = j]
      /\ UNCHANGED <<plan, router>>
  BY DEF Query
<1>2. \A u \in Threads : pc'[u] = "query" =>
          \/ u = t /\ job'[u] = j
          \/ pc[u] = "query" /\ job'[u] = job[u]
  BY <1>1 DEF ThreadsTyped
<1> QED BY <1>1, <1>2 DEF ThreadsTyped

LEMMA AskSystemTyped ==
  ASSUME ThreadsTyped, NEW t \in Threads, AskSystem(t), UNCHANGED table
  PROVE  ThreadsTyped'
<1>1. /\ pc' = [pc EXCEPT ![t] = "system"] /\ job' = [job EXCEPT ![t] = None]
      /\ UNCHANGED <<plan, router>>
  BY DEF AskSystem
<1>2. \A u \in Threads : pc'[u] = "query" => u # t /\ pc[u] = "query" /\ job'[u] = job[u]
  BY <1>1 DEF ThreadsTyped
<1> QED BY <1>1, <1>2 DEF ThreadsTyped

FoundRule(rule) == rule \in CompiledRule /\ rule.flow.rc_id \in RcIds

LEMMA RemoteTyped ==
  ASSUME Typed, NEW t \in Threads, NEW rule, FoundRule(rule), NEW name \in Domains,
         NEW cname \in BOOLEAN, PlanRemoteWithRule(t, rule, name, cname), UNCHANGED table
  PROVE  /\ ThreadsTyped'
         /\ cache' \in [RcIds \X Domains -> CacheEntry \cup {None}]
<1>1. PICK key : key = <<rule.flow.rc_id, name>>
  OBVIOUS
<1>2. /\ key \in RcIds \X Domains /\ rule.flow.rc_id \in Nat /\ rule \in CompiledRule
  BY <1>1, RcIdsType DEF FoundRule
<1>3. TableTyped /\ ThreadsTyped /\ CachesTyped /\ ClockTyped
  BY DEF Typed
<1>4. ASSUME NEW ip \in Ip, NEW source \in Source, NEW from \in Stamp \cup {None},
             Return(t, Remote(Address(ip), rule.flow.rc_id, source, from))
      PROVE  ThreadsTyped'
  BY <1>2, <1>3, <1>4, RemoteType, TargetsOfNames, ReturnTyped
<1>5. CASE /\ table.dns_map[key] # <<>> /\ UNCHANGED cache
           /\ Return(t, Remote(Address(table.dns_map[key][1]), rule.flow.rc_id,
                               IF cname THEN "cname-dns-map" ELSE "dns-map", None))
  <2>1. table.dns_map[key] \in Seq(Ip)
    BY <1>2, <1>3 DEF TableTyped
  <2>2. table.dns_map[key][1] \in Ip
    BY <1>5, <2>1
  <2>3. (IF cname THEN "cname-dns-map" ELSE "dns-map") \in Source
    BY DEF Source
  <2> QED BY <1>3, <1>4, <1>5, <2>2, <2>3 DEF CachesTyped
<1>6. CASE Return(t, Fallback) /\ UNCHANGED cache
  BY <1>3, <1>6, FallbackType, ReturnTyped DEF CachesTyped
<1>7. CASE /\ Hit(cache[key]) /\ UNCHANGED cache
           /\ Return(t, Remote(Address(cache[key].ip), rule.flow.rc_id,
                               IF cname THEN "cname-dns-cache" ELSE "dns-cache", cache[key].from))
  <2>1. cache[key] \in CacheEntry
    BY <1>2, <1>3, <1>7 DEF CachesTyped, Hit
  <2>2. cache[key].ip \in Ip /\ cache[key].from \in Stamp
    BY <2>1 DEF CacheEntry
  <2>3. (IF cname THEN "cname-dns-cache" ELSE "dns-cache") \in Source
    BY DEF Source
  <2> QED BY <1>3, <1>4, <1>7, <2>2, <2>3 DEF CachesTyped
<1>8. CASE /\ table.dns_servers # <<>> /\ cache' = [cache EXCEPT ![key] = None]
           /\ Query(t, [kind |-> "address", rule |-> rule, name |-> name,
                        cname |-> cname, server |-> 1])
  <2>1. PICK j : j = [kind |-> "address", rule |-> rule, name |-> name,
                      cname |-> cname, server |-> 1]
    OBVIOUS
  <2>2. j \in Job /\ j.server = 1
    BY <1>2, <2>1 DEF Job
  <2>3. 1 \in DOMAIN table.dns_servers
    BY <1>3, <1>8 DEF TableTyped
  <2>4. ThreadsTyped'
    BY <1>3, <1>8, <2>1, <2>2, <2>3, QueryTyped
  <2> QED BY <1>3, <1>8, <2>4 DEF CachesTyped
<1> QED BY <1>1, <1>5, <1>6, <1>7, <1>8 DEF PlanRemoteWithRule

LEMMA RuleIsFound ==
  ASSUME Shape, NEW target, NEW r, RuleFor(target, r) # None
  PROVE  FoundRule(RuleFor(target, r)) /\ RuleFor(target, r).flow.rc_id \in Nat
BY RuleFound, RcIdsType DEF FoundRule

LEMMA LookupTyped ==
  ASSUME IInv, Typed, NEW t \in Threads, NEW answer \in Answers, NEW source \in Source,
         NEW from \in Stamp, PlanFromLookup(t, answer, source, from), UNCHANGED table
  PROVE  /\ ThreadsTyped'
         /\ cache' \in [RcIds \X Domains -> CacheEntry \cup {None}]
<1>1. ThreadsTyped /\ CachesTyped /\ ClockTyped /\ Shape
  BY DEF Typed, IInv
<1>2. PICK r : r = request[t]
  OBVIOUS
<1>3. ASSUME NEW n \in DOMAIN answer.aliases, answer.aliases[n] \in Domains,
             RuleFor(Name(answer.aliases[n]), r) # None,
             PlanRemoteWithRule(t, RuleFor(Name(answer.aliases[n]), r), answer.aliases[n], TRUE)
      PROVE  /\ ThreadsTyped'
             /\ cache' \in [RcIds \X Domains -> CacheEntry \cup {None}]
  <2>1. PICK rule, name : rule = RuleFor(Name(answer.aliases[n]), r) /\ name = answer.aliases[n]
    OBVIOUS
  <2>2. FoundRule(rule)
    BY <1>1, <1>3, <2>1, RuleIsFound
  <2>3. TRUE \in BOOLEAN /\ name \in Domains /\ PlanRemoteWithRule(t, rule, name, TRUE)
    BY <1>3, <2>1
  <2> QED BY <2>2, <2>3, RemoteTyped
<1>4. ASSUME cache' = cache, NEW ip \in Ip, RuleFor(Address(ip), r) # None,
             Return(t, Remote(Address(ip), RuleFor(Address(ip), r).flow.rc_id, source, from))
      PROVE  /\ ThreadsTyped'
             /\ cache' \in [RcIds \X Domains -> CacheEntry \cup {None}]
  <2>1. PICK rc_id : rc_id = RuleFor(Address(ip), r).flow.rc_id
    OBVIOUS
  <2>2. rc_id \in Nat
    BY <1>1, <1>4, <2>1, RuleIsFound
  <2>3. Remote(Address(ip), rc_id, source, from) \in Plan
    BY <1>1, <2>2, RemoteType, TargetsOfNames
  <2> QED BY <1>1, <1>4, <2>1, <2>3, ReturnTyped DEF CachesTyped
<1>5. CASE cache' = cache /\ AskSystem(t)
  BY <1>1, <1>5, AskSystemTyped DEF CachesTyped
<1> QED BY <1>1, <1>2, <1>3, <1>4, <1>5, LookupOutcomes

LEMMA DerivedTyped ==
  ASSUME IInv, Typed, NEW t \in Threads, NEW name \in Domains,
         PlanDnsServerDerivedRules(t, name), UNCHANGED table
  PROVE  ThreadsTyped' /\ CachesTyped'
<1>1. TableTyped /\ ThreadsTyped /\ CachesTyped
  BY DEF Typed
<1>2. CASE AskSystem(t) /\ UNCHANGED caches
  BY <1>1, <1>2, AskSystemTyped DEF CachesTyped, caches
<1>3. CASE /\ Hit(lookups[name]) /\ UNCHANGED lookups
           /\ PlanFromLookup(t, lookups[name].answer, "dns-server-ip-rule-cache", lookups[name].from)
  <2>1. lookups[name] \in LookupEntry
    BY <1>1, <1>3 DEF CachesTyped, Hit
  <2>2. lookups[name].answer \in Answers /\ lookups[name].from \in Stamp
    BY <2>1 DEF LookupEntry
  <2>3. "dns-server-ip-rule-cache" \in Source
    BY DEF Source
  <2>4. ThreadsTyped' /\ cache' \in [RcIds \X Domains -> CacheEntry \cup {None}]
    BY <1>3, <2>2, <2>3, LookupTyped
  <2> QED BY <1>1, <1>3, <2>4 DEF CachesTyped
<1>4. CASE /\ table.dns_servers # <<>> /\ lookups' = [lookups EXCEPT ![name] = None]
           /\ Query(t, [kind |-> "lookup", name |-> name, server |-> 1]) /\ UNCHANGED cache
  <2>1. PICK j : j = [kind |-> "lookup", name |-> name, server |-> 1]
    OBVIOUS
  <2>2. j \in Job /\ j.server = 1
    BY <2>1 DEF Job
  <2>3. 1 \in DOMAIN table.dns_servers
    BY <1>1, <1>4 DEF TableTyped
  <2>4. ThreadsTyped'
    BY <1>1, <1>4, <2>1, <2>2, <2>3, QueryTyped
  <2> QED BY <1>1, <1>4, <2>4 DEF CachesTyped
<1> QED BY <1>2, <1>3, <1>4 DEF PlanDnsServerDerivedRules

LEMMA PlanFromModeTyped ==
  ASSUME IInv, Typed, NEW t \in Threads, PlanFromMode(t)
  PROVE  ThreadsTyped' /\ CachesTyped'
<1>1. /\ TableTyped /\ ThreadsTyped /\ CachesTyped /\ ClockTyped /\ Shape
      /\ UNCHANGED table
  BY DEF Typed, IInv, PlanFromMode, installed
<1>2. PICK r : r = request[t]
  OBVIOUS
<1>3. /\ r.target \in Target
      /\ r.target.kind = "domain" => r.target.name \in Domains
  <2>1. pc[t] \in Holding
    BY DEF PlanFromMode, Holding
  <2>2. r \in Requests /\ (r.target.kind = "domain" => r.target.name \in Domains)
    BY <1>2, <2>1, HolderIs
  <2> QED BY <2>2, PlannerAssumption DEF Requests
<1>4. PICK rule, exact :
         /\ rule = RuleFor(r.target, r)
         /\ exact = IF r.target.kind = "domain"
                    THEN FirstIpWithRule(table.dns_exact[r.target.name], r) ELSE None
  OBVIOUS
<1>5. rule # None => FoundRule(rule) /\ rule.flow.rc_id \in Nat
  BY <1>1, <1>4, RuleIsFound
<1>6. ASSUME UNCHANGED caches, NEW p \in Plan, Return(t, p)
      PROVE  ThreadsTyped' /\ CachesTyped'
  BY <1>1, <1>6, ReturnTyped DEF CachesTyped, caches
<1>7. /\ 0 \in Nat /\ None \in Stamp \cup {None}
      /\ {"route-table-unavailable", "rule-ip", "dns-data-ip-rule", "extra-ip"} \subseteq Source
  BY DEF Source
<1>8. CASE UNCHANGED caches /\ Return(t, Remote(r.target, 0, "route-table-unavailable", None))
  BY <1>1, <1>3, <1>6, <1>7, <1>8, RemoteType
<1>9. CASE /\ rule # None /\ UNCHANGED caches
           /\ Return(t, Remote(r.target, rule.flow.rc_id, "rule-ip", None))
  BY <1>1, <1>3, <1>5, <1>6, <1>7, <1>9, RemoteType
<1>10. CASE /\ rule # None /\ r.target.kind = "domain"
            /\ PlanRemoteWithRule(t, rule, r.target.name, FALSE) /\ UNCHANGED lookups
  <2>1. PICK name : name = r.target.name /\ name \in Domains
    BY <1>3, <1>10
  <2>2. FALSE \in BOOLEAN /\ PlanRemoteWithRule(t, rule, name, FALSE) /\ FoundRule(rule)
    BY <1>5, <1>10, <2>1
  <2> QED BY <1>1, <1>10, <2>1, <2>2, RemoteTyped DEF CachesTyped
<1>11. CASE /\ exact # None /\ UNCHANGED caches
            /\ Return(t, Remote(Address(exact[2]), exact[1].flow.rc_id, "dns-data-ip-rule", None))
  <2>1. PICK ips : ips = table.dns_exact[r.target.name] /\ ips \in Seq(Ip)
    BY <1>1, <1>3, <1>4, <1>11 DEF TableTyped
  <2>2. exact = FirstIpWithRule(ips, r)
    BY <1>4, <1>11, <2>1
  <2>3. DOMAIN ips \subseteq Nat
    BY <2>1
  <2>4. PICK n \in DOMAIN ips : /\ RuleFor(Address(ips[n]), r) # None
                                /\ exact = <<RuleFor(Address(ips[n]), r), ips[n]>>
    BY <1>11, <2>2, <2>3, IpFound
  <2>5. exact[1] = RuleFor(Address(ips[n]), r) /\ exact[2] = ips[n]
    BY <2>4, Pairs
  <2>6. exact[2] \in Ip /\ exact[1].flow.rc_id \in Nat
    BY <1>1, <2>1, <2>4, <2>5, RuleIsFound
  <2> QED BY <1>1, <1>6, <1>7, <1>11, <2>6, RemoteType, TargetsOfNames
<1>12. CASE /\ UNCHANGED caches
            /\ Return(t, IF IsExtra(r.target) THEN Remote(r.target, 0, "extra-ip", None)
                         ELSE Fallback)
  BY <1>1, <1>3, <1>6, <1>7, <1>12, RemoteType, FallbackType
<1>13. CASE r.target.kind = "domain" /\ PlanDnsServerDerivedRules(t, r.target.name)
  BY <1>1, <1>3, <1>13, DerivedTyped
<1> QED BY <1>2, <1>4, <1>8, <1>9, <1>10, <1>11, <1>12, <1>13 DEF PlanFromMode, DirectRule

LEMMA AddressAnsweredTyped ==
  ASSUME IInv, Typed, NEW t \in Threads, NEW answer \in Answers, AddressAnswered(t, answer)
  PROVE  ThreadsTyped' /\ CachesTyped'
<1>1. ThreadsTyped /\ CachesTyped /\ ClockTyped /\ UNCHANGED <<table, lookups>>
  BY DEF Typed, AddressAnswered, installed
<1>2. PICK j : j = job[t]
  OBVIOUS
<1>3. j.kind = "address" /\ AddressJob(j, request[t])
  BY <1>2 DEF AddressAnswered, IInv, Jobs, LookupJob
<1>4. FoundRule(j.rule) /\ j.rule.flow.rc_id \in Nat /\ j.name \in Domains
  BY <1>3, RuleIsFound DEF IInv, AddressJob
<1>5. PICK ip : ip = answer.ips[1] /\ ip \in Ip
  <2>1. answer.ips \in Seq(Ip) /\ answer.ips # <<>>
    BY PlannerAssumption DEF AddressAnswered
  <2> QED BY <2>1
<1>6. PICK from : from = [of |-> j.name, at |-> clock] /\ from \in Stamp
  BY <1>1, <1>4, NowType
<1>7. PICK entry : entry = [ip |-> answer.ips[1], expires |-> clock + TTL, from |-> from]
  OBVIOUS
<1>8. entry \in CacheEntry
  <2>1. clock + TTL \in 0 .. MaxClock + TTL
    BY <1>1, <1>4, NowType
  <2> QED BY <1>5, <1>6, <1>7, <2>1 DEF CacheEntry
<1>9. PICK p : p = Remote(Address(answer.ips[1]), j.rule.flow.rc_id,
                          IF j.cname THEN "cname-dns-server" ELSE "dns-server", from)
  OBVIOUS
<1>10. p \in Plan
  <2>1. (IF j.cname THEN "cname-dns-server" ELSE "dns-server") \in Source
    BY DEF Source
  <2>2. Address(answer.ips[1]) \in Target
    BY <1>5, TargetsOfNames
  <2> QED BY <1>1, <1>4, <1>6, <1>9, <2>1, <2>2, RemoteType
<1>11. /\ cache' = [cache EXCEPT ![<<j.rule.flow.rc_id, j.name>>] = entry]
       /\ Return(t, p)
  BY <1>2, <1>6, <1>7, <1>9 DEF AddressAnswered
<1>12. CachesTyped'
  <2>1. <<j.rule.flow.rc_id, j.name>> \in RcIds \X Domains
    BY <1>4 DEF FoundRule
  <2> QED BY <1>1, <1>8, <1>11, <2>1 DEF CachesTyped
<1> QED BY <1>1, <1>10, <1>11, <1>12, ReturnTyped

LEMMA LookupAnsweredTyped ==
  ASSUME IInv, Typed, NEW t \in Threads, NEW answer \in Answers, LookupAnswered(t, answer)
  PROVE  ThreadsTyped' /\ CachesTyped'
<1>1. ThreadsTyped /\ CachesTyped /\ ClockTyped /\ UNCHANGED table
  BY DEF Typed, LookupAnswered, installed
<1>2. PICK name : name = job[t].name
  OBVIOUS
<1>3. name \in Domains
  <2>1. pc[t] \in Holding
    BY DEF LookupAnswered, Holding
  <2>2. LookupJob(job[t], request[t])
    BY DEF LookupAnswered, IInv, Jobs, AddressJob
  <2> QED BY <1>2, <2>1, <2>2, HolderIs DEF LookupJob, Undecided
<1>4. PICK from : from = [of |-> name, at |-> clock] /\ from \in Stamp
  BY <1>1, <1>3, NowType
<1>5. PICK entry : entry = [answer |-> answer, expires |-> clock + TTL, from |-> from]
  OBVIOUS
<1>6. entry \in LookupEntry
  <2>1. clock + TTL \in 0 .. MaxClock + TTL
    BY <1>1, <1>3, NowType
  <2> QED BY <1>4, <1>5, <2>1 DEF LookupEntry
<1>7. /\ lookups' = [lookups EXCEPT ![name] = entry]
      /\ PlanFromLookup(t, answer, "dns-server-ip-rule", from)
  BY <1>2, <1>4, <1>5 DEF LookupAnswered
<1>8. "dns-server-ip-rule" \in Source
  BY DEF Source
<1>9. ThreadsTyped' /\ cache' \in [RcIds \X Domains -> CacheEntry \cup {None}]
  BY <1>1, <1>4, <1>7, <1>8, LookupTyped
<1> QED BY <1>1, <1>3, <1>6, <1>7, <1>9 DEF CachesTyped

LEMMA NextServerTyped ==
  ASSUME IInv, Typed, NEW t \in Threads, NextServer(t)
  PROVE  ThreadsTyped'
<1>1. TableTyped /\ ThreadsTyped /\ UNCHANGED <<table, router, pc, plan>>
  BY DEF Typed, NextServer, installed
<1>2. PICK j : j = job[t]
  OBVIOUS
<1>3. pc[t] = "query" /\ j.server < Len(table.dns_servers)
  BY <1>2 DEF NextServer, HasNextServer
<1>4. j \in Job /\ j.server \in Nat
  <2>1. j \in Job /\ j.server \in DOMAIN table.dns_servers
    BY <1>1, <1>2, <1>3 DEF ThreadsTyped
  <2> QED BY <1>1, <2>1 DEF TableTyped
<1>5. PICK k : k = [j EXCEPT !.server = @ + 1]
  OBVIOUS
<1>6. k \in Job /\ k.server = j.server + 1
  BY <1>4, <1>5 DEF Job
<1>7. k.server \in DOMAIN table.dns_servers
  BY <1>1, <1>3, <1>4, <1>6 DEF TableTyped
<1>8. job' = [job EXCEPT ![t] = k]
  BY <1>2, <1>5 DEF NextServer
<1>9. \A u \in Threads : job'[u] = IF u = t THEN k ELSE job[u]
  BY <1>1, <1>8 DEF ThreadsTyped
<1> QED BY <1>1, <1>6, <1>7, <1>8, <1>9 DEF ThreadsTyped

LEMMA SystemTyped ==
  ASSUME IInv, Typed, NEW t \in Threads, SystemEnds(t)
  PROVE  ThreadsTyped'
<1>1. ThreadsTyped /\ ClockTyped /\ Shape /\ UNCHANGED table /\ pc[t] \in Holding
  BY DEF Typed, IInv, SystemEnds, SystemAnswers, SystemFails, Holding, installed
<1>2. PICK r : r = request[t] /\ r.target \in Target
  BY <1>1, HolderIs, PlannerAssumption DEF Requests
<1>3. ASSUME NEW p \in Plan, Return(t, p) PROVE ThreadsTyped'
  BY <1>1, <1>3, ReturnTyped
<1>4. 0 \in Nat /\ None \in Stamp \cup {None} /\ "rule-ip" \in Source /\ "extra-ip" \in Source
  BY DEF Source
<1>5. ASSUME NEW ip \in Ip, SystemAnswers(t, ip) PROVE ThreadsTyped'
  <2>1. PICK rule : rule = RuleFor(Address(ip), r)
    OBVIOUS
  <2>2. rule # None => rule.flow.rc_id \in Nat
    BY <1>1, <2>1, RuleIsFound
  <2>3. CASE rule # None /\ Return(t, Remote(Address(ip), rule.flow.rc_id, "rule-ip", None))
    BY <1>1, <1>3, <1>4, <2>2, <2>3, RemoteType, TargetsOfNames
  <2>4. CASE Return(t, Remote(r.target, 0, "extra-ip", None))
    BY <1>1, <1>2, <1>3, <1>4, <2>4, RemoteType
  <2>5. CASE Return(t, Fallback)
    BY <1>3, <2>5, FallbackType
  <2> QED BY <1>2, <1>5, <2>1, <2>3, <2>4, <2>5 DEF SystemAnswers
<1>6. CASE SystemFails(t)
  BY <1>3, <1>6, FallbackType DEF SystemFails
<1> QED BY <1>5, <1>6 DEF SystemEnds

(* Nothing is queried before there is a table.                             *)
LEMMA NoQueryBeforeTable ==
  ASSUME IInv, Typed, mode = "unavailable", UNCHANGED <<router, pc, job, plan>>
  PROVE  ThreadsTyped'
BY DEF IInv, Asked, Typed, ThreadsTyped

LEMMA NextTyped == IInv /\ Typed /\ [Next]_vars => Typed'
<1> SUFFICES ASSUME IInv, Typed, [Next]_vars PROVE Typed'
  OBVIOUS
<1>1. TableTyped /\ ThreadsTyped /\ RequestsTyped /\ CachesTyped /\ ClockTyped
  BY DEF Typed
<1>2. UNCHANGED <<mode, table>> => TableTyped'
  BY <1>1 DEF TableTyped
<1>3. UNCHANGED <<table, router, pc, job, plan>> => ThreadsTyped'
  BY <1>1 DEF ThreadsTyped
<1>4. UNCHANGED <<request, requests>> => RequestsTyped'
  BY <1>1 DEF RequestsTyped
<1>5. UNCHANGED caches => CachesTyped'
  BY <1>1 DEF CachesTyped, caches
<1>6. UNCHANGED clock => ClockTyped'
  BY <1>1 DEF ClockTyped
<1>7. ASSUME NEW raw \in Tables, InstallRouteTable(raw) PROVE Typed'
  BY <1>4, <1>6, <1>7, InstallTyped, NoQueryBeforeTable DEF InstallRouteTable, Typed
<1>8. CASE InstallTunnelFallback
  <2>1. TableTyped' /\ CachesTyped'
    BY <1>1, <1>8 DEF InstallTunnelFallback, TableTyped, CachesTyped, Cleared
  <2> QED BY <1>3, <1>4, <1>6, <1>8, <2>1 DEF InstallTunnelFallback, Typed
<1>9. CASE Tick
  <2>1. ClockTyped'
    BY <1>1, <1>9, PlannerAssumption DEF Tick, ClockTyped
  <2> QED BY <1>2, <1>3, <1>4, <1>5, <1>9, <2>1 DEF Tick, installed, Typed
<1>10. ASSUME NEW t \in Threads, NEW target \in Targets, NEW port \in Ports, NEW proto \in Protos,
              Request(t, target, port, proto)
       PROVE  Typed'
  <2>1. RequestsTyped'
    BY <1>1, <1>10, PlannerAssumption DEF Request, RequestsTyped, Requests
  <2>2. ThreadsTyped'
    BY <1>1, <1>10 DEF Request, ThreadsTyped, installed
  <2> QED BY <1>2, <1>5, <1>6, <1>10, <2>1, <2>2 DEF Request, installed, Typed
<1>11. ASSUME NEW t \in Threads, Lock(t) PROVE Typed'
  <2>1. ThreadsTyped'
    BY <1>1, <1>11 DEF Lock, ThreadsTyped, installed
  <2> QED BY <1>2, <1>4, <1>5, <1>6, <1>11, <2>1 DEF Lock, installed, Typed
<1>12. ASSUME NEW t \in Threads, PlanFromMode(t) PROVE Typed'
  BY <1>2, <1>4, <1>6, <1>12, PlanFromModeTyped DEF PlanFromMode, installed, Typed
<1>13. ASSUME NEW t \in Threads, NEW answer \in Answers, AddressAnswered(t, answer) PROVE Typed'
  BY <1>2, <1>4, <1>6, <1>13, AddressAnsweredTyped DEF AddressAnswered, installed, Typed
<1>14. ASSUME NEW t \in Threads, NEW answer \in Answers, LookupAnswered(t, answer) PROVE Typed'
  BY <1>2, <1>4, <1>6, <1>14, LookupAnsweredTyped DEF LookupAnswered, installed, Typed
<1>15. ASSUME NEW t \in Threads, NextServer(t) PROVE Typed'
  BY <1>2, <1>4, <1>5, <1>6, <1>15, NextServerTyped DEF NextServer, installed, Typed
<1>16. ASSUME NEW t \in Threads, LastServerFails(t) PROVE Typed'
  <2>1. ThreadsTyped'
    BY <1>1, <1>16, FallbackType, ReturnTyped, AskSystemTyped
       DEF LastServerFails, AllServersFailed, installed
  <2> QED BY <1>2, <1>4, <1>5, <1>6, <1>16, <2>1 DEF LastServerFails, installed, Typed
<1>17. ASSUME NEW t \in Threads, SystemEnds(t) PROVE Typed'
  <2>1. UNCHANGED <<installed, request, caches, clock, requests>>
    BY <1>17 DEF SystemEnds, SystemAnswers, SystemFails
  <2> QED BY <1>2, <1>4, <1>5, <1>6, <1>17, <2>1, SystemTyped DEF installed, Typed
<1>18. ASSUME NEW t \in Threads, Leave(t) PROVE Typed'
  <2>1. ThreadsTyped' /\ RequestsTyped'
    BY <1>1, <1>18 DEF Leave, ThreadsTyped, RequestsTyped, installed
  <2> QED BY <1>2, <1>5, <1>6, <1>18, <2>1 DEF Leave, installed, Typed
<1>19. CASE UNCHANGED vars
  BY <1>2, <1>3, <1>4, <1>5, <1>6, <1>19 DEF vars, installed, Typed
<1> QED BY <1>7, <1>8, <1>9, <1>10, <1>11, <1>12, <1>13, <1>14, <1>15, <1>16, <1>17, <1>18, <1>19
        DEF Next, QueryEnds

(* TypeOK: every variable keeps its type; in particular the DNS indexes    *)
(* hold lists of addresses, a query is about a server that exists, and     *)
(* every plan dials a target with a resource id and an answer that is      *)
(* dated, whichever stage it comes from (routing.rs and dns_resolver.rs).  *)
THEOREM PlannerTypeCorrect == Spec => []TypeOK
<1>1. Spec => []Typed
  BY InitTyped, NextTyped, IInvHolds, PTL DEF Spec
<1> QED BY <1>1, TypedIsTypeOK, PTL
-----------------------------------------------------------------------------
(* Justified, of a plan and a request.                                     *)
Reason(p, r) ==
    \/ mode = "tunnel" /\ p.dial = r.target
    \/ p.source = "extra-ip" /\ p.dial = r.target
       /\ (r.target.kind = "ip" => IsExtra(r.target))
    \/ \E k \in DOMAIN table.rules :
          /\ table.rules[k].flow.rc_id = p.rc_id /\ p.dial.kind = "ip"
          /\ RuleMatchesFlow(table.rules[k], r.port, r.proto)
          /\ \/ HostMatches(table.rules[k].matcher, r.target)
             \/ p.source \notin CnameSources /\ HostMatches(table.rules[k].matcher, p.dial)
             \/ p.source \in CnameSources /\ table.rules[k].matcher.kind = "domain"
                /\ IsAliasOf(table.rules[k].matcher.name, r)

NewPlansHaveReasons ==
    \A t \in Threads : pc[t] # "planned" /\ pc'[t] = "planned" /\ plan'[t].kind = "remote"
                          => Justified(t)'

LEMMA RuleIsReason ==
  ASSUME Shape, table' = table, NEW p, NEW r, NEW target, RuleFor(target, r) # None,
         p.rc_id = RuleFor(target, r).flow.rc_id, p.dial.kind = "ip",
         \/ target = r.target
         \/ p.source \notin CnameSources /\ target = p.dial
         \/ p.source \in CnameSources
            /\ \E name : target = Name(name) /\ IsAliasOf(name, r)'
  PROVE  Reason(p, r)'
<1>1. PICK k \in DOMAIN table.rules :
          /\ RuleFor(target, r) = table.rules[k]
          /\ HostMatches(table.rules[k].matcher, target)
          /\ RuleMatchesFlow(table.rules[k], r.port, r.proto)
  <2>1. PICK f : f = RuleFor(target, r)
    OBVIOUS
  <2>2. /\ \E k \in DOMAIN table.rules : f = table.rules[k]
        /\ HostMatches(f.matcher, target) /\ RuleMatchesFlow(f, r.port, r.proto)
    BY <2>1, RuleFound
  <2> QED BY <2>1, <2>2
<1>2. \/ HostMatches(table.rules[k].matcher, r.target)
      \/ p.source \notin CnameSources /\ HostMatches(table.rules[k].matcher, p.dial)
      \/ p.source \in CnameSources /\ table.rules[k].matcher.kind = "domain"
         /\ IsAliasOf(table.rules[k].matcher.name, r)'
  <2>1. ASSUME NEW name, target = Name(name)
        PROVE  table.rules[k].matcher.kind = "domain" /\ table.rules[k].matcher.name = name
    BY <1>1, <2>1 DEF HostMatches, Name
  <2> QED BY <1>1, <2>1
<1> QED BY <1>1, <1>2 DEF Reason, IsAliasOf, IsExtra

LEMMA ReturnHasReason ==
  ASSUME IInv, NEW t \in Threads, NEW p, Return(t, p), request' = request,
         p.kind = "remote" => Reason(p, request[t])'
  PROVE  NewPlansHaveReasons
<1> SUFFICES ASSUME NEW u \in Threads, pc[u] # "planned", pc'[u] = "planned",
                    plan'[u].kind = "remote"
             PROVE  Justified(u)'
  BY DEF NewPlansHaveReasons
<1>1. u = t /\ plan'[u] = p
  BY DEF IInv, Shape, Return
<1>2. PICK r : r = request[t] /\ r = request'[t]
  OBVIOUS
<1>3. Reason(p, r)'
  BY <1>1, <1>2 DEF Reason, IsAliasOf, IsExtra
<1> QED BY <1>1, <1>2, <1>3 DEF Reason, Justified, IsAliasOf

LEMMA NoNewPlan ==
  ASSUME IInv, NEW t \in Threads, NEW label, label # "planned", pc' = [pc EXCEPT ![t] = label]
  PROVE  NewPlansHaveReasons
BY DEF IInv, Shape, NewPlansHaveReasons

LEMMA FoundHasReason ==
  ASSUME IInv, NEW t \in Threads, UNCHANGED <<mode, table, request>>,
         NEW name \in Domains, NEW cname \in BOOLEAN, NEW target, target = Name(name),
         RuleFor(target, request[t]) # None,
         PlanRemoteWithRule(t, RuleFor(target, request[t]), name, cname),
         IF cname THEN IsAliasOf(name, request[t])' ELSE target = request[t].target
  PROVE  NewPlansHaveReasons
<1>1. PICK r : r = request[t] /\ r = request'[t]
  OBVIOUS
<1>2. PICK f : f = RuleFor(target, r)
  OBVIOUS
<1>3. f # None /\ f.flow.rc_id \in RcIds /\ f = RuleFor(target, request[t])
  BY <1>1, <1>2, RuleFound DEF IInv
<1>4. Shape /\ CacheDated
  BY DEF IInv
<1>5. \/ Return(t, Fallback)
      \/ \E ip, source, from :
            /\ Return(t, Remote(Address(ip), f.flow.rc_id, source, from))
            /\ source \in CnameSources <=> cname
      \/ Query(t, [kind |-> "address", rule |-> f, name |-> name,
                   cname |-> cname, server |-> 1])
  BY <1>3, <1>4, RemoteOutcomes
<1>6. CASE Return(t, Fallback)
  BY <1>6, ReturnHasReason DEF Fallback
<1>7. ASSUME NEW ip, NEW source, NEW from, source \in CnameSources <=> cname,
             Return(t, Remote(Address(ip), f.flow.rc_id, source, from))
      PROVE  NewPlansHaveReasons
  <2>1. PICK p : p = Remote(Address(ip), f.flow.rc_id, source, from)
    OBVIOUS
  <2>2. p.rc_id = f.flow.rc_id /\ p.source = source /\ p.dial.kind = "ip"
    BY <2>1 DEF Remote, Address
  <2>3. IF cname THEN IsAliasOf(name, r)' ELSE target = r.target
    BY <1>1 DEF IsAliasOf
  <2>4. Reason(p, r)'
    BY <1>2, <1>3, <1>4, <1>7, <2>2, <2>3, RuleIsReason
  <2>5. Reason(p, request[t])'
    BY <1>1, <2>4 DEF Reason, IsAliasOf, IsExtra
  <2> QED BY <1>7, <2>1, <2>5, ReturnHasReason
<1>8. CASE Query(t, [kind |-> "address", rule |-> f, name |-> name,
                     cname |-> cname, server |-> 1])
  BY <1>8, NoNewPlan DEF Query
<1> QED BY <1>5, <1>6, <1>7, <1>8

LEMMA LookupHasReason ==
  ASSUME IInv, NEW t \in Threads, UNCHANGED <<mode, table, request>>,
         NEW answer \in Answers, NEW source, source \notin CnameSources, NEW from,
         lookups'[request[t].target.name].answer = answer,
         PlanFromLookup(t, answer, source, from)
  PROVE  NewPlansHaveReasons
<1>1. PICK r : r = request[t] /\ r = request'[t]
  OBVIOUS
<1>2. Shape
  BY DEF IInv
<1>3. ASSUME NEW n \in DOMAIN answer.aliases, answer.aliases[n] \in Domains,
             RuleFor(Name(answer.aliases[n]), request[t]) # None,
             PlanRemoteWithRule(t, RuleFor(Name(answer.aliases[n]), request[t]),
                                answer.aliases[n], TRUE)
      PROVE  NewPlansHaveReasons
  <2>1. IsAliasOf(answer.aliases[n], request[t])'
    BY <1>1 DEF IsAliasOf
  <2> QED BY <1>3, <2>1, FoundHasReason
<1>4. ASSUME NEW ip \in Ip, RuleFor(Address(ip), request[t]) # None,
             Return(t, Remote(Address(ip), RuleFor(Address(ip), request[t]).flow.rc_id, source, from))
      PROVE  NewPlansHaveReasons
  <2>1. PICK p : p = Remote(Address(ip), RuleFor(Address(ip), request[t]).flow.rc_id, source, from)
    OBVIOUS
  <2>2. /\ p.dial = Address(ip) /\ p.source = source /\ p.dial.kind = "ip"
        /\ p.rc_id = RuleFor(Address(ip), r).flow.rc_id /\ RuleFor(Address(ip), r) # None
    BY <1>1, <1>4, <2>1 DEF Remote, Address
  <2>3. Reason(p, r)'
    BY <1>2, <2>2, RuleIsReason
  <2>4. Reason(p, request[t])'
    BY ZenonT(30), <1>1, <2>3 DEF Reason, IsAliasOf, IsExtra
  <2> QED BY <1>4, <2>1, <2>4, ReturnHasReason
<1>5. CASE AskSystem(t)
  BY <1>5, NoNewPlan DEF AskSystem
<1> QED BY <1>2, <1>3, <1>4, <1>5, LookupOutcomes

(* A record list of the installed table is a list.                         *)
ExactLists == \A name \in Domains : DOMAIN table.dns_exact[name] \subseteq Nat

LEMMA ExactListsHold == Spec => []ExactLists
<1>1. TypeOK => ExactLists
  <2> SUFFICES ASSUME TypeOK, NEW name \in Domains
               PROVE  DOMAIN table.dns_exact[name] \subseteq Nat
    BY DEF ExactLists
  <2>1. table.dns_exact[name] \in Seq(Ip)
    BY DEF TypeOK
  <2> QED BY <2>1
<1> QED BY <1>1, PlannerTypeCorrect, PTL

LEMMA ModePlansHaveReasons ==
  ASSUME IInv, ExactLists, NEW t \in Threads, PlanFromMode(t)
  PROVE  NewPlansHaveReasons
<1>1. pc[t] \in Holding /\ UNCHANGED <<mode, table, request>> /\ Shape
  BY DEF PlanFromMode, Holding, installed, IInv
<1>2. PICK r : r = request[t] /\ r = request'[t]
  BY <1>1
<1>3. /\ r.target.kind \in {"domain", "ip"}
      /\ r.target.kind = "domain" => r.target.name \in Domains /\ r.target = Name(r.target.name)
  BY <1>1, <1>2, HolderIs
<1>4. PICK rule, exact :
         /\ rule = RuleFor(r.target, r)
         /\ exact = IF r.target.kind = "domain"
                    THEN FirstIpWithRule(table.dns_exact[r.target.name], r) ELSE None
  OBVIOUS
<1>5. ASSUME NEW p, Return(t, p), p.kind = "remote" => Reason(p, r)'
      PROVE  NewPlansHaveReasons
  <2>1. p.kind = "remote" => Reason(p, request[t])'
    BY <1>2, <1>5 DEF Reason, IsAliasOf, IsExtra
  <2> QED BY <1>1, <1>5, <2>1, ReturnHasReason
<1>6. \A dial, rc_id, source, from : LET p == Remote(dial, rc_id, source, from)
        IN p.kind = "remote" /\ p.source = source /\ p.rc_id = rc_id /\ p.dial = dial
  BY DEF Remote
<1>7. CASE mode = "tunnel" /\ Return(t, Remote(r.target, 0, "route-table-unavailable", None))
  <2>1. PICK p : p = Remote(r.target, 0, "route-table-unavailable", None)
    OBVIOUS
  <2>2. Reason(p, r)'
    BY <1>1, <1>6, <1>7, <2>1 DEF Reason
  <2> QED BY <1>5, <1>7, <2>1, <2>2
<1>8. CASE /\ rule # None /\ r.target.kind = "ip"
           /\ Return(t, Remote(r.target, rule.flow.rc_id, "rule-ip", None))
  <2>1. PICK p : p = Remote(r.target, rule.flow.rc_id, "rule-ip", None)
    OBVIOUS
  <2>2. p.rc_id = RuleFor(r.target, r).flow.rc_id /\ p.dial.kind = "ip"
        /\ RuleFor(r.target, r) # None
    BY <1>4, <1>6, <1>8, <2>1
  <2>3. Reason(p, r)'
    BY <1>1, <2>2, RuleIsReason
  <2> QED BY <1>5, <1>8, <2>1, <2>3
<1>9. CASE /\ rule # None /\ r.target.kind = "domain"
           /\ PlanRemoteWithRule(t, rule, r.target.name, FALSE)
  <2>1. FALSE \in BOOLEAN
    OBVIOUS
  <2>2. PlanRemoteWithRule(t, RuleFor(r.target, request[t]), r.target.name, FALSE)
    BY <1>2, <1>4, <1>9
  <2> QED BY <1>1, <1>2, <1>3, <1>4, <1>9, <2>1, <2>2, FoundHasReason
<1>10. CASE /\ exact # None
            /\ Return(t, Remote(Address(exact[2]), exact[1].flow.rc_id, "dns-data-ip-rule", None))
  <2>1. PICK ips : ips = table.dns_exact[r.target.name]
    OBVIOUS
  <2>2. DOMAIN ips \subseteq Nat /\ FirstIpWithRule(ips, r) # None /\ exact = FirstIpWithRule(ips, r)
    BY <1>3, <1>4, <1>10, <2>1 DEF ExactLists
  <2>3. PICK n \in DOMAIN ips : /\ RuleFor(Address(ips[n]), r) # None
                                /\ exact = <<RuleFor(Address(ips[n]), r), ips[n]>>
    BY <2>2, IpFound
  <2>4. exact[1] = RuleFor(Address(ips[n]), r) /\ exact[2] = ips[n]
    BY <2>3, Pairs
  <2>5. PICK p : p = Remote(Address(exact[2]), exact[1].flow.rc_id, "dns-data-ip-rule", None)
    OBVIOUS
  <2>6. /\ p.dial = Address(ips[n]) /\ p.dial.kind = "ip" /\ p.source \notin CnameSources
        /\ p.rc_id = RuleFor(Address(ips[n]), r).flow.rc_id
    BY <1>6, <2>4, <2>5 DEF Address, CnameSources
  <2>7. Reason(p, r)'
    BY <1>1, <2>3, <2>6, RuleIsReason
  <2> QED BY <1>5, <1>10, <2>5, <2>7
<1>11. CASE Return(t, IF IsExtra(r.target) THEN Remote(r.target, 0, "extra-ip", None)
                      ELSE Fallback)
  <2>1. PICK p : p = IF IsExtra(r.target) THEN Remote(r.target, 0, "extra-ip", None) ELSE Fallback
    OBVIOUS
  <2>2. p.kind = "remote" => IsExtra(r.target) /\ p.source = "extra-ip" /\ p.dial = r.target
    BY <1>6, <2>1 DEF Fallback
  <2>3. p.kind = "remote" => Reason(p, r)'
    BY <1>1, <2>2 DEF Reason, IsExtra
  <2> QED BY <1>5, <1>11, <2>1, <2>3
<1>12. CASE rule = None /\ exact = None /\ PlanDnsServerDerivedRules(t, r.target.name)
            /\ r.target.kind = "domain"
  <2>1. CASE AskSystem(t)
    BY <2>1, NoNewPlan DEF AskSystem
  <2>2. CASE \E j : Query(t, j)
    BY <2>2, NoNewPlan DEF Query
  <2>3. CASE /\ Hit(lookups[r.target.name]) /\ UNCHANGED lookups
             /\ PlanFromLookup(t, lookups[r.target.name].answer, "dns-server-ip-rule-cache",
                               lookups[r.target.name].from)
    <3>1. lookups[r.target.name].answer \in Answers
      BY <1>3, <1>12, <2>3 DEF IInv, LookupsDated, Hit
    <3>2. "dns-server-ip-rule-cache" \notin CnameSources
      BY DEF CnameSources
    <3>3. lookups'[request[t].target.name].answer = lookups[r.target.name].answer
      BY <1>2, <2>3
    <3> QED BY <1>1, <2>3, <3>1, <3>2, <3>3, LookupHasReason
  <2> QED BY <1>12, <2>1, <2>2, <2>3 DEF PlanDnsServerDerivedRules
<1> QED BY <1>2, <1>4, <1>7, <1>8, <1>9, <1>10, <1>11, <1>12 DEF PlanFromMode, DirectRule

LEMMA AnswersHaveReasons ==
  ASSUME IInv, NEW t \in Threads, NEW answer \in Answers,
         AddressAnswered(t, answer) \/ LookupAnswered(t, answer)
  PROVE  NewPlansHaveReasons
<1>1. PICK j, r : j = job[t] /\ r = request[t] /\ r = request'[t]
  BY DEF AddressAnswered, LookupAnswered
<1>2. /\ UNCHANGED <<mode, table, request>> /\ pc[t] = "query" /\ Shape /\ pc[t] \in Holding
  BY DEF AddressAnswered, LookupAnswered, installed, IInv, Holding
<1>3. CASE AddressAnswered(t, answer)
  <2>1. AddressJob(j, r)
    BY <1>1, <1>2, <1>3 DEF IInv, Jobs, LookupJob, AddressAnswered
  <2>2. PICK p : /\ Return(t, p)
                 /\ p.kind = "remote" /\ p.rc_id = j.rule.flow.rc_id /\ p.dial.kind = "ip"
                 /\ p.source \in CnameSources <=> j.cname
    <3>1. PICK p : p = Remote(Address(answer.ips[1]), j.rule.flow.rc_id,
                              IF j.cname THEN "cname-dns-server" ELSE "dns-server",
                              [of |-> j.name, at |-> clock])
      OBVIOUS
    <3>2. Return(t, p)
      BY <1>1, <1>3, <3>1 DEF AddressAnswered
    <3>3. /\ p.kind = "remote" /\ p.rc_id = j.rule.flow.rc_id /\ p.dial.kind = "ip"
          /\ p.source = IF j.cname THEN "cname-dns-server" ELSE "dns-server"
      BY <3>1 DEF Remote, Address
    <3>4. p.source \in CnameSources <=> j.cname
      BY <3>3 DEF CnameSources
    <3> QED BY <3>2, <3>3, <3>4
  <2>3. lookups' = lookups
    BY <1>3 DEF AddressAnswered
  <2>4. Reason(p, r)'
    <3>1. CASE j.cname
      <4>1. IsAliasOf(j.name, r)'
        BY <2>1, <2>3, <3>1 DEF AddressJob, IsAliasOf
      <4>2. RuleFor(Name(j.name), r) # None /\ p.rc_id = RuleFor(Name(j.name), r).flow.rc_id
        BY <2>1, <2>2, <3>1 DEF AddressJob
      <4> QED BY <1>2, <2>2, <3>1, <4>1, <4>2, RuleIsReason
    <3>2. CASE ~j.cname
      <4>1. RuleFor(r.target, r) # None /\ p.rc_id = RuleFor(r.target, r).flow.rc_id
        BY <2>1, <2>2, <3>2 DEF AddressJob
      <4> QED BY <1>2, <2>2, <4>1, RuleIsReason
    <3> QED BY <3>1, <3>2
  <2>5. Reason(p, request[t])'
    BY <1>1, <1>2, <2>4 DEF Reason, IsAliasOf, IsExtra
  <2> QED BY <1>2, <2>2, <2>5, ReturnHasReason
<1>4. CASE LookupAnswered(t, answer)
  <2>1. LookupJob(j, r)
    BY <1>1, <1>2, <1>4 DEF IInv, Jobs, AddressJob, LookupAnswered
  <2>2. j.name = r.target.name /\ Undecided(r)
    BY <2>1 DEF LookupJob
  <2>3. r.target.name \in Domains
    BY <1>1, <1>2, <2>2, HolderIs DEF Undecided
  <2>4. PICK from : /\ lookups' = [lookups EXCEPT ![j.name] =
                              [answer |-> answer, expires |-> clock + TTL, from |-> from]]
                    /\ PlanFromLookup(t, answer, "dns-server-ip-rule", from)
    BY <1>1, <1>4 DEF LookupAnswered
  <2>5. lookups'[request[t].target.name].answer = answer
    BY <1>1, <1>2, <2>2, <2>3, <2>4 DEF Shape
  <2>6. "dns-server-ip-rule" \notin CnameSources
    BY DEF CnameSources
  <2> QED BY <1>2, <2>4, <2>5, <2>6, LookupHasReason
<1> QED BY <1>3, <1>4

LEMMA SystemPlansHaveReasons ==
  ASSUME IInv, NEW t \in Threads, SystemEnds(t)
  PROVE  NewPlansHaveReasons
<1>1. /\ UNCHANGED <<mode, table, request>> /\ pc[t] = "system" /\ Shape
  BY DEF SystemEnds, SystemAnswers, SystemFails, installed, IInv
<1>2. PICK r : r = request[t] /\ r = request'[t]
  BY <1>1
<1>3. r.target.kind = "domain"
  BY <1>1, <1>2 DEF IInv, Jobs, Undecided
<1>4. CASE SystemFails(t)
  BY <1>1, <1>4, ReturnHasReason DEF SystemFails, Fallback
<1>5. ASSUME NEW ip \in Ip, SystemAnswers(t, ip) PROVE NewPlansHaveReasons
  <2>1. PICK rule : rule = RuleFor(Address(ip), r)
    OBVIOUS
  <2>2. CASE rule # None /\ Return(t, Remote(Address(ip), rule.flow.rc_id, "rule-ip", None))
    <3>1. PICK p : p = Remote(Address(ip), rule.flow.rc_id, "rule-ip", None)
      OBVIOUS
    <3>2. /\ p.dial = Address(ip) /\ p.dial.kind = "ip" /\ p.source \notin CnameSources
          /\ p.rc_id = RuleFor(Address(ip), r).flow.rc_id
      BY <2>1, <3>1 DEF Remote, Address, CnameSources
    <3>3. Reason(p, r)'
      BY <1>1, <2>1, <2>2, <3>2, RuleIsReason
    <3>4. Reason(p, request[t])'
      BY <1>1, <1>2, <3>3 DEF Reason, IsAliasOf, IsExtra
    <3> QED BY <1>1, <2>2, <3>1, <3>4, ReturnHasReason
  <2>3. CASE Return(t, Remote(r.target, 0, "extra-ip", None))
    <3>1. PICK p : p = Remote(r.target, 0, "extra-ip", None)
      OBVIOUS
    <3>2. p.dial = r.target /\ p.source = "extra-ip"
      BY <3>1 DEF Remote
    <3>3. Reason(p, r)'
      BY <1>3, <3>2 DEF Reason
    <3>4. Reason(p, request[t])'
      BY <1>1, <1>2, <3>3 DEF Reason, IsAliasOf, IsExtra
    <3> QED BY <1>1, <2>3, <3>1, <3>4, ReturnHasReason
  <2>4. CASE Return(t, Fallback)
    BY <1>1, <2>4, ReturnHasReason DEF Fallback
  <2> QED BY <1>2, <1>5, <2>1, <2>2, <2>3, <2>4 DEF SystemAnswers
<1> QED BY <1>4, <1>5 DEF SystemEnds

LEMMA NewPlans == IInv /\ ExactLists /\ [Next]_vars => NewPlansHaveReasons
<1> SUFFICES ASSUME IInv, ExactLists, [Next]_vars PROVE NewPlansHaveReasons
  OBVIOUS
<1>1. CASE pc' = pc
  BY <1>1 DEF NewPlansHaveReasons
<1>2. ASSUME NEW t \in Threads, PlanFromMode(t) PROVE NewPlansHaveReasons
  BY <1>2, ModePlansHaveReasons
<1>3. ASSUME NEW t \in Threads, SystemEnds(t) PROVE NewPlansHaveReasons
  BY <1>3, SystemPlansHaveReasons
<1>4. ASSUME NEW t \in Threads, NEW answer \in Answers,
             AddressAnswered(t, answer) \/ LookupAnswered(t, answer)
      PROVE  NewPlansHaveReasons
  BY <1>4, AnswersHaveReasons
<1>5. ASSUME NEW t \in Threads, LastServerFails(t) PROVE NewPlansHaveReasons
  <2>1. CASE Return(t, Fallback)
    BY <1>5, <2>1, ReturnHasReason DEF LastServerFails, Fallback
  <2>2. CASE AskSystem(t)
    BY <2>2, NoNewPlan DEF AskSystem
  <2> QED BY <1>5, <2>1, <2>2 DEF LastServerFails, AllServersFailed
<1>6. ASSUME NEW t \in Threads, NEW label \in {"lock", "plan", "idle"},
             pc' = [pc EXCEPT ![t] = label]
      PROVE  NewPlansHaveReasons
  BY <1>6, NoNewPlan
<1>7. \/ pc' = pc
      \/ \E t \in Threads :
            \/ PlanFromMode(t) \/ SystemEnds(t) \/ LastServerFails(t)
            \/ \E answer \in Answers : AddressAnswered(t, answer) \/ LookupAnswered(t, answer)
            \/ \E label \in {"lock", "plan", "idle"} : pc' = [pc EXCEPT ![t] = label]
  BY DEF Next, vars, InstallRouteTable, InstallTunnelFallback, Tick, Request, Lock, Leave,
         QueryEnds, NextServer
<1> QED BY <1>1, <1>2, <1>3, <1>4, <1>5, <1>6, <1>7

(* A plan to go through the tunnel has its reason in the table or in the   *)
(* answers it rests on when it is returned (plan 323-358 and every stage). *)
THEOREM PlannerPlansAreJustified == Spec => RemotePlansAreJustified
<1>1. IInv /\ ExactLists /\ [Next]_vars =>
        [\A t \in Threads : pc[t] # "planned" /\ pc'[t] = "planned" /\ plan'[t].kind = "remote"
                               => Justified(t)']_vars
  BY NewPlans DEF NewPlansHaveReasons
<1> QED BY <1>1, IInvHolds, ExactListsHold, PTL DEF Spec, RemotePlansAreJustified
=============================================================================
