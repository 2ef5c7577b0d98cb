----------------------------- MODULE RouteIndex -----------------------------
(***************************************************************************)
(* routing.rs: how a downloaded rule list becomes RouteMatcher.rules and   *)
(* RuleIndex, and how find_first_match uses them.  compile_rules reads the *)
(* list rule by rule, drops what does not compile and what is there        *)
(* already; RuleIndex::build then files each rule under its domain, its    *)
(* address or every bucket (first octet) its range touches.                *)
(***************************************************************************)
EXTENDS RouteRules

CONSTANT MaxRules   \* bound: rules in the downloaded list

ASSUME MaxRulesAssumption == MaxRules \in Nat

VARIABLES raw,            \* history: the downloaded rules read so far
          rules,          \* RouteMatcher.rules
          phase,          \* "compile" or "index"
          indexed,        \* rules that RuleIndex::build has filed
          domain, ipv4, range_buckets

index == <<domain, ipv4, range_buckets>>
vars == <<raw, rules, phase, indexed, index>>

(* RouteRule.host: a name, an address, a range in either order, or         *)
(* something that is none of them.                                         *)
RawHost == HostMatcher \cup [kind : {"invalid"}]
RawRule == [host : RawHost, flow : RuleFlows]

Compiles(rule) == rule.host.kind # "invalid"

CompileRule(rule) ==
    [matcher |-> IF rule.host.kind = "range" /\ ~Leq(rule.host.start, rule.host.end)
                 THEN [kind |-> "range", start |-> rule.host.end, end |-> rule.host.start]
                 ELSE rule.host,
     flow |-> rule.flow]

TypeOK ==
    /\ raw \in Seq(RawRule)
    /\ rules \in Seq(CompiledRule)
    /\ phase \in {"compile", "index"}
    /\ indexed \in 0 .. Len(rules)
    /\ domain \in [Domains -> Seq(1 .. indexed)]
    /\ ipv4 \in [Ip -> Seq(1 .. indexed)]
    /\ range_buckets \in [High -> Seq(1 .. indexed)]

Init ==
    /\ raw = <<>> /\ rules = <<>>
    /\ phase = "compile" /\ indexed = 0
    /\ domain = [d \in Domains |-> <<>>]
    /\ ipv4 = [a \in Ip |-> <<>>]
    /\ range_buckets = [b \in High |-> <<>>]

\* mutant: a key without the protocol, service, port and resource of the rule
IsNewHost(compiled) == \A k \in DOMAIN rules : rules[k].matcher # compiled.matcher

(* seen_rules: the key of a rule is all of it. *)
IsNew(compiled) == \A k \in DOMAIN rules : rules[k] # compiled

(* One round of compile_rules. *)
Compile(rule) ==
    /\ phase = "compile" /\ Len(raw) < MaxRules
    /\ raw' = Append(raw, rule)
    /\ rules' = IF Compiles(rule) /\ IsNew(CompileRule(rule))
                THEN Append(rules, CompileRule(rule)) ELSE rules
    /\ UNCHANGED <<phase, indexed, index>>

ListEnds ==
    /\ phase = "compile"
    /\ phase' = "index"
    /\ UNCHANGED <<raw, rules, indexed, index>>

\* mutant: only the bucket of the range's start
StartBucket(m) == {m.start[1]}

(* The buckets that a range is filed under. *)
Buckets(m) == m.start[1] .. m.end[1]

(* One round of RuleIndex::build, which files the next rule as number idx. *)
IndexAt(idx) ==
    /\ phase = "index" /\ indexed < Len(rules)
    /\ indexed' = indexed + 1
    /\ LET m == rules[indexed + 1].matcher
       IN \/ /\ m.kind = "domain"
             /\ domain' = [domain EXCEPT ![m.name] = Append(@, idx)]
             /\ UNCHANGED <<ipv4, range_buckets>>
          \/ /\ m.kind = "ip"
             /\ ipv4' = [ipv4 EXCEPT ![m.ip] = Append(@, idx)]
             /\ UNCHANGED <<domain, range_buckets>>
          \/ /\ m.kind = "range"
             /\ range_buckets' = [b \in High |->
                    IF b \in Buckets(m) THEN Append(range_buckets[b], idx)
                    ELSE range_buckets[b]]
             /\ UNCHANGED <<domain, ipv4>>
    /\ UNCHANGED <<raw, rules, phase>>

IndexRule == IndexAt(indexed + 1)

Next == (\E rule \in RawRule : Compile(rule)) \/ ListEnds \/ IndexRule

Spec == Init /\ [][Next]_vars

Ready == phase = "index" /\ indexed = Len(rules)
-----------------------------------------------------------------------------
(* RuleIndex::find_first_match.  For a domain it is the first of the list  *)
(* whose flow matches, for an address the least of two lists.              *)
FindFirstMatch(target, port, proto) ==
    IF target.kind = "domain"
    THEN LET ids == domain[target.name]
             hits == {k \in DOMAIN ids : RuleMatchesFlow(rules[ids[k]], port, proto)}
         IN IF hits = {} THEN None ELSE ids[Least(hits)]
    ELSE LET exact == ipv4[target.ip]
             bucket == range_buckets[target.ip[1]]
             hits == {exact[k] : k \in {k \in DOMAIN exact :
                                    RuleMatchesFlow(rules[exact[k]], port, proto)}}
                     \cup {bucket[k] : k \in {k \in DOMAIN bucket :
                                    /\ Leq(rules[bucket[k]].matcher.start, target.ip)
                                    /\ Leq(target.ip, rules[bucket[k]].matcher.end)
                                    /\ RuleMatchesFlow(rules[bucket[k]], port, proto)}}
         IN IF hits = {} THEN None ELSE Least(hits)
-----------------------------------------------------------------------------
(* The index finds what a search through the compiled rules, from the      *)
(* first on, would find (find_first_match 617-663, build 591-615).         *)
IndexFindsFirst ==
    Ready => \A target \in Target, port \in Ports, proto \in FlowProto :
        FindFirstMatch(target, port, proto) = FirstMatch(rules, target, port, proto)

RawMatches(rule, target, port, proto) ==
    Compiles(rule) /\ Matches(CompileRule(rule), target, port, proto)

(* Dropping repeated and unusable rules decides no target otherwise: the   *)
(* rule that is found is the first one of the downloaded list that matches *)
(* (compile_rules 693-705, dedup_key 765-782).                             *)
FirstDownloadedRuleWins ==
    Ready => \A target \in Target, port \in Ports, proto \in FlowProto :
        LET hits == {k \in DOMAIN raw : RawMatches(raw[k], target, port, proto)}
            found == FindFirstMatch(target, port, proto)
        IN IF hits = {} THEN found = None
           ELSE /\ found # None
                /\ rules[found] = CompileRule(raw[Least(hits)])
=============================================================================
