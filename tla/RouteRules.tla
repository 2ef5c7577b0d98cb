----------------------------- MODULE RouteRules -----------------------------
(***************************************************************************)
(* routing.rs: the compiled routing rule and what it means for a rule to   *)
(* match a target.  RouteIndex finds the first matching rule through its   *)
(* index, RoutePlanner plans with it.                                      *)
(*                                                                         *)
(* An IPv4 address is the pair <<high, low>> of its first octet and its    *)
(* other 24 bits, since the index has one bucket for each first octet; the *)
(* order of the pairs is the order of the u32.                             *)
(***************************************************************************)
EXTENDS Integers, Sequences

CONSTANTS Domains,      \* normalised, non-empty host names
          MaxHigh,      \* bound: first octets are 0 .. MaxHigh (255 in the code)
          MaxLow,       \* bound: the other 24 bits are 0 .. MaxLow
          Ports,        \* port numbers
          RuleFlows,    \* what a rule says beside its host: [proto, vipall, port, rc_id]
          None


High == 0 .. MaxHigh
Ip == High \X (0 .. MaxLow)

\* the order of u32::from(ip)
Leq(a, b) == a[1] < b[1] \/ (a[1] = b[1] /\ a[2] <= b[2])

(* FlowProto::code, and the -1 with which a rule stands for all of them.   *)
Tcp == 0
Udp == 1
Icmp == 2
FlowProto == {Tcp, Udp, Icmp}

HostMatcher == [kind : {"domain"}, name : Domains]
               \cup [kind : {"ip"}, ip : Ip]
               \cup [kind : {"range"}, start : Ip, end : Ip]

PortRange == [start : Ports, end : Ports]

ASSUME RulesAssumption ==
    /\ MaxHigh \in Nat /\ MaxLow \in Nat
    /\ Ports \subseteq Nat
    /\ None \notin Nat
    /\ RuleFlows \subseteq [proto : FlowProto \cup {-1}, vipall : BOOLEAN,
                          port : PortRange, rc_id : Nat]

CompiledRule == [matcher : HostMatcher, flow : RuleFlows]

Target == [kind : {"domain"}, name : Domains] \cup [kind : {"ip"}, ip : Ip]

HostMatches(m, target) ==
    \/ m.kind = "domain" /\ target.kind = "domain" /\ m.name = target.name
    \/ m.kind = "ip" /\ target.kind = "ip" /\ m.ip = target.ip
    \/ m.kind = "range" /\ target.kind = "ip"
       /\ Leq(m.start, target.ip) /\ Leq(target.ip, m.end)

PortMatches(range, port) == range.start <= port /\ port <= range.end
ProtoMatches(flow, proto) == flow.proto = -1 \/ flow.proto = proto

RuleMatchesFlow(rule, port, proto) ==
    \/ rule.flow.vipall
    \/ /\ ProtoMatches(rule.flow, proto)
       /\ proto = Icmp \/ PortMatches(rule.flow.port, port)

Matches(rule, target, port, proto) ==
    HostMatches(rule.matcher, target) /\ RuleMatchesFlow(rule, port, proto)

Least(S) == CHOOSE x \in S : \A y \in S : x <= y

(* What the index is for: the first rule of a list that matches.           *)
FirstMatch(list, target, port, proto) ==
    LET hits == {k \in DOMAIN list : Matches(list[k], target, port, proto)} IN
    IF hits = {} THEN None ELSE Least(hits)
=============================================================================
