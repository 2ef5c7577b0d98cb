-------------------------- MODULE RouteIndex_proofs --------------------------
(***************************************************************************)
(* TLAPS proofs about the rule index, for rule lists of any length, any    *)
(* number of buckets and any rules.                                        *)
(***************************************************************************)
EXTENDS RouteIndex, WellFoundedInduction, TLAPS

(* A set of numbers that is not empty has a least element, and Least is    *)
(* that element.                                                           *)
LEMMA LeastExists ==
  ASSUME NEW S \in SUBSET Nat, S # {}
  PROVE  Least(S) \in S /\ \A y \in S : Least(S) <= y
<1>1. PICK x \in S : \A y \in S : <<y, x>> \notin OpToRel(<, Nat)
  BY WFMin, NatLessThanWellFounded, Zenon
<1>2. \A y \in S : ~ (y < x)
  BY <1>1, Zenon DEF OpToRel
<1>3. \A y \in S : x <= y
  BY <1>2
<1> QED
  BY <1>3 DEF Least

LEMMA LeastUnique ==
  ASSUME NEW S \in SUBSET Nat, NEW x \in S, \A y \in S : x <= y
  PROVE  Least(S) = x
<1>1. Least(S) \in S /\ Least(S) <= x
  BY LeastExists
<1>2. x <= Least(S) /\ x \in Nat /\ Least(S) \in Nat
  BY <1>1
<1> QED
  BY <1>1, <1>2
-----------------------------------------------------------------------------
(* s lists the numbers of K and no others, in ascending order.             *)
Lists(s, K) ==
    /\ \A i \in DOMAIN s : s[i] \in K
    /\ \A k \in K : \E i \in DOMAIN s : s[i] = k
    /\ \A i, j \in DOMAIN s : i < j => s[i] < s[j]

NamedBy(d) == {k \in 1 .. indexed : rules[k].matcher.kind = "domain" /\ rules[k].matcher.name = d}
AddressedBy(a) == {k \in 1 .. indexed : rules[k].matcher.kind = "ip" /\ rules[k].matcher.ip = a}
Touching(b) == {k \in 1 .. indexed : rules[k].matcher.kind = "range" /\ b \in Buckets(rules[k].matcher)}

(* The inductive invariant: the index lists exactly the rules filed so     *)
(* far, each list in the order of the rules.                               *)
Filed ==
    /\ \A d \in Domains : Lists(domain[d], NamedBy(d))
    /\ \A a \in Ip : Lists(ipv4[a], AddressedBy(a))
    /\ \A b \in High : Lists(range_buckets[b], Touching(b))

(* The other one: compiling keeps one copy of each usable rule, in the     *)
(* order of its first occurrence.                                          *)
Compiled(i) == CompileRule(raw[i])
Usable == {i \in DOMAIN raw : Compiles(raw[i])}
Kept ==
    /\ \A i \in Usable : \E k \in DOMAIN rules : rules[k] = Compiled(i)
    /\ \A k, l \in DOMAIN rules : k < l =>
          \A i \in Usable : Compiled(i) = rules[l] =>
             \E j \in Usable : j < i /\ Compiled(j) = rules[k]
    /\ \A k \in DOMAIN rules : \E i \in Usable : Compiled(i) = rules[k]

IInv == TypeOK /\ (phase = "compile" => indexed = 0) /\ Filed /\ Kept

LEMMA AppendFacts ==
  ASSUME NEW T, NEW s \in Seq(T), NEW e \in T
  PROVE  /\ Append(s, e) \in Seq(T)
         /\ Len(Append(s, e)) = Len(s) + 1
         /\ DOMAIN s = 1 .. Len(s)
         /\ DOMAIN Append(s, e) = 1 .. Len(s) + 1
         /\ \A i \in 1 .. Len(s) : Append(s, e)[i] = s[i]
         /\ Append(s, e)[Len(s) + 1] = e
  OBVIOUS

(* Filing the next number in a list.                                       *)
LEMMA AppendLists ==
  ASSUME NEW n \in Nat, NEW s \in Seq(1 .. n), NEW K \in SUBSET (1 .. n), Lists(s, K)
  PROVE  Lists(Append(s, n + 1), K \cup {n + 1})
<1>0. s \in Seq(1 .. (n + 1)) /\ n + 1 \in 1 .. (n + 1)
  OBVIOUS
<1> DEFINE t == Append(s, n + 1)
<1>1. /\ DOMAIN s = 1 .. Len(s) /\ DOMAIN t = 1 .. Len(s) + 1 /\ Len(s) \in Nat
      /\ \A i \in 1 .. Len(s) : t[i] = s[i]
      /\ t[Len(s) + 1] = n + 1
  BY <1>0, AppendFacts
<1> HIDE DEF t
<1>2. \A i \in DOMAIN t : t[i] \in K \cup {n + 1}
  BY <1>1 DEF Lists
<1>3. \A k \in K \cup {n + 1} : \E i \in DOMAIN t : t[i] = k
  <2> TAKE k \in K \cup {n + 1}
  <2>1. CASE k = n + 1
    BY <1>1, <2>1
  <2>2. CASE k \in K
    <3>1. PICK i \in DOMAIN s : s[i] = k
      BY <2>2 DEF Lists
    <3> QED BY <1>1, <3>1
  <2> QED BY <2>1, <2>2
<1>4. ASSUME NEW i \in DOMAIN t, NEW j \in DOMAIN t, i < j PROVE t[i] < t[j]
  <2>1. i \in 1 .. Len(s)
    BY <1>1, <1>4
  <2>2. CASE j \in 1 .. Len(s)
    BY <1>1, <2>1, <2>2, <1>4 DEF Lists
  <2>3. CASE j = Len(s) + 1
    <3>1. s[i] \in 1 .. n
      BY <2>1, <1>1 DEF Lists
    <3> QED BY <3>1, <1>1, <2>1, <2>3
  <2> QED BY <2>2, <2>3, <1>1
<1> QED
  BY <1>2, <1>3, <1>4 DEF Lists, t

(* What CompileRule makes of a usable rule is a compiled rule.             *)
LEMMA CompileRuleType ==
  ASSUME NEW rule \in RawRule, Compiles(rule)
  PROVE  CompileRule(rule) \in CompiledRule
<1>1. rule.host \in HostMatcher /\ rule.flow \in RuleFlows
  BY DEF RawRule, RawHost, Compiles
<1>2. CASE rule.host.kind = "range" /\ ~Leq(rule.host.start, rule.host.end)
  <2>1. rule.host.start \in Ip /\ rule.host.end \in Ip
    BY <1>1, <1>2 DEF HostMatcher
  <2> DEFINE m == [kind |-> "range", start |-> rule.host.end, end |-> rule.host.start]
  <2>2. m \in HostMatcher
    BY <2>1 DEF HostMatcher
  <2>3. CompileRule(rule) = [matcher |-> m, flow |-> rule.flow]
    BY <1>2 DEF CompileRule
  <2> QED BY <1>1, <2>2, <2>3 DEF CompiledRule
<1>3. CASE ~(rule.host.kind = "range" /\ ~Leq(rule.host.start, rule.host.end))
  <2>1. CompileRule(rule) = [matcher |-> rule.host, flow |-> rule.flow]
    BY <1>3 DEF CompileRule
  <2> QED BY <1>1, <2>1 DEF CompiledRule
<1> QED BY <1>2, <1>3

LEMMA InitIInv == Init => IInv
<1> SUFFICES ASSUME Init PROVE IInv
  OBVIOUS
<1>1. TypeOK
  <2>1. raw = <<>> /\ rules = <<>> /\ indexed = 0 /\ phase = "compile"
    BY DEF Init
  <2>2. raw \in Seq(RawRule) /\ rules \in Seq(CompiledRule) /\ indexed \in 0 .. Len(rules)
    BY <2>1
  <2>3. <<>> \in Seq(1 .. indexed)
    OBVIOUS
  <2> QED BY <2>1, <2>2, <2>3 DEF Init, TypeOK
<1>2. Filed
  <2>1. 1 .. indexed = {}
    BY DEF Init
  <2>2. Lists(<<>>, {})
    BY DEF Lists
  <2>3. \A d \in Domains : NamedBy(d) = {} /\ domain[d] = <<>>
    BY <2>1 DEF NamedBy, Init
  <2>4. \A a \in Ip : AddressedBy(a) = {} /\ ipv4[a] = <<>>
    BY <2>1 DEF AddressedBy, Init
  <2>5. \A b \in High : Touching(b) = {} /\ range_buckets[b] = <<>>
    BY <2>1 DEF Touching, Init
  <2> QED BY <2>2, <2>3, <2>4, <2>5 DEF Filed
<1>3. Kept
  <2>1. DOMAIN raw = {} /\ DOMAIN rules = {}
    BY DEF Init
  <2> QED BY <2>1 DEF Kept, Usable
<1> QED BY <1>1, <1>2, <1>3 DEF IInv, Init

(* While rules are compiled the index is empty, so it stays right when the *)
(* rules grow.                                                             *)
LEMMA CompileKeeps ==
  ASSUME IInv, NEW rule \in RawRule, Compile(rule)
  PROVE  IInv'
<1>0. PICK n \in Nat : n = Len(raw)
  BY DEF IInv, TypeOK
<1>1. /\ raw \in Seq(RawRule) /\ rules \in Seq(CompiledRule) /\ indexed = 0 /\ phase = "compile"
      /\ raw' = Append(raw, rule) /\ indexed' = 0 /\ phase' = "compile"
      /\ UNCHANGED <<domain, ipv4, range_buckets>>
  BY DEF IInv, TypeOK, Compile, index
<1>2. /\ DOMAIN raw = 1 .. n /\ DOMAIN raw' = 1 .. n + 1 /\ raw' \in Seq(RawRule)
      /\ \A i \in 1 .. n : raw'[i] = raw[i]
      /\ raw'[n + 1] = rule
  BY <1>0, <1>1, AppendFacts
<1> DEFINE grows == Compiles(rule) /\ IsNew(CompileRule(rule))
<1>r. PICK r \in Nat : r = Len(rules)
  BY DEF IInv, TypeOK
<1>3. /\ DOMAIN rules = 1 .. r /\ rules' \in Seq(CompiledRule)
      /\ grows => /\ DOMAIN rules' = 1 .. r + 1
                  /\ \A k \in 1 .. r : rules'[k] = rules[k]
                  /\ rules'[r + 1] = CompileRule(rule)
      /\ ~grows => rules' = rules
  <2>1. CASE grows
    <3>1. rules' = Append(rules, CompileRule(rule))
      BY <2>1 DEF Compile
    <3>2. CompileRule(rule) \in CompiledRule
      BY <2>1, CompileRuleType
    <3> QED BY <1>r, <1>1, <2>1, <3>1, <3>2, AppendFacts
  <2>2. CASE ~grows
    <3>1. rules' = rules
      BY <2>2 DEF Compile
    <3> QED BY <1>r, <1>1, <2>2, <3>1
  <2> QED BY <2>1, <2>2
<1>4. TypeOK'
  <2>1. indexed' \in 0 .. Len(rules')
    BY <1>1, <1>3
  <2>2. indexed' = indexed
    BY <1>1
  <2> QED BY <1>1, <1>2, <1>3, <2>1, <2>2 DEF IInv, TypeOK
<1>5. Filed'
  <2>1. 1 .. indexed' = {} /\ 1 .. indexed = {}
    BY <1>1
  <2>2. \A d \in Domains : NamedBy(d) = {} /\ NamedBy(d)' = {}
    BY <2>1 DEF NamedBy
  <2>3. \A a \in Ip : AddressedBy(a) = {} /\ AddressedBy(a)' = {}
    BY <2>1 DEF AddressedBy
  <2>4. \A b \in High : Touching(b) = {} /\ Touching(b)' = {}
    BY <2>1 DEF Touching
  <2>5. /\ \A d \in Domains : Lists(domain'[d], {})
        /\ \A a \in Ip : Lists(ipv4'[a], {})
        /\ \A b \in High : Lists(range_buckets'[b], {})
    BY <1>1, <2>2, <2>3, <2>4 DEF IInv, Filed
  <2> QED BY <2>2, <2>3, <2>4, <2>5 DEF Filed, Lists
<1>6. Kept'
  <2>1. /\ Usable \subseteq 1 .. n
        /\ Usable' = IF Compiles(rule) THEN Usable \cup {n + 1} ELSE Usable
    BY <1>2 DEF Usable, Compiles
  <2>2. /\ \A i \in Usable : Compiled(i)' = Compiled(i)
        /\ Compiled(n + 1)' = CompileRule(rule)
    BY <1>2, <2>1 DEF Compiled, CompileRule
  <2>3. Kept
    BY DEF IInv
  <2>4. CASE grows
    <3>1. /\ DOMAIN rules' = 1 .. r + 1
          /\ \A k \in 1 .. r : rules'[k] = rules[k]
          /\ rules'[r + 1] = CompileRule(rule)
      BY <2>4, <1>3
    <3>2. \A k \in 1 .. r : rules[k] # CompileRule(rule)
      BY <2>4, <1>3 DEF IsNew
    <3>3. Usable' = Usable \cup {n + 1}
      BY <2>1, <2>4
    <3>4. \A i \in Usable : Compiled(i) # CompileRule(rule)
      BY <2>3, <3>2, <1>3 DEF Kept
    <3>5. \A i \in Usable' : \E k \in DOMAIN rules' : rules'[k] = Compiled(i)'
      BY <1>3, <2>2, <2>3, <3>1, <3>3 DEF Kept
    <3>6. ASSUME NEW k \in DOMAIN rules', NEW l \in DOMAIN rules', k < l,
                 NEW i \in Usable', Compiled(i)' = rules'[l]
          PROVE  \E j \in Usable' : j < i /\ Compiled(j)' = rules'[k]
      <4>1. k \in 1 .. r
        BY <3>1, <3>6, <1>3
      <4>2. CASE l = r + 1
        <5>1. i = n + 1
          BY <4>2, <3>1, <3>3, <3>4, <3>6, <2>2
        <5>2. PICK j \in Usable : Compiled(j) = rules[k]
          BY <4>1, <2>3, <1>3 DEF Kept
        <5>3. j < n + 1
          BY <2>1, <1>2
        <5> QED BY <5>1, <5>2, <5>3, <4>1, <3>1, <3>3, <2>2
      <4>3. CASE l \in 1 .. r
        <5>1. i \in Usable
          BY <4>3, <3>1, <3>2, <3>3, <3>6, <2>2
        <5>2. PICK j \in Usable : j < i /\ Compiled(j) = rules[k]
          BY <5>1, <4>1, <4>3, <3>6, <3>1, <2>2, <2>3, <1>3 DEF Kept
        <5> QED BY <5>2, <4>1, <3>1, <3>3, <2>2
      <4> QED BY <4>2, <4>3, <3>1, <1>3
    <3>7. \A k \in DOMAIN rules' : \E i \in Usable' : Compiled(i)' = rules'[k]
      BY <1>3, <2>2, <2>3, <3>1, <3>3 DEF Kept
    <3> QED BY <3>5, <3>6, <3>7 DEF Kept
  <2>5. CASE ~grows
    <3>1. rules' = rules
      BY <2>5, <1>3
    <3>2. CASE ~Compiles(rule)
      <4>1. Usable' = Usable
        BY <3>2, <2>1
      <4> QED BY <4>1, <3>1, <2>2, <2>3 DEF Kept
    <3>3. CASE Compiles(rule)
      <4>1. PICK c \in DOMAIN rules : rules[c] = CompileRule(rule)
        BY <3>3, <2>5 DEF IsNew
      <4>2. Usable' = Usable \cup {n + 1}
        BY <3>3, <2>1
      <4>3. PICK first \in Usable : Compiled(first) = CompileRule(rule)
        BY <4>1, <2>3 DEF Kept
      <4>4. ASSUME NEW k \in DOMAIN rules, NEW l \in DOMAIN rules, k < l,
                   NEW i \in Usable', Compiled(i)' = rules[l]
            PROVE  \E j \in Usable' : j < i /\ Compiled(j)' = rules[k]
        <5>1. CASE i \in Usable
          BY <5>1, <4>4, <4>2, <2>2, <2>3 DEF Kept
        <5>2. CASE i = n + 1
          <6>1. PICK j \in Usable : j < first /\ Compiled(j) = rules[k]
            BY <5>2, <4>3, <4>4, <2>2, <2>3 DEF Kept
          <6>2. j < i
            BY <6>1, <5>2, <2>1, <1>2
          <6> QED BY <6>1, <6>2, <4>2, <2>2
        <5> QED BY <5>1, <5>2, <4>2
      <4>5. \A i \in Usable' : \E k \in DOMAIN rules : rules[k] = Compiled(i)'
        BY <4>1, <4>2, <2>2, <2>3 DEF Kept
      <4>6. \A k \in DOMAIN rules : \E i \in Usable' : Compiled(i)' = rules[k]
        BY <4>2, <2>2, <2>3 DEF Kept
      <4> QED BY <4>4, <4>5, <4>6, <3>1 DEF Kept
    <3> QED BY <3>2, <3>3
  <2> QED BY <2>4, <2>5
<1> QED BY <1>1, <1>4, <1>5, <1>6 DEF IInv

LEMMA UnchangedLists ==
  ASSUME UNCHANGED <<raw, rules, indexed, domain, ipv4, range_buckets>>
  PROVE  /\ Filed => Filed'
         /\ Kept => Kept'
<1>1. /\ \A d : NamedBy(d)' = NamedBy(d)
      /\ \A a : AddressedBy(a)' = AddressedBy(a)
      /\ \A b : Touching(b)' = Touching(b)
  BY DEF NamedBy, AddressedBy, Touching
<1>2. Filed => Filed'
  BY <1>1 DEF Filed
<1>3. Usable' = Usable /\ \A i : Compiled(i)' = Compiled(i)
  BY DEF Usable, Compiled
<1>4. Kept => Kept'
  BY <1>3 DEF Kept
<1> QED BY <1>2, <1>4

LEMMA ListEndsKeeps ==
  ASSUME IInv, ListEnds
  PROVE  IInv'
<1>1. /\ UNCHANGED <<raw, rules, indexed, domain, ipv4, range_buckets>>
      /\ phase' = "index"
  BY DEF ListEnds, index
<1>2. TypeOK'
  BY <1>1 DEF IInv, TypeOK
<1> QED BY <1>1, <1>2, UnchangedLists DEF IInv

(* Filing a rule adds its number to the lists that it belongs to.          *)
LEMMA IndexRuleKeeps ==
  ASSUME IInv, IndexRule
  PROVE  IInv'
<1>1. PICK n \in Nat : n = indexed /\ n < Len(rules) /\ indexed' = n + 1
  BY SMTT(30) DEF IInv, TypeOK, IndexRule, IndexAt
<1>2. /\ phase = "index" /\ UNCHANGED <<raw, rules, phase>>
      /\ raw \in Seq(RawRule) /\ rules \in Seq(CompiledRule) /\ n + 1 \in 1 .. Len(rules)
      /\ domain \in [Domains -> Seq(1 .. n)] /\ ipv4 \in [Ip -> Seq(1 .. n)]
      /\ range_buckets \in [High -> Seq(1 .. n)]
      /\ Filed /\ Kept
  BY SMTT(30), <1>1 DEF IInv, TypeOK, IndexRule, IndexAt
<1>3. PICK m \in HostMatcher : m = rules[n + 1].matcher
  <2>1. rules[n + 1] \in CompiledRule
    BY <1>2
  <2> QED BY <2>1 DEF CompiledRule
<1>4. 1 .. indexed' = 1 .. n \cup {n + 1} /\ 1 .. indexed = 1 .. n
  BY <1>1
<1>5. \A s \in Seq(1 .. n) : s \in Seq(1 .. (n + 1)) /\ Append(s, n + 1) \in Seq(1 .. (n + 1))
  <2> TAKE s \in Seq(1 .. n)
  <2>1. s \in Seq(1 .. (n + 1)) /\ n + 1 \in 1 .. (n + 1)
    OBVIOUS
  <2> QED BY <2>1
<1>6. \A d : NamedBy(d)' = IF m.kind = "domain" /\ m.name = d THEN NamedBy(d) \cup {n + 1}
                           ELSE NamedBy(d)
  BY <1>2, <1>3, <1>4 DEF NamedBy
<1>7. \A a : AddressedBy(a)' = IF m.kind = "ip" /\ m.ip = a THEN AddressedBy(a) \cup {n + 1}
                               ELSE AddressedBy(a)
  BY <1>2, <1>3, <1>4 DEF AddressedBy
<1>8. \A b : Touching(b)' = IF m.kind = "range" /\ b \in Buckets(m) THEN Touching(b) \cup {n + 1}
                            ELSE Touching(b)
  BY <1>2, <1>3, <1>4 DEF Touching
<1>9. \A x : NamedBy(x) \subseteq 1 .. n /\ AddressedBy(x) \subseteq 1 .. n /\ Touching(x) \subseteq 1 .. n
  BY <1>4 DEF NamedBy, AddressedBy, Touching
<1>10. Kept'
  BY <1>2 DEF Kept, Usable, Compiled
<1>11. \/ /\ m.kind = "domain"
          /\ domain' = [domain EXCEPT ![m.name] = Append(@, n + 1)]
          /\ UNCHANGED <<ipv4, range_buckets>>
       \/ /\ m.kind = "ip"
          /\ ipv4' = [ipv4 EXCEPT ![m.ip] = Append(@, n + 1)]
          /\ UNCHANGED <<domain, range_buckets>>
       \/ /\ m.kind = "range"
          /\ range_buckets' = [b \in High |->
                 IF b \in Buckets(m) THEN Append(range_buckets[b], n + 1) ELSE range_buckets[b]]
          /\ UNCHANGED <<domain, ipv4>>
  BY <1>1, <1>3 DEF IndexRule, IndexAt
<1>12. /\ domain' \in [Domains -> Seq(1 .. (n + 1))] /\ ipv4' \in [Ip -> Seq(1 .. (n + 1))]
       /\ range_buckets' \in [High -> Seq(1 .. (n + 1))]
  BY <1>2, <1>5, <1>11
<1>13. TypeOK'
  <2>1. indexed' \in 0 .. Len(rules') /\ indexed' = n + 1
    BY <1>1, <1>2
  <2> QED BY <1>2, <1>12, <2>1 DEF IInv, TypeOK
<1>14. \A d \in Domains : Lists(domain'[d], NamedBy(d)')
  <2> TAKE d \in Domains
  <2>1. domain[d] \in Seq(1 .. n) /\ Lists(domain[d], NamedBy(d))
    BY <1>2 DEF Filed
  <2>2. CASE m.kind = "domain" /\ m.name = d
    <3>1. domain'[d] = Append(domain[d], n + 1)
      BY <1>2, <1>11, <2>2
    <3> QED BY <1>6, <1>9, <2>1, <2>2, <3>1, AppendLists
  <2>3. CASE ~(m.kind = "domain" /\ m.name = d)
    <3>1. domain'[d] = domain[d]
      BY <1>2, <1>11, <2>3
    <3> QED BY <1>6, <2>1, <2>3, <3>1
  <2> QED BY <2>2, <2>3
<1>15. \A a \in Ip : Lists(ipv4'[a], AddressedBy(a)')
  <2> TAKE a \in Ip
  <2>1. ipv4[a] \in Seq(1 .. n) /\ Lists(ipv4[a], AddressedBy(a))
    BY <1>2 DEF Filed
  <2>2. CASE m.kind = "ip" /\ m.ip = a
    <3>1. ipv4'[a] = Append(ipv4[a], n + 1)
      BY <1>2, <1>11, <2>2
    <3> QED BY <1>7, <1>9, <2>1, <2>2, <3>1, AppendLists
  <2>3. CASE ~(m.kind = "ip" /\ m.ip = a)
    <3>1. ipv4'[a] = ipv4[a]
      BY <1>2, <1>11, <2>3
    <3> QED BY <1>7, <2>1, <2>3, <3>1
  <2> QED BY <2>2, <2>3
<1>16. \A b \in High : Lists(range_buckets'[b], Touching(b)')
  <2> TAKE b \in High
  <2>1. range_buckets[b] \in Seq(1 .. n) /\ Lists(range_buckets[b], Touching(b))
    BY <1>2 DEF Filed
  <2>2. CASE m.kind = "range" /\ b \in Buckets(m)
    <3>1. range_buckets'[b] = Append(range_buckets[b], n + 1)
      BY <1>2, <1>11, <2>2
    <3> QED BY <1>8, <1>9, <2>1, <2>2, <3>1, AppendLists
  <2>3. CASE ~(m.kind = "range" /\ b \in Buckets(m))
    <3>1. range_buckets'[b] = range_buckets[b]
      BY <1>2, <1>11, <2>3
    <3> QED BY <1>8, <2>1, <2>3, <3>1
  <2> QED BY <2>2, <2>3
<1>17. Filed'
  BY <1>14, <1>15, <1>16 DEF Filed
<1> QED BY <1>2, <1>10, <1>13, <1>17 DEF IInv

LEMMA StutterKeeps ==
  ASSUME IInv, UNCHANGED vars
  PROVE  IInv'
<1>1. UNCHANGED <<raw, rules, phase, indexed, domain, ipv4, range_buckets>>
  BY DEF vars, index
<1>2. TypeOK'
  BY <1>1 DEF IInv, TypeOK
<1> QED BY <1>1, <1>2, UnchangedLists DEF IInv

(* IInv holds throughout: types, the lists of the index, and the one copy  *)
(* kept of each rule (compile_rules 693-705, RuleIndex::build 591-615).    *)
THEOREM IndexInvariant == Spec => []IInv
<1>1. IInv /\ [Next]_vars => IInv'
  BY CompileKeeps, ListEndsKeeps, IndexRuleKeeps, StutterKeeps DEF Next
<1> QED BY InitIInv, <1>1, PTL DEF Spec

(* For a name: the first of its list that matches the flow is the first    *)
(* rule that matches.                                                      *)
LEMMA NameFound ==
  ASSUME IInv, Ready, NEW d \in Domains, NEW port, NEW proto
  PROVE  LET target == [kind |-> "domain", name |-> d]
         IN FindFirstMatch(target, port, proto) = FirstMatch(rules, target, port, proto)
<1> DEFINE target == [kind |-> "domain", name |-> d]
           ids == domain[d]
           found == {k \in DOMAIN ids : RuleMatchesFlow(rules[ids[k]], port, proto)}
           hits == {k \in DOMAIN rules : Matches(rules[k], target, port, proto)}
<1>1. /\ ids \in Seq(1 .. indexed) /\ Lists(ids, NamedBy(d)) /\ indexed \in Nat
      /\ DOMAIN rules = 1 .. indexed
  BY DEF IInv, TypeOK, Filed, Ready
<1>2. hits = {k \in NamedBy(d) : RuleMatchesFlow(rules[k], port, proto)}
  BY <1>1 DEF Matches, HostMatches, NamedBy
<1>3. /\ \A i \in found : ids[i] \in hits
      /\ \A k \in hits : \E i \in found : ids[i] = k
      /\ found \in SUBSET Nat /\ hits \in SUBSET Nat
  <2>1. \A i \in found : ids[i] \in hits
    BY <1>1, <1>2 DEF Lists
  <2>2. \A k \in hits : \E i \in found : ids[i] = k
    BY <1>1, <1>2 DEF Lists
  <2>3. DOMAIN ids \in SUBSET Nat
    BY <1>1
  <2>4. hits \in SUBSET Nat
    BY <1>1
  <2> QED BY <2>1, <2>2, <2>3, <2>4
<1>4. FindFirstMatch(target, port, proto) = IF found = {} THEN None ELSE ids[Least(found)]
  BY DEF FindFirstMatch
<1>5. FirstMatch(rules, target, port, proto) = IF hits = {} THEN None ELSE Least(hits)
  BY DEF FirstMatch
<1>6. CASE found = {}
  BY <1>3, <1>4, <1>5, <1>6
<1>7. CASE found # {}
  <2>1. Least(found) \in found /\ \A i \in found : Least(found) <= i
    BY <1>3, <1>7, LeastExists
  <2>2. ids[Least(found)] \in hits
    BY <1>3, <2>1
  <2>3. \A k \in hits : ids[Least(found)] <= k
    <3> TAKE k \in hits
    <3>1. PICK i \in found : ids[i] = k
      BY <1>3
    <3>2. Least(found) <= i /\ i \in Nat /\ Least(found) \in Nat
      BY <1>3, <2>1
    <3>3. CASE i = Least(found)
      BY <3>1, <3>3, <1>3
    <3>4. CASE Least(found) < i
      <4>1. i \in DOMAIN ids /\ Least(found) \in DOMAIN ids
        BY <2>1
      <4>2. ids[Least(found)] < ids[i]
        BY <4>1, <3>4, <1>1 DEF Lists
      <4>3. ids[Least(found)] \in Nat /\ k \in Nat
        BY <2>2, <1>3
      <4> QED BY <4>2, <4>3, <3>1
    <3> QED BY <3>2, <3>3, <3>4
  <2>4. Least(hits) = ids[Least(found)]
    <3> HIDE DEF hits, found, ids
    <3> QED BY <1>3, <2>2, <2>3, LeastUnique
  <2> QED BY <1>4, <1>5, <1>7, <2>2, <2>4
<1> QED BY <1>6, <1>7

(* For an address: its exact rules and those of its bucket are all that    *)
(* can match, since a range that contains it touches its first octet.      *)
LEMMA AddressFound ==
  ASSUME IInv, Ready, NEW a \in Ip, NEW port, NEW proto
  PROVE  LET target == [kind |-> "ip", ip |-> a]
         IN FindFirstMatch(target, port, proto) = FirstMatch(rules, target, port, proto)
<1> DEFINE target == [kind |-> "ip", ip |-> a]
           exact == ipv4[a]
           bucket == range_buckets[a[1]]
           found == {exact[k] : k \in {k \in DOMAIN exact :
                                   RuleMatchesFlow(rules[exact[k]], port, proto)}}
                    \cup {bucket[k] : k \in {k \in DOMAIN bucket :
                                   /\ Leq(rules[bucket[k]].matcher.start, a)
                                   /\ Leq(a, rules[bucket[k]].matcher.end)
                                   /\ RuleMatchesFlow(rules[bucket[k]], port, proto)}}
           hits == {k \in DOMAIN rules : Matches(rules[k], target, port, proto)}
<1>1. a[1] \in High /\ a[1] \in Int
  BY RulesAssumption DEF Ip, High
<1>2. /\ Lists(exact, AddressedBy(a)) /\ Lists(bucket, Touching(a[1]))
      /\ DOMAIN rules = 1 .. indexed /\ rules \in Seq(CompiledRule)
  BY <1>1 DEF IInv, TypeOK, Filed, Ready
<1>3. found = {k \in AddressedBy(a) : RuleMatchesFlow(rules[k], port, proto)}
              \cup {k \in Touching(a[1]) : /\ Leq(rules[k].matcher.start, a)
                                           /\ Leq(a, rules[k].matcher.end)
                                           /\ RuleMatchesFlow(rules[k], port, proto)}
  BY <1>2 DEF Lists
<1>4. \A k \in DOMAIN rules :
         rules[k].matcher.kind = "range" /\ Leq(rules[k].matcher.start, a) /\ Leq(a, rules[k].matcher.end)
            => a[1] \in Buckets(rules[k].matcher)
  <2> SUFFICES ASSUME NEW k \in DOMAIN rules, rules[k].matcher.kind = "range",
                      Leq(rules[k].matcher.start, a), Leq(a, rules[k].matcher.end)
               PROVE  a[1] \in Buckets(rules[k].matcher)
    OBVIOUS
  <2>1. rules[k].matcher \in HostMatcher
    <3>1. rules \in Seq(CompiledRule)
      BY <1>2
    <3> HIDE DEF target, exact, bucket, found, hits
    <3>2. rules[k] \in CompiledRule
      BY <3>1
    <3> QED BY <3>2 DEF CompiledRule
  <2>2. rules[k].matcher.start \in Ip /\ rules[k].matcher.end \in Ip
    BY <2>1 DEF HostMatcher
  <2>3. rules[k].matcher.start[1] \in Int /\ rules[k].matcher.end[1] \in Int
    BY <2>2, RulesAssumption DEF Ip, High
  <2> QED BY <1>1, <2>3 DEF Leq, Buckets
<1>5. hits = {k \in AddressedBy(a) : RuleMatchesFlow(rules[k], port, proto)}
             \cup {k \in Touching(a[1]) : /\ Leq(rules[k].matcher.start, a)
                                          /\ Leq(a, rules[k].matcher.end)
                                          /\ RuleMatchesFlow(rules[k], port, proto)}
  BY <1>2, <1>4 DEF Matches, HostMatches, AddressedBy, Touching
<1>6. FindFirstMatch(target, port, proto) = IF found = {} THEN None ELSE Least(found)
  BY DEF FindFirstMatch
<1>7. FirstMatch(rules, target, port, proto) = IF hits = {} THEN None ELSE Least(hits)
  BY DEF FirstMatch
<1>8. found = hits
  BY <1>3, <1>5
<1> HIDE DEF found, hits
<1> QED BY <1>6, <1>7, <1>8

(* The index finds the first rule of the compiled list that matches, for   *)
(* every list of rules (find_first_match 617-663).                         *)
LEMMA IndexAgrees == IInv => IndexFindsFirst
<1> SUFFICES ASSUME IInv, Ready, NEW target \in Target, NEW port, NEW proto
             PROVE  FindFirstMatch(target, port, proto) = FirstMatch(rules, target, port, proto)
  BY DEF IndexFindsFirst
<1>1. CASE target.kind = "domain"
  <2>1. PICK d \in Domains : target = [kind |-> "domain", name |-> d]
    BY <1>1 DEF Target
  <2> QED BY <2>1, NameFound
<1>2. CASE target.kind = "ip"
  <2>1. PICK a \in Ip : target = [kind |-> "ip", ip |-> a]
    BY <1>2 DEF Target
  <2> QED BY <2>1, AddressFound
<1> QED BY <1>1, <1>2 DEF Target

(* The property that run RouteIndex checks of two rules, for any number:   *)
(* find_first_match returns what a search from the first rule would.       *)
THEOREM IndexIsCorrect == Spec => []IndexFindsFirst
BY IndexInvariant, IndexAgrees, PTL

LEMMA DedupIsHarmless == IInv => FirstDownloadedRuleWins
<1> SUFFICES ASSUME IInv, Ready, NEW target \in Target, NEW port \in Ports, NEW proto \in FlowProto
             PROVE  LET hits == {k \in DOMAIN raw : RawMatches(raw[k], target, port, proto)}
                        found == FindFirstMatch(target, port, proto)
                    IN IF hits = {} THEN found = None
                       ELSE found # None /\ rules[found] = CompileRule(raw[Least(hits)])
  BY DEF FirstDownloadedRuleWins
<1> DEFINE hits == {k \in DOMAIN raw : RawMatches(raw[k], target, port, proto)}
           found == FindFirstMatch(target, port, proto)
           kept == {k \in DOMAIN rules : Matches(rules[k], target, port, proto)}
<1>1. found = IF kept = {} THEN None ELSE Least(kept)
  BY IndexAgrees DEF IndexFindsFirst, FirstMatch
<1>2. Kept /\ DOMAIN raw \in SUBSET Nat /\ DOMAIN rules \in SUBSET Nat
  BY DEF IInv, TypeOK
<1>3. hits = {i \in Usable : Matches(Compiled(i), target, port, proto)}
  BY DEF RawMatches, Usable, Compiled
<1>4. hits \in SUBSET Nat /\ kept \in SUBSET Nat
  BY <1>2
<1>5. kept # {} => hits # {}
  BY <1>2, <1>3 DEF Kept
<1>6. CASE hits = {}
  BY <1>1, <1>5, <1>6
<1>7. CASE hits # {}
  <2>1. PICK i \in hits : i = Least(hits) /\ \A j \in hits : i <= j
    BY <1>4, <1>7, LeastExists
  <2>2. i \in Usable /\ Matches(Compiled(i), target, port, proto)
    BY <1>3, <2>1
  <2>3. PICK k \in kept : rules[k] = Compiled(i)
    BY <1>2, <2>2 DEF Kept
  <2>4. PICK l \in kept : l = Least(kept) /\ l <= k
    BY <1>4, <2>3, LeastExists
  <2>5. found = l /\ found # None
    BY <1>1, <1>4, <2>3, <2>4, RulesAssumption
  <2>6. ASSUME l < k PROVE FALSE
    <3>1. PICK j \in Usable : j < i /\ Compiled(j) = rules[l]
      <4>1. l \in DOMAIN rules /\ k \in DOMAIN rules
        BY <2>3, <2>4
      <4> QED BY <4>1, <1>2, <2>2, <2>3, <2>6 DEF Kept
    <3>2. j \in hits
      BY <1>3, <3>1, <2>4
    <3>3. i <= j /\ i \in Nat /\ j \in Nat
      BY <2>1, <3>2, <1>4
    <3> QED BY <3>1, <3>3
  <2>7. l \in Nat /\ k \in Nat
    BY <1>4
  <2>8. l = k
    BY <2>4, <2>6, <2>7
  <2>9. Compiled(i) = CompileRule(raw[Least(hits)])
    BY <2>1 DEF Compiled
  <2> QED BY <1>7, <2>3, <2>5, <2>8, <2>9
<1> QED BY <1>6, <1>7

(* Compiling and deduplicating change no decision: the rule that is found  *)
(* is the first of the downloaded list that matches, for every list        *)
(* (compile_rules 693-705, dedup_key 765-782).                             *)
THEOREM FirstRuleWins == Spec => []FirstDownloadedRuleWins
BY IndexInvariant, DedupIsHarmless, PTL
=============================================================================
