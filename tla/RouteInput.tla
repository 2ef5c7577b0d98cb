----------------------------- MODULE RouteInput -----------------------------
(***************************************************************************)
(* What the program makes of the texts its routes come from: the elements  *)
(* of the server's route table (route_table.rs) and the entries of --extra *)
(* (routing.rs).  A text is the record of its parts; a part that the code  *)
(* drops (an empty host, a port that is no number) is Dropped.             *)
(***************************************************************************)
EXTENDS Integers, Sequences, SequencesExt

CONSTANTS Width,    \* bound: an address has Width bits (32 in the code)
          Parts,    \* the texts in a route table
          Dropped

ASSUME InputAssumption == Width \in Nat \ {0} /\ Dropped \notin Nat

(* What the bits of an address count, from the lowest on, and after the    *)
(* highest the number of addresses.                                        *)
Weight[k \in 0 .. Width] == IF k = 0 THEN 1 ELSE 2 * Weight[k - 1]

Address == 0 .. Weight[Width] - 1
-----------------------------------------------------------------------------
(* An <Rc> element: its id, and the parts of its host and port lists; a    *)
(* list that is missing is Missing.                                        *)
Missing == <<Dropped, "missing">>

RcElement == [tag : {"Rc"}, id : Parts \cup {"missing", "bad"},
              hosts : Seq(Parts \cup {Dropped}) \cup {Missing},
              ports : Seq(Parts \cup {Dropped}) \cup {Missing}]
DnsElement == [tag : {"Dns"}, servers : Seq(Parts \cup {Dropped}),
               records : Seq(Parts \cup {Dropped})]

Kept(list) == FlattenSeq([k \in DOMAIN list |-> IF list[k] = Dropped THEN <<>> ELSE <<list[k]>>])

SplitHosts(raw) == Kept(raw)

SplitPorts(raw) == Kept(raw)

RcIsRead(e) == e.id # "missing" /\ e.hosts # Missing /\ e.ports # Missing

(* An id that is no number ends the parsing of the whole table.            *)
RcFails(e) == RcIsRead(e) /\ e.id = "bad"

\* mutant: hosts and ports are paired as far as the shorter list goes
ParseRcUnequal(e) ==
    LET hosts == SplitHosts(e.hosts)
        ports == SplitPorts(e.ports)
        n == IF Len(hosts) <= Len(ports) THEN Len(hosts) ELSE Len(ports) IN
    IF RcIsRead(e) THEN [k \in 1 .. n |-> [host |-> hosts[k], port |-> ports[k]]] ELSE <<>>

(* The rules of an element.                                                *)
ParseRc(e) ==
    LET hosts == SplitHosts(e.hosts)
        ports == SplitPorts(e.ports) IN
    IF RcIsRead(e) /\ Len(hosts) = Len(ports)
    THEN [k \in 1 .. Len(hosts) |-> [host |-> hosts[k], port |-> ports[k]]]
    ELSE <<>>

(* A <Dns> element: the addresses of its servers, and its records, of      *)
(* which one without an id, a host or an address is dropped.               *)
ParseDns(e) == [servers |-> Kept(e.servers), records |-> Kept(e.records)]

(* parse_route_table_xml, of the elements before the end of the document.  *)
ParseFails(elements) ==
    \E k \in DOMAIN elements : elements[k].tag = "Rc" /\ RcFails(elements[k])

ParseTable(elements) ==
    LET Rules(e) == IF e.tag = "Rc" THEN ParseRc(e) ELSE <<>>
        Names(e) == IF e.tag = "Dns" THEN ParseDns(e) ELSE [servers |-> <<>>, records |-> <<>>] IN
    [rules   |-> FlattenSeq([k \in DOMAIN elements |-> Rules(elements[k])]),
     servers |-> FlattenSeq([k \in DOMAIN elements |-> Names(elements[k]).servers]),
     records |-> FlattenSeq([k \in DOMAIN elements |-> Names(elements[k]).records])]
-----------------------------------------------------------------------------
(* An --extra entry: an address with a prefix length, two addresses, or    *)
(* one; anything else is not an entry.                                     *)
Cidr == [kind : {"cidr"}, ip : Address, bits : Nat]
Span == [kind : {"span"}, from : Address, to : Address]
Single == [kind : {"single"}, ip : Address]

AllOnes == Weight[Width] - 1
Complement(x) == AllOnes - x

(* u32 & and u32 |, bit by bit.                                            *)
IsSet(x, k) == (x \div Weight[k]) % 2 = 1
BitAnd(x, y) == CHOOSE z \in Address :
    \A k \in 0 .. Width - 1 : IsSet(z, k) <=> IsSet(x, k) /\ IsSet(y, k)
BitOr(x, y) == CHOOSE z \in Address :
    \A k \in 0 .. Width - 1 : IsSet(z, k) <=> IsSet(x, k) \/ IsSet(y, k)

(* u32 << n: the bits that leave the word are lost.                        *)
ShiftLeft(x, n) == (x * Weight[n]) % Weight[Width]

\* mutant: no case for /0, and a shift count that is taken modulo the width
MaskShiftsByWidth(bits) == ShiftLeft(AllOnes, (Width - bits) % Width)

Mask(bits) == IF bits = 0 THEN 0 ELSE ShiftLeft(AllOnes, Width - bits)

(* The addresses of an entry as a range, or the empty one.                 *)
ParseExtraIp(e) ==
    CASE e.kind = "cidr" /\ e.bits <= Width ->
             <<BitAnd(e.ip, Mask(e.bits)), BitOr(e.ip, Complement(Mask(e.bits)))>>
      [] e.kind = "span" -> IF e.from <= e.to THEN <<e.from, e.to>> ELSE <<e.to, e.from>>
      [] e.kind = "single" -> <<e.ip, e.ip>>
      [] OTHER -> <<1, 0>>
=============================================================================
