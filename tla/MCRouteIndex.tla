--------------------------- MODULE MCRouteIndex ---------------------------
(* Rules that differ in each part that a match or a duplicate looks at:    *)
(* one that names a port, one for another protocol, one with a port range  *)
(* that no port is in, and a "vipall" rule.                                *)
EXTENDS RouteIndex

Flow(proto, vipall, first, last) ==
    [proto |-> proto, vipall |-> vipall, port |-> [start |-> first, end |-> last], rc_id |-> 1]

MCRuleFlows == {Flow(Tcp, FALSE, 80, 80), Flow(Udp, FALSE, 80, 443),
                Flow(-1, FALSE, 443, 80), Flow(Icmp, TRUE, 80, 80)}
=============================================================================
