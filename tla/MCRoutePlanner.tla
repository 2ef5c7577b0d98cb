--------------------------- MODULE MCRoutePlanner ---------------------------
(* Tables that lead through every stage of a plan: servers and no records, *)
(* records and no servers, and neither.                                    *)
EXTENDS RoutePlanner

CONSTANTS a, b, s1, s2

ip0 == <<0, 0>>
ip1 == <<1, 0>>
All == [start |-> 80, end |-> 80]
TcpOnly == [proto |-> Tcp, vipall |-> FALSE, port |-> All, rc_id |-> 1]
AnyProto == [proto |-> -1, vipall |-> FALSE, port |-> All, rc_id |-> 2]
MCRuleFlows == {TcpOnly, AnyProto}

NameRule == [matcher |-> Name(a), flow |-> TcpOnly]
AddressRule == [matcher |-> Address(ip1), flow |-> AnyProto]
Record(rc_id, host, ip) == [rc_id |-> rc_id, host |-> host, ip |-> ip]

WithServers == [rules |-> <<NameRule, AddressRule>>, servers |-> <<None, s1, s1, s2>>,
                records |-> <<>>, extra |-> {Address(ip0)}]
WithRecords == [rules |-> <<AddressRule, NameRule>>, servers |-> <<>>,
                records |-> <<Record(1, a, None), Record(1, a, ip1), Record(1, a, ip1),
                              Record(2, b, ip0), Record(1, b, ip1)>>, extra |-> {}]
WithNeither == [rules |-> <<NameRule>>, servers |-> <<None>>, records |-> <<>>,
                extra |-> {[kind |-> "range", start |-> ip0, end |-> ip1]}]
MCTables == {WithServers, WithRecords, WithNeither}

MCAnswers == {[aliases |-> <<>>, ips |-> <<ip0, ip1>>], [aliases |-> <<b, a>>, ips |-> <<ip1>>],
              [aliases |-> <<>>, ips |-> <<>>], [aliases |-> <<>>, ips |-> <<ip0>>]}
NamesAndAddresses == {Name(a), Name(b), Address(ip0), Address(ip1)}
TcpAndUdp == {Tcp, Udp}
TcpAlone == {Tcp}
=============================================================================
