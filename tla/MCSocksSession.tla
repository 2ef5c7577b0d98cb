--------------------------- MODULE MCSocksSession ---------------------------
(* One request of each kind the code tells apart, and one answer of a      *)
(* fallback proxy of each kind, with HTTP heads of one unit, of the        *)
(* longest size that is taken and of one more.                             *)
EXTENDS SocksSession

Good == [version |-> 2, noAuth |-> TRUE, command |-> "connect", rsv |-> TRUE, atyp |-> "ip"]
MCAsks == {Good, [Good EXCEPT !.atyp = "domain"], [Good EXCEPT !.atyp = "other"],
           [Good EXCEPT !.atyp = "garbled"], [Good EXCEPT !.version = 0],
           [Good EXCEPT !.version = 1], [Good EXCEPT !.noAuth = FALSE],
           [Good EXCEPT !.command = "udp"], [Good EXCEPT !.command = "other"],
           [Good EXCEPT !.rsv = FALSE]}

Socks(noAuth, granted, bound) ==
    [kind |-> "socks5", noAuth |-> noAuth, granted |-> granted, bound |-> bound]
Http(granted, size) == [kind |-> "http", granted |-> granted, size |-> size]
MCProxies == {Socks(TRUE, TRUE, "ip"), Socks(TRUE, TRUE, "domain"), Socks(TRUE, TRUE, "other"),
              Socks(FALSE, TRUE, "ip"), Socks(TRUE, FALSE, "ip"),
              Http(TRUE, 1), Http(TRUE, HTTP_PROXY_HEAD_MAX_SIZE + 1),
              Http(TRUE, HTTP_PROXY_HEAD_MAX_SIZE + 2), Http(FALSE, 1)}
=============================================================================
