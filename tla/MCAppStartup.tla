---------------------------- MODULE MCAppStartup ----------------------------
(* A complete command line and its variations, all --extra entries there   *)
(* are for two bits, and route tables of every kind of element.          *)
EXTENDS AppStartup

Base == [server |-> "s1", username |-> "u1", password |-> TRUE, bind |-> TRUE,
         remember |-> FALSE, fallback |-> "none"]
Remembering == [Base EXCEPT !.remember = TRUE]

MCExtra == [kind : {"cidr"}, ip : Address, bits : 0 .. Width + 1] \cup Span \cup Single

MCCommands ==
    {Base, [Remembering EXCEPT !.fallback = "refused"],
     [Base EXCEPT !.server = None], [Base EXCEPT !.username = Blank],
     [Base EXCEPT !.password = FALSE], [Base EXCEPT !.bind = FALSE],
     [Remembering EXCEPT !.server = Blank],
     [Remembering EXCEPT !.server = None],
     [Remembering EXCEPT !.server = None, !.username = None]}

Rc(id, hosts, ports) == [tag |-> "Rc", id |-> id, hosts |-> hosts, ports |-> ports]
Dns == [tag |-> "Dns", servers |-> <<"ns", Dropped>>, records |-> <<Dropped, "r">>]
MCDocuments == {
    <<>>,
    <<Rc("1", <<"a", "b">>, <<"80", "443">>), Dns>>,
    <<Rc("1", <<"a", "b", "c">>, <<"80", Dropped, "443">>), Rc("2", <<"d">>, <<"22">>)>>,
    <<Rc("1", <<"a", Dropped>>, <<Dropped, "80">>), Rc("missing", <<"a">>, <<"80">>)>>,
    <<Rc("1", <<"a">>, Missing), Rc("bad", <<"b">>, <<"80">>)>>,
    <<Rc("bad", Missing, <<"80">>), Rc("1", <<Dropped>>, <<Dropped>>)>>}

MCRemembered == {[kind |-> "record", server |-> "s0", username |-> "u0"],
                 [kind |-> "record", server |-> Blank, username |-> "u0"]}
MCOtherRecords == {[kind |-> "record", server |-> "s3", username |-> "u3"]}
=============================================================================
