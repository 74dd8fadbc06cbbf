----------------------------- MODULE MCDocuments -----------------------------
(* Pieces of documents that the runs are instantiated with. *)
EXTENDS StackModels

MCStackOrder == <<"a", "b", "c">>
MCPSKs == {"key1", "key2"}

User(u, uuid, password) ==
    [user |-> u, profile |-> "", uuid |-> uuid, password |-> password, method |-> "",
     email |-> "", remark |-> "", tag |-> ""]
Ref(u) == User(u, "", "")

API(port) == [enabled |-> TRUE, listen |-> <<"127.0.0.1", port>>, services |-> {"StatsService"}]
MCConfig ==
    [users |-> <<User("alice", "id1", "key1"), User("bob", "id2", "pw2")>>,
     external_host |-> "host",
     port_ranges |-> [r \in PortRangeNames |-> [start |-> 1, end |-> 9]],
     defaults |-> [api |-> API(10),
                   stats |-> [enabled |-> TRUE],
                   policy |-> [enabled |-> FALSE, levels |-> ("0" :> ("up" :> TRUE)),
                               system |-> ("inboundUplink" :> FALSE)],
                   loglevel |-> "warning"],
     security |-> [require_auth |-> TRUE, allow_noauth_public |-> FALSE]]

Inbound(name, protocol, port) ==
    [name |-> name, protocol |-> protocol, listen |-> "127.0.0.1", port |-> port,
     udp |-> "unset", auth |-> NoAuth, user |-> "", server |-> "", remark |-> "", tag |-> "",
     sub |-> "off", uuid |-> "", users |-> <<>>, user_refs |-> <<>>, expanded |-> FALSE,
     network |-> "", password |-> "", method |-> ""]
Password(u, p) == [type |-> "password", username |-> u, password |-> p]

Outbound(type, ref) ==
    [type |-> type, ref |-> ref, server |-> "", port |-> 0, username |-> "", password |-> "",
     private_direct |-> FALSE]
Proxy(type, username, password) ==
    [Outbound(type, <<>>) EXCEPT !.server = "remote", !.port = 1, !.username = username,
                                 !.password = password, !.private_direct = TRUE]
Listener(name, port) == [name |-> name, listen |-> "127.0.0.1", port |-> port, users |-> <<>>]
RawUpstream ==
    [name |-> "raw", type |-> "raw", ref |-> <<>>,
     config |-> [type |-> "vmess", server |-> "remote", port |-> 1, uuid |-> "id9",
                 network |-> "tcp", cipher |-> "", password |-> ""]]
ToXray(t) == [RawUpstream EXCEPT !.name = "up", !.type = "xray-socks5", !.ref = <<t, "in">>]
=============================================================================
