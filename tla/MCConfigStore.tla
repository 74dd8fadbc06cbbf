---------------------------- MODULE MCConfigStore ----------------------------
(* ConfigStore with the built-in templates, three names and port ranges that overlap. *)
EXTENDS ConfigStore, MCDocuments

MCLocalName == [n \in ToSet(MCStackOrder) |-> CASE n = "a" -> "a-local" [] n = "b" -> "b-local"
                                                [] OTHER -> "c-local"]

Ports(first, last) == [start |-> first, end |-> last]
StoreConfig ==
    [MCConfig EXCEPT !.port_ranges =
        [xray_inbound |-> Ports(1, 6), xray_api_range |-> Ports(5, 8), clash_socks |-> Ports(11, 15),
         clash_http |-> Ports(13, 18), clash_controller |-> Ports(21, 23)]]
\* Without bob, and with an API range that is used up.
OtherConfig ==
    [StoreConfig EXCEPT !.users = <<User("carol", "id3", "pw3")>>, !.defaults.api = API(9)]
MCDefaultConfig == [StoreConfig EXCEPT !.users = <<User("user1", "id0", "pw0")>>]

Refs(u, remark) == <<[Ref(u) EXCEPT !.remark = remark]>>
Relay(n, u) == [Inbound("relay", "socks5", 1) EXCEPT !.auth = [NoAuth EXCEPT !.type = "noauth"],
                                                    !.udp = "on", !.user_refs = Refs(u, n)]
Vmess(n, u) == [Inbound("vmess", "vmess", 2) EXCEPT !.sub = "on", !.network = "raw",
                                                   !.user_refs = Refs(u, n)]
Group(name, type, proxies) ==
    [name |-> name, type |-> type, proxies |-> proxies, url |-> "u", interval |-> 120]

\* stack.pair.yaml.tmpl rendered for n, with the profile u.
Pair(n, u) ==
    [name |-> "example", enabled |-> TRUE, role |-> "edge",
     xray |-> [enabled |-> TRUE, loglevel |-> "", api |-> API(5), stats |-> <<>>, policy |-> <<>>,
               outbound |-> Outbound("clash", <<n, "clash", "socks">>),
               inbounds |-> <<Relay(n, u), Vmess(n, u)>>],
     clash |-> [enabled |-> TRUE,
                controller |-> [listen |-> <<"127.0.0.1", 21>>, secret |-> "s"],
                listeners |-> [socks |-> <<Listener("local", 11)>>,
                               http |-> <<Listener("local-http", 13)>>],
                upstreams |-> <<RawUpstream>>,
                groups |-> <<Group("AllProxy", "select", <<"raw">>)>>,
                rules |-> [final |-> "AllProxy", extra |-> <<>>]]]
\* stack.auto-url-test.yaml.tmpl
Auto(n, u) ==
    [Pair(n, u) EXCEPT
        !.name = "auto", !.role = "auto",
        !.clash.upstreams = <<[name |-> "usa1-local", type |-> "xray-socks5",
                               ref |-> <<"usa1", "relay">>, config |-> <<>>]>>,
        !.clash.groups = <<Group("AutoProxy", "url-test", <<"usa1-local">>),
                           Group("AllProxy", "select", <<"AutoProxy", "usa1-local", "DIRECT">>)>>]
MCTemplates ==
    [t \in {"pair", "auto-url-test"} |->
        [n \in ToSet(MCStackOrder) |-> IF t = "pair" THEN Pair(n, "user1") ELSE Auto(n, "user1")]]

\* Stack a as it stands at the start, its API a section of its own or left to the defaults; and
\* the auto stack of which it is a member.
StackA == [Pair("a", "alice") EXCEPT !.name = "a"]
StackAuto ==
    [Auto("b", "alice") EXCEPT
        !.name = "b", !.clash.upstreams[1].name = "a-local", !.clash.upstreams[1].ref[1] = "a",
        !.clash.groups[1].proxies = <<"a-local">>,
        !.clash.groups[2].proxies = <<"AutoProxy", "a-local", "DIRECT">>,
        !.xray.api = API(7), !.xray.inbounds[1].port = 3, !.xray.inbounds[2].port = 4,
        !.clash.listeners.socks[1].port = 12, !.clash.listeners.http[1].port = 14,
        !.clash.controller.listen[2] = 22]

MCStarts ==
    {[config |-> <<>>, files |-> <<>>],
     [config |-> <<StoreConfig>>, files |-> "a" :> [StackA EXCEPT !.xray.api = <<>>]],
     [config |-> <<StoreConfig>>, files |-> ("a" :> StackA) @@ ("b" :> StackAuto)]}

\* What the operator saves: a document that may be good, one that refers to nothing, one with
\* the name of another stack.
MCWrites ==
    [n \in ToSet(MCStackOrder) |->
        CASE n = "a" -> {[StackA EXCEPT !.xray.outbound = Outbound("direct", <<>>),
                             !.clash.upstreams = Append(@, [ToXray("a") EXCEPT !.ref[2] = "relay"])]}
          [] n = "b" -> {[StackAuto EXCEPT !.clash.groups[2].proxies = <<"a-local">>],
                         [StackA EXCEPT !.enabled = FALSE]}
          [] OTHER -> {[StackAuto EXCEPT !.name = "c"]}]
MCConfigWrites == {OtherConfig, [StoreConfig EXCEPT !.external_host = "new"]}
MCMemberLists == {<<>>, <<"a">>}
=============================================================================
