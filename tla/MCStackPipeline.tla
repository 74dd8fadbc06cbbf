--------------------------- MODULE MCStackPipeline ---------------------------
(* StackPipeline on small documents: a family for the graph, one for everything else. *)
EXTENDS StackPipeline, MCDocuments

\* Each stack has ports of its own: base + 1 .. base + 5.
Base(n) == CASE n = "a" -> 0 [] n = "b" -> 10 [] OTHER -> 20

Doc(n) ==
    [name |-> n, enabled |-> TRUE, role |-> "edge",
     xray |-> [enabled |-> TRUE, loglevel |-> "", api |-> [listen |-> <<"127.0.0.1", Base(n) + 5>>],
               stats |-> <<>>, policy |-> <<>>,
               outbound |-> Outbound("direct", <<>>),
               inbounds |-> <<Inbound("in", "socks5", Base(n) + 1)>>],
     clash |-> [enabled |-> TRUE,
                controller |-> [listen |-> <<"127.0.0.1", Base(n) + 4>>, secret |-> "s"],
                listeners |-> [socks |-> <<Listener("local", Base(n) + 3)>>, http |-> <<>>],
                upstreams |-> <<RawUpstream>>,
                groups |-> <<[name |-> "AllProxy", type |-> "select",
                              proxies |-> <<"raw">>, url |-> "", interval |-> 0]>>,
                rules |-> [final |-> "", extra |-> <<<<"DOMAIN", "x", "DIRECT">>>>]]]

\* Xray of n leaves through the mihomo of x, mihomo of n through the Xray of u; "" is neither.
Linked(n, x, u) ==
    [Doc(n) EXCEPT
       !.xray.outbound = IF x = "" THEN @ ELSE Outbound("clash", <<x, "clash", "socks">>),
       !.clash.upstreams = IF u = "" THEN @ ELSE Append(@, ToXray(u))]
GraphFamily ==
    {[n \in {"a", "b", "c"} |->
        CASE n = "a" -> Linked("a", f[1], f[2])
          [] n = "b" -> Linked("b", f[3], f[4])
          [] OTHER -> Linked("c", f[5], f[6])] :
        f \in {"", "a", "b"} \X {"", "b", "c"} \X {"", "a", "c"} \X {"", "a"} \X {"", "a"} \X {"", "a", "b"}}

\* Published inbounds of every protocol, with users and without.
Vmess(n, port) ==
    [Inbound("vm", "vmess", port) EXCEPT !.listen = "0.0.0.0", !.sub = "on", !.network = "ws",
        !.udp = "on", !.user_refs = <<Ref("alice"), Ref("bob")>>]
Grpc(n, port) == [Vmess(n, port) EXCEPT !.network = "grpc", !.remark = "far"]
SS(port) ==
    [Inbound("ss", "shadowsocks", port) EXCEPT !.sub = "on", !.method = "aes",
        !.password = "shared", !.user_refs = <<Ref("alice"), [Ref("bob") EXCEPT !.method = "gcm"]>>]
SS2022(port) ==
    [Inbound("ss", "shadowsocks", port) EXCEPT !.sub = "on", !.method = "2022",
        !.password = "key2", !.user_refs = <<Ref("alice")>>]
SSSingle(port) == [SS(port) EXCEPT !.user_refs = <<>>, !.user = "carol"]
SocksIn(n, auth) ==
    [Inbound("in", "socks5", Base(n) + 1) EXCEPT !.listen = "0.0.0.0", !.auth = auth,
        !.sub = "on", !.udp = "on", !.user_refs = <<Ref("alice")>>]

With(n, inbound) == [Doc(n) EXCEPT !.xray.inbounds = Append(@, inbound)]

DocsA ==
    {Doc("a"), With("a", Vmess("a", 2)),
     With("a", [Vmess("a", 2) EXCEPT !.remark = "far"]), With("a", SS(2)), With("a", SS2022(2)),
     With("a", SSSingle(2)), With("a", [SS2022(2) EXCEPT !.user_refs = <<Ref("bob")>>]),
     [Doc("a") EXCEPT !.xray.inbounds = <<SocksIn("a", Password("x", "y"))>>],
     [Doc("a") EXCEPT !.xray.inbounds = <<SocksIn("a", NoAuth)>>],
     [Doc("a") EXCEPT !.xray.outbound = Proxy("socks5", "x", "y")],
     [Doc("a") EXCEPT !.xray.outbound = Proxy("http", "x", "")],
     [Doc("a") EXCEPT !.xray.api = <<>>],
     [Doc("a") EXCEPT !.xray.api = [enabled |-> FALSE], !.xray.policy =
         [enabled |-> TRUE, levels |-> ("1" :> ("up" :> FALSE)), system |-> ("outboundUplink" :> TRUE)]],
     [Doc("a") EXCEPT !.clash.listeners.socks = <<>>],
     [Doc("a") EXCEPT !.clash.listeners.http = <<Listener("local", 2)>>],
     [Doc("a") EXCEPT !.clash.listeners.http = <<Listener("local", 2)>>, !.clash.controller.listen[2] = 2],
     [Doc("a") EXCEPT !.clash.listeners.socks =
         <<[Listener("local", 3) EXCEPT !.listen = "0.0.0.0",
                !.users = <<[username |-> "l", password |-> "m"]>>]>>],
     [Doc("a") EXCEPT !.clash.listeners.socks = <<[Listener("local", 3) EXCEPT !.listen = ""]>>],
     [Doc("a") EXCEPT !.xray.inbounds = <<[SocksIn("a", Password("x", "y")) EXCEPT !.listen = ""]>>],
     [Doc("a") EXCEPT !.enabled = FALSE],
     [Doc("a") EXCEPT !.clash.enabled = FALSE]}
DocsB ==
    {Linked("b", "a", ""), Linked("b", "b", "a"), With("b", Vmess("b", 12)), With("b", Grpc("b", 12)),
     [With("b", Vmess("b", 2)) EXCEPT !.xray.inbounds[2].remark = "far"],
     [Doc("b") EXCEPT !.xray.api = <<>>],
     [Linked("b", "a", "a") EXCEPT !.xray.outbound.ref = <<"a", "clash", "http">>]}

FeatureFamily ==
    {[n \in {"a", "b"} |-> IF n = "a" THEN d[1] ELSE d[2]] : d \in DocsA \X DocsB}

MCOccupied == {<<"127.0.0.1", 30>>}

\* Another agent's input with a name of the same user, and one written by hand.
RemoteNode(remark, protocol, network) ==
    [id |-> <<"c", remark>>, user |-> "alice", protocol |-> protocol, server |-> "other",
     port |-> 1, remark |-> <<remark>>, direct |-> TRUE, udp |-> "unset", uuid |-> "id9",
     network |-> network, method |-> "", password |-> <<>>, auth |-> NoAuth]
RemoteInputs ==
    {<<>>, "c" :> <<RemoteNode("far", "vmess", "tcp"), RemoteNode("hy", "hysteria2", "")>>,
     "c" :> <<RemoteNode("grpc", "vmess", "grpc"), RemoteNode("x", "vmess", "")>>}

Start(f, d, i) ==
    [config |-> MCConfig, files |-> f, disabled |-> d, inputs |-> i]
MCStarts ==
    {Start(f, {}, <<>>) : f \in GraphFamily}
        \cup {Start(f, {}, i) : f \in FeatureFamily, i \in RemoteInputs}
        \cup {Start(f, d, <<>>) : f \in FeatureFamily,
                 d \in {{<<"a", "bob">>}, {<<"a", "alice">>, <<"a", "bob">>}}}
MCContents ==
    [n \in {"a", "b", "c"} |->
        CASE n = "a" -> {With("a", SS(2))} [] n = "b" -> {With("b", Grpc("b", 12))} [] OTHER -> {}]
=============================================================================
