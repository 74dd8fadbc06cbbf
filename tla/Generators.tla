------------------------------ MODULE Generators ------------------------------
(***************************************************************************)
(* generator/xray and generator/mihomo: the configs rendered from a loaded *)
(* stack set, as far as the two programs would connect to one another,     *)
(* listen and authenticate.                                                *)
(*                                                                         *)
(* Each generator is a predicate, it finds nothing to refuse, and the      *)
(* config it renders then.                                                 *)
(***************************************************************************)
EXTENDS StackValidation

(***************************************************************************)
(* Xray.                                                                   *)
(***************************************************************************)

SupportsUserToggle(protocol) == protocol \in {"vmess", "shadowsocks"}

\* enabledInboundUsers; disabled is a set of pairs of a stack and a user.
enabledInboundUsers(s, i, disabled) ==
    IF SupportsUserToggle(i.protocol)
    THEN Keep(i.users, LAMBDA u : <<s.name, u.user>> \notin disabled)
    ELSE i.users

\* Mutated SomeUserLeft: a single disabled user is refused.
EveryUserLeft(s, i, disabled) == enabledInboundUsers(s, i, disabled) = i.users

\* applyDisabledUsers does not refuse: some user of the inbound is left.
SomeUserLeft(s, i, disabled) ==
    i.users # <<>> => enabledInboundUsers(s, i, disabled) # <<>>

\* RenderPolicyLevels: levels that say something about users.
RenderPolicyLevels(levels) ==
    [l \in {k \in DOMAIN levels : DOMAIN levels[k] # {}} |-> levels[l]]
\* RenderPolicySystem: a flag not written follows the stats switch.
RenderPolicySystem(system, statsEnabled) ==
    [f \in {"inboundUplink", "inboundDownlink", "outboundUplink", "outboundDownlink"} |->
        IF f \in DOMAIN system THEN system[f] ELSE statsEnabled]
RenderPolicy(policy, statsEnabled) ==
    [levels |-> RenderPolicyLevels(policy.levels),
     system |-> RenderPolicySystem(policy.system, statsEnabled)]

Account(username, password) == <<username, password>>

\* renderVmessInbound and the clients of renderShadowsocksInbound.
VmessClients(users) == Column(users, LAMBDA u : [id |-> u.uuid, email |-> EmailOrUser(u)])
ShadowsocksClients(i, users) ==
    Column(users, LAMBDA u :
        [password |-> u.password, email |-> EmailOrUser(u),
         method |-> IF IsShadowsocks2022Method(i.method) THEN ""
                    ELSE FirstNonEmpty(u.method, i.method)])
\* The accounts of renderSocksInbound and renderHTTPInbound.
InboundAccounts(i) ==
    IF i.auth.type = "password" THEN <<Account(i.auth.username, i.auth.password)>> ELSE <<>>

\* RenderInbound
RenderInbound(i, users) ==
    [tag |-> TagOrDefault(i), listen |-> i.listen, port |-> i.port, protocol |-> i.protocol,
     udp |-> i.udp = "on", network |-> i.network, method |-> i.method, password |-> i.password,
     accounts |-> IF SupportsUserToggle(i.protocol) THEN <<>> ELSE InboundAccounts(i),
     clients |-> CASE i.protocol = "vmess" -> VmessClients(users)
                   [] i.protocol = "shadowsocks" -> ShadowsocksClients(i, users)
                   [] OTHER -> <<>>]

\* renderProxyOutbound refuses an address that is empty, port 0, and half an account.
AccountComplete(username, password) == (username = "") <=> (password = "")
ProxyOutboundRenders(address, port, username, password) ==
    address # "" /\ port # 0 /\ AccountComplete(username, password)
renderProxyOutbound(protocol, address, port, username, password) ==
    [protocol |-> protocol, address |-> address, port |-> port,
     users |-> IF username = "" THEN <<>> ELSE <<Account(username, password)>>]

\* Mutated firstEndpointUser: the account of the listener is left out.
firstEndpointUserNone(e) == [username |-> "", password |-> ""]

\* firstEndpointUser
firstEndpointUser(e) ==
    IF e.users = <<>> THEN [username |-> "", password |-> ""] ELSE e.users[1]

\* The socks listener of a mihomo that an outbound names.
ClashEndpoint(set, o) == CHOOSE f \in ResolveClashListener(set, o.ref) : f.kind = "socks"
\* renderClashOutbound
renderClashOutbound(set, o) ==
    LET e == ClashEndpoint(set, o)
        u == firstEndpointUser(e)
    IN  renderProxyOutbound("socks", NormalizeInternalEndpointAddress(e.listen), e.port,
                            u.username, u.password)

freedom == [protocol |-> "freedom", address |-> "", port |-> 0, users |-> <<>>]

\* RenderOutbound; the tags are left out.
RenderOutbound(set, o) ==
    CASE o.type = "clash" -> renderClashOutbound(set, o)
      [] o.type = "socks5" -> renderProxyOutbound("socks", o.server, o.port, o.username, o.password)
      [] o.type = "http" -> renderProxyOutbound("http", o.server, o.port, o.username, o.password)
      [] OTHER -> freedom

\* RenderOutbounds: a second, direct outbound for private addresses if asked for.
RenderOutbounds(set, o) ==
    <<RenderOutbound(set, o)>> \o
        (IF o.private_direct /\ o.type \in {"socks5", "http"} THEN <<freedom>> ELSE <<>>)

\* RenderOutbound refuses nothing: the outbound has the address and the account of a proxy.
OutboundRenders(set, o) ==
    CASE o.type = "clash" ->
           LET e == ClashEndpoint(set, o)
               u == firstEndpointUser(e)
           IN  ProxyOutboundRenders(NormalizeInternalEndpointAddress(e.listen), e.port,
                                    u.username, u.password)
      [] o.type \in {"socks5", "http"} ->
           ProxyOutboundRenders(o.server, o.port, o.username, o.password)
      [] OTHER -> TRUE

\* RenderConfig of a stack whose Xray is on refuses nothing.
XrayRenders(set, s, disabled) ==
    /\ \A i \in ToSet(s.xray.inbounds) : SomeUserLeft(s, i, disabled)
    /\ OutboundRenders(set, s.xray.outbound)

\* RenderConfig
RenderXray(set, s, disabled) ==
    LET defaults == set.config.defaults
        api == ResolveXrayAPIConfig(defaults, s.xray)
        stats == ResolveXrayStatsConfig(defaults, s.xray)
        policy == ResolveXrayPolicyConfig(defaults, s.xray)
    IN  [api |-> IF api.enabled THEN <<api>> ELSE <<>>,
         stats |-> stats.enabled,
         policy |-> IF policy.enabled \/ stats.enabled
                    THEN <<RenderPolicy(policy, stats.enabled)>> ELSE <<>>,
         loglevel |-> ResolveXrayLogLevel(defaults, s.xray),
         inbounds |-> Column(s.xray.inbounds,
                             LAMBDA i : RenderInbound(i, enabledInboundUsers(s, i, disabled))),
         outbounds |-> RenderOutbounds(set, s.xray.outbound)]

(***************************************************************************)
(* mihomo.                                                                 *)
(***************************************************************************)

\* listenersAllowLAN
listenersAllowLAN(ls) ==
    \E l \in ToSet(ls.socks) \cup ToSet(ls.http) : ~IsLoopbackHost(l.listen)

\* uniqueListenerName: the http listener gives way to a socks listener of its name.
uniqueListenerName(type, name, used) == IF name \in used THEN <<name, type>> ELSE <<name>>

\* renderListener
renderListener(type, l, used) ==
    [name |-> uniqueListenerName(type, l.name, used), type |-> type,
     listen |-> l.listen, port |-> l.port,
     users |-> {Account(u.username, u.password) : u \in ToSet(l.users)}]

\* renderListeners: one socks listener, and an http listener if there is one.
renderListeners(ls) ==
    <<renderListener("socks", ls.socks[1], {})>>
        \o Column(ls.http, LAMBDA l : renderListener("http", l, {ls.socks[1].name}))

\* renderRawProxy: vmess gets a cipher if it has none.
renderRawProxy(u) ==
    [name |-> u.name, type |-> u.config.type, server |-> u.config.server,
     port |-> u.config.port, udp |-> FALSE, users |-> <<>>,
     cipher |-> IF u.config.type = "vmess" THEN FirstNonEmpty(u.config.cipher, "auto")
                ELSE u.config.cipher]

\* renderXraySocks5Proxy: address, port and account of the inbound the ref names.
renderXraySocks5Proxy(set, u) ==
    LET target == CHOOSE s \in EnabledXrayStacks(set) : s.name = u.ref[1]
        i == CHOOSE j \in ToSet(target.xray.inbounds) : j.name = u.ref[2]
    IN  [name |-> u.name, type |-> "socks5",
         server |-> NormalizeInternalEndpointAddress(i.listen), port |-> i.port,
         udp |-> i.udp = "on", users |-> InboundAccounts(i), cipher |-> ""]

\* renderProxies
renderProxies(set, upstreams) ==
    Column(upstreams, LAMBDA u : IF u.type = "raw" THEN renderRawProxy(u)
                                 ELSE renderXraySocks5Proxy(set, u))

\* renderRules: the extra rules, the profile, and the final target last.
renderRules(rules) ==
    rules.extra \o <<<<"profile">>, <<"MATCH", FirstNonEmpty(rules.final, "AllProxy")>>>>

\* singleSocksListener, the one thing RenderConfigNode refuses in a loaded set.
MihomoRenders(s) == Len(s.clash.listeners.socks) = 1

\* RenderConfigNode
RenderMihomo(set, s) ==
    [allowLan |-> listenersAllowLAN(s.clash.listeners),
     listeners |-> renderListeners(s.clash.listeners),
     controller |-> s.clash.controller.listen,
     proxies |-> renderProxies(set, s.clash.upstreams),
     groups |-> Column(s.clash.groups, LAMBDA g : [name |-> g.name, proxies |-> g.proxies]),
     rules |-> renderRules(s.clash.rules)]
=============================================================================
