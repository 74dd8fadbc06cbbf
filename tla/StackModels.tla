----------------------------- MODULE StackModels -----------------------------
(***************************************************************************)
(* The documents an operator writes: config.yaml and stacks/<name>.yaml,   *)
(* what domain/models.go checks inside one document, and how user_refs.go  *)
(* turns the user_refs of an inbound into its users.                       *)
(*                                                                         *)
(* A document is a record whose fields carry the names they have in YAML.  *)
(* Names, UUIDs and free text are strings that have the right form; "" is  *)
(* a field left out.  A ref is the sequence of its dot-separated segments, *)
(* <<>> an empty one.  A listen address is one of Hosts and a port.  The   *)
(* enumerations nothing else depends on (log levels, modes, regions, group *)
(* strategies) are left out.                                               *)
(***************************************************************************)
EXTENDS Integers, Sequences, FiniteSets, SequencesExt

CONSTANTS
    StackOrder,  \* the names a stack can have, in the order the code sorts them
    PSKs,        \* passwords that decode to a key of the length SS2022 asks for
    PortLimit,   \* the largest port, 65535 in the code
    APIPort      \* the port the Xray API listens on if nothing says otherwise, 10085

\* Loopback, wildcard, an address of the host in its network, and an address written empty: no
\* check of an inbound or of a listener looks at it.
Hosts == {"127.0.0.1", "0.0.0.0", "10.0.0.2", ""}

ASSUME StackOrderAssumption == StackOrder \in Seq(STRING) /\ IsInjective(StackOrder)
ASSUME NamesAssumption == "" \notin ToSet(StackOrder)   \* identifiers are not empty
ASSUME PortAssumption == PortLimit \in Nat /\ APIPort \in 1..PortLimit

(***************************************************************************)
(* Small checks that every document uses.                                  *)
(***************************************************************************)

\* Values of a field of the elements of a sequence, in order.  TLC would evaluate a function again
\* at every application; the concatenation makes it a tuple.
Column(rows, Field(_)) == [i \in DOMAIN rows |-> Field(rows[i])] \o <<>>
\* The elements of a sequence that pass a test, in order: SelectSeq, which the provers take as
\* unknown, in terms of an operator they can unfold.
Keep(rows, Test(_)) ==
    FlattenSeq([i \in DOMAIN rows |-> IF Test(rows[i]) THEN <<rows[i]>> ELSE <<>>])
\* A directory with a file written or deleted.
Put(fn, n, value) == [m \in DOMAIN fn \cup {n} |-> IF m = n THEN value ELSE fn[m]]
Drop(fn, n) == [m \in DOMAIN fn \ {n} |-> fn[m]]
ensureUnique(values) == \A i, j \in DOMAIN values : values[i] = values[j] => i = j
FirstNonEmpty(a, b) == IF a # "" THEN a ELSE b
ValidatePort(port) == port \in 1..PortLimit
ValidateRef(ref, segmentCount) ==
    Len(ref) = segmentCount /\ \A i \in DOMAIN ref : ref[i] # ""
\* ParseListen: listen is <<host, port>>.
ParseListen(listen) == listen[1] # "" /\ ValidatePort(listen[2])
IsLoopbackHost(host) == host = "127.0.0.1"
NormalizeInternalEndpointAddress(address) ==
    IF address = "0.0.0.0" THEN "127.0.0.1" ELSE address
SupportsInboundUDPProtocol(protocol) == protocol \in {"vmess", "shadowsocks", "socks5"}
validInboundProtocol(protocol) == protocol \in {"vmess", "shadowsocks", "socks5", "http"}
validGroupType(type) == type \in {"select", "url-test", "load-balance", "fallback"}
IsShadowsocks2022Method(method) == method = "2022"
ValidateShadowsocks2022PSK(password) == password \in PSKs

(***************************************************************************)
(* config.yaml                                                             *)
(***************************************************************************)

PortRangeNames == {"xray_inbound", "xray_api_range", "clash_socks", "clash_http", "clash_controller"}
\* PortRange.Validate
ValidatePortRange(r) == ValidatePort(r.start) /\ ValidatePort(r.end) /\ r.start <= r.end
\* PortRanges.Validate
ValidatePortRanges(ranges) == \A name \in DOMAIN ranges : ValidatePortRange(ranges[name])

\* Allocate: the first count ports of the range that are not used; {} if it has not that many,
\* and also if none is asked for: the code only looks whether it has enough after taking one.
Allocate(r, used, count) ==
    LET free == Keep([i \in 1..(r.end - r.start + 1) |-> r.start + i - 1],
                          LAMBDA port : port \notin used)
    IN  IF count > 0 /\ Len(free) >= count THEN {SubSeq(free, 1, count)} ELSE {}

UserProfileKey(u) == <<u.user, IF u.profile = "" THEN "default" ELSE u.profile>>
normalizeAndValidateUserProfiles(users) == ensureUnique(Column(users, UserProfileKey))

DefaultXrayAPIConfig ==
    [enabled |-> TRUE, listen |-> <<"127.0.0.1", APIPort>>,
     services |-> {"HandlerService", "StatsService"}]

\* validateAPIConfig
ValidateAPI(api) ==
    /\ ParseListen(api.listen) /\ IsLoopbackHost(api.listen[1])
    /\ api.services # {} /\ "" \notin api.services

\* GlobalConfig.Validate
ValidateConfig(config) ==
    /\ normalizeAndValidateUserProfiles(config.users)
    /\ ValidatePortRanges(config.port_ranges)
    /\ ValidateAPI(config.defaults.api)

\* A stack-level section: the fields written in it override those of the default.
Overlay(default, override) ==
    [f \in DOMAIN default |-> IF f \in DOMAIN override THEN override[f] ELSE default[f]]
ResolveXrayAPIConfig(defaults, xray) == Overlay(defaults.api, xray.api)
ResolveXrayStatsConfig(defaults, xray) == Overlay(defaults.stats, xray.stats)
\* Statistics flags are written or not; levels are a function from level to flags.
mergePolicySystem(defaults, override) == override @@ defaults
mergePolicyLevels(defaults, override) ==
    [l \in DOMAIN defaults \cup DOMAIN override |->
        IF l \notin DOMAIN override THEN defaults[l]
        ELSE IF l \notin DOMAIN defaults THEN override[l]
        ELSE mergePolicySystem(defaults[l], override[l])]
ResolveXrayPolicyConfig(defaults, xray) ==
    LET flat == Overlay(defaults.policy, xray.policy)
        Written(f) == f \in DOMAIN xray.policy
    IN  [flat EXCEPT
           !.levels = IF Written("levels") THEN mergePolicyLevels(defaults.policy.levels, @) ELSE @,
           !.system = IF Written("system") THEN mergePolicySystem(defaults.policy.system, @) ELSE @]
ResolveXrayLogLevel(defaults, xray) == FirstNonEmpty(xray.loglevel, defaults.loglevel)

(***************************************************************************)
(* The inbounds of a stack.                                                *)
(***************************************************************************)

NoAuth == [type |-> "", username |-> "", password |-> ""]
\* InboundAuth.Validate
ValidateAuth(auth) ==
    /\ auth.type \in {"noauth", "password"}
    /\ auth.type = "password" => auth.username # "" /\ auth.password # ""

EmailOrUser(u) == FirstNonEmpty(u.email, u.user)
TagOrDefault(i) == IF i.tag # "" THEN <<i.tag>> ELSE <<i.protocol, i.port, i.name>>
UserTag(i, u) == IF u.tag # "" THEN <<u.tag>> ELSE TagOrDefault(i) \o <<u.user>>
\* UDPConfigured: the field is written, whatever its value.
UDPConfigured(i) == i.udp # "unset"
UsesUserRefs(i) == i.user_refs # <<>> \/ i.expanded
validateInboundUserRefs(refs) == ensureUnique(Column(refs, UserProfileKey))

\* What validateVmess and validateShadowsocks ask of the users together.
UsersDistinct(i) ==
    /\ ensureUnique(Column(i.users, LAMBDA u : u.user))
    /\ ensureUnique(Column(i.users, EmailOrUser))
    /\ ensureUnique(Column(i.users, LAMBDA u : UserTag(i, u)))

validateVmess(i) ==
    /\ i.uuid = "" /\ i.user = "" /\ (i.remark # "" => UsesUserRefs(i))
    /\ i.users # <<>> \/ i.user_refs # <<>>
    /\ i.network # ""
    /\ \A k \in DOMAIN i.users : i.users[k].uuid # ""
    /\ ensureUnique(Column(i.users, LAMBDA u : u.uuid))
    /\ UsersDistinct(i)

validateShadowsocks2022Passwords(i) ==
    IsShadowsocks2022Method(i.method) =>
        /\ ValidateShadowsocks2022PSK(i.password)
        /\ \A k \in DOMAIN i.users :
              i.users[k].password = "" \/ ValidateShadowsocks2022PSK(i.users[k].password)

validateShadowsocks(i) ==
    /\ i.password # "" /\ i.method # ""
    /\ validateShadowsocks2022Passwords(i)
    /\ i.users # <<>> =>
         /\ i.user = "" /\ (i.remark # "" => UsesUserRefs(i))
         /\ \A k \in DOMAIN i.users :
               /\ i.users[k].password # ""
               /\ IsShadowsocks2022Method(i.method) => i.users[k].method = ""
         /\ UsersDistinct(i)

\* The socks5 and http case of Inbound.Validate.
ValidateAccountInbound(i) ==
    /\ ensureUnique(Column(i.users, LAMBDA u : u.user))
    /\ i.sub = "on" => i.auth.type = "password"

\* Inbound.Validate
ValidateInbound(i) ==
    /\ validInboundProtocol(i.protocol)
    /\ ValidatePort(i.port)
    /\ i.sub # "unset"
    /\ UDPConfigured(i) => SupportsInboundUDPProtocol(i.protocol)
    /\ i.auth # NoAuth => ValidateAuth(i.auth)
    /\ i.user_refs # <<>> =>
         i.user = "" /\ i.users = <<>> /\ validateInboundUserRefs(i.user_refs)
    /\ i.users # <<>> /\ ~i.expanded => i.protocol \in {"vmess", "shadowsocks"}
    /\ CASE i.protocol = "vmess" -> validateVmess(i)
         [] i.protocol = "shadowsocks" -> validateShadowsocks(i)
         [] OTHER -> ValidateAccountInbound(i)

(***************************************************************************)
(* The two components of a stack.                                          *)
(***************************************************************************)

\* XrayOutbound.Validate
ValidateOutbound(o) ==
    /\ o.private_direct => o.type \in {"socks5", "http"}
    /\ \/ o.type = "clash" /\ ValidateRef(o.ref, 3)
       \/ o.type \in {"socks5", "http"} /\ o.server # "" /\ ValidatePort(o.port)
       \/ o.type = "direct"

\* XrayConfig.Validate; an API section is checked over the built-in defaults.
ValidateXray(x) ==
    /\ ValidateAPI(Overlay(DefaultXrayAPIConfig, x.api))
    /\ ValidateOutbound(x.outbound)
    /\ x.inbounds # <<>>
    /\ \A k \in DOMAIN x.inbounds : ValidateInbound(x.inbounds[k])
    /\ ensureUnique(Column(x.inbounds, LAMBDA i : i.name))

\* ClashListenerUser.Validate
ValidateListenerUser(u) == u.username # "" /\ u.password # ""
\* SocksListener.Validate and HTTPListener.Validate
ValidateListener(l) ==
    ValidatePort(l.port) /\ \A k \in DOMAIN l.users : ValidateListenerUser(l.users[k])
\* ClashListeners.Validate
ValidateListeners(ls) ==
    /\ Len(ls.socks) <= 1 /\ Len(ls.http) <= 1
    /\ \A k \in DOMAIN ls.socks : ValidateListener(ls.socks[k])
    /\ \A k \in DOMAIN ls.http : ValidateListener(ls.http[k])
\* ClashController.Validate
ValidateController(c) == ParseListen(c.listen) /\ c.secret # ""

\* ValidateRawProxyConfig
ValidateRawProxyConfig(c) ==
    /\ c.type # "" /\ c.server # "" /\ ValidatePort(c.port)
    /\ c.type = "vmess" => c.uuid # "" /\ c.network # ""
    /\ c.type = "shadowsocks" => c.cipher # "" /\ c.password # ""
\* ClashUpstream.Validate
ValidateUpstream(u) ==
    \/ u.type = "xray-socks5" /\ ValidateRef(u.ref, 2)
    \/ u.type = "raw" /\ ValidateRawProxyConfig(u.config)
\* ClashGroup.Validate
ValidateGroup(g) ==
    /\ validGroupType(g.type) /\ g.proxies # <<>>
    /\ g.type # "select" => g.url # "" /\ g.interval # 0

\* The names rules and groups may point at.
KnownTargets(c) ==
    {"DIRECT", "REJECT"} \cup {c.upstreams[k].name : k \in DOMAIN c.upstreams}
                         \cup {c.groups[k].name : k \in DOMAIN c.groups}
\* ExtractRuleTarget: the last field of a rule, or the one before a closing no-resolve.
ExtractRuleTarget(rule) ==
    IF rule[Len(rule)] = "no-resolve" /\ Len(rule) >= 4 THEN rule[Len(rule) - 1]
    ELSE rule[Len(rule)]

\* ClashConfig.Validate; a final left out is the default one.
ValidateClash(c) ==
    /\ ValidateController(c.controller)
    /\ ValidateListeners(c.listeners)
    /\ \A k \in DOMAIN c.upstreams : ValidateUpstream(c.upstreams[k])
    /\ \A k \in DOMAIN c.groups : ValidateGroup(c.groups[k])
    /\ ensureUnique(Column(c.upstreams, LAMBDA u : u.name))
    /\ ensureUnique(Column(c.groups, LAMBDA g : g.name))
    /\ \A k \in DOMAIN c.groups : ToSet(c.groups[k].proxies) \subseteq KnownTargets(c)
    /\ FirstNonEmpty(c.rules.final, "AllProxy") \in KnownTargets(c)
    /\ \A k \in DOMAIN c.rules.extra :
          /\ Len(c.rules.extra[k]) >= 3
          /\ ExtractRuleTarget(c.rules.extra[k]) \in KnownTargets(c)

\* Stack.Validate: both components, also those that are switched off.
ValidateStack(s) ==
    s.role \in {"", "edge", "auto"} /\ ValidateXray(s.xray) /\ ValidateClash(s.clash)

(***************************************************************************)
(* user_refs.go                                                            *)
(***************************************************************************)

\* resolveInboundUserRefs: the profiles a ref names, none or one.
ProfilesOf(config, ref) ==
    {p \in ToSet(config.users) : UserProfileKey(p) = UserProfileKey(ref)}

\* mergeUserRef: what the ref says, and what the profile says where the ref is silent.
mergeUserRef(profile, ref) ==
    [f \in DOMAIN profile |-> IF f = "user" THEN ref.user
                              ELSE IF f = "profile" THEN UserProfileKey(ref)[2]
                              ELSE FirstNonEmpty(ref[f], profile[f])]

validateResolvedInboundUser(protocol, u) ==
    /\ protocol = "vmess" => u.uuid # ""
    /\ protocol = "shadowsocks" => u.password # ""

\* An inbound with its refs replaced by the users they stand for.
ExpandInbound(config, i) ==
    IF i.user_refs = <<>> THEN i
    ELSE [i EXCEPT !.users = Column(i.user_refs,
                       LAMBDA ref : mergeUserRef(CHOOSE p \in ProfilesOf(config, ref) : TRUE, ref)),
                   !.user_refs = <<>>, !.expanded = TRUE]

\* resolveInboundUserRefs and the second Inbound.Validate find nothing wrong.
Expandable(config, i) ==
    i.user_refs # <<>> =>
        /\ \A k \in DOMAIN i.user_refs : ProfilesOf(config, i.user_refs[k]) # {}
        /\ \A k \in DOMAIN i.user_refs :
              validateResolvedInboundUser(i.protocol, ExpandInbound(config, i).users[k])
        /\ ValidateInbound(ExpandInbound(config, i))

\* ResolveStackUserRefs succeeds.
ResolvableStack(config, s) ==
    \A k \in DOMAIN s.xray.inbounds : Expandable(config, s.xray.inbounds[k])
\* ResolveStackUserRefs
ResolveStackUserRefs(config, s) ==
    [s EXCEPT !.xray.inbounds = Column(s.xray.inbounds, LAMBDA i : ExpandInbound(config, i))]
\* ResolveStackSetUserRefs: every stack, also a disabled one.
Resolvable(set) == \A k \in DOMAIN set.stacks : ResolvableStack(set.config, set.stacks[k])
ResolveStackSetUserRefs(set) ==
    [set EXCEPT !.stacks = Column(set.stacks, LAMBDA s : ResolveStackUserRefs(set.config, s))]

\* StackSet.ByName
ByName(set, name) == {s \in ToSet(set.stacks) : s.name = name}

(***************************************************************************)
(* The shape of what the decoder hands over: every field of a struct is    *)
(* there, and a list is a list.                                            *)
(***************************************************************************)

IsList(x) == x \in Seq(ToSet(x))
ListOf(x, Shape(_)) == IsList(x) /\ \A k \in DOMAIN x : Shape(x[k])
\* A record is nothing but its fields.
IsRecord(x) == x = [f \in DOMAIN x |-> x[f]]

InboundFields ==
    {"name", "protocol", "listen", "port", "udp", "auth", "user", "server", "remark", "tag", "sub",
     "uuid", "users", "user_refs", "expanded", "network", "password", "method"}
InboundShape(i) ==
    InboundFields \subseteq DOMAIN i /\ IsList(i.users) /\ IsList(i.user_refs)
ListenerShape(l) == {"port", "users"} \subseteq DOMAIN l /\ IsList(l.users)
UpstreamShape(u) == {"name", "type", "ref"} \subseteq DOMAIN u /\ IsList(u.ref)
GroupShape(g) == IsRecord(g) /\ {"name", "type", "proxies"} \subseteq DOMAIN g /\ IsList(g.proxies)

XrayShape(x) ==
    /\ {"enabled", "inbounds", "outbound", "api"} \subseteq DOMAIN x
    /\ ListOf(x.inbounds, InboundShape)
    /\ {"type", "ref"} \subseteq DOMAIN x.outbound /\ IsList(x.outbound.ref)
ClashShape(c) ==
    /\ IsRecord(c)
    /\ {"enabled", "listeners", "upstreams", "groups", "controller"} \subseteq DOMAIN c
    /\ {"socks", "http"} \subseteq DOMAIN c.listeners
    /\ ListOf(c.listeners.socks, ListenerShape) /\ ListOf(c.listeners.http, ListenerShape)
    /\ ListOf(c.upstreams, UpstreamShape) /\ ListOf(c.groups, GroupShape)
    /\ "listen" \in DOMAIN c.controller /\ 2 \in DOMAIN c.controller.listen
StackShape(s) ==
    /\ IsRecord(s) /\ {"name", "enabled", "role", "xray", "clash"} \subseteq DOMAIN s
    /\ XrayShape(s.xray) /\ ClashShape(s.clash)
FilesShape(files) ==
    DOMAIN files \subseteq ToSet(StackOrder) /\ \A n \in DOMAIN files : StackShape(files[n])
ConfigShape(c) ==
    /\ {"enabled", "listen", "services"} \subseteq DOMAIN c.defaults.api
    /\ PortRangeNames \subseteq DOMAIN c.port_ranges
=============================================================================
