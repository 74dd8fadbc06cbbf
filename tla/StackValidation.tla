--------------------------- MODULE StackValidation ---------------------------
(***************************************************************************)
(* domain/validation and config/loader.go: what is checked across stacks,  *)
(* and when the files of a base directory load.                            *)
(*                                                                         *)
(* The code collects issues; here each check is the statement that it      *)
(* collects none.                                                          *)
(***************************************************************************)
EXTENDS ReferenceGraph

EnabledXrayStacks(set) == {s \in ToSet(set.stacks) : XrayOn(s)}
EnabledClashStacks(set) == {s \in ToSet(set.stacks) : ClashOn(s)}

ValidateUniqueStackNames(set) == ensureUnique(Column(set.stacks, LAMBDA s : s.name))

\* ValidatePublicInboundAuth
ValidatePublicInboundAuth(set) ==
    set.config.security.require_auth /\ ~set.config.security.allow_noauth_public =>
        \A s \in EnabledXrayStacks(set) : \A i \in ToSet(s.xray.inbounds) :
            i.protocol \in {"socks5", "http"} =>
                IsLoopbackHost(i.listen) \/ i.auth.type = "password"

\* subscriptionInboundUsers
subscriptionInboundUsers(i) == IF i.users # <<>> THEN i.users ELSE i.user_refs

\* subscriptionRemark: the remark, or stack and protocol if there is none.
subscriptionRemark(s, i, remark) == IF remark # "" THEN <<remark>> ELSE <<s.name, i.protocol>>

\* collectSubscriptionProxyNames: pairs of a user and a node name, in order.
collectSubscriptionProxyNames(s, i) ==
    LET users == subscriptionInboundUsers(i)
    IN  IF users = <<>>
        THEN <<<<FirstNonEmpty(i.user, "default"), subscriptionRemark(s, i, i.remark)>>>>
        ELSE Column(users, LAMBDA u :
                 <<u.user, subscriptionRemark(s, i, FirstNonEmpty(u.remark, i.remark))>>)

\* The published inbounds of a stack that is on.
PublishedInbounds(s) ==
    IF XrayOn(s) THEN Keep(s.xray.inbounds, LAMBDA i : i.sub = "on") ELSE <<>>

\* Mutated ValidateSubscriptionProxyNames: two stacks may use one name.
ValidateProxyNamesPerStack(set) ==
    \A s \in ToSet(set.stacks) :
        ensureUnique(FlattenSeq(Column(PublishedInbounds(s),
                                       LAMBDA i : collectSubscriptionProxyNames(s, i))))

\* ValidateSubscriptionProxyNames
ValidateSubscriptionProxyNames(set) ==
    LET OfStack(s) == FlattenSeq(Column(PublishedInbounds(s),
                                        LAMBDA i : collectSubscriptionProxyNames(s, i)))
    IN  ensureUnique(FlattenSeq(Column(set.stacks, OfStack)))

\* Mutated XrayBindings: an API that only the defaults switch on is not counted.
XrayBindingsOwnAPI(set, s) ==
    IF ~XrayOn(s) THEN <<>>
    ELSE Column(s.xray.inbounds, LAMBDA i : <<i.listen, i.port>>)
         \o (IF "listen" \in DOMAIN s.xray.api THEN <<s.xray.api.listen>> ELSE <<>>)

\* The Xray half of CollectPortBindings: inbounds and API.
XrayBindings(set, s) ==
    LET api == ResolveXrayAPIConfig(set.config.defaults, s.xray)
    IN  IF ~XrayOn(s) THEN <<>>
        ELSE Column(s.xray.inbounds, LAMBDA i : <<i.listen, i.port>>)
             \o (IF api.enabled /\ ParseListen(api.listen) THEN <<api.listen>> ELSE <<>>)

\* The mihomo half: listeners and controller.
ClashBindings(s) ==
    LET Binding(l) == <<l.listen, l.port>>
    IN  IF ~ClashOn(s) THEN <<>>
        ELSE Column(s.clash.listeners.socks, Binding) \o Column(s.clash.listeners.http, Binding)
             \o (IF ParseListen(s.clash.controller.listen) THEN <<s.clash.controller.listen>>
                 ELSE <<>>)

CollectPortBindings(set) ==
    FlattenSeq(Column(set.stacks, LAMBDA s : XrayBindings(set, s) \o ClashBindings(s)))

\* ValidateUniquePorts: by port alone, whatever the host.
ValidateUniquePorts(bindings) == ensureUnique(Column(bindings, LAMBDA b : b[2]))

\* ValidateSystemPortsAvailable: occupied is what the machine already listens on.
ValidateSystemPortsAvailable(bindings, occupied) == ToSet(bindings) \cap occupied = {}

\* ValidateStackSet
ValidateStackSet(set, occupied) ==
    /\ ValidateUniqueStackNames(set)
    /\ ValidatePublicInboundAuth(set)
    /\ ValidateSubscriptionProxyNames(set)
    /\ ValidateUniquePorts(CollectPortBindings(set))
    /\ ValidReferenceGraph(set)
    /\ ValidateSystemPortsAvailable(CollectPortBindings(set), occupied)

\* Mutated LoadableStack: the name in the document is not compared with that of the file.
LoadableStackAnyName(name, s) == ValidateStack(s)

\* LoadStack: the document is valid and carries the name of its file.
LoadableStack(name, s) == s.name = name /\ ValidateStack(s)

\* LoadStacks: the documents in the order of the file names.
LoadStacks(config, files) ==
    [config |-> config,
     stacks |-> Column(Keep(StackOrder, LAMBDA n : n \in DOMAIN files), LAMBDA n : files[n])]
\* The stack set a command works on, refs resolved.
LoadedStacks(config, files) == ResolveStackSetUserRefs(LoadStacks(config, files))

\* LoadConfigWithBaseDir and LoadStacks succeed; files is a function from file names.
LoadsWith(config, files, occupied) ==
    /\ ValidateConfig(config)
    /\ \A n \in DOMAIN files : LoadableStack(n, files[n])
    /\ Resolvable(LoadStacks(config, files))
    /\ ValidateStackSet(LoadedStacks(config, files), occupied)
=============================================================================
