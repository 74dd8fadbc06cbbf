---------------------------- MODULE Subscriptions ----------------------------
(***************************************************************************)
(* generator/sub: the nodes an agent exports for the users of its          *)
(* published inbounds, the bundle they travel in, the inputs of a          *)
(* subscription server they become, the index merged from these, and the   *)
(* proxies and groups a client of one user receives.                       *)
(*                                                                         *)
(* A bundle and an inputs directory are functions from file names to       *)
(* inputs; an input is its sequence of nodes.  A node may also be written  *)
(* by hand (direct), with any protocol of the client.                      *)
(***************************************************************************)
EXTENDS StackValidation

(***************************************************************************)
(* Export: what the agent says about its inbounds.                         *)
(***************************************************************************)

subscriptionServer(set, i) == FirstNonEmpty(i.server, set.config.external_host)

\* Mutated shadowsocksNodePassword: the key of the server is forgotten.
shadowsocksUserPassword(i, u) == <<u.password>>

\* shadowsocksNodePassword: SS2022 asks for the key of the server and of the user.
shadowsocksNodePassword(i, u) ==
    IF IsShadowsocks2022Method(i.method) THEN <<i.password, u.password>> ELSE <<u.password>>

\* The fields every node of an inbound has.
BaseNode(set, s, i, user, remark) ==
    [id |-> <<s.name, i.name>>, user |-> user, protocol |-> i.protocol,
     server |-> subscriptionServer(set, i), port |-> i.port,
     remark |-> subscriptionRemark(s, i, remark), direct |-> FALSE, udp |-> i.udp,
     uuid |-> "", network |-> "", method |-> "", password |-> <<>>, auth |-> NoAuth]

\* A node of one user of an inbound.
UserNode(set, s, i, u) ==
    [BaseNode(set, s, i, u.user, FirstNonEmpty(u.remark, i.remark))
        EXCEPT !.id = <<s.name, i.name, u.user>>]

renderVmessUserNode(set, s, i, u) ==
    [UserNode(set, s, i, u) EXCEPT !.uuid = u.uuid, !.network = i.network]
renderShadowsocksUserNode(set, s, i, u) ==
    [UserNode(set, s, i, u) EXCEPT !.method = FirstNonEmpty(u.method, i.method),
                                   !.password = shadowsocksNodePassword(i, u)]
renderGenericUserNode(set, s, i, u) == [UserNode(set, s, i, u) EXCEPT !.auth = i.auth]

\* renderSingleInboundNode: an inbound without users is published as one node.
renderSingleInboundNode(set, s, i) ==
    LET base == BaseNode(set, s, i, FirstNonEmpty(i.user, "default"), i.remark)
    IN  CASE i.protocol = "shadowsocks" ->
                [base EXCEPT !.method = i.method, !.password = <<i.password>>]
          [] i.protocol \in {"socks5", "http"} -> [base EXCEPT !.auth = i.auth]
          [] OTHER -> base

\* renderInboundNodes
renderInboundNodes(set, s, i) ==
    IF i.users = <<>> /\ i.protocol # "vmess" THEN <<renderSingleInboundNode(set, s, i)>>
    ELSE Column(i.users, LAMBDA u :
             CASE i.protocol = "vmess" -> renderVmessUserNode(set, s, i, u)
               [] i.protocol = "shadowsocks" -> renderShadowsocksUserNode(set, s, i, u)
               [] OTHER -> renderGenericUserNode(set, s, i, u))

renderStackNodes(set, s) ==
    FlattenSeq(Column(PublishedInbounds(s), LAMBDA i : renderInboundNodes(set, s, i)))

(***************************************************************************)
(* What may be in an input, and when inputs merge.                         *)
(***************************************************************************)

\* validateDirect: a protocol of the client itself is accepted unseen.
validateDirect(n) ==
    /\ n.remark # <<>>
    /\ n.protocol = "vmess" => n.uuid # ""
    /\ n.protocol = "shadowsocks" => n.password # <<>> /\ n.method # ""

\* Node.Validate
ValidateNode(n) ==
    /\ n.server # "" /\ ValidatePort(n.port)
    /\ \/ n.direct /\ validateDirect(n)
       \/ /\ ~n.direct
          /\ validInboundProtocol(n.protocol)
          /\ n.auth # NoAuth => ValidateAuth(n.auth)
          /\ n.protocol = "vmess" => n.uuid # "" /\ n.network # ""
          /\ n.protocol = "shadowsocks" => n.password # <<>> /\ n.method # ""
          /\ n.udp # "unset" => SupportsInboundUDPProtocol(n.protocol)

\* Input.Validate: no id twice, and no node name twice for one user.
ValidateInput(nodes) ==
    /\ \A k \in DOMAIN nodes : ValidateNode(nodes[k])
    /\ ensureUnique(Column(nodes, LAMBDA n : n.id))
    /\ ensureUnique(Column(nodes, LAMBDA n : <<n.user, n.remark>>))

\* An inputs directory as it is read: files with known names, each a list of nodes.
InputsShape(inputs) ==
    DOMAIN inputs \subseteq ToSet(StackOrder) /\ \A f \in DOMAIN inputs : IsList(inputs[f])

\* All nodes of a directory of inputs, file after file in the order of the names.
AllInputNodes(inputs) ==
    FlattenSeq(Column(Keep(StackOrder, LAMBDA f : f \in DOMAIN inputs),
                      LAMBDA f : inputs[f]))

\* MergeInputs succeeds: what each file promises also holds across the files.
MergeInputs(inputs) ==
    (\A f \in DOMAIN inputs : ValidateInput(inputs[f])) /\ ValidateInput(AllInputNodes(inputs))

\* BuildIndex: the nodes of one user, in order.
NodesForUser(inputs, user) == Keep(AllInputNodes(inputs), LAMBDA n : n.user = user)

(***************************************************************************)
(* The bundle.                                                             *)
(***************************************************************************)

StacksWithNodes(set) == {s \in ToSet(set.stacks) : renderStackNodes(set, s) # <<>>}

\* Mutated buildSubBundleInputs: an input is named after an inbound of the stack.
buildSubBundleInputsByInbound(set, target) ==
    LET exported == {s \in StacksWithNodes(set) : target \in {"", s.name}}
    IN  [f \in {PublishedInbounds(s)[1].name : s \in exported} |->
            renderStackNodes(set, CHOOSE s \in exported : PublishedInbounds(s)[1].name = f)]

\* buildSubBundleInputs: one input for each stack that has nodes, named after it.
buildSubBundleInputs(set, target) ==
    LET exported == {s \in StacksWithNodes(set) : target \in {"", s.name}}
    IN  [f \in {s.name : s \in exported} |->
            renderStackNodes(set, CHOOSE s \in exported : s.name = f)]

\* buildSubExport and WriteBundle go through.
ExportAccepted(set, target) ==
    LET inputs == buildSubBundleInputs(set, target)
    IN  /\ set.config.external_host # ""
        /\ DOMAIN inputs # {}
        /\ MergeInputs(inputs)

\* The inputs ExtractBundleInputs would leave: files the bundle does not name stay
\* unless all are replaced.
BundleTarget(inputs, bundle, replaceAll) ==
    IF replaceAll THEN bundle
    ELSE [f \in DOMAIN bundle \cup DOMAIN inputs |->
             IF f \in DOMAIN bundle THEN bundle[f] ELSE inputs[f]]

\* Mutated ExtractBundleAccepted: the files that stay are not merged with the new ones.
ExtractBundleUnmerged(inputs, bundle, replaceAll) == MergeInputs(bundle)

\* ExtractBundleInputs finds that what would be there merges.
ExtractBundleAccepted(inputs, bundle, replaceAll) ==
    MergeInputs(BundleTarget(inputs, bundle, replaceAll))

(***************************************************************************)
(* The texts a client receives.                                            *)
(***************************************************************************)

\* RenderClashProxy of an exported node: what the client authenticates with.
RenderClashProxy(n) ==
    [type |-> n.protocol, port |-> n.port,
     uuid |-> n.uuid, network |-> n.network, method |-> n.method, password |-> n.password,
     account |-> <<n.auth.username, n.auth.password>>,
     udp |-> IF SupportsInboundUDPProtocol(n.protocol) THEN n.udp ELSE "unset"]

ProxyNames(nodes) == Column(nodes, LAMBDA n : n.remark)
\* unsupportedSurgeNodeReason: Surge has no gRPC and not every protocol.
SurgeSupports(n) ==
    \/ n.protocol \in {"shadowsocks", "socks5", "http"}
    \/ n.protocol = "vmess" /\ n.network \in {"", "tcp", "ws"}
filterSurgeSupportedNodes(nodes) == Keep(nodes, SurgeSupports)

\* Mutated RenderSurgeGroups: the groups name the nodes that were filtered out, too.
RenderSurgeGroupsUnfiltered(nodes) == ToSet(ProxyNames(nodes))

\* RenderSurgeRegionGroups and surge_proxy_names: what the groups name.
RenderSurgeGroups(nodes) == ToSet(ProxyNames(filterSurgeSupportedNodes(nodes)))
\* renderSurgeProxyLines: RenderSurgeProxy gives no line for a protocol it does not know.
RenderSurgeProxies(nodes) ==
    {n.remark : n \in {m \in ToSet(filterSurgeSupportedNodes(nodes)) : validInboundProtocol(m.protocol)}}
=============================================================================
