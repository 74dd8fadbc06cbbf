---------------------------- MODULE StackPipeline ----------------------------
(***************************************************************************)
(* What psctl makes of the files of a base directory, and what becomes of  *)
(* it on a subscription server: the files are loaded or refused, configs   *)
(* are rendered for every service, orders and scopes are computed, nodes   *)
(* are exported as a bundle, a pssub merges the bundle into its inputs.    *)
(*                                                                         *)
(* The commands read the files and keep nothing in memory from one to the  *)
(* next.  The files change between them; the inputs of the server do not   *)
(* follow by themselves.                                                   *)
(***************************************************************************)
EXTENDS Generators, Subscriptions

CONSTANTS
    Starts,       \* records of config, files, disabled and inputs to start from
    Contents,     \* function from a stack name to the documents an operator may write
    Occupied,     \* addresses other programs listen on
    MaxEdits      \* bound on changes of the stacks directory

ASSUME StartsAssumption ==
    \A start \in Starts :
        /\ ConfigShape(start.config) /\ FilesShape(start.files)
        /\ InputsShape(start.inputs) /\ MergeInputs(start.inputs)
ASSUME ContentsAssumption ==
    \A n \in ToSet(StackOrder) : \A doc \in Contents[n] : StackShape(doc)
ASSUME MaxEditsAssumption == MaxEdits \in Nat

VARIABLES
    config, files, disabled,  \* config.yaml, the stacks directory, disabled.json
    edits,                    \* changes of the stacks directory so far
    set,                      \* the loaded stack set, user_refs resolved; {} if none is
    configs,                  \* node to the config rendered for it; <<>> if it is refused
    plan,                     \* the last dependency plan, {} if none
    scope,                    \* the last scope of a lifecycle command, {} if none
    inputs                    \* the inputs directory of the server

disk == <<config, files, disabled, edits>>
results == <<set, configs, plan, scope>>
server == <<inputs>>
vars == <<disk, results, server>>

Loads == LoadsWith(config, files, Occupied)
LoadedSet == LoadedStacks(config, files)

Init ==
    /\ \E start \in Starts : /\ config = start.config /\ files = start.files
                            /\ disabled = start.disabled /\ inputs = start.inputs
    /\ edits = 0 /\ set = {} /\ configs = <<>> /\ plan = {} /\ scope = {}

\* The command ends, and what it computed is gone.
Forget == set' = {} /\ configs' = <<>> /\ plan' = {} /\ scope' = {}

\* The operator writes or deletes one file.
Edit(n) ==
    /\ edits < MaxEdits /\ set = {}
    /\ \/ \E doc \in Contents[n] : files' = Put(files, n, doc)
       \/ files' = Drop(files, n)
    /\ edits' = edits + 1
    /\ UNCHANGED <<config, disabled, results, server>>

Done == set # {} /\ Forget /\ UNCHANGED <<disk, server>>

\* A command does one thing with the set it loaded.
Fresh == configs = <<>> /\ plan = {} /\ scope = {}

\* config validate, and the first step of every other command; a set that is refused ends it.
Load ==
    /\ set = {}
    /\ set' = IF Loads THEN {LoadedSet} ELSE {}
    /\ UNCHANGED <<disk, configs, plan, scope, server>>

\* The stack of a set with a name that is there.
StackOf(s, name) == CHOOSE t \in ByName(s, name) : TRUE

\* The config BuildPlan renders for one service, <<>> if the generator refuses.
RenderNode(s, n) ==
    LET stack == StackOf(s, n[1])
    IN  IF n[2] = "xray"
        THEN IF XrayRenders(s, stack, disabled) THEN <<RenderXray(s, stack, disabled)>> ELSE <<>>
        ELSE IF MihomoRenders(stack) THEN <<RenderMihomo(s, stack)>> ELSE <<>>

\* BuildPlan renders every service of the loaded set.
Render ==
    /\ Fresh
    /\ \E s \in set : configs' = [n \in CollectServiceNodes(s) |-> RenderNode(s, n)]
    /\ UNCHANGED <<disk, set, plan, scope, server>>

\* check and deps: the dependency plan of a stack or of everything.
Plan(target) ==
    /\ Fresh
    /\ \E s \in set :
         /\ target = "" \/ target \in Graph(s).stackNames
         /\ plan' = {BuildDependencyPlan(Graph(s), target)}
    /\ UNCHANGED <<disk, set, configs, scope, server>>

\* start, restart and stop act on the services of a scope in its order.
Scope(target, component) ==
    /\ Fresh
    /\ \E s \in set : \E order \in ResolveTargetScope(Graph(s), target, component) :
         scope' = {[target |-> target, order |-> order]}
    /\ UNCHANGED <<disk, set, configs, plan, server>>

\* sub export of a stack or of everything, and pssub import of the bundle.
Publish(target, replaceAll) ==
    /\ Fresh
    /\ \E s \in set :
         LET bundle == buildSubBundleInputs(s, target)
         IN  /\ ExportAccepted(s, target)
             /\ ExtractBundleAccepted(inputs, bundle, replaceAll)
             /\ inputs' = BundleTarget(inputs, bundle, replaceAll)
    /\ Forget
    /\ UNCHANGED disk

Next ==
    \/ Load \/ Render \/ Done
    \/ \E n \in ToSet(StackOrder) : Edit(n)
    \/ \E target \in ToSet(StackOrder) \cup {""} :
         \/ Plan(target)
         \/ \E component \in {"", "xray", "clash"} : Scope(target, component)
         \/ \E replaceAll \in BOOLEAN : Publish(target, replaceAll)

Spec == Init /\ [][Next]_vars

(***************************************************************************)
(* Properties.                                                             *)
(***************************************************************************)

\* Types of what the commands compute.
TypeOK ==
    /\ edits \in 0..MaxEdits /\ DOMAIN files \subseteq ToSet(StackOrder)
    /\ Cardinality(set) <= 1 /\ Cardinality(plan) <= 1 /\ Cardinality(scope) <= 1
    /\ DOMAIN configs \subseteq ServiceNodes
    /\ DOMAIN inputs \subseteq ToSet(StackOrder)

\* Where the search for a cycle starts: the stacks could be read, and every ref resolves.
RefsLoad ==
    /\ \A n \in DOMAIN files : LoadableStack(n, files[n])
    /\ Resolvable(LoadStacks(config, files)) /\ RefsResolve(LoadedSet)
\* The graph as it is before ValidateAcyclic looked at it.
RawGraph == Graph(LoadedSet)

\* FindCycle reports a cycle exactly if the refs of the files form one, and what it
\* reports is a closed walk along dependencies (dependencies.go).
CycleFoundIffCyclic ==
    set = {} /\ RefsLoad =>
        LET cycle == FindCycle(RawGraph)
        IN  /\ cycle = <<>> <=> \A n \in RawGraph.nodes : n \notin Needs(RawGraph)[n]
            /\ cycle # <<>> =>
                 /\ Len(cycle) > 1 /\ cycle[1] = Last(cycle)
                 /\ \A k \in 1..(Len(cycle) - 1) : cycle[k + 1] \in RawGraph.deps[cycle[k]]

\* A dependency plan holds the target and all it needs, directly or not, and nothing else,
\* everything after what it needs (BuildPlan).
PlanIsClosedAndOrdered ==
    \A p \in plan : \A s \in set :
        LET g == Graph(s)
            targets == SelectTargetNodes(g, p.target)
        IN  /\ ToSet(p.order) = targets \cup UNION {Needs(g)[n] : n \in targets}
            /\ NeedsFirst(g, p.order)
            /\ ToSet(p.others) = ToSet(p.order) \ targets

\* A lifecycle command without a target reaches every service once, and none before one it
\* needs (ResolveTargetScope).
ScopeOfAllOrdered ==
    \A c \in scope : \A s \in set :
        c.target = "" => ToSet(c.order) = Graph(s).nodes /\ NeedsFirst(Graph(s), c.order)

\* TopologicalOrder "returns a dependency-first order": also within the services of one stack.
ScopeOrdered == \A c \in scope : \A s \in set : NeedsFirst(Graph(s), c.order)

\* Where a listener of a rendered config listens, and whom it lets in.
Reachable(address, port, listen, at) ==
    address # "" /\ port = at /\ listen \in {address, "0.0.0.0"}
LetsIn(accounts, users) == accounts = {} \/ \E k \in DOMAIN users : users[k] \in accounts

\* Every outbound that the loaded set points at a mihomo finds a socks listener of that
\* mihomo's rendered config that it can reach and that accepts its account, and likewise
\* every xray-socks5 proxy a socks inbound: what the two generators render fits together.  But for
\* a proxy to an inbound whose address is written empty, which mihomo's generator does not refuse.
RenderedLinksConnect ==
    \A s \in set : \A n \in DOMAIN configs : configs[n] # <<>> =>
        LET stack == StackOf(s, n[1])
        IN  IF n[2] = "xray"
            THEN stack.xray.outbound.type = "clash" =>
                 LET o == configs[n][1].outbounds[1]
                     target == configs[<<stack.xray.outbound.ref[1], "clash">>]
                 IN  \E k \in DOMAIN target[1].listeners :
                        LET l == target[1].listeners[k]
                        IN  /\ l.type = "socks" /\ Reachable(o.address, o.port, l.listen, l.port)
                            /\ LetsIn(l.users, o.users)
            ELSE \A k \in DOMAIN stack.clash.upstreams :
                 stack.clash.upstreams[k].type = "xray-socks5" =>
                 LET proxy == configs[n][1].proxies[k]
                     target == configs[<<stack.clash.upstreams[k].ref[1], "xray">>]
                 IN  target # <<>> /\ proxy.server # "" => \E m \in DOMAIN target[1].inbounds :
                        LET i == target[1].inbounds[m]
                        IN  /\ i.protocol = "socks5"
                            /\ Reachable(proxy.server, proxy.port, i.listen, i.port)
                            /\ LetsIn(ToSet(i.accounts), proxy.users)
                            /\ proxy.udp => i.udp

\* The addresses the rendered config of a node listens on.
Opened(n) ==
    IF configs[n] = <<>> THEN <<>>
    ELSE LET c == configs[n][1]
             Address(l) == <<l.listen, l.port>>
         IN  IF n[2] = "xray"
             THEN Column(c.inbounds, Address) \o Column(c.api, LAMBDA a : a.listen)
             ELSE Column(c.listeners, Address) \o <<c.controller>>

\* No two sockets that the rendered configs open have one port, in one config or in two,
\* and none is taken by another program: CollectPortBindings counted all of them.
RenderedPortsFree ==
    configs # <<>> =>
        LET opened == FlattenSeq(Column(sortedNodesFromSet(DOMAIN configs), Opened))
        IN  ensureUnique(Column(opened, LAMBDA b : b[2])) /\ ToSet(opened) \cap Occupied = {}

\* A set that loads is rendered, but for four cases validation leaves to the generators: a
\* mihomo without a socks listener, half an account of an outbound to a proxy, an outbound to a
\* mihomo whose listener has an empty address, an inbound all of whose users are disabled.
RenderedUnlessKnown ==
    \A s \in set : \A n \in DOMAIN configs : configs[n] = <<>> =>
        LET stack == StackOf(s, n[1])
            o == stack.xray.outbound
        IN  \/ n[2] = "clash" /\ stack.clash.listeners.socks = <<>>
            \/ n[2] = "xray" /\ o.type \in {"socks5", "http"} /\ (o.username = "") # (o.password = "")
            \/ n[2] = "xray" /\ o.type = "clash"
                 /\ \E e \in ResolveClashListener(s, o.ref) : e.listen = ""
            \/ n[2] = "xray" /\ \E i \in ToSet(stack.xray.inbounds) :
                   i.users # <<>> /\ \A u \in ToSet(i.users) : <<n[1], u.user>> \in disabled

\* A client that uses a proxy is let in by the inbound: credentials, port and protocol.
ProxyAccepted(p, i) ==
    /\ i.port = p.port /\ i.protocol = p.type
    /\ p.udp = "on" => i.udp \/ i.protocol = "vmess"
    /\ CASE i.protocol = "vmess" ->
              i.network = p.network /\ \E c \in ToSet(i.clients) : c.id = p.uuid
         [] i.protocol = "shadowsocks" ->
              IF i.clients = <<>> THEN p.password = <<i.password>> /\ p.method = i.method
              ELSE \E c \in ToSet(i.clients) :
                     IF IsShadowsocks2022Method(i.method)
                     THEN p.password = <<i.password, c.password>> /\ p.method = i.method
                     ELSE p.password = <<c.password>> /\ p.method = c.method
         [] OTHER -> LetsIn(ToSet(i.accounts), <<p.account>>)

\* Every node the agent would export gives a client a proxy that the config rendered for the
\* same set lets in, unless its user is disabled: three generators read the same fields.
ExportedNodesAccepted ==
    \A s \in set : \A stack \in ToSet(s.stacks) :
        LET n == <<stack.name, "xray">>
        IN  n \in DOMAIN configs /\ configs[n] # <<>> =>
              \A node \in ToSet(renderStackNodes(s, stack)) :
                 (Len(node.id) = 3 => <<stack.name, node.user>> \notin disabled) =>
                    \E i \in ToSet(configs[n][1].inbounds) : ProxyAccepted(RenderClashProxy(node), i)

\* What validation accepts can be exported: it looks at names the way the merge of the
\* inputs will (ValidateSubscriptionProxyNames and MergeInputs are written twice).
AcceptedIsExportable ==
    \A s \in set :
        s.config.external_host # "" /\ StacksWithNodes(s) # {} => ExportAccepted(s, "")

\* The inputs of a server merge after every import, so that it can start from them.
InputsStayMergeable == MergeInputs(inputs)

\* No Surge group names a proxy that was not rendered.
SurgeGroupsDefined ==
    \A user \in {n.user : n \in ToSet(AllInputNodes(inputs))} :
        RenderSurgeGroups(NodesForUser(inputs, user))
            \subseteq RenderSurgeProxies(NodesForUser(inputs, user))
=============================================================================
