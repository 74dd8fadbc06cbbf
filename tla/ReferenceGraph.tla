--------------------------- MODULE ReferenceGraph ---------------------------
(***************************************************************************)
(* graph/: which endpoint a ref of one stack names in another, the graph   *)
(* of services that follows, the search for a cycle in it, and the orders  *)
(* and scopes in which commands act on its services.                       *)
(*                                                                         *)
(* Recursion is by recursive functions.  The order is only asked of a      *)
(* graph without a cycle, on others it would not end, as in the code.      *)
(***************************************************************************)
EXTENDS StackModels

StackNumbers == DOMAIN StackOrder
\* ServiceNode, in the order of sortedNodesFromSet: "clash" sorts before "xray".
AllNodes ==
    [k \in 1..(2 * Len(StackOrder)) |->
        <<StackOrder[(k + 1) \div 2], IF k % 2 = 1 THEN "clash" ELSE "xray">>]
ServiceNodes == ToSet(AllNodes)
sortedNodesFromSet(nodes) == Keep(AllNodes, LAMBDA n : n \in nodes)

(***************************************************************************)
(* The index of endpoints.                                                 *)
(***************************************************************************)

\* IndexXrayInbounds
IndexXrayInbounds(s) ==
    {[ref |-> <<s.name, s.xray.inbounds[k].name>>, stack |-> s.name,
      kind |-> s.xray.inbounds[k].protocol, name |-> s.xray.inbounds[k].name,
      listen |-> s.xray.inbounds[k].listen, port |-> s.xray.inbounds[k].port, users |-> <<>>]
        : k \in DOMAIN s.xray.inbounds}

\* One kind of listener of IndexClashListeners.
IndexListeners(s, kind, listeners) ==
    {[ref |-> <<s.name, "clash", kind>>, stack |-> s.name, kind |-> kind,
      name |-> listeners[k].name, listen |-> listeners[k].listen, port |-> listeners[k].port,
      users |-> listeners[k].users] : k \in DOMAIN listeners}
IndexClashListeners(s) ==
    IndexListeners(s, "socks", s.clash.listeners.socks)
        \cup IndexListeners(s, "http", s.clash.listeners.http)

XrayOn(s) == s.enabled /\ s.xray.enabled
ClashOn(s) == s.enabled /\ s.clash.enabled

\* NewReferenceIndex: only what is switched on can be referred to.
XrayInboundIndex(set) ==
    UNION {IndexXrayInbounds(s) : s \in {t \in ToSet(set.stacks) : XrayOn(t)}}
ClashListenerIndex(set) ==
    UNION {IndexClashListeners(s) : s \in {t \in ToSet(set.stacks) : ClashOn(t)}}

\* The endpoint a ref names: none or one.
ResolveXrayInbound(set, ref) == {e \in XrayInboundIndex(set) : e.ref = ref}
ResolveClashListener(set, ref) == {e \in ClashListenerIndex(set) : e.ref = ref}

(***************************************************************************)
(* The graph.                                                              *)
(***************************************************************************)

CollectServiceNodes(set) ==
    {<<s.name, "xray">> : s \in {t \in ToSet(set.stacks) : XrayOn(t)}}
        \cup {<<s.name, "clash">> : s \in {t \in ToSet(set.stacks) : ClashOn(t)}}

\* addXrayDependencies: no issue.
XrayRefResolves(set, s) ==
    XrayOn(s) /\ s.xray.outbound.type = "clash" =>
        /\ ValidateRef(s.xray.outbound.ref, 3)
        /\ s.xray.outbound.ref[2] = "clash" /\ s.xray.outbound.ref[3] = "socks"
        /\ ResolveClashListener(set, s.xray.outbound.ref) # {}

\* addXrayDependencies: the edges.
XrayDependencies(set, s) ==
    IF XrayOn(s) /\ s.xray.outbound.type = "clash"
    THEN {<<e.stack, "clash">> : e \in ResolveClashListener(set, s.xray.outbound.ref)}
    ELSE {}

XraySocks5Refs(s) ==
    {u.ref : u \in {v \in ToSet(s.clash.upstreams) : v.type = "xray-socks5"}}

\* addClashDependencies: no issue.
ClashRefsResolve(set, s) ==
    ClashOn(s) => \A ref \in XraySocks5Refs(s) :
        /\ ValidateRef(ref, 2)
        /\ \E e \in ResolveXrayInbound(set, ref) : e.kind = "socks5"

\* addClashDependencies: the edges.
ClashDependencies(set, s) ==
    IF ClashOn(s)
    THEN {<<e.stack, "xray">> :
             e \in {f \in XrayInboundIndex(set) : f.ref \in XraySocks5Refs(s) /\ f.kind = "socks5"}}
    ELSE {}

Dependencies(set) ==
    [n \in ServiceNodes |->
        UNION {IF n[2] = "xray" THEN XrayDependencies(set, s) ELSE ClashDependencies(set, s)
                  : s \in ByName(set, n[1])}]

\* ReferenceGraph, as CompileReferenceGraph builds it.
Graph(set) ==
    [nodes |-> CollectServiceNodes(set), deps |-> Dependencies(set),
     stackNames |-> ToSet(Column(set.stacks, LAMBDA s : s.name))]

RefsResolve(set) ==
    \A s \in ToSet(set.stacks) : XrayRefResolves(set, s) /\ ClashRefsResolve(set, s)

(***************************************************************************)
(* What depends on what, said without a search.                            *)
(***************************************************************************)

\* The sets of nodes no dependency leads out of.
ClosedSets(deps) == {S \in SUBSET ServiceNodes : \A m \in S : deps[m] \subseteq S}

\* The nodes one node depends on, directly or not: what every closed set holds that holds its
\* dependencies.
NeedsOf(deps) ==
    LET closed == ClosedSets(deps)
    IN  [n \in ServiceNodes |->
            {m \in ServiceNodes : \A S \in closed : deps[n] \subseteq S => m \in S}]
Needs(g) == NeedsOf(g.deps)

\* Every node of the order comes after all it needs among them, and only once.
NeedsFirst(g, order) ==
    LET needs == Needs(g)
    IN  /\ IsInjective(order)
        /\ \A i, j \in DOMAIN order : order[j] \in needs[order[i]] => j < i

(***************************************************************************)
(* Cycles.                                                                 *)
(***************************************************************************)

\* Where an element of a sequence stands in it.
Position(seq, e) == CHOOSE k \in DOMAIN seq : seq[k] = e

\* A point of the search: the nodes to visit next, in turn, the path they are reached by ("visiting"),
\* and the nodes that were left.
Visits == [todo : Seq(ServiceNodes), path : Seq(ServiceNodes), done : SUBSET ServiceNodes]

\* Mutated visitForCycle: a node is done as soon as it is entered.
visitForCycleDoneEarly(deps) ==
    LET visit[at \in Visits] ==
          IF at.todo = <<>> THEN [cycle |-> <<>>, done |-> at.done]
          ELSE LET node == Head(at.todo)
                   rest(done) == visit[[todo |-> Tail(at.todo), path |-> at.path, done |-> done]]
               IN  IF node \in at.done THEN rest(at.done)
                   ELSE rest(visit[[todo |-> sortedNodesFromSet(deps[node]),
                                    path |-> Append(at.path, node),
                                    done |-> at.done \cup {node}]].done)
    IN  visit

\* visitForCycle with the loop that calls it: a node that is left after all below it is done.
visitForCycle(deps) ==
    LET visit[at \in Visits] ==
          IF at.todo = <<>> THEN [cycle |-> <<>>, done |-> at.done]
          ELSE LET node == Head(at.todo)
                   rest(done) == visit[[todo |-> Tail(at.todo), path |-> at.path, done |-> done]]
                   below == visit[[todo |-> sortedNodesFromSet(deps[node]),
                                   path |-> Append(at.path, node), done |-> at.done]]
               IN  IF node \in at.done THEN rest(at.done)
                   ELSE IF node \in ToSet(at.path)
                   THEN [cycle |-> Append(SubSeq(at.path, Position(at.path, node), Len(at.path)), node),
                         done |-> at.done]
                   ELSE IF below.cycle # <<>> THEN below
                   ELSE rest(below.done \cup {node})
    IN  visit

\* FindCycle: <<>>, or a path whose last node is its first.
FindCycle(g) ==
    visitForCycle(g.deps)[[todo |-> sortedNodesFromSet(g.nodes), path |-> <<>>, done |-> {}]].cycle

ValidateAcyclic(g) == FindCycle(g) = <<>>

\* CompileReferenceGraph finds no issue; cycles are only looked for if every ref resolves.
ValidReferenceGraph(set) == RefsResolve(set) /\ ValidateAcyclic(Graph(set))

(***************************************************************************)
(* Orders and scopes.                                                      *)
(***************************************************************************)

\* appendTopological with the loop that calls it: the nodes to append next, in turn, each after its
\* dependencies that are allowed, to those that are ordered.
appendTopological(deps, allowed) ==
    LET append[at \in [todo : Seq(ServiceNodes), ordered : Seq(ServiceNodes)]] ==
          IF at.todo = <<>> THEN at.ordered
          ELSE LET node == Head(at.todo)
                   rest(ordered) == append[[todo |-> Tail(at.todo), ordered |-> ordered]]
                   below == append[[todo |-> sortedNodesFromSet(deps[node]), ordered |-> at.ordered]]
               IN  IF node \notin allowed \/ node \in ToSet(at.ordered) THEN rest(at.ordered)
                   ELSE rest(Append(below, node))
    IN  append

\* Mutated TopologicalOrder: sorted by name only.
TopologicalOrderSorted(g, selected) == sortedNodesFromSet(selected)

\* TopologicalOrder: the selected nodes in the order of their names, each after its own.
TopologicalOrder(g, selected) ==
    appendTopological(g.deps, selected)[[todo |-> sortedNodesFromSet(selected), ordered |-> <<>>]]

\* Mutated CollectDependencyClosure: only what the targets need themselves.
CollectDirectDependencies(g, targets) == targets \cup UNION {g.deps[n] : n \in targets}

\* CollectDependencyClosure: pending is a stack, its last element is taken next.
CollectDependencyClosure(g, targets) ==
    LET collect[at \in [collected : SUBSET ServiceNodes, pending : Seq(ServiceNodes)]] ==
          IF at.pending = <<>> THEN at.collected
          ELSE LET node == Last(at.pending)
                   rest == Front(at.pending)
               IN  collect[IF node \in at.collected
                           THEN [at EXCEPT !.pending = rest]
                           ELSE [collected |-> at.collected \cup {node},
                                 pending |-> rest \o sortedNodesFromSet(g.deps[node])]]
    IN  collect[[collected |-> {}, pending |-> sortedNodesFromSet(targets)]]

\* SelectTargetNodes: the services of one stack, or all if none is named.
SelectTargetNodes(g, target) ==
    IF target = "" THEN g.nodes ELSE {n \in g.nodes : n[1] = target}

\* CollectDependencyEdges
CollectDependencyEdges(g, planned) ==
    {e \in planned \X planned : e[2] \in g.deps[e[1]]}

\* BuildPlan of a target that exists, "" for everything: a DependencyPlan.
BuildDependencyPlan(g, target) ==
    LET targets == SelectTargetNodes(g, target)
        planned == CollectDependencyClosure(g, targets)
        ordered == TopologicalOrder(g, planned)
    IN  [target |-> target, order |-> ordered,
         others |-> Keep(ordered, LAMBDA n : n \notin targets),
         edges |-> CollectDependencyEdges(g, planned)]

\* ResolveTargetScope: component is "" for a whole stack; {} is the refusal of an unknown name.
ResolveTargetScope(g, target, component) ==
    IF (target # "" \/ component # "") /\ target \notin g.stackNames THEN {}
    ELSE IF component = ""
         THEN {TopologicalOrder(g, SelectTargetNodes(g, target))}
         ELSE {sortedNodesFromSet({<<target, component>>} \cap g.nodes)}
=============================================================================
