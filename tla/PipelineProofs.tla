---------------------------- MODULE PipelineProofs ----------------------------
(***************************************************************************)
(* What validation promises and three generators rely on, for every config *)
(* and every set of stacks: a set that loads renders configs that fit      *)
(* together and exports nodes its inbounds let in.                         *)
(*                                                                         *)
(* The invariant is short: what a command holds is what the files on disk  *)
(* give.  The rest of the proofs follows the data from the documents that  *)
(* were validated to the lines of the configs rendered from them.          *)
(***************************************************************************)
EXTENDS StackPipeline, GraphFacts

\* What a command holds is what the files give, as long as it holds it.
Held ==
    /\ set # {} => Loads /\ set = {LoadedSet}
    /\ configs # <<>> => /\ set # {}
                         /\ configs = [n \in CollectServiceNodes(LoadedSet) |-> RenderNode(LoadedSet, n)]
    /\ AtMostOne(plan) /\ AtMostOne(scope)

\* What lies on the disk.
Disk == ConfigShape(config) /\ FilesShape(files) /\ edits \in 0..MaxEdits

\* What the subscription server was given can be merged.
Served == InputsShape(inputs) /\ MergeInputs(inputs)

\* A plan or a scope was computed from the graph of the set that is held.
Planned ==
    /\ \A p \in plan :
          set # {} /\ p = BuildDependencyPlan(Graph(LoadedSet), p.target)
    /\ \A c \in scope :
          set # {} /\ \E component \in {"", "xray", "clash"} :
                         c.order \in ResolveTargetScope(Graph(LoadedSet), c.target, component)

\* The inductive invariant.
IInv == Disk /\ Held /\ Planned /\ Served

\* What a stack exports is a list.
LEMMA RenderedNodesList ==
    ASSUME NEW s, NEW stack, LoadedStack(stack)
    PROVE  /\ IsList(renderStackNodes(s, stack))
           /\ \A n : n \in ToSet(renderStackNodes(s, stack))
                        <=> \E i \in ToSet(PublishedInbounds(stack)) : n \in ToSet(renderInboundNodes(s, stack, i))
  <1> DEFINE published == PublishedInbounds(stack)
             rows == [k \in DOMAIN published |-> renderInboundNodes(s, stack, published[k])]
  <1>1. IsList(published) /\ \A i : i \in ToSet(published) => i \in ToSet(stack.xray.inbounds)
    BY PublishedFacts DEF LoadedStack
  <1>2. DOMAIN published = 1..Len(published) /\ Len(published) \in Nat
    BY <1>1, ListShape
  <1>3. IsList(rows) /\ rows \o <<>> = rows /\ DOMAIN rows = DOMAIN published
    <2>1. rows = [k \in 1..Len(published) |-> rows[k]]
      BY <1>2
    <2> HIDE DEF rows
    <2> QED
      BY <1>2, <2>1, FunctionIsList, ListShape
  <1>4. ASSUME NEW i, LoadedInbound(i)
        PROVE  IsList(renderInboundNodes(s, stack, i))
    <2> DEFINE Node(u) == CASE i.protocol = "vmess" -> renderVmessUserNode(s, stack, i, u)
                            [] i.protocol = "shadowsocks" -> renderShadowsocksUserNode(s, stack, i, u)
                            [] OTHER -> renderGenericUserNode(s, stack, i, u)
               nodes == [k \in DOMAIN i.users |-> Node(i.users[k])]
    <2> HIDE DEF Node
    <2>1. DOMAIN i.users = 1..Len(i.users) /\ Len(i.users) \in Nat
      BY <1>4, ListShape DEF LoadedInbound, InboundShape
    <2>2. IsList(nodes) /\ nodes \o <<>> = nodes
      <3>1. nodes = [k \in 1..Len(i.users) |-> nodes[k]]
        BY <2>1
      <3> HIDE DEF nodes
      <3> QED
        BY <2>1, <3>1, FunctionIsList
    <2>3. ASSUME NEW x PROVE IsList(<<x>>)
      <3>1. <<x>> = [m \in 1..1 |-> <<x>>[m]]
        OBVIOUS
      <3> QED
        BY <3>1, FunctionIsList
    <2>4. CASE i.users = <<>> /\ i.protocol # "vmess"
      BY <2>3, <2>4 DEF renderInboundNodes
    <2>5. CASE ~(i.users = <<>> /\ i.protocol # "vmess")
      <3>1. renderInboundNodes(s, stack, i) = nodes \o <<>>
        BY <2>5 DEF renderInboundNodes, Column, Node
      <3> QED
        BY <2>2, <3>1
    <2> QED
      BY <2>4, <2>5
  <1>5. \A k \in DOMAIN published : LoadedInbound(published[k])
    BY <1>1 DEF LoadedStack, ToSet
  <1>6. IsTable(rows)
    BY <1>3, <1>4, <1>5 DEF IsTable
  <1>7. renderStackNodes(s, stack) = FlattenSeq(rows)
    BY <1>3 DEF renderStackNodes, Column
  <1>8. \A n : (\E k \in DOMAIN rows : n \in ToSet(rows[k]))
                  <=> \E i \in ToSet(published) : n \in ToSet(renderInboundNodes(s, stack, i))
    BY <1>3 DEF ToSet
  <1> HIDE DEF rows
  <1> QED
    BY <1>6, <1>7, <1>8, FlattenPlaces, FlattenElements

\* The bundle of a loaded set has the shape of inputs.
LEMMA BundleShape ==
    ASSUME FilesShape(files), Loads, NEW target
    PROVE  InputsShape(buildSubBundleInputs(LoadedSet, target))
  <1> DEFINE exported == {s \in StacksWithNodes(LoadedSet) : target \in {"", s.name}}
  <1>1. \A s \in exported : LoadedStack(s) /\ s.name \in ToSet(StackOrder)
    BY LoadedFacts DEF LoadedSet, Loads, StacksWithNodes, LoadedStack
  <1>2. buildSubBundleInputs(LoadedSet, target) =
           [f \in {s.name : s \in exported} |->
               renderStackNodes(LoadedSet, CHOOSE s \in exported : s.name = f)]
    BY DEF buildSubBundleInputs
  <1> HIDE DEF exported
  <1>3. ASSUME NEW f \in {s.name : s \in exported}
        PROVE  (CHOOSE s \in exported : s.name = f) \in exported
    OBVIOUS
  <1>4. DOMAIN buildSubBundleInputs(LoadedSet, target) \subseteq ToSet(StackOrder)
    BY <1>1, <1>2
  <1>5. ASSUME NEW f \in {s.name : s \in exported}
        PROVE  IsList(buildSubBundleInputs(LoadedSet, target)[f])
    BY <1>1, <1>2, <1>3, RenderedNodesList
  <1> QED
    BY <1>2, <1>4, <1>5 DEF InputsShape

\* The invariant holds of every start.
LEMMA InitIInv == Init => IInv
  <1> SUFFICES ASSUME Init PROVE IInv
    OBVIOUS
  <1>1. Disk /\ Served
    BY StartsAssumption, MaxEditsAssumption DEF Init, Disk, Served
  <1>2. Held /\ Planned
    BY DEF Init, Held, Planned, AtMostOne
  <1> QED
    BY <1>1, <1>2 DEF IInv

\* While the disk and the held set stay as they are, so do the facts about plan and scope that stay.
LEMMA PlannedStays ==
    ASSUME Planned, LoadedSet' = LoadedSet, set # {} => set' # {}
    PROVE  /\ plan' = plan /\ scope' = scope => Planned'
           /\ scope' = scope /\ set # {}
                 /\ (\E target : plan' = {BuildDependencyPlan(Graph(LoadedSet), target)}) => Planned'
           /\ plan' = plan /\ set # {}
                 /\ (\E target : \E component \in {"", "xray", "clash"} :
                        \E order \in ResolveTargetScope(Graph(LoadedSet), target, component) :
                           scope' = {[target |-> target, order |-> order]}) => Planned'
  <1> DEFINE PlansOf(plans, s) ==
                \A p \in plans : p = BuildDependencyPlan(Graph(s), p.target)
             ScopesOf(scopes, s) ==
                \A c \in scopes : \E component \in {"", "xray", "clash"} :
                   c.order \in ResolveTargetScope(Graph(s), c.target, component)
  <1>1. /\ PlansOf(plan, LoadedSet) /\ ScopesOf(scope, LoadedSet)
        /\ (plan # {} => set # {}) /\ (scope # {} => set # {})
    BY DEF Planned
  <1>2. (PlansOf(plan', LoadedSet') /\ ScopesOf(scope', LoadedSet')
            /\ (plan' # {} => set' # {}) /\ (scope' # {} => set' # {})) => Planned'
    BY DEF Planned
  <1>3. ASSUME NEW target, plan' = {BuildDependencyPlan(Graph(LoadedSet), target)}
        PROVE  PlansOf(plan', LoadedSet)
    <2> DEFINE p == BuildDependencyPlan(Graph(LoadedSet), target)
    <2>1. p.target = target
      BY DEF BuildDependencyPlan
    <2>2. p = BuildDependencyPlan(Graph(LoadedSet), p.target)
      BY <2>1
    <2> HIDE DEF p
    <2>3. plan' = {p}
      BY <1>3 DEF p
    <2> QED
      BY <2>2, <2>3
  <1>4. ASSUME NEW target, NEW component \in {"", "xray", "clash"},
               NEW order \in ResolveTargetScope(Graph(LoadedSet), target, component),
               scope' = {[target |-> target, order |-> order]}
        PROVE  ScopesOf(scope', LoadedSet)
    <2> DEFINE c == [target |-> target, order |-> order]
    <2>1. c.order = order /\ c.target = target
      OBVIOUS
    <2>2. c.order \in ResolveTargetScope(Graph(LoadedSet), c.target, component)
      BY <2>1
    <2> HIDE DEF c
    <2>3. scope' = {c}
      BY <1>4 DEF c
    <2> QED
      BY <2>2, <2>3
  <1> HIDE DEF PlansOf, ScopesOf
  <1> QED
    BY <1>1, <1>2, <1>3, <1>4

\* Every command keeps the invariant: an edit drops nothing that is held, a load takes what the
\* files give, a plan and a scope are those of the graph, an import leaves inputs that merge.
LEMMA NextIInv == IInv /\ [Next]_vars => IInv'
  <1> SUFFICES ASSUME IInv, [Next]_vars PROVE IInv'
    OBVIOUS
  <1> USE DEF IInv
  <1>1. CASE Load
    <2>1. Disk' /\ Served'
      BY <1>1 DEF Load, Disk, Served, disk, server
    <2>2. UNCHANGED <<configs, plan, scope>> /\ Loads' = Loads /\ LoadedSet' = LoadedSet
      BY <1>1 DEF Load, Loads, LoadedSet, disk
    <2>3. configs = <<>> /\ set = {}
      BY <1>1 DEF Load, Held
    <2>4. Planned'
      BY <2>2, <2>3, PlannedStays
    <2>5. CASE Loads
      <3>1. Loads' /\ set' = {LoadedSet'}
        BY <1>1, <2>2, <2>5 DEF Load
      <3> QED
        BY <2>1, <2>2, <2>3, <2>4, <3>1 DEF Held, AtMostOne
    <2>6. CASE ~Loads
      <3>1. set' = {}
        BY <1>1, <2>6 DEF Load
      <3> QED
        BY <2>1, <2>2, <2>3, <2>4, <3>1 DEF Held, AtMostOne
    <2> QED
      BY <2>5, <2>6
  <1>2. CASE Render
    <2>1. Disk' /\ Served' /\ UNCHANGED <<set, plan, scope>>
      BY <1>2 DEF Render, Disk, Served, disk, server
    <2>2. Loads' = Loads /\ LoadedSet' = LoadedSet
      BY <1>2 DEF Render, Loads, LoadedSet, disk
    <2>3. PICK s \in set : configs' = [n \in CollectServiceNodes(s) |-> RenderNode(s, n)]
      BY <1>2 DEF Render
    <2>4. s = LoadedSet /\ set # {}
      BY <2>3 DEF Held
    <2>5. \A n : RenderNode(LoadedSet, n)' = RenderNode(LoadedSet, n)
      <3>1. UNCHANGED <<config, files, disabled>>
        BY <1>2 DEF Render, disk
      <3> QED
        BY <3>1 DEF LoadedSet, RenderNode
    <2>6. configs' = [n \in CollectServiceNodes(LoadedSet') |-> RenderNode(LoadedSet, n)']
      BY <2>2, <2>3, <2>4, <2>5
    <2>7. Planned'
      BY <2>1, <2>2, PlannedStays
    <2> QED
      BY <2>1, <2>2, <2>4, <2>6, <2>7 DEF Held, AtMostOne
  <1>3. CASE Done
    BY <1>3 DEF Done, Forget, Disk, Served, Held, Planned, AtMostOne, disk, server
  <1>4. ASSUME NEW n \in ToSet(StackOrder), Edit(n) PROVE IInv'
    <2>1. FilesShape(files')
      BY <1>4, PutKeepsShape, DropKeepsShape, ContentsAssumption DEF Edit, Disk
    <2>2. edits' \in 0..MaxEdits
      BY <1>4, MaxEditsAssumption DEF Edit, Disk
    <2>3. /\ set' = {} /\ configs' = <<>> /\ plan' = {} /\ scope' = {}
          /\ UNCHANGED <<config, plan, scope, inputs>>
      BY <1>4 DEF Edit, results, server, Held, Planned
    <2> QED
      BY <2>1, <2>2, <2>3 DEF Disk, Served, Held, Planned, AtMostOne
  <1>5. ASSUME NEW target, Plan(target) PROVE IInv'
    <2>1. UNCHANGED <<disk, set, configs, scope, server>> /\ AtMostOne(plan') /\ configs = <<>>
      BY <1>5 DEF Plan, Fresh, Held, AtMostOne
    <2>2. Loads' = Loads /\ LoadedSet' = LoadedSet
      BY <2>1 DEF Loads, LoadedSet, disk
    <2>3. PICK s \in set : plan' = {BuildDependencyPlan(Graph(s), target)}
      BY <1>5 DEF Plan
    <2>4. s = LoadedSet /\ set # {}
      BY <2>3 DEF Held
    <2>5. Planned'
      BY <2>1, <2>2, <2>3, <2>4, PlannedStays
    <2> QED
      BY <2>1, <2>2, <2>5 DEF Disk, Served, Held, AtMostOne, disk, server
  <1>6. ASSUME NEW target, NEW component \in {"", "xray", "clash"}, Scope(target, component) PROVE IInv'
    <2>1. UNCHANGED <<disk, set, configs, plan, server>> /\ AtMostOne(scope') /\ configs = <<>>
      BY <1>6 DEF Scope, Fresh, Held, AtMostOne
    <2>2. Loads' = Loads /\ LoadedSet' = LoadedSet
      BY <2>1 DEF Loads, LoadedSet, disk
    <2>3. PICK s \in set : \E order \in ResolveTargetScope(Graph(s), target, component) :
                               scope' = {[target |-> target, order |-> order]}
      BY <1>6 DEF Scope
    <2>4. s = LoadedSet /\ set # {}
      BY <2>3 DEF Held
    <2>5. Planned'
      BY <2>1, <2>2, <2>3, <2>4, PlannedStays
    <2> QED
      BY <2>1, <2>2, <2>5 DEF Disk, Served, Held, AtMostOne, disk, server
  <1>7. ASSUME NEW target, NEW replaceAll \in BOOLEAN, Publish(target, replaceAll) PROVE IInv'
    <2>1. PICK s \in set :
             LET bundle == buildSubBundleInputs(s, target)
             IN  /\ ExtractBundleAccepted(inputs, bundle, replaceAll)
                 /\ inputs' = BundleTarget(inputs, bundle, replaceAll)
      BY <1>7 DEF Publish
    <2> DEFINE bundle == buildSubBundleInputs(s, target)
    <2>2. InputsShape(bundle)
      BY BundleShape DEF Disk, Held
    <2>3. InputsShape(inputs)' /\ MergeInputs(inputs)'
      <3> HIDE DEF bundle
      <3>1. MergeInputs(inputs')
        BY <2>1 DEF ExtractBundleAccepted, bundle
      <3>2. InputsShape(inputs')
        BY <2>1, <2>2 DEF BundleTarget, InputsShape, Served, bundle
      <3> QED
        BY <3>1, <3>2 DEF InputsShape
    <2>4. UNCHANGED disk /\ Forget
      BY <1>7 DEF Publish
    <2> QED
      BY <2>3, <2>4 DEF Disk, Served, Held, Planned, Forget, AtMostOne, disk
  <1>8. CASE UNCHANGED vars
    <2>1. UNCHANGED <<config, files, disabled, edits, set, configs, plan, scope, inputs>>
      BY <1>8 DEF vars, disk, results, server
    <2>2. Loads' = Loads /\ LoadedSet' = LoadedSet /\ \A n : RenderNode(LoadedSet, n)' = RenderNode(LoadedSet, n)
      BY <2>1 DEF Loads, LoadedSet, RenderNode
    <2>3. Planned'
      BY <2>1, <2>2, PlannedStays
    <2> QED
      BY <2>1, <2>2, <2>3 DEF Disk, Served, Held, AtMostOne
  <1> QED
    BY <1>1, <1>2, <1>3, <1>4, <1>5, <1>6, <1>7, <1>8 DEF Next

(***************************************************************************)
(* The inputs of a server.                                                 *)
(***************************************************************************)

\* All nodes of a directory of inputs; they are distinct if no two nodes of the files have one key.
LEMMA AllInputNodesFacts ==
    ASSUME NEW in, InputsShape(in)
    PROVE  /\ IsList(AllInputNodes(in))
           /\ \A n : n \in ToSet(AllInputNodes(in)) <=> \E f \in DOMAIN in : n \in ToSet(in[f])
           /\ \A key : (\A f, g \in DOMAIN in : \A k \in DOMAIN in[f], l \in DOMAIN in[g] :
                           key[in[f][k]] = key[in[g][l]] => f = g /\ k = l)
                       => DistinctRow(AllInputNodes(in), key)
  <1> DEFINE names == NamesOf(in)
             rows == [k \in DOMAIN names |-> in[names[k]]]
  <1>1. /\ IsList(names) /\ ToSet(names) = DOMAIN in
        /\ \A j, k \in DOMAIN names : names[j] = names[k] => j = k
    BY NamesOfFacts DEF InputsShape
  <1>2. AllInputNodes(in) = FlattenSeq(rows \o <<>>)
    BY DEF AllInputNodes, Column, NamesOf
  <1> HIDE DEF names
  <1>3. IsList(rows) /\ rows \o <<>> = rows /\ DOMAIN rows = DOMAIN names
    <2>1. DOMAIN names = 1..Len(names) /\ Len(names) \in Nat
      BY <1>1, ListShape
    <2>2. rows = [k \in 1..Len(names) |-> rows[k]]
      BY <2>1
    <2> HIDE DEF rows
    <2> QED
      BY <2>1, <2>2, FunctionIsList, ListShape
  <1>4. \A k \in DOMAIN names : names[k] \in DOMAIN in /\ rows[k] = in[names[k]]
    BY <1>1 DEF ToSet
  <1>5. \A f \in DOMAIN in : \E k \in DOMAIN names : names[k] = f
    BY <1>1 DEF ToSet
  <1> HIDE DEF rows
  <1>6. IsTable(rows)
    BY <1>3, <1>4 DEF IsTable, InputsShape
  <1>7. \A n : n \in ToSet(AllInputNodes(in)) <=> \E f \in DOMAIN in : n \in ToSet(in[f])
    BY <1>2, <1>3, <1>4, <1>5, <1>6, FlattenElements
  <1>8. ASSUME NEW key,
               \A f, g \in DOMAIN in : \A k \in DOMAIN in[f], l \in DOMAIN in[g] :
                           key[in[f][k]] = key[in[g][l]] => f = g /\ k = l
        PROVE  DistinctRow(AllInputNodes(in), key)
    <2>1. DistinctCells(rows, key)
      BY <1>1, <1>3, <1>4, <1>8 DEF DistinctCells
    <2> QED
      BY <1>2, <1>3, <1>6, <2>1, FlattenDistinct
  <1> QED
    BY <1>2, <1>3, <1>6, <1>7, <1>8, FlattenPlaces

\* The nodes of a user are a list.
LEMMA NodesForUserList ==
    ASSUME NEW in, InputsShape(in), NEW user
    PROVE  IsList(NodesForUser(in, user))
  <1> DEFINE nodes == AllInputNodes(in)
             rows == [k \in DOMAIN nodes |-> IF nodes[k].user = user THEN <<nodes[k]>> ELSE <<>>]
  <1>1. IsList(nodes)
    BY AllInputNodesFacts
  <1>2. NodesForUser(in, user) = FlattenSeq(rows)
    BY DEF NodesForUser, Keep
  <1> HIDE DEF nodes
  <1>3. rows = [k \in DOMAIN nodes |-> rows[k]] /\ \A k \in DOMAIN nodes : rows[k] \in {<<>>, <<nodes[k]>>}
    OBVIOUS
  <1> HIDE DEF rows
  <1> QED
    BY <1>1, <1>2, <1>3, KeepFacts

\* No group of a list of nodes names a proxy that has no line.
LEMMA GroupsDefined ==
    ASSUME NEW nodes, IsList(nodes)
    PROVE  RenderSurgeGroups(nodes) \subseteq RenderSurgeProxies(nodes)
  <1> DEFINE rows == [k \in DOMAIN nodes |-> IF SurgeSupports(nodes[k]) THEN <<nodes[k]>> ELSE <<>>]
             kept == filterSurgeSupportedNodes(nodes)
  <1>1. kept = FlattenSeq(rows)
    BY DEF filterSurgeSupportedNodes, Keep
  <1>2. \A k \in DOMAIN nodes : rows[k] \in {<<>>, <<nodes[k]>>}
    OBVIOUS
  <1>3. \A k \in DOMAIN nodes : rows[k] # <<>> => SurgeSupports(nodes[k])
    OBVIOUS
  <1>4. rows = [k \in DOMAIN nodes |-> rows[k]]
    OBVIOUS
  <1> HIDE DEF rows, kept
  <1>5. IsList(kept) /\ \A n \in ToSet(kept) : SurgeSupports(n)
    BY <1>1, <1>2, <1>3, <1>4, KeepFacts
  <1> DEFINE names == [k \in DOMAIN kept |-> kept[k].remark]
  <1>6. ProxyNames(kept) = names
    <2>1. DOMAIN kept = 1..Len(kept) /\ Len(kept) \in Nat
      BY <1>5, ListShape
    <2>2. names = [k \in 1..Len(kept) |-> names[k]]
      BY <2>1
    <2>3. ProxyNames(kept) = names \o <<>>
      BY DEF ProxyNames, Column
    <2> HIDE DEF names
    <2> QED
      BY <2>1, <2>2, <2>3, FunctionIsList
  <1>7. \A n \in ToSet(kept) : validInboundProtocol(n.protocol)
    BY <1>5 DEF SurgeSupports, validInboundProtocol
  <1>8. \A name \in ToSet(names) : \E n \in ToSet(kept) : name = n.remark
    BY DEF ToSet
  <1> QED
    BY <1>6, <1>7, <1>8 DEF RenderSurgeGroups, RenderSurgeProxies, kept

\* What the invariant says of the inputs is what their two properties ask.
LEMMA ServedProperties ==
    ASSUME Served
    PROVE  InputsStayMergeable /\ SurgeGroupsDefined
  BY NodesForUserList, GroupsDefined DEF Served, InputsStayMergeable, SurgeGroupsDefined

(***************************************************************************)
(* A loaded set, and what is rendered from it.                             *)
(***************************************************************************)

\* What loading promises of a set.
GoodSet(s) ==
    /\ IsList(s.stacks)
    /\ \A j, k \in DOMAIN s.stacks : s.stacks[j].name = s.stacks[k].name => j = k
    /\ \A a, b \in ToSet(s.stacks) : a.name = b.name => a = b
    /\ \A a \in ToSet(s.stacks) : LoadedStack(a)
    /\ ValidateStackSet(s, Occupied)

\* The set a command holds is good, and the configs are those of its nodes.
LEMMA HeldFacts ==
    ASSUME IInv, NEW s \in set
    PROVE  /\ GoodSet(s) /\ s.config = config /\ ValidateConfig(s.config)
           /\ configs # <<>> => DOMAIN configs = CollectServiceNodes(s)
           /\ \A n \in DOMAIN configs : n \in CollectServiceNodes(s) /\ configs[n] = RenderNode(s, n)
  <1>1. s = LoadedSet /\ FilesShape(files) /\ LoadsWith(config, files, Occupied)
    BY DEF IInv, Held, Disk, Loads
  <1>2. GoodSet(s) /\ s.config = config
    BY <1>1, LoadedFacts DEF GoodSet, LoadedSet
  <1>3. ValidateConfig(config)
    BY <1>1 DEF LoadsWith
  <1>4. configs = <<>> \/ configs = [n \in CollectServiceNodes(s) |-> RenderNode(s, n)]
    BY <1>1 DEF IInv, Held
  <1>5. DOMAIN <<>> = {}
    OBVIOUS
  <1> QED
    BY <1>2, <1>3, <1>4, <1>5

\* The stack of a name is that of the name.
LEMMA StackOfFacts ==
    ASSUME NEW s, GoodSet(s), NEW t \in ToSet(s.stacks)
    PROVE  StackOf(s, t.name) = t
  <1>1. t \in ByName(s, t.name) /\ \A u \in ByName(s, t.name) : u = t
    BY DEF ByName, GoodSet
  <1> QED
    BY <1>1 DEF StackOf

\* A node is a component of one stack that is on.
LEMMA NodeStack ==
    ASSUME NEW s, GoodSet(s), NEW n \in CollectServiceNodes(s)
    PROVE  /\ StackOf(s, n[1]) \in ToSet(s.stacks) /\ LoadedStack(StackOf(s, n[1]))
           /\ StackOf(s, n[1]).name = n[1]
           /\ \/ n = <<n[1], "xray">> /\ n[2] = "xray" /\ XrayOn(StackOf(s, n[1]))
              \/ n = <<n[1], "clash">> /\ n[2] = "clash" /\ ClashOn(StackOf(s, n[1]))
  <1>1. PICK t \in ToSet(s.stacks) : \/ n = <<t.name, "xray">> /\ XrayOn(t)
                                     \/ n = <<t.name, "clash">> /\ ClashOn(t)
    BY DEF CollectServiceNodes
  <1>2. n[1] = t.name /\ StackOf(s, t.name) = t
    BY <1>1, StackOfFacts
  <1> QED
    BY <1>1, <1>2 DEF GoodSet

\* What is rendered for the two components of a stack.
LEMMA RenderedNode ==
    ASSUME NEW s, GoodSet(s), NEW t \in ToSet(s.stacks)
    PROVE  /\ RenderNode(s, <<t.name, "xray">>) =
                 IF XrayRenders(s, t, disabled) THEN <<RenderXray(s, t, disabled)>> ELSE <<>>
           /\ RenderNode(s, <<t.name, "clash">>) =
                 IF MihomoRenders(t) THEN <<RenderMihomo(s, t)>> ELSE <<>>
           /\ XrayOn(t) => <<t.name, "xray">> \in CollectServiceNodes(s)
           /\ ClashOn(t) => <<t.name, "clash">> \in CollectServiceNodes(s)
  <1>1. ASSUME NEW n, n[1] = t.name
        PROVE  RenderNode(s, n) =
                  IF n[2] = "xray"
                  THEN IF XrayRenders(s, t, disabled) THEN <<RenderXray(s, t, disabled)>> ELSE <<>>
                  ELSE IF MihomoRenders(t) THEN <<RenderMihomo(s, t)>> ELSE <<>>
    <2>1. StackOf(s, n[1]) = t
      BY <1>1, StackOfFacts
    <2> QED
      BY <2>1 DEF RenderNode
  <1>2. \A c : <<t.name, c>>[1] = t.name /\ <<t.name, c>>[2] = c
    OBVIOUS
  <1>3. "clash" # "xray"
    OBVIOUS
  <1>4. RenderNode(s, <<t.name, "xray">>) =
            IF XrayRenders(s, t, disabled) THEN <<RenderXray(s, t, disabled)>> ELSE <<>>
    <2> DEFINE n == <<t.name, "xray">>
    <2>1. n[1] = t.name /\ n[2] = "xray"
      BY <1>2
    <2> HIDE DEF n
    <2> QED
      BY <1>1, <2>1 DEF n
  <1>5. RenderNode(s, <<t.name, "clash">>) =
            IF MihomoRenders(t) THEN <<RenderMihomo(s, t)>> ELSE <<>>
    <2> DEFINE n == <<t.name, "clash">>
    <2>1. n[1] = t.name /\ n[2] # "xray"
      BY <1>2, <1>3
    <2> HIDE DEF n
    <2> QED
      BY <1>1, <2>1 DEF n
  <1> QED
    BY <1>4, <1>5 DEF CollectServiceNodes

\* The users of an inbound that are not disabled, where users can be.
LEMMA EnabledUsers ==
    ASSUME NEW s, NEW i, InboundShape(i)
    PROVE  /\ IsList(enabledInboundUsers(s, i, disabled))
           /\ \A u : u \in ToSet(enabledInboundUsers(s, i, disabled))
                        <=> /\ u \in ToSet(i.users)
                            /\ SupportsUserToggle(i.protocol) => <<s.name, u.user>> \notin disabled
  <1> DEFINE users == i.users
             rows == [k \in DOMAIN users |->
                         IF <<s.name, users[k].user>> \notin disabled THEN <<users[k]>> ELSE <<>>]
  <1>1. IsList(users)
    BY DEF InboundShape
  <1>2. enabledInboundUsers(s, i, disabled) = IF SupportsUserToggle(i.protocol) THEN FlattenSeq(rows) ELSE users
    BY DEF enabledInboundUsers, Keep
  <1>3. /\ \A k \in DOMAIN users : rows[k] \in {<<>>, <<users[k]>>}
        /\ \A k \in DOMAIN users : rows[k] # <<>> <=> <<s.name, users[k].user>> \notin disabled
        /\ rows = [k \in DOMAIN users |-> rows[k]]
    OBVIOUS
  <1> HIDE DEF rows
  <1>4. /\ IsList(FlattenSeq(rows))
        /\ \A u : u \in ToSet(FlattenSeq(rows)) <=> \E k \in DOMAIN users : rows[k] # <<>> /\ u = users[k]
    BY <1>1, <1>3, KeepFacts
  <1>5. \A u : (\E k \in DOMAIN users : rows[k] # <<>> /\ u = users[k])
                  <=> u \in ToSet(users) /\ <<s.name, u.user>> \notin disabled
    BY <1>3 DEF ToSet
  <1> QED
    BY <1>1, <1>2, <1>4, <1>5

\* The socks listener a ref of a good set names.
LEMMA SocksEndpoint ==
    ASSUME NEW s, GoodSet(s), NEW ref, ref[3] = "socks",
           NEW e \in ResolveClashListener(s, ref)
    PROVE  \E t \in ToSet(s.stacks) :
              /\ ClashOn(t) /\ t.name = ref[1]
              /\ Len(t.clash.listeners.socks) = 1 /\ 1 \in DOMAIN t.clash.listeners.socks
              /\ e.kind = "socks" /\ e.listen = t.clash.listeners.socks[1].listen
              /\ e.port = t.clash.listeners.socks[1].port
              /\ e.users = t.clash.listeners.socks[1].users
  <1>1. PICK t \in ToSet(s.stacks) : ClashOn(t) /\ e \in IndexClashListeners(t) /\ e.ref = ref
    BY DEF ResolveClashListener, ClashListenerIndex
  <1> DEFINE socks == t.clash.listeners.socks
             http == t.clash.listeners.http
  <1>2. /\ \/ e \in IndexListeners(t, "socks", socks)
           \/ e \in IndexListeners(t, "http", http)
        /\ IsList(socks) /\ Len(socks) <= 1
    BY <1>1 DEF IndexClashListeners, GoodSet, LoadedStack, ClashShape, ListOf, ValidateClash, ValidateListeners
  <1> HIDE DEF socks, http
  <1>3. e \in IndexListeners(t, "socks", socks)
    <2>1. ASSUME e \in IndexListeners(t, "http", http) PROVE e.ref[3] = "http"
      BY <2>1 DEF IndexListeners
    <2> QED
      BY <1>1, <1>2, <2>1
  <1>4. PICK k \in DOMAIN socks :
           /\ e.ref = <<t.name, "clash", "socks">> /\ e.kind = "socks"
           /\ e.listen = socks[k].listen /\ e.port = socks[k].port /\ e.users = socks[k].users
    BY <1>3 DEF IndexListeners
  <1>5. k = 1 /\ Len(socks) = 1
    <2>1. DOMAIN socks = 1..Len(socks) /\ Len(socks) \in Nat
      BY <1>2, ListShape
    <2> QED
      BY <1>2, <1>4, <2>1
  <1>6. t.name = ref[1]
    BY <1>1, <1>4
  <1> QED
    BY <1>1, <1>4, <1>5, <1>6 DEF socks

\* The outbounds of a good set that RenderOutbound refuses.
LEMMA UnrenderedOutbound ==
    ASSUME NEW s, GoodSet(s), NEW t \in ToSet(s.stacks), LoadedStack(t), XrayOn(t),
           ~OutboundRenders(s, t.xray.outbound)
    PROVE  LET o == t.xray.outbound
           IN  \/ o.type \in {"socks5", "http"} /\ (o.username = "") # (o.password = "")
               \/ o.type = "clash" /\ \E e \in ResolveClashListener(s, o.ref) : e.listen = ""
  <1> DEFINE o == t.xray.outbound
             e == ClashEndpoint(s, o)
  <1>1. ValidateOutbound(o) /\ \A port : ValidatePort(port) => port # 0
    BY DEF LoadedStack, ValidatePort
  <1>2. CASE o.type \in {"socks5", "http"}
    <2>1. ~ProxyOutboundRenders(o.server, o.port, o.username, o.password)
      BY <1>2 DEF OutboundRenders
    <2>2. o.server # "" /\ o.port # 0
      BY <1>1, <1>2 DEF ValidateOutbound
    <2> QED
      BY <1>2, <2>1, <2>2 DEF ProxyOutboundRenders, AccountComplete
  <1>3. CASE o.type = "clash"
    <2>1. o.ref[3] = "socks" /\ ResolveClashListener(s, o.ref) # {}
      <3>1. XrayRefResolves(s, t)
        BY DEF GoodSet, ValidateStackSet, ValidReferenceGraph, RefsResolve
      <3> QED
        BY <1>3, <3>1 DEF XrayRefResolves
    <2>2. e \in ResolveClashListener(s, o.ref)
      BY <2>1, SocksEndpoint DEF ClashEndpoint
    <2> DEFINE u == firstEndpointUser(e)
    <2>3. ~ProxyOutboundRenders(NormalizeInternalEndpointAddress(e.listen), e.port, u.username, u.password)
      BY <1>3 DEF OutboundRenders
    <2> HIDE DEF e
    <2>4. PICK r \in ToSet(s.stacks) :
              /\ ClashOn(r) /\ 1 \in DOMAIN r.clash.listeners.socks
              /\ e.port = r.clash.listeners.socks[1].port
              /\ e.users = r.clash.listeners.socks[1].users
      BY <2>1, <2>2, SocksEndpoint
    <2> DEFINE first == r.clash.listeners.socks[1]
    <2>5. ValidatePort(first.port) /\ IsList(first.users)
          /\ \A k \in DOMAIN first.users : ValidateListenerUser(first.users[k])
      BY <2>4 DEF GoodSet, LoadedStack, ClashShape, ListOf, ListenerShape, ValidateClash,
                  ValidateListeners, ValidateListener
    <2>6. AccountComplete(u.username, u.password)
      <3>1. CASE e.users = <<>>
        BY <3>1 DEF firstEndpointUser, AccountComplete
      <3>2. CASE e.users # <<>>
        <4>1. 1 \in DOMAIN e.users
          BY <2>4, <2>5, <3>2, ListShape
        <4>2. u = e.users[1] /\ ValidateListenerUser(e.users[1])
          BY <2>4, <2>5, <3>2, <4>1 DEF firstEndpointUser
        <4> QED
          BY <4>2 DEF ValidateListenerUser, AccountComplete
      <3> QED
        BY <3>1, <3>2
    <2>7. NormalizeInternalEndpointAddress(e.listen) = ""
      <3>1. e.port # 0
        BY <1>1, <2>4, <2>5
      <3> QED
        BY <2>3, <2>6, <3>1 DEF ProxyOutboundRenders
    <2>8. e.listen = ""
      BY <2>7 DEF NormalizeInternalEndpointAddress
    <2> QED
      BY <1>3, <2>2, <2>8
  <1>4. CASE o.type = "direct"
    BY <1>4 DEF OutboundRenders
  <1> QED
    BY <1>1, <1>2, <1>3, <1>4 DEF ValidateOutbound

\* A set that loads is rendered, but for the cases the property names.
LEMMA UnlessKnown == IInv => RenderedUnlessKnown
  <1> SUFFICES ASSUME IInv, NEW s \in set, NEW n \in DOMAIN configs, configs[n] = <<>>
               PROVE  LET stack == StackOf(s, n[1])
                          o == stack.xray.outbound
                      IN  \/ n[2] = "clash" /\ stack.clash.listeners.socks = <<>>
                          \/ n[2] = "xray" /\ o.type \in {"socks5", "http"}
                               /\ (o.username = "") # (o.password = "")
                          \/ n[2] = "xray" /\ o.type = "clash"
                               /\ \E e \in ResolveClashListener(s, o.ref) : e.listen = ""
                          \/ n[2] = "xray" /\ \E i \in ToSet(stack.xray.inbounds) :
                                 i.users # <<>> /\ \A u \in ToSet(i.users) : <<n[1], u.user>> \in disabled
    BY DEF RenderedUnlessKnown
  <1> DEFINE stack == StackOf(s, n[1])
  <1>1. GoodSet(s) /\ n \in CollectServiceNodes(s) /\ configs[n] = RenderNode(s, n)
    BY HeldFacts
  <1>2. /\ LoadedStack(stack) /\ stack.name = n[1]
        /\ n[2] = "xray" \/ n[2] = "clash"
    BY <1>1, NodeStack
  <1>3. RenderNode(s, n) = IF n[2] = "xray"
            THEN IF XrayRenders(s, stack, disabled) THEN <<RenderXray(s, stack, disabled)>> ELSE <<>>
            ELSE IF MihomoRenders(stack) THEN <<RenderMihomo(s, stack)>> ELSE <<>>
    BY DEF RenderNode
  <1>4. \A x : <<x>> # <<>>
    OBVIOUS
  <1> HIDE DEF stack
  <1>5. CASE n[2] = "clash"
    <2>1. ~MihomoRenders(stack)
      BY <1>1, <1>3, <1>4, <1>5
    <2>2. IsList(stack.clash.listeners.socks) /\ Len(stack.clash.listeners.socks) <= 1
      BY <1>2 DEF LoadedStack, ClashShape, ListOf, ValidateClash, ValidateListeners
    <2>3. stack.clash.listeners.socks = <<>>
      <3>1. \A x : IsList(x) /\ Len(x) <= 1 /\ Len(x) # 1 => x = <<>>
        <4> TAKE x
        <4> HAVE IsList(x) /\ Len(x) <= 1 /\ Len(x) # 1
        <4>1. Len(x) \in Nat /\ (x = <<>> <=> Len(x) = 0)
          BY ListShape
        <4> QED
          BY <4>1
      <3>2. Len(stack.clash.listeners.socks) # 1
        BY <2>1 DEF MihomoRenders
      <3> QED
        BY <2>2, <3>1, <3>2
    <2> QED
      BY <1>5, <2>3 DEF stack
  <1>6. CASE n[2] = "xray"
    <2>1. ~XrayRenders(s, stack, disabled)
      BY <1>1, <1>3, <1>4, <1>6
    <2>2. CASE ~OutboundRenders(s, stack.xray.outbound)
      <3>1. stack \in ToSet(s.stacks) /\ XrayOn(stack)
        BY <1>1, <1>2, <1>6, NodeStack DEF stack
      <3>2. \/ /\ stack.xray.outbound.type \in {"socks5", "http"}
               /\ (stack.xray.outbound.username = "") # (stack.xray.outbound.password = "")
            \/ /\ stack.xray.outbound.type = "clash"
               /\ \E e \in ResolveClashListener(s, stack.xray.outbound.ref) : e.listen = ""
        BY <1>1, <1>2, <2>2, <3>1, UnrenderedOutbound
      <3> QED
        BY <1>6, <3>2 DEF stack
    <2>3. CASE \E i \in ToSet(stack.xray.inbounds) : ~SomeUserLeft(stack, i, disabled)
      <3>1. PICK i \in ToSet(stack.xray.inbounds) :
               i.users # <<>> /\ enabledInboundUsers(stack, i, disabled) = <<>>
        BY <2>3 DEF SomeUserLeft
      <3>2. InboundShape(i)
        BY <1>2 DEF LoadedStack, LoadedInbound, ToSet
      <3>3. SupportsUserToggle(i.protocol)
        BY <3>1 DEF enabledInboundUsers
      <3>4. \A u \in ToSet(i.users) : <<stack.name, u.user>> \in disabled
        <4>1. ToSet(<<>>) = {}
          BY DEF ToSet
        <4> QED
          BY <3>1, <3>2, <3>3, <4>1, EnabledUsers
      <3> QED
        BY <1>2, <1>6, <3>1, <3>4 DEF stack
    <2> QED
      BY <2>1, <2>2, <2>3 DEF XrayRenders
  <1> QED
    BY <1>2, <1>5, <1>6

\* Inbound k of a rendered config is inbound k of the stack, and its first outbound is that of the stack.
LEMMA XrayParts ==
    ASSUME NEW s, NEW t, IsList(t.xray.inbounds)
    PROVE  LET c == RenderXray(s, t, disabled)
           IN  /\ IsList(c.inbounds) /\ DOMAIN c.inbounds = DOMAIN t.xray.inbounds
               /\ \A k \in DOMAIN t.xray.inbounds :
                     c.inbounds[k] = RenderInbound(t.xray.inbounds[k],
                                         enabledInboundUsers(t, t.xray.inbounds[k], disabled))
               /\ c.outbounds[1] = RenderOutbound(s, t.xray.outbound)
  <1> DEFINE c == RenderXray(s, t, disabled)
             cells == [k \in DOMAIN t.xray.inbounds |->
                          RenderInbound(t.xray.inbounds[k],
                                        enabledInboundUsers(t, t.xray.inbounds[k], disabled))]
             direct == IF t.xray.outbound.private_direct /\ t.xray.outbound.type \in {"socks5", "http"}
                       THEN <<freedom>> ELSE <<>>
  <1>1. c.inbounds = cells \o <<>> /\ c.outbounds = <<RenderOutbound(s, t.xray.outbound)>> \o direct
    BY DEF RenderXray, Column, RenderOutbounds
  <1>2. cells = [k \in DOMAIN t.xray.inbounds |-> cells[k]]
    OBVIOUS
  <1>3. \A k \in DOMAIN t.xray.inbounds :
           cells[k] = RenderInbound(t.xray.inbounds[k],
                                    enabledInboundUsers(t, t.xray.inbounds[k], disabled))
    OBVIOUS
  <1>4. IsList(direct)
    <2>1. IsList(<<>>)
      BY EmptySeq DEF IsList
    <2>2. IsList(<<freedom>>)
      BY SingletonList
    <2> QED
      BY <2>1, <2>2
  <1> HIDE DEF cells, direct, c
  <1>5. cells \o <<>> = cells /\ IsList(cells) /\ DOMAIN cells = DOMAIN t.xray.inbounds
    BY <1>2, ColumnFacts
  <1>6. c.outbounds[1] = RenderOutbound(s, t.xray.outbound)
    BY <1>1, <1>4, SingletonList, ListConcat
  <1> QED
    BY <1>1, <1>3, <1>5, <1>6 DEF c

\* The first listener of a rendered mihomo is its socks listener, and proxy k is upstream k.
LEMMA MihomoParts ==
    ASSUME NEW s, NEW t, IsList(t.clash.listeners.http), IsList(t.clash.upstreams)
    PROVE  LET c == RenderMihomo(s, t)
           IN  /\ 1 \in DOMAIN c.listeners
               /\ c.listeners[1] = renderListener("socks", t.clash.listeners.socks[1], {})
               /\ \A k \in DOMAIN t.clash.upstreams :
                     t.clash.upstreams[k].type # "raw" =>
                        c.proxies[k] = renderXraySocks5Proxy(s, t.clash.upstreams[k])
  <1> DEFINE c == RenderMihomo(s, t)
             http == t.clash.listeners.http
             ups == t.clash.upstreams
             web == [k \in DOMAIN http |-> renderListener("http", http[k], {t.clash.listeners.socks[1].name})]
             cells == [k \in DOMAIN ups |-> IF ups[k].type = "raw" THEN renderRawProxy(ups[k])
                                            ELSE renderXraySocks5Proxy(s, ups[k])]
             first == renderListener("socks", t.clash.listeners.socks[1], {})
  <1>1. c.listeners = <<first>> \o (web \o <<>>) /\ c.proxies = cells \o <<>>
    BY DEF RenderMihomo, Column, renderListeners, renderProxies
  <1>2. cells = [k \in DOMAIN ups |-> cells[k]] /\ web = [k \in DOMAIN http |-> web[k]]
    OBVIOUS
  <1>3. \A k \in DOMAIN ups : ups[k].type # "raw" => cells[k] = renderXraySocks5Proxy(s, ups[k])
    OBVIOUS
  <1> HIDE DEF cells, web, first, c
  <1>4. cells \o <<>> = cells /\ web \o <<>> = web /\ IsList(web)
    BY <1>2, ColumnFacts
  <1>5. /\ IsList(<<first>> \o web) /\ Len(<<first>> \o web) = 1 + Len(web)
        /\ (<<first>> \o web)[1] = first
    BY <1>4, SingletonList, ListConcat
  <1>6. 1 \in DOMAIN (<<first>> \o web)
    BY <1>4, <1>5, ListShape
  <1> QED
    BY <1>1, <1>3, <1>4, <1>5, <1>6 DEF c, first

\* What an Xray sends to a mihomo arrives.
LEMMA XrayLinkConnects ==
    ASSUME IInv, NEW s \in set, NEW n \in DOMAIN configs, configs[n] # <<>>, n[2] = "xray",
           StackOf(s, n[1]).xray.outbound.type = "clash"
    PROVE  LET o == configs[n][1].outbounds[1]
               target == configs[<<StackOf(s, n[1]).xray.outbound.ref[1], "clash">>]
           IN  \E k \in DOMAIN target[1].listeners :
                  LET l == target[1].listeners[k]
                  IN  /\ l.type = "socks" /\ Reachable(o.address, o.port, l.listen, l.port)
                      /\ LetsIn(l.users, o.users)
  <1> DEFINE stack == StackOf(s, n[1])
             ref == stack.xray.outbound.ref
             o == configs[n][1].outbounds[1]
             target == configs[<<ref[1], "clash">>]
  <1>1. /\ GoodSet(s) /\ DOMAIN configs = CollectServiceNodes(s)
        /\ \A m \in DOMAIN configs : configs[m] = RenderNode(s, m)
        /\ n \in CollectServiceNodes(s)
    <2>1. DOMAIN <<>> = {}
      OBVIOUS
    <2>2. configs # <<>>
      BY <2>1
    <2> QED
      BY <2>2, HeldFacts
  <1>2. stack \in ToSet(s.stacks) /\ LoadedStack(stack) /\ XrayOn(stack)
    BY <1>1, NodeStack
  <1>3. configs[n] = <<RenderXray(s, stack, disabled)>> /\ XrayRenders(s, stack, disabled)
    BY <1>1 DEF RenderNode
  <1> HIDE DEF stack
  <1>4. /\ ref[3] = "socks" /\ ResolveClashListener(s, ref) # {}
    <2>1. XrayRefResolves(s, stack)
      BY <1>1, <1>2 DEF GoodSet, ValidateStackSet, ValidReferenceGraph, RefsResolve
    <2> QED
      BY <1>2, <2>1 DEF XrayRefResolves, stack
  <1> HIDE DEF ref
  <1> DEFINE e == CHOOSE f \in ResolveClashListener(s, ref) : f.kind = "socks"
  <1>5. e \in ResolveClashListener(s, ref)
    BY <1>1, <1>4, SocksEndpoint
  <1>6. PICK t \in ToSet(s.stacks) :
              /\ ClashOn(t) /\ t.name = ref[1]
              /\ Len(t.clash.listeners.socks) = 1 /\ 1 \in DOMAIN t.clash.listeners.socks
              /\ e.listen = t.clash.listeners.socks[1].listen
              /\ e.port = t.clash.listeners.socks[1].port
              /\ e.users = t.clash.listeners.socks[1].users
    <2> HIDE DEF e
    <2> QED
      BY <1>1, <1>4, <1>5, SocksEndpoint
  <1> DEFINE first == t.clash.listeners.socks[1]
             l == renderListener("socks", first, {})
             u == firstEndpointUser(e)
             out == renderProxyOutbound("socks", NormalizeInternalEndpointAddress(e.listen), e.port,
                                        u.username, u.password)
  <1>7. o = out
    <2>1. IsList(stack.xray.inbounds)
      BY <1>2 DEF LoadedStack
    <2>2. o = RenderOutbound(s, stack.xray.outbound)
      BY <1>3, <2>1, XrayParts, SingletonList
    <2>3. stack.xray.outbound.type = "clash" /\ stack.xray.outbound.ref = ref
      BY DEF ref, stack
    <2> HIDE DEF o
    <2>4. o = renderClashOutbound(s, stack.xray.outbound)
      BY <2>2, <2>3 DEF RenderOutbound
    <2> QED
      BY <2>3, <2>4 DEF renderClashOutbound, ClashEndpoint
  <1>12. out.address # ""
    <2>1. stack.xray.outbound.type = "clash" /\ stack.xray.outbound.ref = ref
      BY DEF ref, stack
    <2>2. ClashEndpoint(s, stack.xray.outbound) = e
      BY <2>1 DEF ClashEndpoint
    <2>3. OutboundRenders(s, stack.xray.outbound)
      BY <1>3 DEF XrayRenders
    <2> HIDE DEF e, o
    <2>4. NormalizeInternalEndpointAddress(e.listen) # ""
      BY <2>1, <2>2, <2>3 DEF OutboundRenders, ProxyOutboundRenders
    <2> QED
      BY <2>4 DEF renderProxyOutbound
  <1> HIDE DEF e
  <1>8. 1 \in DOMAIN target[1].listeners /\ target[1].listeners[1] = l
    <2>1. LoadedStack(t) /\ <<t.name, "clash">> \in CollectServiceNodes(s)
      BY <1>1, <1>6, RenderedNode DEF GoodSet
    <2> HIDE DEF o, first, l, u, out
    <2>2. target = <<RenderMihomo(s, t)>>
      <3>1. RenderNode(s, <<t.name, "clash">>)
               = IF MihomoRenders(t) THEN <<RenderMihomo(s, t)>> ELSE <<>>
        BY <1>1, RenderedNode
      <3>2. MihomoRenders(t)
        BY <1>6 DEF MihomoRenders
      <3>3. target = RenderNode(s, <<t.name, "clash">>)
        BY <1>1, <1>6, <2>1
      <3> HIDE DEF target
      <3> QED
        BY <3>1, <3>2, <3>3
    <2> USE DEF first, l
    <2>3. IsList(t.clash.listeners.http) /\ IsList(t.clash.upstreams)
      BY <2>1 DEF LoadedStack, ClashShape, ListOf
    <2> QED
      BY <2>2, <2>3, MihomoParts, SingletonList
  <1>9. l.type = "socks" /\ l.listen = first.listen /\ l.port = first.port
        /\ l.users = {Account(v.username, v.password) : v \in ToSet(first.users)}
    BY DEF renderListener
  <1>10. Reachable(out.address, out.port, l.listen, l.port)
    BY <1>6, <1>9, <1>12 DEF Reachable, renderProxyOutbound, NormalizeInternalEndpointAddress
  <1>11. LetsIn(l.users, out.users)
    <2>1. CASE first.users = <<>>
      <3>1. ToSet(<<>>) = {}
        BY DEF ToSet
      <3> QED
        BY <1>9, <2>1, <3>1 DEF LetsIn
    <2>2. CASE first.users # <<>>
      <3>1. IsList(first.users) /\ \A k \in DOMAIN first.users : ValidateListenerUser(first.users[k])
        BY <1>1, <1>6 DEF GoodSet, LoadedStack, ClashShape, ListOf, ListenerShape, ValidateClash,
                          ValidateListeners, ValidateListener
      <3>2. 1 \in DOMAIN first.users
        BY <2>2, <3>1, ListShape
      <3>3. u = first.users[1] /\ u.username # ""
        BY <1>6, <2>2, <3>1, <3>2 DEF firstEndpointUser, ValidateListenerUser
      <3>4. out.users = <<Account(u.username, u.password)>>
        BY <3>3 DEF renderProxyOutbound
      <3>5. Account(u.username, u.password) \in l.users
        <4>1. first.users[1] \in ToSet(first.users)
          BY <3>2 DEF ToSet
        <4> HIDE DEF first, u, l
        <4> QED
          BY <1>9, <3>3, <4>1
      <3> HIDE DEF l, out, u
      <3>6. 1 \in DOMAIN out.users /\ out.users[1] = Account(u.username, u.password)
        BY <3>4
      <3> QED
        BY <3>5, <3>6 DEF LetsIn
    <2> QED
      BY <2>1, <2>2
  <1> HIDE DEF o, out, l, target
  <1> QED
    BY <1>7, <1>8, <1>9, <1>10, <1>11 DEF o, target, ref, stack

\* An inbound without accounts lets everybody in, one with an account who has it.
LEMMA NobodyIsAsked == LetsIn(ToSet(<<>>), <<>>)
  BY DEF ToSet, LetsIn
LEMMA OwnAccountIsLetIn == \A a : LetsIn(ToSet(<<a>>), <<a>>)
  <1> TAKE a
  <1>1. 1 \in DOMAIN <<a>> /\ <<a>>[1] \in ToSet(<<a>>)
    BY SingletonList
  <1> QED
    BY <1>1 DEF LetsIn

\* What a mihomo sends to an Xray arrives, if that Xray is rendered and its address not empty.
LEMMA MihomoLinkConnects ==
    ASSUME IInv, NEW s \in set, NEW n \in DOMAIN configs, configs[n] # <<>>, n[2] # "xray",
           NEW k \in DOMAIN StackOf(s, n[1]).clash.upstreams,
           StackOf(s, n[1]).clash.upstreams[k].type = "xray-socks5"
    PROVE  LET proxy == configs[n][1].proxies[k]
               target == configs[<<StackOf(s, n[1]).clash.upstreams[k].ref[1], "xray">>]
           IN  target # <<>> /\ proxy.server # "" => \E m \in DOMAIN target[1].inbounds :
                  LET i == target[1].inbounds[m]
                  IN  /\ i.protocol = "socks5"
                      /\ Reachable(proxy.server, proxy.port, i.listen, i.port)
                      /\ LetsIn(ToSet(i.accounts), proxy.users)
                      /\ proxy.udp => i.udp
  <1> DEFINE stack == StackOf(s, n[1])
             up == stack.clash.upstreams[k]
             proxy == configs[n][1].proxies[k]
             target == configs[<<up.ref[1], "xray">>]
  <1>1. /\ GoodSet(s) /\ DOMAIN configs = CollectServiceNodes(s)
        /\ \A m \in DOMAIN configs : configs[m] = RenderNode(s, m)
        /\ n \in CollectServiceNodes(s)
    <2>1. DOMAIN <<>> = {}
      OBVIOUS
    <2>2. configs # <<>>
      BY <2>1
    <2> QED
      BY <2>2, HeldFacts
  <1>2. stack \in ToSet(s.stacks) /\ LoadedStack(stack) /\ ClashOn(stack)
    BY <1>1, NodeStack
  <1>3. configs[n] = <<RenderMihomo(s, stack)>>
    BY <1>1 DEF RenderNode
  <1>4. k \in DOMAIN stack.clash.upstreams /\ up.type = "xray-socks5"
    OBVIOUS
  <1> HIDE DEF stack
  <1>5. up.ref \in XraySocks5Refs(stack)
    BY <1>4 DEF XraySocks5Refs, ToSet
  <1>6. PICK e \in ResolveXrayInbound(s, up.ref) : e.kind = "socks5"
    <2>1. ClashRefsResolve(s, stack)
      BY <1>1, <1>2 DEF GoodSet, ValidateStackSet, ValidReferenceGraph, RefsResolve
    <2> QED
      BY <1>2, <1>5, <2>1 DEF ClashRefsResolve
  <1>7. PICK t \in ToSet(s.stacks) : XrayOn(t) /\ e \in IndexXrayInbounds(t) /\ e.ref = up.ref
    BY <1>6 DEF ResolveXrayInbound, XrayInboundIndex
  <1> DEFINE inbounds == t.xray.inbounds
  <1>8. PICK j \in DOMAIN inbounds :
           /\ up.ref[1] = t.name /\ up.ref[2] = inbounds[j].name /\ inbounds[j].protocol = "socks5"
    BY <1>6, <1>7 DEF IndexXrayInbounds
  <1>9. LoadedStack(t) /\ StackOf(s, t.name) = t
    BY <1>1, <1>7, StackOfFacts DEF GoodSet
  <1> DEFINE i == inbounds[j]
  <1>10. (CHOOSE u \in EnabledXrayStacks(s) : u.name = t.name) = t
    BY <1>1, <1>7 DEF EnabledXrayStacks, GoodSet
  <1>11. (CHOOSE v \in ToSet(inbounds) : v.name = inbounds[j].name) = i
    <2>1. i \in ToSet(inbounds) /\ \A v \in ToSet(inbounds) : v.name = i.name => v = i
      BY <1>9 DEF LoadedStack, ToSet
    <2> HIDE DEF inbounds
    <2> QED
      BY <2>1
  <1>12. proxy = renderXraySocks5Proxy(s, up)
    <2>1. IsList(stack.clash.listeners.http) /\ IsList(stack.clash.upstreams)
      BY <1>2 DEF LoadedStack, ClashShape, ListOf
    <2> QED
      BY <1>3, <1>4, <2>1, MihomoParts, SingletonList
  <1> HIDE DEF up, inbounds
  <1>16. renderXraySocks5Proxy(s, up) =
            [name |-> up.name, type |-> "socks5",
             server |-> NormalizeInternalEndpointAddress(i.listen), port |-> i.port,
             udp |-> i.udp = "on", users |-> InboundAccounts(i), cipher |-> ""]
    <2>1. (CHOOSE u \in EnabledXrayStacks(s) : u.name = up.ref[1]) = t
      BY <1>8, <1>10
    <2>2. (CHOOSE v \in ToSet(t.xray.inbounds) : v.name = up.ref[2]) = i
      BY <1>8, <1>11 DEF inbounds
    <2> QED
      BY <2>1, <2>2, Zenon DEF renderXraySocks5Proxy
  <1>13. /\ proxy.server = NormalizeInternalEndpointAddress(i.listen) /\ proxy.port = i.port
         /\ proxy.udp = (i.udp = "on") /\ proxy.users = InboundAccounts(i)
    <2> DEFINE made == renderXraySocks5Proxy(s, up)
    <2>1. /\ made.server = NormalizeInternalEndpointAddress(i.listen) /\ made.port = i.port
          /\ made.udp = (i.udp = "on") /\ made.users = InboundAccounts(i)
      <3> HIDE DEF i
      <3> DEFINE row == [name |-> up.name, type |-> "socks5",
             server |-> NormalizeInternalEndpointAddress(i.listen), port |-> i.port,
             udp |-> i.udp = "on", users |-> InboundAccounts(i), cipher |-> ""]
      <3>1. row.server = NormalizeInternalEndpointAddress(i.listen) /\ row.port = i.port
        OBVIOUS
      <3>2. row.users = InboundAccounts(i)
        OBVIOUS
      <3>3. row.udp = (i.udp = "on")
        OBVIOUS
      <3>4. made = row
        BY <1>16
      <3> HIDE DEF row, made
      <3> QED
        BY <3>1, <3>2, <3>3, <3>4
    <2> HIDE DEF proxy, made
    <2> QED
      BY <1>12, <2>1 DEF made
  <1>14. ASSUME target # <<>>
         PROVE  \E m \in DOMAIN target[1].inbounds :
                   target[1].inbounds[m] = RenderInbound(i, enabledInboundUsers(t, i, disabled))
    <2>1. <<t.name, "xray">> \in CollectServiceNodes(s)
      BY <1>1, <1>7, RenderedNode
    <2>2. target = <<RenderXray(s, t, disabled)>>
      BY <1>1, <1>8, <1>14, <2>1, RenderedNode
    <2>3. IsList(inbounds)
      BY <1>9 DEF LoadedStack, inbounds
    <2> QED
      BY <1>8, <2>2, <2>3, XrayParts, SingletonList DEF inbounds
  <1>15. \A r : r = RenderInbound(i, enabledInboundUsers(t, i, disabled)) /\ proxy.server # "" =>
            /\ r.protocol = "socks5" /\ Reachable(proxy.server, proxy.port, r.listen, r.port)
            /\ LetsIn(ToSet(r.accounts), proxy.users)
            /\ proxy.udp => r.udp
    <2> TAKE r
    <2> HAVE r = RenderInbound(i, enabledInboundUsers(t, i, disabled)) /\ proxy.server # ""
    <2>1. /\ r.protocol = "socks5" /\ r.listen = i.listen /\ r.port = i.port
          /\ r.udp = (i.udp = "on") /\ r.accounts = InboundAccounts(i)
      BY <1>8 DEF RenderInbound, SupportsUserToggle
    <2> HIDE DEF proxy
    <2>2. Reachable(proxy.server, proxy.port, r.listen, r.port)
      BY <1>13, <2>1 DEF Reachable, NormalizeInternalEndpointAddress
    <2>3. LetsIn(ToSet(r.accounts), proxy.users)
      <3>1. InboundAccounts(i) = <<>> \/ \E a : InboundAccounts(i) = <<a>>
        BY DEF InboundAccounts
      <3>2. InboundAccounts(i) = <<>> => LetsIn(ToSet(InboundAccounts(i)), InboundAccounts(i))
        BY NobodyIsAsked
      <3>3. (\E a : InboundAccounts(i) = <<a>>) => LetsIn(ToSet(InboundAccounts(i)), InboundAccounts(i))
        BY OwnAccountIsLetIn
      <3>4. r.accounts = InboundAccounts(i) /\ proxy.users = InboundAccounts(i)
        BY <1>13, <2>1
      <3> HIDE DEF i
      <3> QED
        BY <3>1, <3>2, <3>3, <3>4
    <2> QED
      BY <1>13, <2>1, <2>2, <2>3
  <1> HIDE DEF proxy, target, i
  <1> QED
    BY <1>14, <1>15 DEF proxy, target, up, stack

\* Whatever the loaded set links is connected in the rendered configs.
LEMMA LinksConnect == IInv => RenderedLinksConnect
  <1> SUFFICES ASSUME IInv PROVE RenderedLinksConnect
    OBVIOUS
  <1> SUFFICES ASSUME NEW s \in set, NEW n \in DOMAIN configs, configs[n] # <<>>
               PROVE  LET stack == StackOf(s, n[1])
        IN  IF n[2] = "xray"
            THEN stack.xray.outbound.type = "clash" =>
                 LET o == configs[n][1].outbounds[1]
                     target == configs[<<stack.xray.outbound.ref[1], "clash">>]
                 IN  \E k \in DOMAIN target[1].listeners :
                        LET l == target[1].listeners[k]
                        IN  /\ l.type = "socks" /\ Reachable(o.address, o.port, l.listen, l.port)
                            /\ LetsIn(l.users, o.users)
            ELSE \A k \in DOMAIN stack.clash.upstreams :
                 stack.clash.upstreams[k].type = "xray-socks5" =>
                 LET proxy == configs[n][1].proxies[k]
                     target == configs[<<stack.clash.upstreams[k].ref[1], "xray">>]
                 IN  target # <<>> /\ proxy.server # "" => \E m \in DOMAIN target[1].inbounds :
                        LET i == target[1].inbounds[m]
                        IN  /\ i.protocol = "socks5"
                            /\ Reachable(proxy.server, proxy.port, i.listen, i.port)
                            /\ LetsIn(ToSet(i.accounts), proxy.users)
                            /\ proxy.udp => i.udp
    BY Zenon DEF RenderedLinksConnect
  <1>1. CASE n[2] = "xray"
    BY <1>1, XrayLinkConnects
  <1>2. CASE n[2] # "xray"
    BY <1>2, MihomoLinkConnects
  <1> QED
    BY <1>1, <1>2

(***************************************************************************)
(* Types.                                                                  *)
(***************************************************************************)

\* The invariant implies the types.
LEMMA IInvTypes == IInv => TypeOK
  <1> SUFFICES ASSUME IInv PROVE TypeOK
    OBVIOUS
  <1>1. edits \in 0..MaxEdits /\ DOMAIN files \subseteq ToSet(StackOrder)
        /\ DOMAIN inputs \subseteq ToSet(StackOrder)
    BY DEF IInv, Disk, Served, FilesShape, InputsShape
  <1>2. Cardinality(set) <= 1 /\ Cardinality(plan) <= 1 /\ Cardinality(scope) <= 1
    <2>1. AtMostOne(set) /\ AtMostOne(plan) /\ AtMostOne(scope)
      BY DEF IInv, Held, AtMostOne
    <2> QED
      BY <2>1, AtMostOneCardinality
  <1>3. ASSUME NEW n \in DOMAIN configs PROVE n \in ServiceNodes
    <2>1. configs # <<>>
      <3>1. DOMAIN <<>> = {}
        OBVIOUS
      <3> QED
        BY <3>1
    <2>2. PICK s \in set : TRUE
      BY <2>1 DEF IInv, Held
    <2>3. GoodSet(s) /\ n \in CollectServiceNodes(s)
      BY HeldFacts
    <2>4. n[1] \in ToSet(StackOrder) /\ (n = <<n[1], "xray">> \/ n = <<n[1], "clash">>)
      BY <2>3, NodeStack DEF LoadedStack
    <2> QED
      BY <2>4, NodesOfNames
  <1> QED
    BY <1>1, <1>2, <1>3 DEF TypeOK

(***************************************************************************)
(* Exported nodes.                                                         *)
(***************************************************************************)

NodeOfUser(s, t, i, u) ==
    CASE i.protocol = "vmess" -> renderVmessUserNode(s, t, i, u)
      [] i.protocol = "shadowsocks" -> renderShadowsocksUserNode(s, t, i, u)
      [] OTHER -> renderGenericUserNode(s, t, i, u)

\* An inbound is published as one node, or as one for each user, in order.
LEMMA InboundNodes ==
    ASSUME NEW s, NEW t, NEW i, InboundShape(i)
    PROVE  LET nodes == renderInboundNodes(s, t, i)
           IN  /\ IsList(nodes)
               /\ \/ /\ i.users = <<>> /\ i.protocol # "vmess"
                     /\ nodes = <<renderSingleInboundNode(s, t, i)>>
                  \/ /\ ~(i.users = <<>> /\ i.protocol # "vmess")
                     /\ DOMAIN nodes = DOMAIN i.users
                     /\ \A k \in DOMAIN i.users : nodes[k] = NodeOfUser(s, t, i, i.users[k])
  <1> DEFINE cells == [k \in DOMAIN i.users |-> NodeOfUser(s, t, i, i.users[k])]
  <1>1. CASE i.users = <<>> /\ i.protocol # "vmess"
    BY <1>1, SingletonList DEF renderInboundNodes
  <1>2. CASE ~(i.users = <<>> /\ i.protocol # "vmess")
    <2>1. renderInboundNodes(s, t, i) = cells \o <<>>
      BY <1>2 DEF renderInboundNodes, Column, NodeOfUser
    <2>2. cells = [k \in DOMAIN i.users |-> cells[k]]
      OBVIOUS
    <2>3. \A k \in DOMAIN i.users : cells[k] = NodeOfUser(s, t, i, i.users[k])
      OBVIOUS
    <2>4. IsList(i.users)
      BY DEF InboundShape
    <2> HIDE DEF cells
    <2>5. cells \o <<>> = cells /\ IsList(cells) /\ DOMAIN cells = DOMAIN i.users
      BY <2>2, <2>4, ColumnFacts
    <2> QED
      BY <1>2, <2>1, <2>3, <2>5
  <1> QED
    BY <1>1, <1>2

\* An inbound with users is published as one node for each, in order.
LEMMA NodesOfUsers ==
    ASSUME NEW s, NEW t, NEW i, InboundShape(i), i.users # <<>>
    PROVE  /\ DOMAIN renderInboundNodes(s, t, i) = DOMAIN i.users
           /\ \A k \in DOMAIN i.users : renderInboundNodes(s, t, i)[k] = NodeOfUser(s, t, i, i.users[k])
  <1> DEFINE nodes == renderInboundNodes(s, t, i)
  <1>1. /\ DOMAIN nodes = DOMAIN i.users
        /\ \A k \in DOMAIN i.users : nodes[k] = NodeOfUser(s, t, i, i.users[k])
    BY InboundNodes
  <1> QED
    BY <1>1

\* The fields of a node of an inbound without users.
SingleFields(n, s, t, i) ==
    /\ n.id = <<t.name, i.name>> /\ n.user = FirstNonEmpty(i.user, "default")
    /\ n.protocol = i.protocol /\ n.server = subscriptionServer(s, i) /\ n.port = i.port
    /\ n.remark = subscriptionRemark(t, i, i.remark) /\ n.direct = FALSE /\ n.udp = i.udp
    /\ i.protocol = "shadowsocks" =>
          n.method = i.method /\ n.password = <<i.password>> /\ n.auth = NoAuth
    /\ i.protocol # "shadowsocks" => n.auth = i.auth

\* The fields of the node of an inbound without users.
LEMMA SingleNodeFields ==
    ASSUME NEW s, NEW t, NEW i, validInboundProtocol(i.protocol), i.protocol # "vmess"
    PROVE  SingleFields(renderSingleInboundNode(s, t, i), s, t, i)
  <1> DEFINE base == BaseNode(s, t, i, FirstNonEmpty(i.user, "default"), i.remark)
             n == renderSingleInboundNode(s, t, i)
  <1>1. CASE i.protocol = "shadowsocks"
    <2>1. n = [base EXCEPT !.method = i.method, !.password = <<i.password>>]
      BY <1>1 DEF renderSingleInboundNode
    <2> QED
      BY <1>1, <2>1 DEF BaseNode, SingleFields
  <1>2. CASE i.protocol \in {"socks5", "http"}
    <2>1. n = [base EXCEPT !.auth = i.auth]
      BY <1>2 DEF renderSingleInboundNode
    <2> QED
      BY <1>2, <2>1 DEF BaseNode, SingleFields
  <1> QED
    BY <1>1, <1>2 DEF validInboundProtocol

\* The fields of a node of a user.
UserFields(n, s, t, i, u) ==
    /\ n.id = <<t.name, i.name, u.user>> /\ n.user = u.user
    /\ n.protocol = i.protocol /\ n.server = subscriptionServer(s, i) /\ n.port = i.port
    /\ n.remark = subscriptionRemark(t, i, FirstNonEmpty(u.remark, i.remark))
    /\ n.direct = FALSE /\ n.udp = i.udp
    /\ i.protocol = "vmess" => n.uuid = u.uuid /\ n.network = i.network /\ n.auth = NoAuth
    /\ i.protocol = "shadowsocks" =>
          /\ n.method = FirstNonEmpty(u.method, i.method)
          /\ n.password = shadowsocksNodePassword(i, u) /\ n.auth = NoAuth
    /\ i.protocol \notin {"vmess", "shadowsocks"} => n.auth = i.auth

\* The fields of the node of a user.
LEMMA UserNodeFields ==
    ASSUME NEW s, NEW t, NEW i, NEW u
    PROVE  UserFields(NodeOfUser(s, t, i, u), s, t, i, u)
  <1> DEFINE base == UserNode(s, t, i, u)
             n == NodeOfUser(s, t, i, u)
  <1>1. /\ base.id = <<t.name, i.name, u.user>> /\ base.user = u.user
        /\ base.protocol = i.protocol /\ base.server = subscriptionServer(s, i) /\ base.port = i.port
        /\ base.remark = subscriptionRemark(t, i, FirstNonEmpty(u.remark, i.remark))
        /\ base.direct = FALSE /\ base.udp = i.udp /\ base.auth = NoAuth
        /\ DOMAIN base = {"id", "user", "protocol", "server", "port", "remark", "direct", "udp",
                          "uuid", "network", "method", "password", "auth"}
    BY DEF UserNode, BaseNode
  <1> SUFFICES UserFields(n, s, t, i, u)
    OBVIOUS
  <1> HIDE DEF base, n
  <1>2. CASE i.protocol = "vmess"
    <2>1. n = [base EXCEPT !.uuid = u.uuid, !.network = i.network]
      BY <1>2 DEF NodeOfUser, renderVmessUserNode, base, n
    <2> QED
      BY <1>1, <1>2, <2>1 DEF UserFields
  <1>3. CASE i.protocol = "shadowsocks"
    <2>1. n = [base EXCEPT !.method = FirstNonEmpty(u.method, i.method),
                           !.password = shadowsocksNodePassword(i, u)]
      BY <1>3 DEF NodeOfUser, renderShadowsocksUserNode, base, n
    <2> QED
      BY <1>1, <1>3, <2>1 DEF UserFields
  <1>4. CASE i.protocol \notin {"vmess", "shadowsocks"}
    <2>1. n = [base EXCEPT !.auth = i.auth]
      BY <1>4 DEF NodeOfUser, renderGenericUserNode, base, n
    <2> QED
      BY <1>1, <1>4, <2>1 DEF UserFields
  <1> QED
    BY <1>2, <1>3, <1>4

\* Every user of a list is a client.
LEMMA ClientsOfUsers ==
    ASSUME NEW i, NEW users, IsList(users)
    PROVE  /\ \A u \in ToSet(users) : \E c \in ToSet(VmessClients(users)) : c.id = u.uuid
           /\ \A u \in ToSet(users) : \E c \in ToSet(ShadowsocksClients(i, users)) :
                 /\ c.password = u.password
                 /\ ~IsShadowsocks2022Method(i.method) => c.method = FirstNonEmpty(u.method, i.method)
           /\ users = <<>> => ShadowsocksClients(i, users) = <<>>
  <1> DEFINE vmess == [k \in DOMAIN users |-> [id |-> users[k].uuid, email |-> EmailOrUser(users[k])]]
             ss == [k \in DOMAIN users |->
                      [password |-> users[k].password, email |-> EmailOrUser(users[k]),
                       method |-> IF IsShadowsocks2022Method(i.method) THEN ""
                                  ELSE FirstNonEmpty(users[k].method, i.method)]]
  <1>1. VmessClients(users) = vmess \o <<>> /\ ShadowsocksClients(i, users) = ss \o <<>>
    BY DEF VmessClients, ShadowsocksClients, Column
  <1>2. vmess = [k \in DOMAIN users |-> vmess[k]] /\ ss = [k \in DOMAIN users |-> ss[k]]
    OBVIOUS
  <1>3. \A k \in DOMAIN users : vmess[k].id = users[k].uuid
    OBVIOUS
  <1>4. \A k \in DOMAIN users :
           /\ ss[k].password = users[k].password
           /\ ~IsShadowsocks2022Method(i.method) => ss[k].method = FirstNonEmpty(users[k].method, i.method)
    OBVIOUS
  <1> HIDE DEF vmess, ss
  <1>5. /\ vmess \o <<>> = vmess /\ DOMAIN vmess = DOMAIN users
        /\ ss \o <<>> = ss /\ DOMAIN ss = DOMAIN users /\ Len(ss) = Len(users) /\ IsList(ss)
    BY <1>2, ColumnFacts
  <1>6. users = <<>> => ss = <<>>
    <2>1. users = <<>> => Len(users) = 0
      BY ListShape
    <2> QED
      BY <1>5, <2>1, ListShape
  <1> QED
    BY <1>1, <1>3, <1>4, <1>5, <1>6 DEF ToSet

\* What the accounts of an inbound let in is the account the node carries.
LEMMA AccountLetIn ==
    ASSUME NEW i
    PROVE  LetsIn(ToSet(InboundAccounts(i)), <<<<i.auth.username, i.auth.password>>>>)
  <1> DEFINE a == <<i.auth.username, i.auth.password>>
  <1>1. InboundAccounts(i) = IF i.auth.type = "password" THEN <<a>> ELSE <<>>
    BY DEF InboundAccounts, Account
  <1>2. ToSet(<<>>) = {}
    BY DEF ToSet
  <1> HIDE DEF a
  <1>3. LetsIn(ToSet(<<a>>), <<a>>)
    <2>1. 1 \in DOMAIN <<a>> /\ <<a>>[1] \in ToSet(<<a>>)
      BY SingletonList
    <2> QED
      BY <2>1 DEF LetsIn
  <1>4. LetsIn({}, <<a>>)
    BY DEF LetsIn
  <1> QED
    BY <1>1, <1>2, <1>3, <1>4 DEF a

\* A node of an inbound is let in by the inbound as it is rendered.
LEMMA NodeAccepted ==
    ASSUME NEW s, NEW t, NEW i, LoadedInbound(i), NEW node \in ToSet(renderInboundNodes(s, t, i)),
           Len(node.id) = 3 => <<t.name, node.user>> \notin disabled
    PROVE  ProxyAccepted(RenderClashProxy(node), RenderInbound(i, enabledInboundUsers(t, i, disabled)))
  <1> DEFINE enabled == enabledInboundUsers(t, i, disabled)
             p == RenderClashProxy(node)
             r == RenderInbound(i, enabled)
  <1> SUFFICES ProxyAccepted(p, r)
    OBVIOUS
  <1>1. InboundShape(i) /\ ValidateInbound(i) /\ validInboundProtocol(i.protocol)
    BY DEF LoadedInbound, ValidateInbound
  <1>2. /\ IsList(enabled)
        /\ \A u : u \in ToSet(enabled)
                    <=> /\ u \in ToSet(i.users)
                        /\ SupportsUserToggle(i.protocol) => <<t.name, u.user>> \notin disabled
    BY <1>1, EnabledUsers
  <1> HIDE DEF enabled
  <1>3. /\ r.port = i.port /\ r.protocol = i.protocol /\ r.udp = (i.udp = "on")
        /\ r.network = i.network /\ r.method = i.method /\ r.password = i.password
        /\ ~SupportsUserToggle(i.protocol) => r.accounts = InboundAccounts(i)
        /\ i.protocol = "vmess" => r.clients = VmessClients(enabled)
        /\ i.protocol = "shadowsocks" => r.clients = ShadowsocksClients(i, enabled)
    BY DEF RenderInbound
  <1>4. /\ p.type = node.protocol /\ p.port = node.port /\ p.uuid = node.uuid /\ p.network = node.network
        /\ p.method = node.method /\ p.password = node.password
        /\ p.account = <<node.auth.username, node.auth.password>>
        /\ p.udp = "on" => node.udp = "on"
    BY DEF RenderClashProxy
  <1> HIDE DEF p, r
  <1>5. CASE i.users = <<>> /\ i.protocol # "vmess"
    <2>1. node = renderSingleInboundNode(s, t, i)
      BY <1>1, <1>5, InboundNodes, SingletonList
    <2>2. /\ node.protocol = i.protocol /\ node.port = i.port /\ node.udp = i.udp
          /\ i.protocol = "shadowsocks" => node.method = i.method /\ node.password = <<i.password>>
          /\ i.protocol # "shadowsocks" => node.auth = i.auth
      <3>1. SingleFields(node, s, t, i)
        BY <1>1, <1>5, <2>1, SingleNodeFields
      <3> QED
        BY <3>1 DEF SingleFields
    <2>3. CASE i.protocol = "shadowsocks"
      <3>1. enabled = <<>>
        <4>1. ToSet(i.users) = {}
          BY <1>5 DEF ToSet
        <4>2. ToSet(enabled) = {}
          BY <1>2, <4>1
        <4>3. enabled # <<>> => 1 \in DOMAIN enabled
          BY <1>2, ListShape
        <4> QED
          BY <4>2, <4>3 DEF ToSet
      <3>2. r.clients = <<>>
        BY <1>2, <1>3, <2>3, <3>1, ClientsOfUsers
      <3> QED
        BY <1>3, <1>4, <2>2, <2>3, <3>2 DEF ProxyAccepted
    <2>4. CASE i.protocol # "shadowsocks"
      <3>1. LetsIn(ToSet(r.accounts), <<p.account>>)
        BY <1>3, <1>4, <1>5, <2>2, <2>4, AccountLetIn DEF SupportsUserToggle
      <3> QED
        BY <1>3, <1>4, <1>5, <2>2, <2>4, <3>1 DEF ProxyAccepted
    <2> QED
      BY <2>3, <2>4
  <1>6. CASE ~(i.users = <<>> /\ i.protocol # "vmess")
    <2>1. PICK k \in DOMAIN i.users : node = NodeOfUser(s, t, i, i.users[k])
      <3>1. ~(i.users = <<>> /\ i.protocol # "vmess") =>
              /\ DOMAIN renderInboundNodes(s, t, i) = DOMAIN i.users
              /\ \A j \in DOMAIN i.users : renderInboundNodes(s, t, i)[j] = NodeOfUser(s, t, i, i.users[j])
        BY <1>1, InboundNodes
      <3> QED
        BY <1>6, <3>1 DEF ToSet
    <2> DEFINE u == i.users[k]
    <2>2. u \in ToSet(i.users)
      BY <2>1 DEF ToSet
    <2>3. node = NodeOfUser(s, t, i, u)
      BY <2>1
    <2>4. IsShadowsocks2022Method(i.method) /\ i.protocol = "shadowsocks" => u.method = ""
      <3>1. i.users # <<>>
        BY <2>1
      <3> QED
        BY <1>1, <2>1, <3>1 DEF ValidateInbound, validateShadowsocks
    <2> HIDE DEF u
    <2>5. /\ node.id = <<t.name, i.name, u.user>> /\ node.user = u.user
          /\ node.protocol = i.protocol /\ node.port = i.port /\ node.udp = i.udp
          /\ i.protocol = "vmess" => node.uuid = u.uuid /\ node.network = i.network
          /\ i.protocol = "shadowsocks" =>
                     /\ node.method = FirstNonEmpty(u.method, i.method)
                     /\ node.password = shadowsocksNodePassword(i, u)
          /\ i.protocol \notin {"vmess", "shadowsocks"} => node.auth = i.auth
      <3>1. UserFields(node, s, t, i, u)
        BY <2>3, UserNodeFields
      <3> QED
        BY <3>1 DEF UserFields
    <2>6. u \in ToSet(enabled)
      <3>1. Len(node.id) = 3
        BY <2>5
      <3> QED
        BY <1>2, <2>2, <2>5, <3>1
    <2>7. CASE i.protocol = "vmess"
      <3>1. \E c \in ToSet(r.clients) : c.id = p.uuid
        BY <1>2, <1>3, <1>4, <2>5, <2>6, <2>7, ClientsOfUsers
      <3> QED
        BY <1>3, <1>4, <2>5, <2>7, <3>1 DEF ProxyAccepted
    <2>8. CASE i.protocol = "shadowsocks"
      <3>1. PICK c \in ToSet(r.clients) :
              /\ c.password = u.password
              /\ ~IsShadowsocks2022Method(i.method) => c.method = FirstNonEmpty(u.method, i.method)
        BY <1>2, <1>3, <2>6, <2>8, ClientsOfUsers
      <3>2. r.clients # <<>>
        BY <3>1 DEF ToSet
      <3>3. IF IsShadowsocks2022Method(i.method)
            THEN p.password = <<i.password, c.password>> /\ p.method = i.method
            ELSE p.password = <<c.password>> /\ p.method = c.method
        BY <1>4, <2>4, <2>5, <2>8, <3>1 DEF shadowsocksNodePassword, FirstNonEmpty
      <3> QED
        BY <1>3, <1>4, <2>5, <2>8, <3>1, <3>2, <3>3 DEF ProxyAccepted
    <2>9. CASE i.protocol \notin {"vmess", "shadowsocks"}
      <3>1. LetsIn(ToSet(r.accounts), <<p.account>>)
        BY <1>3, <1>4, <2>5, <2>9, AccountLetIn DEF SupportsUserToggle
      <3> QED
        BY <1>3, <1>4, <2>5, <2>9, <3>1 DEF ProxyAccepted
    <2> QED
      BY <2>7, <2>8, <2>9
  <1> QED
    BY <1>5, <1>6

\* Every node of a stack is let in by the rendered config of its Xray.
LEMMA NodesAccepted == IInv => ExportedNodesAccepted
  <1> SUFFICES ASSUME IInv, NEW s \in set, NEW t \in ToSet(s.stacks),
                      <<t.name, "xray">> \in DOMAIN configs, configs[<<t.name, "xray">>] # <<>>,
                      NEW node \in ToSet(renderStackNodes(s, t)),
                      Len(node.id) = 3 => <<t.name, node.user>> \notin disabled
               PROVE  \E i \in ToSet(configs[<<t.name, "xray">>][1].inbounds) :
                         ProxyAccepted(RenderClashProxy(node), i)
    BY DEF ExportedNodesAccepted
  <1>1. GoodSet(s) /\ configs[<<t.name, "xray">>] = RenderNode(s, <<t.name, "xray">>)
    BY HeldFacts
  <1>2. LoadedStack(t) /\ configs[<<t.name, "xray">>] = <<RenderXray(s, t, disabled)>>
    BY <1>1, RenderedNode DEF GoodSet
  <1>3. PICK i \in ToSet(PublishedInbounds(t)) : node \in ToSet(renderInboundNodes(s, t, i))
    BY <1>2, RenderedNodesList
  <1>4. PICK k \in DOMAIN t.xray.inbounds : i = t.xray.inbounds[k]
    <2>1. i \in ToSet(t.xray.inbounds)
      BY <1>2, <1>3, PublishedFacts DEF LoadedStack
    <2> QED
      BY <2>1 DEF ToSet
  <1>5. LoadedInbound(i)
    BY <1>2, <1>4 DEF LoadedStack
  <1> DEFINE c == configs[<<t.name, "xray">>][1]
             r == RenderInbound(i, enabledInboundUsers(t, i, disabled))
  <1>6. c = RenderXray(s, t, disabled)
    BY <1>2, SingletonList
  <1>7. k \in DOMAIN c.inbounds /\ c.inbounds[k] = r
    BY <1>2, <1>4, <1>6, XrayParts DEF LoadedStack
  <1>8. r \in ToSet(c.inbounds)
    <2> HIDE DEF r, c
    <2> QED
      BY <1>7 DEF ToSet
  <1> QED
    BY <1>3, <1>5, <1>8, NodeAccepted

(***************************************************************************)
(* Ports.                                                                  *)
(***************************************************************************)

\* An API that is on listens on an address that parses: both sections that can give it were checked.
LEMMA ApiListens ==
    ASSUME NEW s, NEW t, ConfigShape(s.config), ValidateConfig(s.config), LoadedStack(t)
    PROVE  ParseListen(ResolveXrayAPIConfig(s.config.defaults, t.xray).listen)
  <1> DEFINE default == s.config.defaults.api
             override == t.xray.api
  <1>1. "listen" \in DOMAIN default /\ ParseListen(default.listen)
    BY DEF ConfigShape, ValidateConfig, ValidateAPI
  <1>2. "listen" \in DOMAIN DefaultXrayAPIConfig
    BY DEF DefaultXrayAPIConfig
  <1>3. ParseListen(Overlay(DefaultXrayAPIConfig, override).listen)
    BY DEF LoadedStack, ValidateAPI
  <1> HIDE DEF default, override
  <1>4. "listen" \in DOMAIN override => ParseListen(override.listen)
    BY <1>2, <1>3 DEF Overlay
  <1>5. Overlay(default, override).listen = IF "listen" \in DOMAIN override THEN override.listen ELSE default.listen
    BY <1>1 DEF Overlay
  <1> QED
    BY <1>1, <1>4, <1>5 DEF ResolveXrayAPIConfig, default, override

\* What an Xray opens is what CollectPortBindings counts for it.
LEMMA OpenedXray ==
    ASSUME NEW s, NEW t, ConfigShape(s.config), ValidateConfig(s.config), LoadedStack(t), XrayOn(t),
           NEW n, n[2] = "xray", configs[n] = <<RenderXray(s, t, disabled)>>
    PROVE  Opened(n) = XrayBindings(s, t) /\ IsList(XrayBindings(s, t))
  <1> DEFINE c == RenderXray(s, t, disabled)
             api == ResolveXrayAPIConfig(s.config.defaults, t.xray)
             old == t.xray.inbounds
             a == [k \in DOMAIN c.inbounds |-> <<c.inbounds[k].listen, c.inbounds[k].port>>]
             b == [k \in DOMAIN old |-> <<old[k].listen, old[k].port>>]
             x == [k \in DOMAIN c.api |-> c.api[k].listen]
             y == IF api.enabled THEN <<api.listen>> ELSE <<>>
  <1>1. IsList(old)
    BY DEF LoadedStack
  <1>2. Opened(n) = (a \o <<>>) \o (x \o <<>>)
    <2>1. configs[n] # <<>> /\ configs[n][1] = c
      OBVIOUS
    <2> HIDE DEF c
    <2> QED
      BY <2>1 DEF Opened, Column
  <1>3. XrayBindings(s, t) = (b \o <<>>) \o y
    <2>1. ParseListen(api.listen)
      BY ApiListens
    <2> QED
      BY <2>1 DEF XrayBindings, Column
  <1>4. a = b
    <2>1. DOMAIN c.inbounds = DOMAIN old
      BY <1>1, XrayParts
    <2>2. ASSUME NEW k \in DOMAIN old PROVE c.inbounds[k].listen = old[k].listen /\ c.inbounds[k].port = old[k].port
      <3>1. c.inbounds[k] = RenderInbound(old[k], enabledInboundUsers(t, old[k], disabled))
        BY <1>1, XrayParts
      <3> HIDE DEF c, old
      <3> QED
        BY <3>1 DEF RenderInbound
    <2> HIDE DEF c, old
    <2> QED
      BY <2>1, <2>2
  <1>5. x \o <<>> = y /\ IsList(y)
    <2>1. c.api = IF api.enabled THEN <<api>> ELSE <<>>
      BY DEF RenderXray
    <2> HIDE DEF c, api
    <2>2. CASE api.enabled
      <3>1. x = <<api.listen>>
        <4>1. DOMAIN c.api = 1..1 /\ c.api[1] = api
          BY <2>1, <2>2, SingletonList
        <4>2. x = [k \in 1..1 |-> api.listen]
          BY <4>1
        <4> HIDE DEF x
        <4> QED
          BY <4>2
      <3>2. IsList(<<api.listen>>)
        BY SingletonList
      <3>3. <<api.listen>> = [k \in DOMAIN <<api.listen>> |-> <<api.listen>>[k]]
        OBVIOUS
      <3>4. <<api.listen>> \o <<>> = <<api.listen>>
        BY <3>2, <3>3, ColumnFacts
      <3> QED
        BY <2>2, <3>1, <3>2, <3>4
    <2>3. CASE ~api.enabled
      <3>1. IsList(<<>>)
        BY EmptySeq DEF IsList
      <3>2. x = <<>>
        BY <2>1, <2>3
      <3>3. <<>> \o <<>> = <<>>
        OBVIOUS
      <3> QED
        BY <2>3, <3>1, <3>2, <3>3
    <2> QED
      BY <2>2, <2>3
  <1>6. b \o <<>> = b /\ IsList(b)
    <2>1. b = [k \in DOMAIN old |-> b[k]]
      OBVIOUS
    <2> HIDE DEF b
    <2> QED
      BY <1>1, <2>1, ColumnFacts
  <1> HIDE DEF a, b, x, y
  <1> QED
    BY <1>2, <1>3, <1>4, <1>5, <1>6, ListConcat

\* What a mihomo opens is what CollectPortBindings counts for it.
LEMMA OpenedClash ==
    ASSUME NEW s, NEW t, LoadedStack(t), ClashOn(t), MihomoRenders(t),
           NEW n, n[2] # "xray", configs[n] = <<RenderMihomo(s, t)>>
    PROVE  Opened(n) = ClashBindings(t) /\ IsList(ClashBindings(t))
  <1> DEFINE c == RenderMihomo(s, t)
             socks == t.clash.listeners.socks
             http == t.clash.listeners.http
             first == renderListener("socks", socks[1], {})
             web == [k \in DOMAIN http |-> renderListener("http", http[k], {socks[1].name})]
             all == <<first>> \o web
             a == [k \in DOMAIN all |-> <<all[k].listen, all[k].port>>]
             x == [k \in DOMAIN socks |-> <<socks[k].listen, socks[k].port>>]
             y == [k \in DOMAIN http |-> <<http[k].listen, http[k].port>>]
             end == <<t.clash.controller.listen>>
  <1>1. IsList(socks) /\ IsList(http) /\ Len(socks) = 1
    BY DEF LoadedStack, ClashShape, ListOf, MihomoRenders
  <1>2. c.listeners = <<first>> \o (web \o <<>>) /\ c.controller = t.clash.controller.listen
    BY DEF RenderMihomo, Column, renderListeners
  <1>3. web = [k \in DOMAIN http |-> web[k]]
    OBVIOUS
  <1>4. \A k \in DOMAIN http : web[k].listen = http[k].listen /\ web[k].port = http[k].port
    BY DEF renderListener
  <1>5. first.listen = socks[1].listen /\ first.port = socks[1].port
    BY DEF renderListener
  <1>6. Opened(n) = ([k \in DOMAIN c.listeners |-> <<c.listeners[k].listen, c.listeners[k].port>>] \o <<>>) \o <<c.controller>>
    <2>1. configs[n] # <<>> /\ configs[n][1] = c
      OBVIOUS
    <2> HIDE DEF c
    <2> QED
      BY <2>1 DEF Opened, Column
  <1>7. ClashBindings(t) = ((x \o <<>>) \o (y \o <<>>)) \o end
    <2>1. ParseListen(t.clash.controller.listen)
      BY DEF LoadedStack, ValidateClash, ValidateController
    <2> QED
      BY <2>1 DEF ClashBindings, Column
  <1>8. IsList(end)
    BY SingletonList
  <1> HIDE DEF web, c
  <1>9. web \o <<>> = web /\ IsList(web) /\ DOMAIN web = DOMAIN http /\ Len(web) = Len(http)
    BY <1>1, <1>3, ColumnFacts
  <1>10. x = [k \in DOMAIN socks |-> x[k]] /\ y = [k \in DOMAIN http |-> y[k]]
    OBVIOUS
  <1>11. /\ \A k \in DOMAIN socks : x[k] = <<socks[k].listen, socks[k].port>>
         /\ \A k \in DOMAIN http : y[k] = <<http[k].listen, http[k].port>>
    OBVIOUS
  <1>12. a = [k \in DOMAIN all |-> a[k]] /\ \A k \in DOMAIN all : a[k] = <<all[k].listen, all[k].port>>
    OBVIOUS
  <1> HIDE DEF x, y, socks, http, first
  <1>13. /\ x \o <<>> = x /\ IsList(x) /\ Len(x) = 1 /\ y \o <<>> = y /\ IsList(y) /\ Len(y) = Len(http)
    BY <1>1, <1>10, ColumnFacts
  <1>14. /\ IsList(x \o y) /\ Len(x \o y) = 1 + Len(http) /\ (x \o y)[1] = x[1]
         /\ \A k \in 1..Len(http) : (x \o y)[1 + k] = y[k]
    <2> DEFINE xy == x \o y
    <2>5. IsList(x) /\ IsList(y)
      BY <1>13
    <2>1. /\ IsList(xy) /\ Len(xy) = Len(x) + Len(y)
          /\ \A k \in 1..Len(x) : xy[k] = x[k]
          /\ \A k \in 1..Len(y) : xy[Len(x) + k] = y[k]
      BY <2>5, ListConcat
    <2> HIDE DEF xy
    <2>2. \A k \in 1..1 : xy[k] = x[k]
      BY <1>13, <2>1, Zenon
    <2>3. xy[1] = x[1]
      BY <2>2
    <2>4. \A k \in 1..Len(http) : xy[1 + k] = y[k]
      BY <1>13, <2>1, Zenon
    <2> QED
      BY <1>13, <2>1, <2>3, <2>4 DEF xy
  <1>15. /\ IsList(all) /\ Len(all) = 1 + Len(http) /\ all[1] = first
         /\ \A k \in 1..Len(http) : all[1 + k] = web[k]
    BY <1>9, SingletonList, ListConcat
  <1> HIDE DEF all
  <1>16. Len(http) \in Nat /\ DOMAIN http = 1..Len(http) /\ DOMAIN socks = 1..1
         /\ DOMAIN all = 1..(1 + Len(http))
    BY <1>1, <1>15, ListShape
  <1> HIDE DEF a
  <1>17. a \o <<>> = a /\ IsList(a) /\ DOMAIN a = DOMAIN all
    BY <1>12, <1>15, ColumnFacts
  <1>18. ASSUME NEW m \in 1..(1 + Len(http)) PROVE a[m] = (x \o y)[m]
    <2>1. CASE m = 1
      <3>1. 1 \in DOMAIN all /\ 1 \in DOMAIN socks
        BY <1>16
      <3>2. a[1] = <<all[1].listen, all[1].port>> /\ x[1] = <<socks[1].listen, socks[1].port>>
        BY <1>11, <1>12, <3>1
      <3>3. a[1] = x[1]
        BY <1>5, <1>15, <3>2
      <3> QED
        BY <1>14, <2>1, <3>3
    <2>2. CASE m # 1
      <3>1. PICK k \in 1..Len(http) : m = 1 + k
        <4>1. m - 1 \in 1..Len(http) /\ m = 1 + (m - 1)
          BY <1>16, <2>2
        <4> QED
          BY <4>1
      <3>2. a[m] = <<web[k].listen, web[k].port>>
        <4>1. m \in DOMAIN all /\ all[m] = web[k]
          BY <1>15, <1>16, <3>1
        <4> QED
          BY <1>12, <4>1
      <3>3. (x \o y)[m] = y[k]
        BY <1>14, <3>1
      <3> QED
        BY <1>4, <1>11, <1>16, <3>1, <3>2, <3>3
    <2> QED
      BY <2>1, <2>2
  <1>19. a = x \o y
    <2> DEFINE xy == x \o y
    <2>1. xy = [m \in 1..(1 + Len(http)) |-> xy[m]]
      BY <1>14, ListShape
    <2>2. a = [m \in 1..(1 + Len(http)) |-> a[m]]
      BY <1>12, <1>16
    <2>3. \A m \in 1..(1 + Len(http)) : a[m] = xy[m]
      BY <1>18
    <2> HIDE DEF xy
    <2>4. a = xy
      BY <2>1, <2>2, <2>3
    <2> QED
      BY <2>4 DEF xy
  <1>20. Opened(n) = a \o end
    <2>1. c.listeners = all
      BY <1>2, <1>9 DEF all
    <2>2. Opened(n) = ([k \in DOMAIN all |-> <<all[k].listen, all[k].port>>] \o <<>>) \o end
      BY <1>2, <1>6, <2>1
    <2> QED
      BY <1>17, <2>2 DEF a
  <1>21. ClashBindings(t) = (x \o y) \o end
    BY <1>7, <1>13
  <1> HIDE DEF end
  <1> QED
    BY <1>8, <1>14, <1>19, <1>20, <1>21, ListConcat

\* Where the sockets of a component start among those of the stack.
Before(s, n) == IF n[2] = "xray" THEN 0 ELSE Len(XrayBindings(s, StackOf(s, n[1])))

\* Every socket of a rendered config is one that was counted.
LEMMA OpenedPlace ==
    ASSUME IInv, NEW s \in set, NEW n \in DOMAIN configs
    PROVE  LET t == StackOf(s, n[1])
               row == SocketRow(s, t)
           IN  /\ IsList(Opened(n))
               /\ \A k \in DOMAIN Opened(n) :
                     /\ k \in Nat /\ Before(s, n) + k \in DOMAIN row /\ row[Before(s, n) + k] = Opened(n)[k]
                     /\ k >= 1
                     /\ n[2] = "xray" => k <= Len(XrayBindings(s, t))
  <1> DEFINE t == StackOf(s, n[1])
             xs == XrayBindings(s, t)
             cs == ClashBindings(t)
             row == SocketRow(s, t)
  <1>1. GoodSet(s) /\ n \in CollectServiceNodes(s) /\ configs[n] = RenderNode(s, n)
        /\ s.config = config /\ ValidateConfig(s.config)
    BY HeldFacts
  <1>2. t \in ToSet(s.stacks) /\ LoadedStack(t) /\ t.name = n[1]
        /\ ((n[2] = "xray" /\ XrayOn(t)) \/ (n[2] = "clash" /\ ClashOn(t)))
    BY <1>1, NodeStack
  <1>3. ConfigShape(s.config)
    BY <1>1 DEF IInv, Disk
  <1>4. IsList(xs) /\ IsList(cs)
    BY <1>2, BindingLists
  <1>5. /\ Len(xs) \in Nat /\ DOMAIN xs = 1..Len(xs) /\ Len(cs) \in Nat /\ DOMAIN cs = 1..Len(cs)
        /\ Len(row) \in Nat /\ DOMAIN row = 1..Len(row) /\ Len(row) = Len(xs) + Len(cs)
        /\ \A i \in 1..Len(xs) : row[i] = xs[i]
        /\ \A i \in 1..Len(cs) : row[Len(xs) + i] = cs[i]
    <2>1. /\ IsList(xs \o cs) /\ Len(xs \o cs) = Len(xs) + Len(cs)
          /\ \A i \in 1..Len(xs) : (xs \o cs)[i] = xs[i]
          /\ \A i \in 1..Len(cs) : (xs \o cs)[Len(xs) + i] = cs[i]
      BY <1>4, ListConcat
    <2>2. row = xs \o cs
      BY DEF SocketRow
    <2> HIDE DEF xs, cs, row
    <2> QED
      BY <1>4, <2>1, <2>2, ListShape
  <1>6. CASE configs[n] = <<>>
    <2>1. Opened(n) = <<>>
      BY <1>6 DEF Opened
    <2>2. IsList(<<>>) /\ DOMAIN <<>> = {}
      BY EmptySeq DEF IsList
    <2> QED
      BY <2>1, <2>2
  <1>7. CASE configs[n] # <<>> /\ n[2] = "xray"
    <2>1. configs[n] = <<RenderXray(s, t, disabled)>>
      BY <1>1, <1>7 DEF RenderNode
    <2>2. Opened(n) = xs
      BY <1>1, <1>2, <1>3, <1>7, <2>1, OpenedXray
    <2>3. Before(s, n) = 0
      BY <1>7 DEF Before
    <2> HIDE DEF xs, cs, row, t
    <2>4. \A k \in 1..Len(xs) : k \in Nat /\ 0 + k = k /\ k \in 1..Len(row) /\ k >= 1 /\ k <= Len(xs)
      BY <1>5
    <2> QED
      BY <1>4, <1>5, <2>2, <2>3, <2>4 DEF xs, row, t
  <1>8. CASE configs[n] # <<>> /\ n[2] # "xray"
    <2>1. configs[n] = <<RenderMihomo(s, t)>> /\ MihomoRenders(t)
      BY <1>1, <1>8 DEF RenderNode
    <2>2. Opened(n) = cs
      BY <1>2, <1>8, <2>1, OpenedClash
    <2>3. Before(s, n) = Len(xs)
      BY <1>8 DEF Before
    <2> HIDE DEF xs, cs, row, t
    <2>4. \A k \in 1..Len(cs) : k \in Nat /\ Len(xs) + k \in 1..Len(row) /\ k >= 1
      BY <1>5
    <2> QED
      BY <1>4, <1>5, <1>8, <2>2, <2>3, <2>4 DEF xs, row, t
  <1> QED
    BY <1>6, <1>7, <1>8

\* No two sockets of the rendered configs have one port, and none is taken.
LEMMA PortsFree == IInv => RenderedPortsFree
  <1> SUFFICES ASSUME IInv, configs # <<>> PROVE RenderedPortsFree
    BY DEF RenderedPortsFree
  <1>1. PICK s \in set : TRUE
    BY DEF IInv, Held
  <1>2. GoodSet(s) /\ DOMAIN configs \subseteq ServiceNodes
        /\ \A n \in DOMAIN configs : n \in CollectServiceNodes(s)
    BY <1>1, HeldFacts, IInvTypes DEF TypeOK
  <1> DEFINE nodes == sortedNodesFromSet(DOMAIN configs)
             rows == [j \in DOMAIN nodes |-> Opened(nodes[j])]
             opened == FlattenSeq(rows)
             table == [j \in DOMAIN s.stacks |-> SocketRow(s, s.stacks[j])]
             counted == CollectPortBindings(s)
             key == [b \in ToSet(counted) |-> b[2]]
  <1>3. /\ IsList(nodes) /\ ToSet(nodes) = DOMAIN configs
        /\ \A j, k \in DOMAIN nodes : nodes[j] = nodes[k] => j = k
    BY <1>2, SortedNodesFacts
  <1>4. IsTable(table) /\ counted = FlattenSeq(table) /\ IsList(counted)
    <2>1. IsList(s.stacks) /\ \A t \in ToSet(s.stacks) : LoadedStack(t)
      BY <1>2 DEF GoodSet
    <2> QED
      BY <2>1, BindingTable, FlattenPlaces
  <1>5. FlattenSeq(Column(nodes, Opened)) = FlattenSeq(rows \o <<>>)
    BY DEF Column
  <1>6. rows = [j \in DOMAIN nodes |-> rows[j]] /\ \A j \in DOMAIN nodes : rows[j] = Opened(nodes[j])
    OBVIOUS
  <1>7. \A j \in DOMAIN s.stacks : table[j] = SocketRow(s, s.stacks[j])
    OBVIOUS
  <1>8. DOMAIN table = DOMAIN s.stacks
    OBVIOUS
  <1>9. \A b \in ToSet(counted) : key[b] = b[2]
    OBVIOUS
  <1> HIDE DEF nodes, rows, opened, table, counted, key
  <1>10. rows \o <<>> = rows /\ IsList(rows) /\ DOMAIN rows = DOMAIN nodes
    BY <1>3, <1>6, ColumnFacts
  <1>11. \A j \in DOMAIN nodes : nodes[j] \in DOMAIN configs
    BY <1>3 DEF ToSet
  <1>12. IsTable(rows)
    BY <1>1, <1>6, <1>10, <1>11, OpenedPlace DEF IsTable
  <1>13. ASSUME NEW j \in DOMAIN nodes
         PROVE  \E p \in DOMAIN table :
                   /\ s.stacks[p] = StackOf(s, nodes[j][1])
                   /\ \A k \in DOMAIN rows[j] :
                         /\ Before(s, nodes[j]) + k \in DOMAIN table[p]
                         /\ table[p][Before(s, nodes[j]) + k] = rows[j][k]
    <2>1. nodes[j] \in CollectServiceNodes(s)
      BY <1>2, <1>11
    <2>2. StackOf(s, nodes[j][1]) \in ToSet(s.stacks)
      BY <1>2, <2>1, NodeStack
    <2>3. PICK p \in DOMAIN s.stacks : s.stacks[p] = StackOf(s, nodes[j][1])
      BY <2>2 DEF ToSet
    <2> QED
      BY <1>1, <1>6, <1>7, <1>8, <1>11, <2>3, OpenedPlace
  <1>14. ASSUME NEW j \in DOMAIN rows, NEW k \in DOMAIN rows[j]
         PROVE  rows[j][k] \in ToSet(counted) /\ key[rows[j][k]] = rows[j][k][2]
    <2>1. PICK p \in DOMAIN table : /\ Before(s, nodes[j]) + k \in DOMAIN table[p]
                                    /\ table[p][Before(s, nodes[j]) + k] = rows[j][k]
      BY <1>10, <1>13
    <2>2. rows[j][k] \in ToSet(table[p])
      BY <2>1 DEF ToSet
    <2> QED
      BY <1>4, <1>9, <2>2, FlattenElements
  <1>15. DistinctCells(table, key)
    <2>1. ensureUnique(Column(counted, LAMBDA b : b[2]))
      BY <1>2 DEF GoodSet, ValidateStackSet, ValidateUniquePorts, counted
    <2>2. \A k \in DOMAIN counted : key[counted[k]] = counted[k][2]
      BY <1>9 DEF ToSet
    <2>3. DistinctRow(counted, key)
      BY <1>4, <2>1, <2>2, PortsDistinct
    <2> QED
      BY <1>4, <2>3, FlattenDistinct
  <1>16. ASSUME NEW i \in DOMAIN rows, NEW j \in DOMAIN rows, NEW k \in DOMAIN rows[i], NEW l \in DOMAIN rows[j],
                key[rows[i][k]] = key[rows[j][l]]
         PROVE  i = j /\ k = l
    <2> DEFINE m == nodes[i]
               n == nodes[j]
               t == StackOf(s, m[1])
    <2>1. PICK p \in DOMAIN table : /\ s.stacks[p] = t
                                    /\ Before(s, m) + k \in DOMAIN table[p]
                                    /\ table[p][Before(s, m) + k] = rows[i][k]
      BY <1>10, <1>13
    <2>2. PICK q \in DOMAIN table : /\ s.stacks[q] = StackOf(s, n[1])
                                    /\ Before(s, n) + l \in DOMAIN table[q]
                                    /\ table[q][Before(s, n) + l] = rows[j][l]
      BY <1>10, <1>13
    <2>3. m \in DOMAIN configs /\ n \in DOMAIN configs /\ rows[i] = Opened(m) /\ rows[j] = Opened(n)
          /\ m \in CollectServiceNodes(s) /\ n \in CollectServiceNodes(s)
      BY <1>2, <1>6, <1>10, <1>11
    <2> HIDE DEF m, n
    <2>4. p = q /\ Before(s, m) + k = Before(s, n) + l
      BY <1>15, <1>16, <2>1, <2>2 DEF DistinctCells
    <2>5. StackOf(s, n[1]) = t /\ n[1] = m[1]
      BY <1>2, <2>1, <2>2, <2>3, <2>4, NodeStack
    <2>6. m = <<m[1], m[2]>> /\ n = <<n[1], n[2]>> /\ m[2] \in {"xray", "clash"} /\ n[2] \in {"xray", "clash"}
      BY <1>2, <2>3, NodeStack
    <2> DEFINE X == Len(XrayBindings(s, t))
    <2>7. /\ k \in Nat /\ l \in Nat /\ k >= 1 /\ l >= 1
          /\ m[2] = "xray" => k <= X
          /\ n[2] = "xray" => l <= X
      BY <1>1, <2>3, <2>5, OpenedPlace
    <2>8. /\ m[2] = "xray" => Before(s, m) = 0
          /\ n[2] = "xray" => Before(s, n) = 0
          /\ m[2] = "clash" => Before(s, m) = X
          /\ n[2] = "clash" => Before(s, n) = X
      BY <2>5 DEF Before
    <2>9. X \in Nat
      <3>1. LoadedStack(t)
        BY <1>2, <2>3, NodeStack
      <3> QED
        BY <3>1, BindingLists, ListShape
    <2> HIDE DEF X, t
    <2>10. m[2] = n[2] /\ k = l
      BY <2>4, <2>6, <2>7, <2>8, <2>9
    <2>11. m = n
      BY <2>5, <2>6, <2>10
    <2> QED
      BY <1>3, <1>10, <2>10, <2>11 DEF m, n
  <1>17. IsList(opened) /\ DistinctRow(opened, key)
    <2>1. DistinctCells(rows, key)
      BY <1>16 DEF DistinctCells
    <2> QED
      BY <1>12, <2>1, FlattenDistinct, FlattenPlaces DEF opened
  <1>18. \A b \in ToSet(opened) : b \in ToSet(counted)
    <2> TAKE b \in ToSet(opened)
    <2>1. PICK j \in DOMAIN rows : b \in ToSet(rows[j])
      BY <1>12, FlattenElements DEF opened
    <2> QED
      BY <1>14, <2>1 DEF ToSet
  <1>19. ensureUnique(Column(opened, LAMBDA b : b[2]))
    <2>1. \A k \in DOMAIN opened : key[opened[k]] = opened[k][2]
      BY <1>9, <1>18 DEF ToSet
    <2> QED
      BY <1>17, <2>1, PortsDistinct
  <1>20. ToSet(opened) \cap Occupied = {}
    <2>1. ToSet(counted) \cap Occupied = {}
      BY <1>2 DEF GoodSet, ValidateStackSet, ValidateSystemPortsAvailable, counted
    <2> QED
      BY <1>18, <2>1
  <1>21. opened = FlattenSeq(Column(sortedNodesFromSet(DOMAIN configs), Opened))
    BY <1>5, <1>10 DEF opened, nodes
  <1> QED
    BY <1>19, <1>20, <1>21 DEF RenderedPortsFree

(***************************************************************************)
(* What loads can be exported.                                             *)
(***************************************************************************)

\* An inbound that was accepted has no user twice, and a vmess inbound has one.
LEMMA InboundUsers ==
    ASSUME NEW i, LoadedInbound(i)
    PROVE  /\ \A j, k \in DOMAIN i.users : i.users[j].user = i.users[k].user => j = k
           /\ i.protocol = "vmess" => i.users # <<>>
  <1> DEFINE users == i.users
             cells == [k \in DOMAIN users |-> users[k].user]
  <1>1. InboundShape(i) /\ ValidateInbound(i) /\ i.user_refs = <<>>
    BY DEF LoadedInbound
  <1>2. i.protocol = "vmess" => validateVmess(i)
    BY <1>1 DEF ValidateInbound
  <1>3. i.users # <<>> => ensureUnique(Column(users, LAMBDA u : u.user))
    <2>1. \/ i.protocol = "vmess" /\ validateVmess(i)
          \/ i.protocol = "shadowsocks" /\ validateShadowsocks(i)
          \/ ValidateAccountInbound(i)
      BY <1>1 DEF ValidateInbound
    <2> QED
      BY <2>1 DEF validateVmess, validateShadowsocks, ValidateAccountInbound, UsersDistinct
  <1>4. Column(users, LAMBDA u : u.user) = cells \o <<>>
    BY DEF Column
  <1>5. cells = [k \in DOMAIN users |-> cells[k]] /\ \A k \in DOMAIN users : cells[k] = users[k].user
    OBVIOUS
  <1>6. IsList(users)
    BY <1>1 DEF InboundShape
  <1> HIDE DEF cells
  <1>7. cells \o <<>> = cells /\ DOMAIN cells = DOMAIN users
    BY <1>5, <1>6, ColumnFacts
  <1>8. i.users # <<>> => \A j, k \in DOMAIN users : users[j].user = users[k].user => j = k
    BY <1>3, <1>4, <1>5, <1>7 DEF ensureUnique
  <1>9. i.users = <<>> => DOMAIN users = {}
    OBVIOUS
  <1> QED
    BY <1>1, <1>2, <1>8, <1>9 DEF validateVmess

\* The nodes of an inbound have the users and names that were looked at, and different ids.
LEMMA InboundParallel ==
    ASSUME NEW s, NEW t, NEW i, LoadedInbound(i)
    PROVE  LET nodes == renderInboundNodes(s, t, i)
               names == collectSubscriptionProxyNames(t, i)
           IN  /\ IsList(nodes) /\ IsList(names) /\ DOMAIN nodes = DOMAIN names
               /\ \A k \in DOMAIN nodes : /\ names[k] = <<nodes[k].user, nodes[k].remark>>
                                         /\ nodes[k].id[1] = t.name /\ nodes[k].id[2] = i.name
               /\ \A k, l \in DOMAIN nodes : nodes[k].id = nodes[l].id => k = l
  <1> DEFINE nodes == renderInboundNodes(s, t, i)
             names == collectSubscriptionProxyNames(t, i)
  <1>1. InboundShape(i) /\ i.user_refs = <<>> /\ validInboundProtocol(i.protocol)
    BY DEF LoadedInbound, ValidateInbound
  <1>2. IsList(nodes)
    BY <1>1, InboundNodes
  <1>3. CASE i.users = <<>>
    <2>1. i.protocol # "vmess"
      BY <1>3, InboundUsers
    <2> DEFINE node == renderSingleInboundNode(s, t, i)
    <2>2. nodes = <<node>>
      BY <1>1, <1>3, <2>1, InboundNodes
    <2>3. names = <<<<FirstNonEmpty(i.user, "default"), subscriptionRemark(t, i, i.remark)>>>>
      BY <1>1, <1>3 DEF collectSubscriptionProxyNames, subscriptionInboundUsers
    <2>4. SingleFields(node, s, t, i)
      BY <1>1, <2>1, SingleNodeFields
    <2>5. names = <<<<node.user, node.remark>>>> /\ node.id[1] = t.name /\ node.id[2] = i.name
      BY <2>3, <2>4 DEF SingleFields
    <2> HIDE DEF nodes, names, node
    <2>6. /\ IsList(names) /\ DOMAIN names = 1..1 /\ names[1] = <<node.user, node.remark>>
          /\ DOMAIN nodes = 1..1 /\ nodes[1] = node
      BY <2>2, <2>5, SingletonList
    <2>7. \A k \in 1..1 : k = 1
      OBVIOUS
    <2> QED
      BY <1>2, <2>5, <2>6, <2>7 DEF nodes, names
  <1>4. CASE i.users # <<>>
    <2> DEFINE users == i.users
               cells == [k \in DOMAIN users |->
                           <<users[k].user, subscriptionRemark(t, i, FirstNonEmpty(users[k].remark, i.remark))>>]
    <2>1. /\ DOMAIN nodes = DOMAIN users
          /\ \A k \in DOMAIN users : nodes[k] = NodeOfUser(s, t, i, users[k])
      BY <1>1, <1>4, InboundNodes
    <2>2. names = cells \o <<>>
      BY <1>4 DEF collectSubscriptionProxyNames, subscriptionInboundUsers, Column
    <2>3. cells = [k \in DOMAIN users |-> cells[k]]
      OBVIOUS
    <2>4. \A k \in DOMAIN users : cells[k] =
             <<users[k].user, subscriptionRemark(t, i, FirstNonEmpty(users[k].remark, i.remark))>>
      OBVIOUS
    <2>5. IsList(users)
      BY <1>1 DEF InboundShape
    <2> HIDE DEF cells, nodes, names
    <2>6. names = cells /\ IsList(names) /\ DOMAIN names = DOMAIN users
      BY <2>2, <2>3, <2>5, ColumnFacts
    <2>7. ASSUME NEW k \in DOMAIN users
          PROVE  /\ names[k] = <<nodes[k].user, nodes[k].remark>>
                 /\ nodes[k].id = <<t.name, i.name, users[k].user>>
      <3>1. UserFields(nodes[k], s, t, i, users[k])
        BY <2>1, UserNodeFields
      <3> QED
        BY <2>4, <2>6, <3>1 DEF UserFields
    <2>8. \A k, l \in DOMAIN nodes : nodes[k].id = nodes[l].id => k = l
      <3> TAKE k, l \in DOMAIN nodes
      <3> HAVE nodes[k].id = nodes[l].id
      <3>1. users[k].user = users[l].user
        BY <2>1, <2>7
      <3> QED
        BY <2>1, <3>1, InboundUsers
    <2> QED
      BY <1>2, <2>1, <2>6, <2>7, <2>8 DEF nodes, names
  <1> QED
    BY <1>3, <1>4

\* A node of an inbound that was accepted is valid, if it has a host to name.
LEMMA NodeValid ==
    ASSUME NEW s, s.config.external_host # "", NEW t, NEW i, LoadedInbound(i),
           NEW node \in ToSet(renderInboundNodes(s, t, i))
    PROVE  ValidateNode(node)
  <1> DEFINE nodes == renderInboundNodes(s, t, i)
  <1>1. InboundShape(i) /\ ValidateInbound(i) /\ validInboundProtocol(i.protocol) /\ ValidatePort(i.port)
    BY DEF LoadedInbound, ValidateInbound
  <1>2. /\ i.auth # NoAuth => ValidateAuth(i.auth)
        /\ i.udp # "unset" => SupportsInboundUDPProtocol(i.protocol)
        /\ i.protocol = "vmess" => validateVmess(i)
        /\ i.protocol = "shadowsocks" => validateShadowsocks(i)
    BY <1>1 DEF ValidateInbound, UDPConfigured
  <1>3. subscriptionServer(s, i) # ""
    BY DEF subscriptionServer, FirstNonEmpty
  <1>4. CASE i.users = <<>>
    <2>1. i.protocol # "vmess"
      BY <1>4, InboundUsers
    <2>2. node = renderSingleInboundNode(s, t, i)
      <3>1. nodes = <<renderSingleInboundNode(s, t, i)>>
        BY <1>1, <1>4, <2>1, InboundNodes
      <3>2. \A x : ToSet(<<x>>) = {x}
        BY SingletonList
      <3>3. node \in ToSet(nodes)
        OBVIOUS
      <3> HIDE DEF nodes
      <3> QED
        BY <3>1, <3>2, <3>3
    <2>3. SingleFields(node, s, t, i)
      BY <1>1, <2>1, <2>2, SingleNodeFields
    <2>4. i.protocol = "shadowsocks" => node.password # <<>> /\ node.method # ""
      <3>1. <<i.password>> # <<>>
        OBVIOUS
      <3> QED
        BY <1>2, <2>3, <3>1 DEF SingleFields, validateShadowsocks
    <2> QED
      BY <1>1, <1>2, <1>3, <2>1, <2>3, <2>4 DEF SingleFields, ValidateNode
  <1>5. CASE i.users # <<>>
    <2>1. /\ DOMAIN nodes = DOMAIN i.users
          /\ \A j \in DOMAIN i.users : nodes[j] = NodeOfUser(s, t, i, i.users[j])
      <3>1. InboundShape(i)
        BY <1>1
      <3> QED
        BY <1>5, <3>1, NodesOfUsers
    <2>2. PICK k \in DOMAIN i.users : node = NodeOfUser(s, t, i, i.users[k])
      BY <2>1 DEF ToSet
    <2> DEFINE u == i.users[k]
    <2>3. UserFields(node, s, t, i, u)
      BY <2>2, UserNodeFields
    <2>4. i.protocol = "vmess" => u.uuid # "" /\ i.network # ""
      BY <1>2, <2>2 DEF validateVmess
    <2> HIDE DEF u
    <2>5. i.protocol = "shadowsocks" => node.password # <<>> /\ node.method # ""
      <3>1. shadowsocksNodePassword(i, u) # <<>>
        BY DEF shadowsocksNodePassword
      <3>2. i.protocol = "shadowsocks" => FirstNonEmpty(u.method, i.method) # ""
        BY <1>2 DEF FirstNonEmpty, validateShadowsocks
      <3> QED
        BY <2>3, <3>1, <3>2 DEF UserFields
    <2> QED
      BY <1>1, <1>2, <1>3, <2>3, <2>4, <2>5 DEF UserFields, ValidateNode, validInboundProtocol
  <1> QED
    BY <1>4, <1>5

\* The published inbounds of a stack have different names.
LEMMA PublishedDistinct ==
    ASSUME NEW t, LoadedStack(t)
    PROVE  \A j, k \in DOMAIN PublishedInbounds(t) :
               PublishedInbounds(t)[j].name = PublishedInbounds(t)[k].name => j = k
  <1> DEFINE all == t.xray.inbounds
             rows == [k \in DOMAIN all |-> IF all[k].sub = "on" THEN <<all[k]>> ELSE <<>>]
             published == PublishedInbounds(t)
             key == [i \in ToSet(all) |-> i.name]
  <1>1. IsList(all) /\ \A j, k \in DOMAIN all : all[j].name = all[k].name => j = k
    BY DEF LoadedStack
  <1>2. published = IF XrayOn(t) THEN FlattenSeq(rows) ELSE <<>>
    BY DEF PublishedInbounds, Keep
  <1>3. rows = [k \in DOMAIN all |-> rows[k]] /\ \A k \in DOMAIN all : rows[k] \in {<<>>, <<all[k]>>}
    OBVIOUS
  <1>4. \A i \in ToSet(published) : i \in ToSet(all)
    BY <1>1, PublishedFacts
  <1>5. \A i \in ToSet(all) : key[i] = i.name
    OBVIOUS
  <1> HIDE DEF rows, published, key
  <1>6. DistinctRow(all, key)
    BY <1>1, <1>5 DEF DistinctRow, ToSet
  <1>7. DistinctRow(FlattenSeq(rows), key)
    BY <1>1, <1>3, <1>6, KeepFacts
  <1>8. DistinctRow(published, key)
    BY <1>2, <1>7 DEF DistinctRow
  <1>9. \A k \in DOMAIN published : key[published[k]] = published[k].name
    BY <1>4, <1>5 DEF ToSet
  <1> QED
    BY <1>8, <1>9 DEF DistinctRow, published

IdsDiffer(list) == \A j, k \in DOMAIN list : list[j].id = list[k].id => j = k
NamesDiffer(list) ==
    \A j, k \in DOMAIN list :
        <<list[j].user, list[j].remark>> = <<list[k].user, list[k].remark>> => j = k

\* The nodes of a stack have the users and names of the stack, and different ids.
LEMMA StackNodes ==
    ASSUME NEW s, NEW t, LoadedStack(t)
    PROVE  LET nodes == renderStackNodes(s, t)
               names == ProxyNamesOf(t)
           IN  /\ IsList(nodes) /\ IsList(names)
               /\ \A n \in ToSet(nodes) :
                     /\ <<n.user, n.remark>> \in ToSet(names)
                     /\ n.id[1] = t.name
                     /\ s.config.external_host # "" => ValidateNode(n)
               /\ IdsDiffer(nodes) /\ (ensureUnique(names) => NamesDiffer(nodes))
  <1> DEFINE published == PublishedInbounds(t)
             nodes == renderStackNodes(s, t)
             names == ProxyNamesOf(t)
             rows == [k \in DOMAIN published |-> renderInboundNodes(s, t, published[k])]
             cells == [k \in DOMAIN published |-> collectSubscriptionProxyNames(t, published[k])]
  <1>1. IsList(published) /\ \A i \in ToSet(published) : i \in ToSet(t.xray.inbounds)
    BY PublishedFacts DEF LoadedStack
  <1>2. \A k \in DOMAIN published : LoadedInbound(published[k])
    BY <1>1 DEF LoadedStack, ToSet
  <1>3. \A j, k \in DOMAIN published : published[j].name = published[k].name => j = k
    BY PublishedDistinct
  <1>4. nodes = FlattenSeq(rows \o <<>>) /\ names = FlattenSeq(cells \o <<>>)
    BY DEF renderStackNodes, ProxyNamesOf, Column
  <1> HIDE DEF published, nodes, names
  <1>5. rows = [k \in DOMAIN published |-> rows[k]] /\ cells = [k \in DOMAIN published |-> cells[k]]
    OBVIOUS
  <1>6. ASSUME NEW k \in DOMAIN published
        PROVE  /\ IsList(rows[k]) /\ IsList(cells[k]) /\ DOMAIN rows[k] = DOMAIN cells[k]
               /\ \A m \in DOMAIN rows[k] :
                     /\ cells[k][m] = <<rows[k][m].user, rows[k][m].remark>>
                     /\ rows[k][m].id[1] = t.name /\ rows[k][m].id[2] = published[k].name
                     /\ s.config.external_host # "" => ValidateNode(rows[k][m])
               /\ \A m, l \in DOMAIN rows[k] : rows[k][m].id = rows[k][l].id => m = l
    <2> DEFINE i == published[k]
               row == renderInboundNodes(s, t, i)
               cell == collectSubscriptionProxyNames(t, i)
    <2>1. rows[k] = row /\ cells[k] = cell
      OBVIOUS
    <2>2. LoadedInbound(i)
      BY <1>2
    <2> HIDE DEF i
    <2>3. /\ IsList(row) /\ IsList(cell) /\ DOMAIN row = DOMAIN cell
          /\ \A m \in DOMAIN row : /\ cell[m] = <<row[m].user, row[m].remark>>
                                   /\ row[m].id[1] = t.name /\ row[m].id[2] = i.name
          /\ \A m, l \in DOMAIN row : row[m].id = row[l].id => m = l
      BY <2>2, InboundParallel
    <2>4. s.config.external_host # "" => \A m \in DOMAIN row : ValidateNode(row[m])
      BY <2>2, NodeValid DEF ToSet
    <2> HIDE DEF rows, cells, row, cell
    <2> QED
      BY <2>1, <2>3, <2>4 DEF i
  <1> HIDE DEF rows, cells
  <1>7. /\ rows \o <<>> = rows /\ IsList(rows) /\ DOMAIN rows = DOMAIN published
        /\ cells \o <<>> = cells /\ IsList(cells) /\ DOMAIN cells = DOMAIN published
    BY <1>1, <1>5, ColumnFacts
  <1>8. IsTable(rows) /\ IsTable(cells) /\ nodes = FlattenSeq(rows) /\ names = FlattenSeq(cells)
    BY <1>4, <1>6, <1>7 DEF IsTable
  <1>9. \A k \in DOMAIN rows : \A m \in DOMAIN rows[k] : rows[k][m] \in ToSet(nodes)
    BY <1>8, FlattenElements DEF ToSet
  <1>10. \A k \in DOMAIN cells : \A m \in DOMAIN cells[k] : cells[k][m] \in ToSet(names)
    BY <1>8, FlattenElements DEF ToSet
  <1>11. ASSUME NEW n \in ToSet(nodes)
         PROVE  /\ <<n.user, n.remark>> \in ToSet(names) /\ n.id[1] = t.name
                /\ s.config.external_host # "" => ValidateNode(n)
    <2>1. PICK k \in DOMAIN rows : n \in ToSet(rows[k])
      BY <1>8, FlattenElements
    <2>2. PICK m \in DOMAIN rows[k] : n = rows[k][m]
      BY <2>1 DEF ToSet
    <2>3. k \in DOMAIN published /\ k \in DOMAIN cells
      BY <1>7, <2>1
    <2>4. m \in DOMAIN cells[k] /\ cells[k][m] = <<n.user, n.remark>>
      BY <1>6, <2>2, <2>3
    <2>5. <<n.user, n.remark>> \in ToSet(names)
      BY <1>10, <2>3, <2>4
    <2>6. n.id[1] = t.name /\ (s.config.external_host # "" => ValidateNode(n))
      BY <1>6, <2>2, <2>3
    <2> QED
      BY <2>5, <2>6
  <1>12. IdsDiffer(nodes)
    <2> DEFINE key == [n \in ToSet(nodes) |-> n.id]
    <2>3. \A n \in ToSet(nodes) : key[n] = n.id
      OBVIOUS
    <2> HIDE DEF key
    <2>1. ASSUME NEW j \in DOMAIN rows, NEW k \in DOMAIN rows, NEW l \in DOMAIN rows[j], NEW m \in DOMAIN rows[k],
                 key[rows[j][l]] = key[rows[k][m]]
          PROVE  j = k /\ l = m
      <3>1. rows[j][l].id = rows[k][m].id
        BY <1>9, <2>1, <2>3
      <3>2. j \in DOMAIN published /\ k \in DOMAIN published
        BY <1>7
      <3>3. rows[j][l].id[2] = published[j].name /\ rows[k][m].id[2] = published[k].name
        BY <1>6, <3>2
      <3>4. published[j].name = published[k].name
        BY <3>1, <3>3
      <3>5. j = k
        BY <1>3, <3>2, <3>4
      <3> QED
        BY <1>6, <3>1, <3>2, <3>5
    <2>2. DistinctCells(rows, key)
      BY <2>1 DEF DistinctCells
    <2>4. DistinctRow(nodes, key)
      BY <1>8, <2>2, FlattenDistinct
    <2>5. \A k \in DOMAIN nodes : key[nodes[k]] = nodes[k].id
      BY <2>3 DEF ToSet
    <2> QED
      BY <2>4, <2>5 DEF DistinctRow, IdsDiffer
  <1>13. ASSUME ensureUnique(names)
         PROVE  NamesDiffer(nodes)
    <2> DEFINE key == [n \in ToSet(nodes) |-> <<n.user, n.remark>>]
               same == [e \in ToSet(names) |-> e]
    <2>4. (\A n \in ToSet(nodes) : key[n] = <<n.user, n.remark>>) /\ \A e \in ToSet(names) : same[e] = e
      OBVIOUS
    <2> HIDE DEF key, same
    <2>5. DistinctRow(names, same)
      BY <1>13, <2>4 DEF DistinctRow, ensureUnique, ToSet
    <2>1. DistinctCells(cells, same)
      BY <1>8, <2>5, FlattenDistinct
    <2>2. ASSUME NEW j \in DOMAIN rows, NEW k \in DOMAIN rows, NEW l \in DOMAIN rows[j], NEW m \in DOMAIN rows[k],
                 key[rows[j][l]] = key[rows[k][m]]
          PROVE  j = k /\ l = m
      <3>1. key[rows[j][l]] = <<rows[j][l].user, rows[j][l].remark>>
            /\ key[rows[k][m]] = <<rows[k][m].user, rows[k][m].remark>>
        BY <1>9, <2>4
      <3>2. j \in DOMAIN cells /\ k \in DOMAIN cells /\ l \in DOMAIN cells[j] /\ m \in DOMAIN cells[k]
        BY <1>6, <1>7
      <3>3. cells[j][l] = key[rows[j][l]] /\ cells[k][m] = key[rows[k][m]]
        BY <1>6, <1>7, <3>1
      <3>4. same[cells[j][l]] = same[cells[k][m]]
        BY <2>2, <3>3
      <3> QED
        BY <2>1, <3>2, <3>4 DEF DistinctCells
    <2>3. DistinctCells(rows, key)
      BY <2>2 DEF DistinctCells
    <2>6. DistinctRow(nodes, key)
      BY <1>8, <2>3, FlattenDistinct
    <2>7. \A k \in DOMAIN nodes : key[nodes[k]] = <<nodes[k].user, nodes[k].remark>>
      BY <2>4 DEF ToSet
    <2> QED
      BY <2>6, <2>7 DEF DistinctRow, NamesDiffer
  <1> QED
    <2>1. IsList(nodes) /\ IsList(names)
      BY <1>8, FlattenPlaces
    <2> QED
      BY <1>11, <1>12, <1>13, <2>1 DEF nodes, names

\* The users and names that the stacks of a set publish are all different: within a stack,
\* and from one to the next.
LEMMA StackNames ==
    ASSUME NEW s, GoodSet(s)
    PROVE  /\ \A a \in ToSet(s.stacks) : ensureUnique(ProxyNamesOf(a))
           /\ \A a, b \in ToSet(s.stacks) : \A e :
                 e \in ToSet(ProxyNamesOf(a)) /\ e \in ToSet(ProxyNamesOf(b)) => a = b
  <1> DEFINE stacks == s.stacks
             rows == [k \in DOMAIN stacks |-> ProxyNamesOf(stacks[k])]
             all == FlattenSeq(rows)
             ident == [e \in ToSet(all) |-> e]
  <1>1. IsList(stacks) /\ \A a \in ToSet(stacks) : LoadedStack(a)
    BY DEF GoodSet
  <1>2. ensureUnique(FlattenSeq(rows \o <<>>))
    BY DEF GoodSet, ValidateStackSet, ValidateSubscriptionProxyNames, ProxyNamesOf, Column
  <1> HIDE DEF stacks
  <1>3. rows = [k \in DOMAIN stacks |-> rows[k]] /\ \A k \in DOMAIN stacks : rows[k] = ProxyNamesOf(stacks[k])
    OBVIOUS
  <1> HIDE DEF rows
  <1>4. rows \o <<>> = rows /\ IsList(rows) /\ DOMAIN rows = DOMAIN stacks
    BY <1>1, <1>3, ColumnFacts
  <1>5. \A k \in DOMAIN stacks : IsList(ProxyNamesOf(stacks[k]))
    BY <1>1, StackNodes DEF ToSet
  <1>6. IsTable(rows)
    BY <1>3, <1>4, <1>5 DEF IsTable
  <1>7. \A k \in DOMAIN all : all[k] \in ToSet(all) /\ ident[all[k]] = all[k]
    BY DEF ToSet
  <1>8. DistinctRow(all, ident)
    <2>1. ensureUnique(all)
      BY <1>2, <1>4
    <2> HIDE DEF all, ident
    <2> QED
      BY <1>7, <2>1 DEF DistinctRow, ensureUnique
  <1>9. DistinctCells(rows, ident)
    BY <1>6, <1>8, FlattenDistinct
  <1>10. \A k \in DOMAIN rows : \A m \in DOMAIN rows[k] : ident[rows[k][m]] = rows[k][m]
    BY <1>6, FlattenElements DEF ToSet
  <1> HIDE DEF all, ident
  <1>11. \A j, k \in DOMAIN rows : \A l \in DOMAIN rows[j], m \in DOMAIN rows[k] :
            rows[j][l] = rows[k][m] => j = k /\ l = m
    BY <1>9, <1>10 DEF DistinctCells
  <1>12. ASSUME NEW a \in ToSet(stacks)
         PROVE  ensureUnique(ProxyNamesOf(a))
    <2>1. PICK k \in DOMAIN rows : rows[k] = ProxyNamesOf(a)
      BY <1>3, <1>4 DEF ToSet
    <2> QED
      BY <1>11, <2>1 DEF ensureUnique
  <1>13. ASSUME NEW a \in ToSet(stacks), NEW b \in ToSet(stacks), NEW e,
                e \in ToSet(ProxyNamesOf(a)), e \in ToSet(ProxyNamesOf(b))
         PROVE  a = b
    <2>1. PICK j \in DOMAIN rows : a = stacks[j] /\ rows[j] = ProxyNamesOf(a)
      BY <1>3, <1>4 DEF ToSet
    <2>2. PICK k \in DOMAIN rows : b = stacks[k] /\ rows[k] = ProxyNamesOf(b)
      BY <1>3, <1>4 DEF ToSet
    <2>3. PICK l \in DOMAIN rows[j] : e = rows[j][l]
      BY <1>13, <2>1 DEF ToSet
    <2>4. PICK m \in DOMAIN rows[k] : e = rows[k][m]
      BY <1>13, <2>2 DEF ToSet
    <2>5. rows[j][l] = rows[k][m]
      BY <2>3, <2>4
    <2>6. j = k
      BY ONLY j \in DOMAIN rows, k \in DOMAIN rows, l \in DOMAIN rows[j], m \in DOMAIN rows[k],
              <1>11, <2>5
    <2> QED
      BY <2>1, <2>2, <2>6
  <1> QED
    BY <1>12, <1>13 DEF stacks

\* A list of valid nodes with different ids, and different names for each user, is an input.
LEMMA ListIsInput ==
    ASSUME NEW list, IsList(list), \A n \in ToSet(list) : ValidateNode(n),
           IdsDiffer(list), NamesDiffer(list)
    PROVE  ValidateInput(list)
  <1> DEFINE ids == [k \in DOMAIN list |-> list[k].id]
             names == [k \in DOMAIN list |-> <<list[k].user, list[k].remark>>]
  <1>1. Column(list, LAMBDA n : n.id) = ids \o <<>>
    BY DEF Column
  <1>2. Column(list, LAMBDA n : <<n.user, n.remark>>) = names \o <<>>
    BY DEF Column
  <1>3. \A k \in DOMAIN list : list[k] \in ToSet(list)
    BY DEF ToSet
  <1>4. /\ ids = [k \in DOMAIN list |-> ids[k]] /\ \A k \in DOMAIN list : ids[k] = list[k].id
        /\ names = [k \in DOMAIN list |-> names[k]]
        /\ \A k \in DOMAIN list : names[k] = <<list[k].user, list[k].remark>>
    OBVIOUS
  <1> HIDE DEF ids, names
  <1>5. /\ ids \o <<>> = ids /\ DOMAIN ids = DOMAIN list
        /\ names \o <<>> = names /\ DOMAIN names = DOMAIN list
    BY <1>4, ColumnFacts
  <1>6. ensureUnique(ids) /\ ensureUnique(names)
    BY <1>4, <1>5 DEF ensureUnique, IdsDiffer, NamesDiffer
  <1>7. \A k \in DOMAIN list : ValidateNode(list[k])
    BY <1>3
  <1> QED
    BY <1>1, <1>2, <1>5, <1>6, <1>7 DEF ValidateInput

FileOf(s, bundle, f, t) == t \in ToSet(s.stacks) /\ t.name = f /\ bundle[f] = renderStackNodes(s, t)
FilesOfStacks(s, bundle) == \A f \in DOMAIN bundle : \E t : FileOf(s, bundle, f, t)

\* Each file of a bundle holds the nodes of the stack it is named after.
LEMMA BundleFiles ==
    ASSUME NEW s, NEW target
    PROVE  FilesOfStacks(s, buildSubBundleInputs(s, target))
  <1> SUFFICES ASSUME NEW f \in DOMAIN buildSubBundleInputs(s, target)
               PROVE  \E t : FileOf(s, buildSubBundleInputs(s, target), f, t)
    BY DEF FilesOfStacks
  <1> DEFINE exported == {t \in StacksWithNodes(s) : target \in {"", t.name}}
             t == CHOOSE t \in exported : t.name = f
  <1>1. buildSubBundleInputs(s, target) =
           [g \in {u.name : u \in exported} |-> renderStackNodes(s, CHOOSE u \in exported : u.name = g)]
    BY DEF buildSubBundleInputs
  <1>2. \A u \in exported : u \in ToSet(s.stacks)
    BY DEF StacksWithNodes
  <1> HIDE DEF exported
  <1>3. f \in {u.name : u \in exported} /\ buildSubBundleInputs(s, target)[f] = renderStackNodes(s, t)
    BY <1>1
  <1>4. t \in exported /\ t.name = f
    BY <1>3
  <1> QED
    BY <1>2, <1>3, <1>4 DEF FileOf

\* The bundle of a good set merges.
LEMMA BundleMerges ==
    ASSUME NEW s, GoodSet(s), s.config.external_host # "", NEW target,
           InputsShape(buildSubBundleInputs(s, target))
    PROVE  MergeInputs(buildSubBundleInputs(s, target))
  <1> DEFINE in == buildSubBundleInputs(s, target)
             all == AllInputNodes(in)
  <1>1. FilesOfStacks(s, in)
    BY BundleFiles
  <1>2. InputsShape(in)
    OBVIOUS
  <1> HIDE DEF in
  <1>3. \A t \in ToSet(s.stacks) : LoadedStack(t)
    BY DEF GoodSet
  <1>4. ASSUME NEW f \in DOMAIN in
        PROVE  /\ IsList(in[f])
               /\ \A n \in ToSet(in[f]) : n.id[1] = f /\ ValidateNode(n)
               /\ IdsDiffer(in[f]) /\ NamesDiffer(in[f])
    <2>1. PICK t \in ToSet(s.stacks) : t.name = f /\ in[f] = renderStackNodes(s, t)
      BY <1>1 DEF FilesOfStacks, FileOf
    <2> DEFINE row == renderStackNodes(s, t)
    <2>2. LoadedStack(t) /\ ensureUnique(ProxyNamesOf(t))
      BY <1>3, <2>1, StackNames
    <2>3. /\ IsList(row) /\ IdsDiffer(row) /\ NamesDiffer(row)
          /\ \A n \in ToSet(row) : n.id[1] = t.name /\ ValidateNode(n)
      BY <2>2, StackNodes
    <2>4. in[f] = row /\ t.name = f
      BY <2>1
    <2> HIDE DEF row
    <2> QED
      BY <2>3, <2>4
  <1>5. ASSUME NEW f \in DOMAIN in
        PROVE  \E t \in ToSet(s.stacks) : t.name = f /\ \A n \in ToSet(in[f]) :
                                                          <<n.user, n.remark>> \in ToSet(ProxyNamesOf(t))
    <2>1. PICK t \in ToSet(s.stacks) : t.name = f /\ in[f] = renderStackNodes(s, t)
      BY <1>1 DEF FilesOfStacks, FileOf
    <2>2. LoadedStack(t)
      BY <1>3, <2>1
    <2>3. \A n \in ToSet(renderStackNodes(s, t)) : <<n.user, n.remark>> \in ToSet(ProxyNamesOf(t))
      BY <2>2, StackNodes
    <2> QED
      BY <2>1, <2>3
  <1>6. ASSUME NEW f \in DOMAIN in
        PROVE  ValidateInput(in[f])
    BY <1>4, ListIsInput
  <1>7. /\ IsList(all)
        /\ \A n : n \in ToSet(all) <=> \E f \in DOMAIN in : n \in ToSet(in[f])
        /\ \A key : (\A f, g \in DOMAIN in : \A k \in DOMAIN in[f], l \in DOMAIN in[g] :
                        key[in[f][k]] = key[in[g][l]] => f = g /\ k = l) => DistinctRow(all, key)
    BY <1>2, AllInputNodesFacts
  <1> HIDE DEF all
  <1>8. \A f \in DOMAIN in : \A k \in DOMAIN in[f] : in[f][k] \in ToSet(in[f]) /\ in[f][k] \in ToSet(all)
    BY <1>7 DEF ToSet
  <1>9. IdsDiffer(all)
    <2> DEFINE key == [n \in ToSet(all) |-> n.id]
    <2>1. \A n \in ToSet(all) : key[n] = n.id
      OBVIOUS
    <2> HIDE DEF key
    <2>2. ASSUME NEW f \in DOMAIN in, NEW g \in DOMAIN in, NEW k \in DOMAIN in[f], NEW l \in DOMAIN in[g],
                 key[in[f][k]] = key[in[g][l]]
          PROVE  f = g /\ k = l
      <3>1. in[f][k].id = in[g][l].id
        BY <1>8, <2>1, <2>2
      <3>2. in[f][k].id[1] = f /\ in[g][l].id[1] = g
        BY <1>4, <1>8
      <3>3. f = g
        BY <3>1, <3>2
      <3> QED
        BY <1>4, <3>1, <3>3 DEF IdsDiffer
    <2>3. DistinctRow(all, key)
      BY <1>7, <2>2
    <2>4. \A k \in DOMAIN all : key[all[k]] = all[k].id
      BY <2>1 DEF ToSet
    <2> QED
      BY <2>3, <2>4 DEF DistinctRow, IdsDiffer
  <1>10. NamesDiffer(all)
    <2> DEFINE key == [n \in ToSet(all) |-> <<n.user, n.remark>>]
    <2>1. \A n \in ToSet(all) : key[n] = <<n.user, n.remark>>
      OBVIOUS
    <2> HIDE DEF key
    <2>2. ASSUME NEW f \in DOMAIN in, NEW g \in DOMAIN in, NEW k \in DOMAIN in[f], NEW l \in DOMAIN in[g],
                 key[in[f][k]] = key[in[g][l]]
          PROVE  f = g /\ k = l
      <3> DEFINE m == in[f][k]
                 n == in[g][l]
      <3>1. m \in ToSet(in[f]) /\ n \in ToSet(in[g]) /\ <<m.user, m.remark>> = <<n.user, n.remark>>
        BY <1>8, <2>1, <2>2
      <3>2. PICK t \in ToSet(s.stacks) : t.name = f /\ <<m.user, m.remark>> \in ToSet(ProxyNamesOf(t))
        BY <1>5, <3>1
      <3>3. PICK u \in ToSet(s.stacks) : u.name = g /\ <<n.user, n.remark>> \in ToSet(ProxyNamesOf(u))
        BY <1>5, <3>1
      <3>4. t = u
        BY <3>1, <3>2, <3>3, StackNames
      <3>5. f = g
        BY <3>2, <3>3, <3>4
      <3> QED
        BY <1>4, <3>1, <3>5 DEF NamesDiffer
    <2>3. DistinctRow(all, key)
      BY <1>7, <2>2
    <2>4. \A k \in DOMAIN all : key[all[k]] = <<all[k].user, all[k].remark>>
      BY <2>1 DEF ToSet
    <2>5. ASSUME NEW j \in DOMAIN all, NEW k \in DOMAIN all,
                 <<all[j].user, all[j].remark>> = <<all[k].user, all[k].remark>>
          PROVE  j = k
      <3>1. key[all[j]] = key[all[k]]
        BY <2>4, <2>5
      <3> QED
        BY <2>3, <3>1 DEF DistinctRow
    <2> QED
      BY <2>5 DEF NamesDiffer
  <1>11. \A n \in ToSet(all) : ValidateNode(n)
    BY <1>4, <1>7
  <1>12. ValidateInput(all)
    BY <1>7, <1>9, <1>10, <1>11, ListIsInput
  <1> QED
    BY <1>6, <1>12 DEF MergeInputs, in, all

\* What validation accepts can be exported.
LEMMA Exportable == IInv => AcceptedIsExportable
  <1> SUFFICES ASSUME IInv, NEW s \in set, s.config.external_host # "", StacksWithNodes(s) # {}
               PROVE  ExportAccepted(s, "")
    BY DEF AcceptedIsExportable
  <1>1. GoodSet(s) /\ s = LoadedSet /\ FilesShape(files) /\ Loads
    BY HeldFacts DEF IInv, Disk, Held
  <1>2. InputsShape(buildSubBundleInputs(s, ""))
    BY <1>1, BundleShape
  <1>3. MergeInputs(buildSubBundleInputs(s, ""))
    BY <1>1, <1>2, BundleMerges
  <1>4. DOMAIN buildSubBundleInputs(s, "") # {}
    <2> DEFINE exported == {t \in StacksWithNodes(s) : "" \in {"", t.name}}
    <2>1. exported # {}
      OBVIOUS
    <2>2. DOMAIN buildSubBundleInputs(s, "") = {t.name : t \in exported}
      BY DEF buildSubBundleInputs
    <2> HIDE DEF exported
    <2> QED
      BY <2>1, <2>2
  <1> QED
    BY <1>3, <1>4 DEF ExportAccepted

(***************************************************************************)
(* Cycles, plans and scopes.                                               *)
(***************************************************************************)

\* The graph of files that can be read, whether or not they are then refused.
LEMMA ReadGraph ==
    ASSUME IInv, RefsLoad
    PROVE  GraphShape(RawGraph)
  <1>1. FilesShape(files)
    BY DEF IInv, Disk
  <1>2. Resolvable(LoadStacks(config, files)) /\ \A n \in DOMAIN files : LoadableStack(n, files[n])
    BY DEF RefsLoad
  <1>3. IsList(LoadedSet.stacks) /\ \A s \in ToSet(LoadedSet.stacks) : LoadedStack(s)
    BY <1>1, <1>2, ReadFacts DEF LoadedSet
  <1>4. \A s \in ToSet(LoadedSet.stacks) : s.name \in ToSet(StackOrder)
    BY <1>3 DEF LoadedStack
  <1> QED
    BY <1>3, <1>4, GraphOfSet DEF RawGraph

\* The search for a cycle tells whether there is one.
LEMMA CycleFound == IInv => CycleFoundIffCyclic
  <1> SUFFICES ASSUME IInv, RefsLoad
      PROVE  LET cycle == FindCycle(RawGraph)
             IN  /\ cycle = <<>> <=> \A n \in RawGraph.nodes : n \notin Needs(RawGraph)[n]
                 /\ cycle # <<>> =>
                      /\ Len(cycle) > 1 /\ cycle[1] = Last(cycle)
                      /\ \A k \in 1..(Len(cycle) - 1) : cycle[k + 1] \in RawGraph.deps[cycle[k]]
    BY DEF CycleFoundIffCyclic
  <1>1. /\ FindCycle(RawGraph) = <<>> <=> Acyclic(RawGraph)
        /\ FindCycle(RawGraph) # <<>> => ClosedWalk(RawGraph.deps, FindCycle(RawGraph))
    BY ReadGraph, FindCycleFacts
  <1> QED
    BY <1>1 DEF Acyclic, ClosedWalk, Walk

\* The graph of the set a command holds has no cycle.
LEMMA HeldGraph ==
    ASSUME IInv, NEW s \in set
    PROVE  /\ s = LoadedSet /\ GraphShape(Graph(s)) /\ Acyclic(Graph(s))
           /\ "" \notin Graph(s).stackNames
  <1>1. GoodSet(s)
    BY HeldFacts
  <1>2. s = LoadedSet
    BY DEF IInv, Held
  <1>3. IsList(s.stacks) /\ \A t \in ToSet(s.stacks) : t.name \in ToSet(StackOrder)
    BY <1>1 DEF GoodSet, LoadedStack
  <1>4. GraphShape(Graph(s)) /\ "" \notin Graph(s).stackNames
    BY <1>3, GraphOfSet
  <1>5. FindCycle(Graph(s)) = <<>>
    BY <1>1 DEF GoodSet, ValidateStackSet, ValidReferenceGraph, ValidateAcyclic
  <1> QED
    BY <1>2, <1>4, <1>5, FindCycleFacts

\* The plan of a command holds what it must, in order.
LEMMA PlanOrdered == IInv => PlanIsClosedAndOrdered
  <1> SUFFICES ASSUME IInv, NEW p \in plan, NEW s \in set
      PROVE  LET g == Graph(s)
                 targets == SelectTargetNodes(g, p.target)
             IN  /\ ToSet(p.order) = targets \cup UNION {Needs(g)[n] : n \in targets}
                 /\ NeedsFirst(g, p.order)
                 /\ ToSet(p.others) = ToSet(p.order) \ targets
    BY DEF PlanIsClosedAndOrdered
  <1> DEFINE g == Graph(s)
             b == BuildDependencyPlan(g, p.target)
             targets == SelectTargetNodes(g, p.target)
  <1>1. s = LoadedSet /\ GraphShape(g) /\ Acyclic(g)
    BY HeldGraph
  <1>2. p = b
    BY <1>1 DEF IInv, Planned
  <1> HIDE DEF g
  <1>3. /\ ToSet(b.order) = targets \cup UNION {Needs(g)[n] : n \in targets}
        /\ NeedsFirst(g, b.order)
        /\ ToSet(b.others) = ToSet(b.order) \ targets
    BY <1>1, PlanFacts
  <1> QED
    BY <1>2, <1>3 DEF g

\* The scope of everything holds every service, in order.
LEMMA ScopeOfAll == IInv => ScopeOfAllOrdered
  <1> SUFFICES ASSUME IInv, NEW c \in scope, NEW s \in set, c.target = ""
      PROVE  ToSet(c.order) = Graph(s).nodes /\ NeedsFirst(Graph(s), c.order)
    BY DEF ScopeOfAllOrdered
  <1>1. s = LoadedSet /\ GraphShape(Graph(s)) /\ Acyclic(Graph(s)) /\ "" \notin Graph(s).stackNames
    BY HeldGraph
  <1>2. PICK component : c.order \in ResolveTargetScope(Graph(s), "", component)
    BY <1>1 DEF IInv, Planned
  <1> QED
    BY <1>1, <1>2, ScopeFacts

(***************************************************************************)
(* The theorems.                                                           *)
(***************************************************************************)

\* The invariant of the pipeline: the files keep their shape, what is held was computed from
\* the files on disk, and the inputs of the server merge.
THEOREM PipelineInvariant == Spec => []IInv
  <1>1. Init => IInv
    BY InitIInv
  <1>2. IInv /\ [Next]_vars => IInv'
    BY NextIInv
  <1> QED
    BY <1>1, <1>2, PTL DEF Spec

\* What the commands compute has its type.
THEOREM PipelineTypes == Spec => []TypeOK
  BY PipelineInvariant, IInvTypes, PTL

\* A set of stacks that loads is rendered for every service, but in the three cases that
\* validation leaves to the generators.
THEOREM LoadedSetsRender == Spec => []RenderedUnlessKnown
  BY PipelineInvariant, UnlessKnown, PTL

\* The outbounds and proxies of the rendered configs reach a listener of another rendered
\* config that accepts their account.
THEOREM RenderedConfigsConnect == Spec => []RenderedLinksConnect
  BY PipelineInvariant, LinksConnect, PTL

\* The rendered configs open no port twice and none that another program listens on.
THEOREM RenderedConfigsListen == Spec => []RenderedPortsFree
  BY PipelineInvariant, PortsFree, PTL

\* The rendered inbounds let in the proxies of the nodes that are exported for them.
THEOREM ExportedNodesConnect == Spec => []ExportedNodesAccepted
  BY PipelineInvariant, NodesAccepted, PTL

\* A set of stacks that loads can be exported: its nodes are valid and differ in their ids
\* and, for each user, in their names.
THEOREM LoadedSetsExport == Spec => []AcceptedIsExportable
  BY PipelineInvariant, Exportable, PTL

\* The inputs of a subscription server merge after every import.
THEOREM ImportsMerge == Spec => []InputsStayMergeable
  <1>1. IInv => InputsStayMergeable
    BY ServedProperties DEF IInv
  <1> QED
    BY <1>1, PipelineInvariant, PTL

\* The groups of a Surge subscription name only proxies it holds.
THEOREM SurgeGroupsHold == Spec => []SurgeGroupsDefined
  <1>1. IInv => SurgeGroupsDefined
    BY ServedProperties DEF IInv
  <1> QED
    BY <1>1, PipelineInvariant, PTL

\* The files that can be read and whose refs resolve are refused for a cycle exactly if their
\* services form one, and the cycle the error names is one.
THEOREM CyclesFound == Spec => []CycleFoundIffCyclic
  BY PipelineInvariant, CycleFound, PTL

\* A dependency plan holds its target and all it needs, nothing else, and each service comes
\* after all it needs.
THEOREM PlansOrdered == Spec => []PlanIsClosedAndOrdered
  BY PipelineInvariant, PlanOrdered, PTL

\* The scope of a lifecycle command without a target holds every service once, each after all
\* it needs.
THEOREM ScopesOrdered == Spec => []ScopeOfAllOrdered
  BY PipelineInvariant, ScopeOfAll, PTL
===============================================================================
