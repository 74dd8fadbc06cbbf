----------------------------- MODULE GraphFacts -----------------------------
(***************************************************************************)
(* Facts about the graph of services, for every graph: what the search for *)
(* a cycle finds, what the closure of some nodes collects, and in which    *)
(* order the nodes of a closed set are sorted.                             *)
(*                                                                         *)
(* The three are recursive functions that go in depth and in breadth at    *)
(* once.  Each has a measure that falls at every step: the nodes it has    *)
(* not been to, weighed more than any list is long, and the length of the  *)
(* list of what is to do.  With a measure the definition has a value at    *)
(* every point, and what holds of the steps holds of the whole.            *)
(***************************************************************************)
EXTENDS DocumentFacts

(***************************************************************************)
(* Recursion and induction along a measure.                                *)
(***************************************************************************)

\* Induction along a measure, as a fact about the set of the points for which something holds.
Inherited(D, mu, P) ==
    mu \in [D -> Nat] /\ \A x \in D : (\A y \in D : mu[y] < mu[x] => y \in P) => x \in P

\* What holds for a point if it holds for all of a smaller measure holds for all.
LEMMA MeasureInduction ==
    ASSUME NEW D, NEW mu, NEW P, Inherited(D, mu, P)
    PROVE  D \subseteq P
  <1>0. /\ mu \in [D -> Nat]
        /\ \A x \in D : (\A y \in D : mu[y] < mu[x] => y \in P) => x \in P
    BY DEF Inherited
  <1> DEFINE T == {n \in Nat : \A x \in D : mu[x] < n => x \in P}
  <1>1. 0 \in T
    <2>1. \A x \in D : ~(mu[x] < 0)
      BY <1>0
    <2> QED
      BY <2>1
  <1>2. ASSUME NEW n \in Nat, n \in T PROVE n + 1 \in T
    <2>1. ASSUME NEW x \in D, mu[x] < n + 1 PROVE x \in P
      <3>1. \A y \in D : mu[y] < mu[x] => mu[y] < n
        BY <1>0, <2>1
      <3>2. \A y \in D : mu[y] < mu[x] => y \in P
        BY <1>2, <3>1
      <3> QED
        BY <1>0, <3>2
    <2> QED
      BY <2>1
  <1>3. Nat \subseteq T
    <2> HIDE DEF T
    <2> QED
      BY <1>1, <1>2, InductionOnSet
  <1>4. ASSUME NEW x \in D PROVE x \in P
    <2>1. mu[x] + 1 \in Nat /\ mu[x] < mu[x] + 1
      BY <1>0
    <2>2. mu[x] + 1 \in T
      BY <1>3, <2>1
    <2> QED
      BY <2>1, <2>2
  <1> QED
    BY <1>4

\* A step on functions from D to R whose value at a point only depends on the values at points of
\* a smaller measure.
Descends(D, R, mu, Phi) ==
    /\ mu \in [D -> Nat] /\ [D -> R] # {} /\ Phi \in [[D -> R] -> [D -> R]]
    /\ \A f, g \in [D -> R] : \A x \in D :
          (\A y \in D : mu[y] < mu[x] => f[y] = g[y]) => Phi[f][x] = Phi[g][x]
HasFixedPoint(D, R, Phi) == \E f \in [D -> R] : f = Phi[f]

\* Such a step has a fixed point: what makes a recursive definition a definition.
LEMMA FixedPoint ==
    ASSUME NEW D, NEW R, NEW mu, NEW Phi, Descends(D, R, mu, Phi)
    PROVE  HasFixedPoint(D, R, Phi)
  <1>0. /\ mu \in [D -> Nat] /\ [D -> R] # {} /\ Phi \in [[D -> R] -> [D -> R]]
        /\ \A f, g \in [D -> R] : \A x \in D :
              (\A y \in D : mu[y] < mu[x] => f[y] = g[y]) => Phi[f][x] = Phi[g][x]
    BY DEF Descends
  <1> USE <1>0
  <1> DEFINE Fixed(h, n) == \A x \in D : mu[x] < n => h[x] = Phi[h][x]
             T == {n \in Nat : \E h \in [D -> R] : Fixed(h, n)}
  <1>1. 0 \in T
    <2>1. \A x \in D : ~(mu[x] < 0)
      OBVIOUS
    <2> QED
      BY <2>1
  <1>2. ASSUME NEW n \in Nat, n \in T PROVE n + 1 \in T
    <2>1. PICK h \in [D -> R] : Fixed(h, n)
      BY <1>2
    <2>2. Phi[h] \in [D -> R]
      OBVIOUS
    <2>3. ASSUME NEW x \in D, mu[x] < n + 1 PROVE Phi[h][x] = Phi[Phi[h]][x]
      <3>1. \A y \in D : mu[y] < mu[x] => mu[y] < n
        BY <2>3
      <3>2. \A y \in D : mu[y] < mu[x] => h[y] = Phi[h][y]
        BY <2>1, <3>1
      <3> QED
        BY <2>2, <3>2
    <2>4. Fixed(Phi[h], n + 1)
      BY <2>3
    <2> QED
      BY <2>2, <2>4
  <1>3. Nat \subseteq T
    <2> HIDE DEF T
    <2> QED
      BY <1>1, <1>2, InductionOnSet
  <1>4. ASSUME NEW h \in [D -> R], NEW k \in [D -> R], NEW n \in Nat, NEW m \in Nat,
               Fixed(h, n), Fixed(k, m)
        PROVE  \A x \in D : mu[x] < n /\ mu[x] < m => h[x] = k[x]
    <2> DEFINE P == {x \in D : mu[x] < n /\ mu[x] < m => h[x] = k[x]}
    <2>1. ASSUME NEW x \in D, \A y \in D : mu[y] < mu[x] => y \in P PROVE x \in P
      <3> SUFFICES ASSUME mu[x] < n, mu[x] < m PROVE h[x] = k[x]
        OBVIOUS
      <3>1. \A y \in D : mu[y] < mu[x] => mu[y] < n /\ mu[y] < m
        OBVIOUS
      <3>2. \A y \in D : mu[y] < mu[x] => h[y] = k[y]
        BY <2>1, <3>1
      <3>3. Phi[h][x] = Phi[k][x]
        BY <3>2
      <3> QED
        BY <1>4, <3>3
    <2>2. D \subseteq P
      <3> HIDE DEF P
      <3>1. Inherited(D, mu, P)
        BY <2>1 DEF Inherited
      <3> QED
        BY <3>1, MeasureInduction
    <2> QED
      BY <2>2
  <1> DEFINE H == [x \in D |-> CHOOSE h \in [D -> R] : Fixed(h, mu[x] + 1)]
             f == [x \in D |-> H[x][x]]
  <1>5. ASSUME NEW x \in D PROVE H[x] \in [D -> R] /\ Fixed(H[x], mu[x] + 1)
    <2>1. mu[x] + 1 \in T
      BY <1>3
    <2>2. \E h \in [D -> R] : Fixed(h, mu[x] + 1)
      BY <2>1
    <2> HIDE DEF Fixed
    <2> QED
      BY <2>2
  <1> HIDE DEF H
  <1>6. f \in [D -> R]
    BY <1>5
  <1>7. ASSUME NEW x \in D PROVE f[x] = Phi[f][x]
    <2>1. ASSUME NEW y \in D, mu[y] < mu[x] PROVE f[y] = H[x][y]
      <3>1. mu[y] + 1 \in Nat /\ mu[x] + 1 \in Nat /\ mu[y] < mu[y] + 1 /\ mu[y] < mu[x] + 1
        BY <2>1
      <3> HIDE DEF Fixed
      <3>2. /\ H[y] \in [D -> R] /\ Fixed(H[y], mu[y] + 1)
            /\ H[x] \in [D -> R] /\ Fixed(H[x], mu[x] + 1)
        BY <1>5
      <3>3. \A z \in D : mu[z] < mu[y] + 1 /\ mu[z] < mu[x] + 1 => H[y][z] = H[x][z]
        <4> DEFINE p == H[y]
                   q == H[x]
        <4> HIDE DEF p, q
        <4>1. p \in [D -> R] /\ q \in [D -> R] /\ Fixed(p, mu[y] + 1) /\ Fixed(q, mu[x] + 1)
          BY <3>2 DEF p, q
        <4>2. \A z \in D : mu[z] < mu[y] + 1 /\ mu[z] < mu[x] + 1 => p[z] = q[z]
          BY <1>4, <3>1, <4>1
        <4> QED
          BY <4>2 DEF p, q
      <3>4. H[y][y] = H[x][y]
        BY <3>1, <3>3
      <3> QED
        BY <3>4
    <2>2. Phi[f][x] = Phi[H[x]][x]
      BY <1>5, <1>6, <2>1
    <2>3. mu[x] < mu[x] + 1
      OBVIOUS
    <2>4. H[x][x] = Phi[H[x]][x]
      BY <1>5, <2>3
    <2> QED
      BY <2>2, <2>4
  <1>8. Phi[f] \in [D -> R]
    BY <1>6
  <1> HIDE DEF f
  <1>9. f = Phi[f]
    BY <1>6, <1>7, <1>8
  <1> QED
    BY <1>6, <1>9 DEF HasFixedPoint

(***************************************************************************)
(* The nodes.                                                              *)
(***************************************************************************)

\* Both components of every stack that can be are service nodes.
LEMMA NodesOfNames ==
    ASSUME NEW name \in ToSet(StackOrder)
    PROVE  <<name, "xray">> \in ServiceNodes /\ <<name, "clash">> \in ServiceNodes
  <1>1. PICK k \in DOMAIN StackOrder : StackOrder[k] = name
    BY DEF ToSet
  <1>2. Len(StackOrder) \in Nat /\ k \in 1..Len(StackOrder)
    BY <1>1, StackOrderAssumption, SeqIsList, ListShape
  <1>3. \A m \in 1..(2 * Len(StackOrder)) :
           AllNodes[m] = <<StackOrder[(m + 1) \div 2], IF m % 2 = 1 THEN "clash" ELSE "xray">>
    BY DEF AllNodes
  <1>4. DOMAIN AllNodes = 1..(2 * Len(StackOrder))
    BY DEF AllNodes
  <1>5. /\ 2 * k \in 1..(2 * Len(StackOrder)) /\ (2 * k + 1) \div 2 = k /\ (2 * k) % 2 = 0
        /\ 2 * k - 1 \in 1..(2 * Len(StackOrder)) /\ ((2 * k - 1) + 1) \div 2 = k
        /\ (2 * k - 1) % 2 = 1
    <2> DEFINE L == Len(StackOrder)
    <2>1. k \in Nat /\ L \in Nat /\ k >= 1 /\ k <= L
      BY <1>2
    <2> HIDE DEF L
    <2>2. 2 * k \in 1..(2 * L) /\ 2 * k - 1 \in 1..(2 * L)
      BY <2>1
    <2>3. (2 * k + 1) \div 2 = k /\ (2 * k) % 2 = 0
      BY <2>1
    <2>4. (2 * k - 1) + 1 = 2 * k /\ (2 * k) \div 2 = k
      BY <2>1
    <2>5. (2 * k - 1) % 2 = 1
      BY <2>1
    <2> QED
      BY <2>2, <2>3, <2>4, <2>5 DEF L
  <1>6. AllNodes[2 * k] = <<name, "xray">>
    <2>1. AllNodes[2 * k] = <<StackOrder[(2 * k + 1) \div 2],
                              IF (2 * k) % 2 = 1 THEN "clash" ELSE "xray">>
      BY <1>3, <1>5, Zenon
    <2>2. 0 # 1
      OBVIOUS
    <2> QED
      BY <1>1, <1>5, <2>1, <2>2, Zenon
  <1>7. AllNodes[2 * k - 1] = <<name, "clash">>
    <2>1. AllNodes[2 * k - 1] = <<StackOrder[((2 * k - 1) + 1) \div 2],
                                  IF (2 * k - 1) % 2 = 1 THEN "clash" ELSE "xray">>
      BY <1>3, <1>5, Zenon
    <2> QED
      BY <1>1, <1>5, <2>1, Zenon
  <1>8. \A m \in DOMAIN AllNodes : AllNodes[m] \in ServiceNodes
    BY DEF ServiceNodes, ToSet
  <1> QED
    BY <1>4, <1>5, <1>6, <1>7, <1>8

\* The order of the nodes names each once.
LEMMA SortedNodesFacts ==
    ASSUME NEW nodes, nodes \subseteq ServiceNodes
    PROVE  LET sorted == sortedNodesFromSet(nodes)
           IN  /\ IsList(sorted) /\ ToSet(sorted) = nodes
               /\ \A j, k \in DOMAIN sorted : sorted[j] = sorted[k] => j = k
  <1> DEFINE L == Len(StackOrder)
             sorted == sortedNodesFromSet(nodes)
             rows == [k \in DOMAIN AllNodes |-> IF AllNodes[k] \in nodes THEN <<AllNodes[k]>> ELSE <<>>]
             key == [n \in ServiceNodes |-> n]
  <1>1. L \in Nat /\ DOMAIN StackOrder = 1..L
    BY StackOrderAssumption, SeqIsList, ListShape
  <1>2. DOMAIN AllNodes = 1..(2 * L)
    BY DEF AllNodes
  <1>3. \A k \in 1..(2 * L) :
           /\ AllNodes[k][1] = StackOrder[(k + 1) \div 2]
           /\ AllNodes[k][2] = IF k % 2 = 1 THEN "clash" ELSE "xray"
    BY DEF AllNodes
  <1> HIDE DEF L
  <1>4. ASSUME NEW j \in 1..(2 * L), NEW k \in 1..(2 * L), AllNodes[j] = AllNodes[k] PROVE j = k
    <2>1. StackOrder[(j + 1) \div 2] = StackOrder[(k + 1) \div 2]
      BY <1>3, <1>4
    <2>2. (j + 1) \div 2 \in 1..L /\ (k + 1) \div 2 \in 1..L
      BY <1>1
    <2>3. (j + 1) \div 2 = (k + 1) \div 2
      BY <1>1, <2>1, <2>2, StackOrderAssumption DEF IsInjective
    <2>4. (j % 2 = 1) <=> (k % 2 = 1)
      <3>1. AllNodes[j][2] = "clash" <=> j % 2 = 1
        BY <1>3
      <3>2. AllNodes[k][2] = "clash" <=> k % 2 = 1
        BY <1>3
      <3> QED
        BY <1>4, <3>1, <3>2
    <2> QED
      BY <1>1, <2>3, <2>4
  <1>5. IsList(AllNodes)
    <2>1. AllNodes = [k \in 1..(2 * L) |-> AllNodes[k]]
      BY DEF AllNodes, L
    <2>2. 2 * L \in Nat
      BY <1>1
    <2> QED
      BY <2>1, <2>2, FunctionIsList
  <1>6. DistinctRow(AllNodes, key)
    <2>1. \A k \in DOMAIN AllNodes : key[AllNodes[k]] = AllNodes[k]
      BY DEF ServiceNodes, ToSet
    <2> HIDE DEF key
    <2> QED
      BY <1>2, <1>4, <2>1 DEF DistinctRow
  <1>7. sorted = FlattenSeq(rows)
    BY DEF sortedNodesFromSet, Keep
  <1>8. /\ rows = [k \in DOMAIN AllNodes |-> rows[k]]
        /\ \A k \in DOMAIN AllNodes : rows[k] \in {<<>>, <<AllNodes[k]>>}
        /\ \A k \in DOMAIN AllNodes : rows[k] # <<>> <=> AllNodes[k] \in nodes
    OBVIOUS
  <1>9. \A n \in ServiceNodes : key[n] = n
    OBVIOUS
  <1> HIDE DEF rows, key, sorted
  <1>10. /\ IsList(sorted) /\ DistinctRow(sorted, key)
         /\ \A n : n \in ToSet(sorted) <=> \E k \in DOMAIN AllNodes : rows[k] # <<>> /\ n = AllNodes[k]
    BY <1>5, <1>6, <1>7, <1>8, KeepFacts
  <1>11. ToSet(sorted) = nodes
    <2>1. \A n \in nodes : \E k \in DOMAIN AllNodes : n = AllNodes[k]
      BY DEF ServiceNodes, ToSet
    <2>2. \A n : n \in ToSet(sorted) <=> \E k \in DOMAIN AllNodes : AllNodes[k] \in nodes /\ n = AllNodes[k]
      BY <1>8, <1>10
    <2>3. \A n : n \in ToSet(sorted) <=> n \in nodes
      BY <2>1, <2>2
    <2> QED
      BY <2>3
  <1>12. \A j, k \in DOMAIN sorted : sorted[j] = sorted[k] => j = k
    <2>1. \A k \in DOMAIN sorted : key[sorted[k]] = sorted[k]
      <3>1. \A k \in DOMAIN sorted : sorted[k] \in ToSet(sorted)
        BY DEF ToSet
      <3> QED
        BY <1>9, <1>11, <3>1
    <2> QED
      BY <1>10, <2>1 DEF DistinctRow
  <1> QED
    BY <1>10, <1>11, <1>12 DEF sorted


(***************************************************************************)
(* There are finitely many nodes: the measure of every search.             *)
(***************************************************************************)

\* The nodes are as many as their list is long, or fewer.
LEMMA NodesFinite ==
    IsFiniteSet(ServiceNodes) /\ Cardinality(ServiceNodes) \in Nat
  <1>1. Len(StackOrder) \in Nat
    BY StackOrderAssumption, SeqIsList, ListShape
  <1>2. 2 * Len(StackOrder) \in Int /\ 1 \in Int
    BY <1>1
  <1>3. IsFiniteSet(1..(2 * Len(StackOrder)))
    BY <1>2, FS_Interval
  <1>4. AllNodes \in Surjection(1..(2 * Len(StackOrder)), ServiceNodes)
    BY DEF AllNodes, ServiceNodes, ToSet, Surjection
  <1>5. IsFiniteSet(ServiceNodes)
    BY <1>3, <1>4, FS_Surjection
  <1> QED
    BY <1>5, FS_CardinalityType

\* A sorted list of nodes holds each once, so it is not longer than there are nodes.
LEMMA SortedNodesLength ==
    ASSUME NEW nodes, nodes \subseteq ServiceNodes
    PROVE  /\ sortedNodesFromSet(nodes) \in Seq(ServiceNodes)
           /\ ToSet(sortedNodesFromSet(nodes)) = nodes
           /\ Len(sortedNodesFromSet(nodes)) \in Nat
           /\ Len(sortedNodesFromSet(nodes)) <= Cardinality(ServiceNodes)
  <1> DEFINE sorted == sortedNodesFromSet(nodes)
  <1>1. /\ IsList(sorted) /\ ToSet(sorted) = nodes
        /\ \A j, k \in DOMAIN sorted : sorted[j] = sorted[k] => j = k
    BY SortedNodesFacts
  <1> HIDE DEF sorted
  <1>2. Len(sorted) \in Nat /\ DOMAIN sorted = 1..Len(sorted)
    BY <1>1, ListShape
  <1>3. sorted \in Seq(ServiceNodes)
    <2>1. \A i \in DOMAIN sorted : sorted[i] \in ServiceNodes
      BY <1>1 DEF ToSet
    <2> QED
      BY <1>1, <2>1, ListIsSeq
  <1>4. sorted \in Injection(1..Len(sorted), ServiceNodes)
    <2>1. sorted \in [1..Len(sorted) -> ServiceNodes]
      BY <1>3, LenProperties
    <2> QED
      BY <1>1, <1>2, <2>1 DEF Injection, IsInjective
  <1>5. Cardinality(1..Len(sorted)) <= Cardinality(ServiceNodes)
    BY <1>4, NodesFinite, FS_Injection
  <1>6. Cardinality(1..Len(sorted)) = Len(sorted)
    <2>1. 1 \in Int /\ Len(sorted) \in Int
      BY <1>2
    <2>2. Cardinality(1..Len(sorted)) = IF 1 > Len(sorted) THEN 0 ELSE Len(sorted) - 1 + 1
      BY <2>1, FS_Interval
    <2> QED
      BY <1>2, <2>2
  <1> QED
    BY <1>1, <1>2, <1>3, <1>5, <1>6 DEF sorted

\* What is left to do: nodes first, the length of a list after them.
Weight(nodes, list) == Cardinality(nodes) * (Cardinality(ServiceNodes) + 1) + Len(list)

\* A weight is a number.
LEMMA WeightNat ==
    ASSUME NEW nodes, nodes \subseteq ServiceNodes, NEW list \in Seq(ServiceNodes)
    PROVE  Weight(nodes, list) \in Nat
  <1>1. Cardinality(nodes) \in Nat /\ Cardinality(ServiceNodes) \in Nat
    BY NodesFinite, FS_Subset, FS_CardinalityType
  <1>2. Len(list) \in Nat
    BY LenProperties
  <1> DEFINE a == Cardinality(nodes)
             k == Cardinality(ServiceNodes) + 1
  <1>3. a \in Nat /\ k \in Nat
    BY <1>1
  <1> HIDE DEF a, k
  <1>4. a * k \in Nat
    BY <1>3
  <1> QED
    BY <1>2, <1>4 DEF Weight, a, k

\* With no more nodes and a shorter list there is less to do.
LEMMA WeightShorter ==
    ASSUME NEW nodes, nodes \subseteq ServiceNodes, NEW fewer, fewer \subseteq nodes,
           NEW list \in Seq(ServiceNodes), NEW shorter \in Seq(ServiceNodes),
           Len(shorter) < Len(list)
    PROVE  Weight(fewer, shorter) < Weight(nodes, list)
  <1>1. IsFiniteSet(nodes)
    BY NodesFinite, FS_Subset
  <1>2. Cardinality(nodes) \in Nat /\ Cardinality(ServiceNodes) \in Nat
    BY <1>1, NodesFinite, FS_CardinalityType
  <1>3. Cardinality(fewer) \in Nat /\ Cardinality(fewer) <= Cardinality(nodes)
    BY <1>1, FS_Subset, FS_CardinalityType
  <1>4. Len(list) \in Nat /\ Len(shorter) \in Nat
    BY LenProperties
  <1> DEFINE a == Cardinality(nodes)
             b == Cardinality(fewer)
             k == Cardinality(ServiceNodes) + 1
  <1>5. a \in Nat /\ b \in Nat /\ k \in Nat /\ b <= a
    BY <1>2, <1>3
  <1> HIDE DEF a, b, k
  <1>6. b * k <= a * k
    BY <1>5
  <1>7. a * k \in Nat /\ b * k \in Nat
    BY <1>5
  <1> QED
    BY <1>4, <1>6, <1>7 DEF Weight, a, b, k

\* With a node less, the list may grow by all nodes there are.
LEMMA WeightFewer ==
    ASSUME NEW nodes, nodes \subseteq ServiceNodes, NEW n \in nodes,
           NEW fewer, fewer \subseteq nodes \ {n},
           NEW list \in Seq(ServiceNodes), NEW longer \in Seq(ServiceNodes),
           Len(longer) <= Len(list) + Cardinality(ServiceNodes)
    PROVE  Weight(fewer, longer) < Weight(nodes, list)
  <1>1. IsFiniteSet(nodes)
    BY NodesFinite, FS_Subset
  <1>2. Cardinality(nodes) \in Nat /\ Cardinality(ServiceNodes) \in Nat
    BY <1>1, NodesFinite, FS_CardinalityType
  <1>3. IsFiniteSet(nodes \ {n}) /\ Cardinality(nodes \ {n}) = Cardinality(nodes) - 1
    BY <1>1, FS_RemoveElement
  <1>4. Cardinality(fewer) \in Nat /\ Cardinality(fewer) <= Cardinality(nodes) - 1
    BY <1>3, FS_Subset, FS_CardinalityType
  <1>5. Len(list) \in Nat /\ Len(longer) \in Nat
    BY LenProperties
  <1> DEFINE a == Cardinality(nodes)
             b == Cardinality(fewer)
             k == Cardinality(ServiceNodes) + 1
  <1>6. a \in Nat /\ b \in Nat /\ k \in Nat /\ b <= a - 1
    BY <1>2, <1>4
  <1>7. Len(longer) < Len(list) + k
    BY <1>2, <1>5 DEF k
  <1> HIDE DEF a, b, k
  <1>8. b * k <= a * k - k
    <2>1. PICK d \in Nat : a = b + 1 + d
      <3>1. a - b - 1 \in Nat
        BY <1>6
      <3>2. a = b + 1 + (a - b - 1)
        BY <1>6
      <3> QED
        BY <3>1, <3>2
    <2>2. (b + 1 + d) * k = b * k + k + d * k
      BY <1>6
    <2>3. d * k \in Nat /\ b * k \in Nat
      BY <1>6
    <2>4. a * k = b * k + k + d * k
      BY <2>1, <2>2
    <2> QED
      BY <1>6, <2>3, <2>4
  <1>9. a * k \in Nat /\ b * k \in Nat
    BY <1>6
  <1>10. Weight(nodes, list) = a * k + Len(list) /\ Weight(fewer, longer) = b * k + Len(longer)
    BY DEF Weight, a, b, k
  <1> DEFINE p == a * k
             q == b * k
  <1>11. p \in Nat /\ q \in Nat /\ q <= p - k
    BY <1>8, <1>9
  <1>12. Weight(nodes, list) = p + Len(list) /\ Weight(fewer, longer) = q + Len(longer)
    BY <1>10
  <1> HIDE DEF p, q
  <1> QED
    BY <1>5, <1>6, <1>7, <1>11, <1>12

(***************************************************************************)
(* What a node needs.                                                      *)
(***************************************************************************)

IsDeps(deps) == deps \in [ServiceNodes -> SUBSET ServiceNodes]

\* What a node needs is closed, holds its dependencies, and nothing that is closed and holds
\* them holds less.
LEMMA NeedsFacts ==
    ASSUME NEW deps, IsDeps(deps), NEW n \in ServiceNodes
    PROVE  /\ NeedsOf(deps)[n] \in ClosedSets(deps)
           /\ NeedsOf(deps)[n] \subseteq ServiceNodes
           /\ deps[n] \subseteq NeedsOf(deps)[n]
           /\ \A S \in ClosedSets(deps) : deps[n] \subseteq S => NeedsOf(deps)[n] \subseteq S
  <1>1. NeedsOf(deps)[n]
           = {m \in ServiceNodes : \A S \in ClosedSets(deps) : deps[n] \subseteq S => m \in S}
    BY DEF NeedsOf
  <1> DEFINE needs == {m \in ServiceNodes : \A S \in ClosedSets(deps) : deps[n] \subseteq S => m \in S}
  <1>2. deps[n] \subseteq ServiceNodes
    BY DEF IsDeps
  <1>3. deps[n] \subseteq needs /\ needs \subseteq ServiceNodes
    BY <1>2
  <1>4. \A S \in ClosedSets(deps) : deps[n] \subseteq S => needs \subseteq S
    OBVIOUS
  <1>5. ASSUME NEW m \in needs, NEW l \in deps[m] PROVE l \in needs
    <2>1. deps[m] \subseteq ServiceNodes
      BY DEF IsDeps
    <2>2. ASSUME NEW S \in ClosedSets(deps), deps[n] \subseteq S PROVE l \in S
      <3>1. m \in S
        BY <2>2
      <3> QED
        BY <1>5, <2>2, <3>1 DEF ClosedSets
    <2> QED
      BY <1>5, <2>1, <2>2
  <1>6. needs \in ClosedSets(deps)
    BY <1>3, <1>5 DEF ClosedSets
  <1> QED
    BY <1>1, <1>3, <1>4, <1>6

\* What is needed by what a node needs, the node needs.
LEMMA NeedsOfNeeds ==
    ASSUME NEW deps, IsDeps(deps), NEW n \in ServiceNodes, NEW m \in NeedsOf(deps)[n]
    PROVE  NeedsOf(deps)[m] \subseteq NeedsOf(deps)[n]
  <1>1. NeedsOf(deps)[n] \in ClosedSets(deps) /\ m \in ServiceNodes
    BY NeedsFacts
  <1>2. deps[m] \subseteq NeedsOf(deps)[n]
    BY <1>1 DEF ClosedSets
  <1> QED
    BY <1>1, <1>2, NeedsFacts

(***************************************************************************)
(* visitForCycle.                                                          *)
(***************************************************************************)

VisitOutcomes == [cycle : Seq(ServiceNodes), done : SUBSET ServiceNodes]
\* The points the search goes to from a point.
VisitRest(at, done) == [todo |-> Tail(at.todo), path |-> at.path, done |-> done]
VisitBelow(deps, at) ==
    [todo |-> sortedNodesFromSet(deps[Head(at.todo)]), path |-> Append(at.path, Head(at.todo)),
     done |-> at.done]
VisitWeight(at) == Weight(ServiceNodes \ ToSet(at.path), at.todo)
\* The walk back to a node of the path.
WalkBack(path, node) == Append(SubSeq(path, Position(path, node), Len(path)), node)
\* One step of the search, whose further steps are the values of f.
VisitStep(deps, f, at) ==
    IF at.todo = <<>> THEN [cycle |-> <<>>, done |-> at.done]
    ELSE IF Head(at.todo) \in at.done THEN f[VisitRest(at, at.done)]
    ELSE IF Head(at.todo) \in ToSet(at.path)
    THEN [cycle |-> WalkBack(at.path, Head(at.todo)), done |-> at.done]
    ELSE IF f[VisitBelow(deps, at)].cycle # <<>> THEN f[VisitBelow(deps, at)]
    ELSE f[VisitRest(at, f[VisitBelow(deps, at)].done \cup {Head(at.todo)})]

\* The points a step goes to are points, with less to do.
LEMMA VisitPoints ==
    ASSUME NEW deps, IsDeps(deps), NEW at \in Visits, at.todo # <<>>
    PROVE  /\ Head(at.todo) \in ServiceNodes
           /\ \A done \in SUBSET ServiceNodes :
                 /\ VisitRest(at, done) \in Visits
                 /\ VisitWeight(VisitRest(at, done)) < VisitWeight(at)
           /\ VisitBelow(deps, at) \in Visits
           /\ Head(at.todo) \notin ToSet(at.path) => VisitWeight(VisitBelow(deps, at)) < VisitWeight(at)
  <1> DEFINE node == Head(at.todo)
  <1>1. at.todo \in Seq(ServiceNodes) /\ at.path \in Seq(ServiceNodes) /\ at.done \subseteq ServiceNodes
    BY DEF Visits
  <1>2. /\ node \in ServiceNodes /\ Tail(at.todo) \in Seq(ServiceNodes)
        /\ Len(Tail(at.todo)) = Len(at.todo) - 1 /\ Len(at.todo) \in Nat
    BY <1>1, HeadTailProperties, LenProperties
  <1> HIDE DEF node
  <1>3. deps[node] \subseteq ServiceNodes
    BY <1>2 DEF IsDeps
  <1> DEFINE sorted == sortedNodesFromSet(deps[node])
  <1>4. sorted \in Seq(ServiceNodes) /\ Len(sorted) \in Nat /\ Len(sorted) <= Cardinality(ServiceNodes)
    BY <1>3, SortedNodesLength
  <1> HIDE DEF sorted
  <1>5. Append(at.path, node) \in Seq(ServiceNodes) /\ ToSet(Append(at.path, node)) = ToSet(at.path) \cup {node}
    <2>1. /\ Append(at.path, node) \in Seq(ServiceNodes) /\ Len(Append(at.path, node)) = Len(at.path) + 1
          /\ \A i \in 1..Len(at.path) : Append(at.path, node)[i] = at.path[i]
          /\ Append(at.path, node)[Len(at.path) + 1] = node
      BY <1>1, <1>2, AppendProperties
    <2>2. DOMAIN Append(at.path, node) = 1..(Len(at.path) + 1) /\ DOMAIN at.path = 1..Len(at.path) /\ Len(at.path) \in Nat
      BY <1>1, <2>1, LenProperties
    <2> QED
      BY <2>1, <2>2 DEF ToSet
  <1>6. ASSUME NEW done \in SUBSET ServiceNodes
        PROVE  VisitRest(at, done) \in Visits /\ VisitWeight(VisitRest(at, done)) < VisitWeight(at)
    <2>1. VisitRest(at, done) \in Visits
      BY <1>1, <1>2 DEF VisitRest, Visits
    <2>2. Len(Tail(at.todo)) < Len(at.todo)
      BY <1>2
    <2>3. Weight(ServiceNodes \ ToSet(at.path), Tail(at.todo)) < Weight(ServiceNodes \ ToSet(at.path), at.todo)
      BY <1>1, <1>2, <2>2, WeightShorter
    <2> QED
      BY <2>1, <2>3 DEF VisitWeight, VisitRest
  <1>7. VisitBelow(deps, at) \in Visits
    BY <1>1, <1>4, <1>5 DEF VisitBelow, Visits, sorted, node
  <1>8. ASSUME node \notin ToSet(at.path) PROVE VisitWeight(VisitBelow(deps, at)) < VisitWeight(at)
    <2>1. node \in ServiceNodes \ ToSet(at.path)
      BY <1>2, <1>8
    <2>2. ServiceNodes \ ToSet(Append(at.path, node)) \subseteq (ServiceNodes \ ToSet(at.path)) \ {node}
      BY <1>5
    <2>3. Len(sorted) <= Len(at.todo) + Cardinality(ServiceNodes)
      BY <1>2, <1>4, NodesFinite
    <2>4. Weight(ServiceNodes \ ToSet(Append(at.path, node)), sorted) < Weight(ServiceNodes \ ToSet(at.path), at.todo)
      BY <1>1, <1>4, <2>1, <2>2, <2>3, WeightFewer
    <2> QED
      BY <2>4 DEF VisitWeight, VisitBelow, sorted, node
  <1> QED
    BY <1>2, <1>6, <1>7, <1>8 DEF node

\* A walk along dependencies, and one that ends where it begins.
Walk(deps, w) == \A k \in 1..(Len(w) - 1) : w[k + 1] \in deps[w[k]]
ClosedWalk(deps, w) == Len(w) > 1 /\ w[1] = Last(w) /\ Walk(deps, w)

\* The walk back to a node of the path ends where it begins.
LEMMA WalkBackCloses ==
    ASSUME NEW deps, NEW path \in Seq(ServiceNodes), NEW node \in ToSet(path)
    PROVE  /\ WalkBack(path, node) \in Seq(ServiceNodes)
           /\ Walk(deps, path) /\ node \in deps[Last(path)] => ClosedWalk(deps, WalkBack(path, node))
  <1> DEFINE L == Len(path)
             p == Position(path, node)
             back == SubSeq(path, p, L)
             w == WalkBack(path, node)
  <1>1. L \in Nat /\ DOMAIN path = 1..L /\ path \in [1..L -> ServiceNodes]
    BY LenProperties
  <1>2. p \in 1..L /\ path[p] = node
    BY <1>1 DEF Position, ToSet
  <1>3. node \in ServiceNodes
    BY <1>1, <1>2
  <1> HIDE DEF p
  <1>4. /\ back \in Seq(ServiceNodes) /\ Len(back) = L - p + 1
        /\ \A i \in 1..(L - p + 1) : back[i] = path[p + i - 1]
    <2>1. \A i \in p..L : path[i] \in ServiceNodes
      BY <1>1, <1>2
    <2>2. p \in Int /\ L \in Int /\ p <= L
      BY <1>1, <1>2
    <2> QED
      BY <2>1, <2>2, SubSeqProperties
  <1>5. w = Append(back, node)
    BY DEF WalkBack, p
  <1> HIDE DEF w, back
  <1>6. /\ w \in Seq(ServiceNodes) /\ Len(w) = Len(back) + 1
        /\ \A i \in 1..Len(back) : w[i] = back[i]
        /\ w[Len(back) + 1] = node
    BY <1>3, <1>4, <1>5, AppendProperties
  <1> DEFINE M == L - p + 1
  <1>7. M \in Nat /\ M >= 1 /\ Len(w) = M + 1 /\ w[M + 1] = node /\ \A i \in 1..M : w[i] = path[p + i - 1]
    BY <1>1, <1>2, <1>4, <1>6
  <1>8. \A i \in 1..M : p + i - 1 \in 1..L
    BY <1>1, <1>2
  <1>9. p + M - 1 = L /\ p + 1 - 1 = p
    BY <1>1, <1>2
  <1> HIDE DEF M
  <1>10. ASSUME Walk(deps, path), node \in deps[Last(path)] PROVE ClosedWalk(deps, w)
    <2>1. w[1] = node /\ Last(w) = node
      BY <1>1, <1>2, <1>7, <1>9 DEF Last
    <2>2. ASSUME NEW k \in 1..M PROVE w[k + 1] \in deps[w[k]]
      <3>1. CASE k = M
        <4>1. w[k] = path[L]
          BY <1>7, <1>9, <3>1
        <4> QED
          BY <1>7, <1>10, <3>1, <4>1 DEF Last, L
      <3>2. CASE k # M
        <4>1. k \in 1..M /\ k + 1 \in 1..M
          BY <1>7, <3>2
        <4>2. w[k] = path[p + k - 1] /\ w[k + 1] = path[p + (k + 1) - 1]
          BY <1>7, <4>1
        <4>3. p + (k + 1) - 1 = (p + k - 1) + 1 /\ p + k - 1 \in 1..(L - 1)
          BY <1>1, <1>2, <1>7, <1>8, <1>9, <4>1
        <4>4. path[(p + k - 1) + 1] \in deps[path[p + k - 1]]
          BY <1>10, <4>3 DEF Walk, L
        <4> QED
          BY <4>2, <4>3, <4>4
      <3> QED
        BY <3>1, <3>2
    <2>3. Len(w) - 1 = M /\ Len(w) > 1
      BY <1>7
    <2> QED
      BY <2>1, <2>2, <2>3 DEF ClosedWalk, Walk
  <1> QED
    BY <1>6, <1>10 DEF w

\* The search is what its definition says, for every graph.
LEMMA VisitFunction ==
    ASSUME NEW deps, IsDeps(deps)
    PROVE  /\ visitForCycle(deps) \in [Visits -> VisitOutcomes]
           /\ \A at \in Visits : visitForCycle(deps)[at] = VisitStep(deps, visitForCycle(deps), at)
  <1> DEFINE R == VisitOutcomes
             mu == [at \in Visits |-> VisitWeight(at)]
             Phi == [f \in [Visits -> R] |-> [at \in Visits |-> VisitStep(deps, f, at)]]
             c == visitForCycle(deps)
  <1>1. c = CHOOSE f : f = [at \in Visits |-> VisitStep(deps, f, at)]
    BY DEF visitForCycle, VisitStep, VisitRest, VisitBelow, WalkBack
  <1>2. mu \in [Visits -> Nat]
    <2>1. ASSUME NEW at \in Visits PROVE VisitWeight(at) \in Nat
      <3>1. at.todo \in Seq(ServiceNodes) /\ ServiceNodes \ ToSet(at.path) \subseteq ServiceNodes
        BY DEF Visits
      <3> QED
        BY <3>1, WeightNat DEF VisitWeight
    <2> QED
      BY <2>1
  <1>3. ASSUME NEW f \in [Visits -> R], NEW at \in Visits PROVE VisitStep(deps, f, at) \in R
    <2>1. at.todo \in Seq(ServiceNodes) /\ at.path \in Seq(ServiceNodes) /\ at.done \in SUBSET ServiceNodes
      BY DEF Visits
    <2>2. \A done \in SUBSET ServiceNodes : [cycle |-> <<>>, done |-> done] \in R
      BY EmptySeq DEF VisitOutcomes
    <2>3. CASE at.todo = <<>>
      BY <2>1, <2>2, <2>3 DEF VisitStep
    <2>4. CASE at.todo # <<>>
      <3> DEFINE node == Head(at.todo)
                 below == f[VisitBelow(deps, at)]
      <3>1. node \in ServiceNodes /\ VisitBelow(deps, at) \in Visits
            /\ \A done \in SUBSET ServiceNodes : VisitRest(at, done) \in Visits
        BY <2>4, VisitPoints
      <3>2. below \in R
        BY <3>1
      <3>3. below.done \cup {node} \in SUBSET ServiceNodes
        BY <3>1, <3>2 DEF VisitOutcomes
      <3>4. ASSUME node \in ToSet(at.path) PROVE [cycle |-> WalkBack(at.path, node), done |-> at.done] \in R
        <4>1. WalkBack(at.path, node) \in Seq(ServiceNodes)
          BY <2>1, <3>4, WalkBackCloses
        <4> QED
          BY <2>1, <4>1 DEF VisitOutcomes
      <3>5. f[VisitRest(at, at.done)] \in R /\ f[VisitRest(at, below.done \cup {node})] \in R
        BY <2>1, <3>1, <3>3
      <3> QED
        BY <2>4, <3>2, <3>4, <3>5 DEF VisitStep
    <2> QED
      BY <2>3, <2>4
  <1>4. [Visits -> R] # {}
    <2>1. [cycle |-> <<>>, done |-> {}] \in R
      BY EmptySeq DEF VisitOutcomes
    <2>2. [at \in Visits |-> [cycle |-> <<>>, done |-> {}]] \in [Visits -> R]
      BY <2>1
    <2> QED
      BY <2>2
  <1>5. Phi \in [[Visits -> R] -> [Visits -> R]]
    BY <1>3
  <1>6. ASSUME NEW f, NEW g \in [Visits -> R], NEW at \in Visits,
               \A y \in Visits : mu[y] < mu[at] => f[y] = g[y]
        PROVE  VisitStep(deps, f, at) = VisitStep(deps, g, at)
    <2>1. \A y \in Visits : VisitWeight(y) < VisitWeight(at) => f[y] = g[y]
      BY <1>6
    <2>2. CASE at.todo = <<>>
      BY <2>2 DEF VisitStep
    <2>3. CASE at.todo # <<>>
      <3> DEFINE node == Head(at.todo)
                 below == VisitBelow(deps, at)
      <3>1. /\ node \in ServiceNodes /\ below \in Visits
            /\ node \notin ToSet(at.path) => VisitWeight(below) < VisitWeight(at)
            /\ \A done \in SUBSET ServiceNodes :
                  VisitRest(at, done) \in Visits /\ VisitWeight(VisitRest(at, done)) < VisitWeight(at)
        BY <2>3, VisitPoints
      <3>2. \A done \in SUBSET ServiceNodes : f[VisitRest(at, done)] = g[VisitRest(at, done)]
        BY <2>1, <3>1
      <3>3. node \notin ToSet(at.path) => f[below] = g[below]
        BY <2>1, <3>1
      <3>4. at.done \in SUBSET ServiceNodes
        BY DEF Visits
      <3>5. g[below].done \cup {node} \in SUBSET ServiceNodes
        BY <3>1 DEF VisitOutcomes
      <3> HIDE DEF node
      <3>6. f[VisitRest(at, at.done)] = g[VisitRest(at, at.done)]
            /\ f[VisitRest(at, g[below].done \cup {node})] = g[VisitRest(at, g[below].done \cup {node})]
        BY <3>2, <3>4, <3>5
      <3>7. CASE node \in at.done
        BY <2>3, <3>6, <3>7 DEF VisitStep, node
      <3>8. CASE node \notin at.done /\ node \in ToSet(at.path)
        BY <2>3, <3>8 DEF VisitStep, node
      <3>9. CASE node \notin at.done /\ node \notin ToSet(at.path)
        <4>1. f[below] = g[below]
          BY <3>3, <3>9
        <4>2. CASE f[below].cycle # <<>>
          BY <2>3, <3>9, <4>1, <4>2 DEF VisitStep, node
        <4>3. CASE f[below].cycle = <<>>
          BY <2>3, <3>6, <3>9, <4>1, <4>3 DEF VisitStep, node
        <4> QED
          BY <4>2, <4>3
      <3> QED
        BY <3>7, <3>8, <3>9
    <2> QED
      BY <2>2, <2>3
  <1> HIDE DEF R, mu
  <1>7. \A f, g \in [Visits -> R] : \A at \in Visits :
           (\A y \in Visits : mu[y] < mu[at] => f[y] = g[y]) => Phi[f][at] = Phi[g][at]
    BY <1>6
  <1>8. \A f \in [Visits -> R] : Phi[f] = [at \in Visits |-> VisitStep(deps, f, at)]
    OBVIOUS
  <1> HIDE DEF Phi
  <1>9. PICK f \in [Visits -> R] : f = Phi[f]
    <2>1. Descends(Visits, R, mu, Phi)
      BY <1>2, <1>4, <1>5, <1>7 DEF Descends
    <2>2. HasFixedPoint(Visits, R, Phi)
      BY <2>1, FixedPoint
    <2> QED
      BY <2>2 DEF HasFixedPoint
  <1>10. f = [at \in Visits |-> VisitStep(deps, f, at)]
    BY <1>8, <1>9
  <1>11. c = [at \in Visits |-> VisitStep(deps, c, at)]
    BY <1>1, <1>10
  <1> HIDE DEF c
  <1>12. \A at \in Visits : c[at] = VisitStep(deps, c, at)
    BY <1>11
  <1>13. \A at \in Visits : c[at] = f[at]
    <2> DEFINE P == {at \in Visits : c[at] = f[at]}
    <2>1. ASSUME NEW at \in Visits, \A y \in Visits : mu[y] < mu[at] => y \in P PROVE at \in P
      <3>1. \A y \in Visits : mu[y] < mu[at] => c[y] = f[y]
        BY <2>1
      <3>2. VisitStep(deps, c, at) = VisitStep(deps, f, at)
        BY <1>6, <3>1
      <3>3. f[at] = VisitStep(deps, f, at)
        BY <1>10
      <3> QED
        BY <1>12, <3>2, <3>3
    <2> HIDE DEF P
    <2>2. Inherited(Visits, mu, P)
      BY <1>2, <2>1 DEF Inherited
    <2>3. Visits \subseteq P
      BY <2>2, MeasureInduction
    <2> QED
      BY <2>3 DEF P
  <1>14. c \in [Visits -> R]
    <2>1. c = [at \in Visits |-> c[at]]
      BY <1>11
    <2> QED
      BY <1>13, <2>1
  <1> QED
    BY <1>12, <1>14 DEF c, R

\* Nodes that were left: all they depend on was left, and none of them needs itself.
Left(deps, done) == \A m \in done : deps[m] \subseteq done /\ m \notin NeedsOf(deps)[m]
\* How a point is reached, and what the search from there tells.
VisitFrom(deps, at) ==
    /\ Walk(deps, at.path) /\ Left(deps, at.done)
    /\ at.path # <<>> => ToSet(at.todo) \subseteq deps[Last(at.path)]
VisitTells(deps, at, r) ==
    /\ r.cycle = <<>> => /\ at.done \cup ToSet(at.todo) \subseteq r.done
                         /\ Left(deps, r.done)
    /\ r.cycle # <<>> => ClosedWalk(deps, r.cycle)

\* The elements of a list that is not empty: the first and those after it.
LEMMA HeadAndTail ==
    ASSUME NEW S, NEW list \in Seq(S), list # <<>>
    PROVE  ToSet(list) = {Head(list)} \cup ToSet(Tail(list))
  <1>1. /\ Len(list) \in Nat /\ DOMAIN list = 1..Len(list) /\ Len(list) # 0
        /\ Tail(list) \in Seq(S) /\ Len(Tail(list)) = Len(list) - 1
        /\ \A i \in 1..Len(Tail(list)) : Tail(list)[i] = list[i + 1]
    BY HeadTailProperties, LenProperties, EmptySeq
  <1>2. DOMAIN Tail(list) = 1..(Len(list) - 1)
    BY <1>1, LenProperties
  <1>3. Head(list) = list[1] /\ 1 \in DOMAIN list
    BY <1>1
  <1>4. ASSUME NEW e \in ToSet(list) PROVE e \in {Head(list)} \cup ToSet(Tail(list))
    <2>1. PICK i \in 1..Len(list) : e = list[i]
      BY <1>1 DEF ToSet
    <2>2. CASE i = 1
      BY <1>3, <2>1, <2>2
    <2>3. CASE i # 1
      <3>1. i - 1 \in 1..(Len(list) - 1) /\ (i - 1) + 1 = i
        BY <1>1, <2>3
      <3>2. Tail(list)[i - 1] = e
        BY <1>1, <2>1, <3>1
      <3> QED
        BY <1>2, <3>1, <3>2 DEF ToSet
    <2> QED
      BY <2>2, <2>3
  <1>5. ASSUME NEW e \in ToSet(Tail(list)) PROVE e \in ToSet(list)
    <2>1. PICK i \in 1..(Len(list) - 1) : e = Tail(list)[i]
      BY <1>2 DEF ToSet
    <2>2. i + 1 \in 1..Len(list) /\ e = list[i + 1]
      BY <1>1, <2>1
    <2> QED
      BY <1>1, <2>2 DEF ToSet
  <1> QED
    BY <1>3, <1>4, <1>5 DEF ToSet

\* A list with one more element.
LEMMA AppendFacts ==
    ASSUME NEW S, NEW list \in Seq(S), NEW e \in S
    PROVE  /\ Append(list, e) \in Seq(S) /\ Len(Append(list, e)) = Len(list) + 1
           /\ DOMAIN Append(list, e) = 1..(Len(list) + 1)
           /\ DOMAIN list = 1..Len(list) /\ Len(list) \in Nat
           /\ \A i \in 1..Len(list) : Append(list, e)[i] = list[i]
           /\ Append(list, e)[Len(list) + 1] = e
           /\ ToSet(Append(list, e)) = ToSet(list) \cup {e}
           /\ Last(Append(list, e)) = e
  <1>1. /\ Append(list, e) \in Seq(S) /\ Len(Append(list, e)) = Len(list) + 1
        /\ \A i \in 1..Len(list) : Append(list, e)[i] = list[i]
        /\ Append(list, e)[Len(list) + 1] = e
    BY AppendProperties
  <1>2. DOMAIN Append(list, e) = 1..(Len(list) + 1) /\ DOMAIN list = 1..Len(list) /\ Len(list) \in Nat
    BY <1>1, LenProperties
  <1>3. ToSet(Append(list, e)) = ToSet(list) \cup {e}
    BY <1>1, <1>2 DEF ToSet
  <1>4. Last(Append(list, e)) = e
    BY <1>1 DEF Last
  <1> QED
    BY <1>1, <1>2, <1>3, <1>4

\* The point below a point is reached by a walk as well.
LEMMA VisitFromBelow ==
    ASSUME NEW deps, IsDeps(deps), NEW at \in Visits, at.todo # <<>>, VisitFrom(deps, at)
    PROVE  /\ VisitFrom(deps, VisitBelow(deps, at))
           /\ ToSet(VisitBelow(deps, at).todo) = deps[Head(at.todo)]
  <1> DEFINE node == Head(at.todo)
             path == at.path
             below == VisitBelow(deps, at)
  <1>1. /\ node \in ServiceNodes /\ path \in Seq(ServiceNodes) /\ at.todo \in Seq(ServiceNodes)
        /\ node \in ToSet(at.todo)
    <2>1. at.todo \in Seq(ServiceNodes) /\ at.path \in Seq(ServiceNodes)
      BY DEF Visits
    <2> QED
      BY <2>1, VisitPoints, HeadAndTail
  <1>2. deps[node] \subseteq ServiceNodes
    BY <1>1 DEF IsDeps
  <1>3. ToSet(sortedNodesFromSet(deps[node])) = deps[node]
    BY <1>2, SortedNodesLength
  <1>4. /\ below.todo = sortedNodesFromSet(deps[node]) /\ below.path = Append(path, node)
        /\ below.done = at.done
    BY DEF VisitBelow
  <1> HIDE DEF below, node, path
  <1>5. /\ Append(path, node) \in Seq(ServiceNodes) /\ Len(Append(path, node)) = Len(path) + 1
        /\ Len(path) \in Nat
        /\ \A i \in 1..Len(path) : Append(path, node)[i] = path[i]
        /\ Append(path, node)[Len(path) + 1] = node
        /\ Last(Append(path, node)) = node
    BY <1>1, AppendFacts
  <1>6. path = <<>> => Len(path) = 0
    BY EmptySeq
  <1>7. path # <<>> => Len(path) > 0
    BY <1>1, EmptySeq
  <1>8. Walk(deps, Append(path, node))
    <2>1. ASSUME NEW k \in 1..Len(path) PROVE Append(path, node)[k + 1] \in deps[Append(path, node)[k]]
      <3>1. CASE k = Len(path)
        <4>1. path # <<>>
          BY <1>5, <1>6, <3>1
        <4>2. node \in deps[Last(path)]
          BY <1>1, <4>1 DEF VisitFrom, path
        <4> QED
          BY <1>5, <3>1, <4>2 DEF Last
      <3>2. CASE k # Len(path)
        <4>1. k \in 1..(Len(path) - 1) /\ k + 1 \in 1..Len(path)
          BY <1>5, <3>2
        <4>2. path[k + 1] \in deps[path[k]]
          BY <4>1 DEF VisitFrom, Walk, path
        <4> QED
          BY <1>5, <4>1, <4>2
      <3> QED
        BY <3>1, <3>2
    <2>2. Len(Append(path, node)) - 1 = Len(path)
      BY <1>5
    <2> QED
      BY <2>1, <2>2 DEF Walk
  <1>9. VisitFrom(deps, below)
    BY <1>3, <1>4, <1>5, <1>8 DEF VisitFrom
  <1> QED
    BY <1>3, <1>4, <1>9 DEF below, node

\* A node all of whose dependencies were left can be left.
LEMMA LeftWith ==
    ASSUME NEW deps, IsDeps(deps), NEW done \in SUBSET ServiceNodes, NEW node \in ServiceNodes,
           Left(deps, done), deps[node] \subseteq done
    PROVE  Left(deps, done \cup {node})
  <1>1. CASE node \in done
    <2>1. done \cup {node} = done
      BY <1>1
    <2> QED
      BY <2>1
  <1>2. CASE node \notin done
    <2>1. done \in ClosedSets(deps)
      BY DEF Left, ClosedSets
    <2>2. NeedsOf(deps)[node] \subseteq done
      BY <2>1, NeedsFacts
    <2> QED
      BY <1>2, <2>2 DEF Left
  <1> QED
    BY <1>1, <1>2

\* The search from a point reached by a walk leaves all that is to do, or finds a closed walk.
LEMMA VisitFinds ==
    ASSUME NEW deps, IsDeps(deps), NEW at \in Visits, VisitFrom(deps, at)
    PROVE  VisitTells(deps, at, visitForCycle(deps)[at])
  <1> DEFINE c == visitForCycle(deps)
             mu == [x \in Visits |-> VisitWeight(x)]
             P == {x \in Visits : VisitFrom(deps, x) => VisitTells(deps, x, c[x])}
  <1>1. c \in [Visits -> VisitOutcomes] /\ \A x \in Visits : c[x] = VisitStep(deps, c, x)
    BY VisitFunction
  <1> HIDE DEF c
  <1>2. mu \in [Visits -> Nat]
    <2>1. ASSUME NEW x \in Visits PROVE VisitWeight(x) \in Nat
      <3>1. x.todo \in Seq(ServiceNodes) /\ ServiceNodes \ ToSet(x.path) \subseteq ServiceNodes
        BY DEF Visits
      <3> QED
        BY <3>1, WeightNat DEF VisitWeight
    <2> QED
      BY <2>1
  <1>3. ASSUME NEW x \in Visits, \A y \in Visits : mu[y] < mu[x] => y \in P PROVE x \in P
    <2> SUFFICES ASSUME VisitFrom(deps, x) PROVE VisitTells(deps, x, c[x])
      OBVIOUS
    <2>1. \A y \in Visits : VisitWeight(y) < VisitWeight(x) /\ VisitFrom(deps, y) => VisitTells(deps, y, c[y])
      BY <1>3
    <2>2. x.todo \in Seq(ServiceNodes) /\ x.path \in Seq(ServiceNodes) /\ x.done \in SUBSET ServiceNodes
      BY DEF Visits
    <2> HIDE DEF P, mu
    <2>3. CASE x.todo = <<>>
      <3>0. c[x] = [cycle |-> <<>>, done |-> x.done]
        BY <1>1, <2>3 DEF VisitStep
      <3>1. c[x].cycle = <<>> /\ c[x].done = x.done
        BY <3>0
      <3>2. ToSet(x.todo) = {}
        BY <2>3 DEF ToSet
      <3>3. Left(deps, x.done)
        BY DEF VisitFrom
      <3> QED
        BY <3>1, <3>2, <3>3 DEF VisitTells
    <2>4. CASE x.todo # <<>>
      <3> DEFINE node == Head(x.todo)
                 below == VisitBelow(deps, x)
      <3>1. /\ node \in ServiceNodes /\ below \in Visits
            /\ node \notin ToSet(x.path) => VisitWeight(below) < VisitWeight(x)
            /\ \A done \in SUBSET ServiceNodes :
                  VisitRest(x, done) \in Visits /\ VisitWeight(VisitRest(x, done)) < VisitWeight(x)
        BY <2>4, VisitPoints
      <3>2. ToSet(x.todo) = {node} \cup ToSet(Tail(x.todo))
        BY <2>2, <2>4, HeadAndTail
      <3>3. ASSUME NEW done \in SUBSET ServiceNodes, Left(deps, done), x.done \cup {node} \subseteq done,
                   c[x] = c[VisitRest(x, done)]
            PROVE  VisitTells(deps, x, c[x])
        <4>1. VisitFrom(deps, VisitRest(x, done))
          BY <3>2, <3>3 DEF VisitFrom, VisitRest
        <4>2. VisitTells(deps, VisitRest(x, done), c[x])
          BY <2>1, <3>1, <3>3, <4>1
        <4>3. VisitRest(x, done).todo = Tail(x.todo) /\ VisitRest(x, done).done = done
          BY DEF VisitRest
        <4> HIDE DEF node
        <4> QED
          BY <3>2, <3>3, <4>2, <4>3 DEF VisitTells
      <3>4. Left(deps, x.done)
        BY DEF VisitFrom
      <3>5. CASE node \in x.done
        <4>1. c[x] = c[VisitRest(x, x.done)]
          BY <1>1, <2>4, <3>5 DEF VisitStep
        <4> QED
          BY <2>2, <3>3, <3>4, <3>5, <4>1
      <3>6. CASE node \notin x.done /\ node \in ToSet(x.path)
        <4>0. c[x] = [cycle |-> WalkBack(x.path, node), done |-> x.done]
          BY <1>1, <2>4, <3>6 DEF VisitStep
        <4>1. c[x].cycle = WalkBack(x.path, node)
          BY <4>0
        <4>2. x.path # <<>>
          BY <3>6 DEF ToSet
        <4>3. Walk(deps, x.path) /\ node \in deps[Last(x.path)]
          BY <3>2, <4>2 DEF VisitFrom
        <4>4. ClosedWalk(deps, WalkBack(x.path, node))
          BY <2>2, <3>6, <4>3, WalkBackCloses
        <4>5. WalkBack(x.path, node) # <<>>
          BY <4>4 DEF ClosedWalk
        <4> QED
          BY <4>1, <4>4, <4>5 DEF VisitTells
      <3>7. CASE node \notin x.done /\ node \notin ToSet(x.path)
        <4>1. VisitFrom(deps, below) /\ ToSet(below.todo) = deps[node] /\ below.done = x.done
          BY <2>4, VisitFromBelow DEF VisitBelow
        <4>2. VisitTells(deps, below, c[below]) /\ c[below] \in VisitOutcomes
          BY <1>1, <2>1, <3>1, <3>7, <4>1
        <4>3. CASE c[below].cycle # <<>>
          <5>1. c[x] = c[below]
            BY <1>1, <2>4, <3>7, <4>3 DEF VisitStep
          <5> QED
            BY <4>2, <4>3, <5>1 DEF VisitTells
        <4>4. CASE c[below].cycle = <<>>
          <5> DEFINE done == c[below].done
          <5>1. done \in SUBSET ServiceNodes
            BY <4>2 DEF VisitOutcomes
          <5>2. c[x] = c[VisitRest(x, done \cup {node})]
            BY <1>1, <2>4, <3>7, <4>4 DEF VisitStep
          <5>3. x.done \cup deps[node] \subseteq done /\ Left(deps, done)
            BY <4>1, <4>2, <4>4 DEF VisitTells
          <5> HIDE DEF done
          <5>4. Left(deps, done \cup {node})
            BY <3>1, <5>1, <5>3, LeftWith
          <5>5. done \cup {node} \in SUBSET ServiceNodes /\ x.done \cup {node} \subseteq done \cup {node}
            BY <3>1, <5>1, <5>3
          <5> HIDE DEF node
          <5> QED
            BY <3>3, <5>2, <5>4, <5>5
        <4> QED
          BY <4>3, <4>4
      <3> QED
        BY <3>5, <3>6, <3>7
    <2> QED
      BY <2>3, <2>4
  <1>4. Visits \subseteq P
    <2> HIDE DEF P, mu
    <2>1. Inherited(Visits, mu, P)
      BY <1>2, <1>3 DEF Inherited
    <2> QED
      BY <2>1, MeasureInduction
  <1> QED
    BY <1>4 DEF c

\* A node a closed walk begins with needs itself.
LEMMA ClosedWalkNeeds ==
    ASSUME NEW deps, IsDeps(deps), NEW w \in Seq(ServiceNodes), ClosedWalk(deps, w)
    PROVE  w[1] \in NeedsOf(deps)[w[1]] /\ w[2] \in deps[w[1]] /\ w[1] \in ServiceNodes
  <1> DEFINE L == Len(w)
  <1>1. L \in Nat /\ DOMAIN w = 1..L /\ w \in [1..L -> ServiceNodes] /\ L > 1
    BY LenProperties DEF ClosedWalk
  <1>2. \A k \in 1..(L - 1) : w[k + 1] \in deps[w[k]]
    BY DEF ClosedWalk, Walk
  <1>3. w[L] = w[1]
    BY DEF ClosedWalk, Last
  <1> HIDE DEF L
  <1>4. w[1] \in ServiceNodes /\ w[2] \in deps[w[1]]
    <2>1. 1 \in 1..(L - 1) /\ 1 \in 1..L
      BY <1>1
    <2>2. w[1 + 1] \in deps[w[1]]
      BY <1>2, <2>1
    <2>3. 1 + 1 = 2
      OBVIOUS
    <2> QED
      BY <1>1, <2>1, <2>2, <2>3
  <1> DEFINE needs == NeedsOf(deps)[w[1]]
             T == {n \in Nat : n + 2 <= L => w[n + 2] \in needs}
  <1>5. needs \in ClosedSets(deps) /\ deps[w[1]] \subseteq needs
    BY <1>4, NeedsFacts
  <1> HIDE DEF needs
  <1>6. 0 \in T
    BY <1>4, <1>5
  <1>7. ASSUME NEW n \in Nat, n \in T PROVE n + 1 \in T
    <2> SUFFICES ASSUME (n + 1) + 2 <= L PROVE w[(n + 1) + 2] \in needs
      OBVIOUS
    <2>1. n + 2 <= L /\ n + 2 \in 1..(L - 1) /\ (n + 1) + 2 = (n + 2) + 1
      BY <1>1
    <2>2. w[n + 2] \in needs /\ w[(n + 2) + 1] \in deps[w[n + 2]]
      BY <1>2, <1>7, <2>1
    <2> QED
      BY <1>5, <2>1, <2>2 DEF ClosedSets
  <1>8. Nat \subseteq T
    <2> HIDE DEF T
    <2> QED
      BY <1>6, <1>7, InductionOnSet
  <1>9. L - 2 \in T /\ (L - 2) + 2 = L
    BY <1>1, <1>8
  <1> QED
    BY <1>3, <1>4, <1>9 DEF needs

\* A graph of services: what depends on something is one of its nodes.
GraphShape(g) ==
    /\ g.nodes \subseteq ServiceNodes /\ IsDeps(g.deps)
    /\ \A n \in ServiceNodes : g.deps[n] \subseteq g.nodes /\ (g.deps[n] # {} => n \in g.nodes)
Acyclic(g) == \A n \in g.nodes : n \notin Needs(g)[n]

\* FindCycle finds none exactly if no node needs itself, and what it finds is a closed walk.
LEMMA FindCycleFacts ==
    ASSUME NEW g, GraphShape(g)
    PROVE  /\ FindCycle(g) = <<>> <=> Acyclic(g)
           /\ FindCycle(g) # <<>> => ClosedWalk(g.deps, FindCycle(g))
  <1> DEFINE at == [todo |-> sortedNodesFromSet(g.nodes), path |-> <<>>, done |-> {}]
             r == visitForCycle(g.deps)[at]
  <1>1. IsDeps(g.deps) /\ g.nodes \subseteq ServiceNodes
    BY DEF GraphShape
  <1>2. at.todo \in Seq(ServiceNodes) /\ ToSet(at.todo) = g.nodes
    BY <1>1, SortedNodesLength
  <1>3. at \in Visits
    BY <1>2, EmptySeq DEF Visits
  <1>4. VisitFrom(g.deps, at)
    <2>1. Walk(g.deps, <<>>)
      BY EmptySeq DEF Walk
    <2> QED
      BY <2>1 DEF VisitFrom, Left
  <1>5. FindCycle(g) = r.cycle
    BY DEF FindCycle
  <1>6. r \in VisitOutcomes
    BY <1>1, <1>3, VisitFunction
  <1> HIDE DEF at
  <1>7. VisitTells(g.deps, at, r)
    BY <1>1, <1>3, <1>4, VisitFinds
  <1> HIDE DEF r
  <1>8. ASSUME r.cycle = <<>> PROVE Acyclic(g)
    <2>1. g.nodes \subseteq r.done /\ Left(g.deps, r.done)
      BY <1>2, <1>7, <1>8 DEF VisitTells
    <2> QED
      BY <2>1 DEF Acyclic, Left, Needs
  <1>9. ASSUME r.cycle # <<>> PROVE ClosedWalk(g.deps, r.cycle) /\ ~Acyclic(g)
    <2>1. ClosedWalk(g.deps, r.cycle) /\ r.cycle \in Seq(ServiceNodes)
      BY <1>6, <1>7, <1>9 DEF VisitTells, VisitOutcomes
    <2> DEFINE n == r.cycle[1]
    <2>2. n \in NeedsOf(g.deps)[n] /\ r.cycle[2] \in g.deps[n] /\ n \in ServiceNodes
      BY <1>1, <2>1, ClosedWalkNeeds
    <2>3. n \in g.nodes
      BY <2>2 DEF GraphShape
    <2> QED
      BY <2>1, <2>2, <2>3 DEF Acyclic, Needs
  <1> QED
    BY <1>5, <1>8, <1>9

(***************************************************************************)
(* appendTopological, on a graph in which no node needs itself.            *)
(***************************************************************************)

NoneNeedsItself(deps) == \A n \in ServiceNodes : n \notin NeedsOf(deps)[n]
\* Nodes, and all they need.
WithNeeds(deps, nodes) == nodes \cup UNION {NeedsOf(deps)[n] : n \in nodes}

\* With all they need, nodes are a closed set; more nodes need more.
LEMMA WithNeedsFacts ==
    ASSUME NEW deps, IsDeps(deps), NEW nodes \in SUBSET ServiceNodes
    PROVE  /\ WithNeeds(deps, nodes) \in ClosedSets(deps) /\ WithNeeds(deps, nodes) \subseteq ServiceNodes
           /\ nodes \subseteq WithNeeds(deps, nodes)
           /\ \A S \in ClosedSets(deps) : nodes \subseteq S => WithNeeds(deps, nodes) \subseteq S
           /\ \A fewer \in SUBSET nodes : WithNeeds(deps, fewer) \subseteq WithNeeds(deps, nodes)
           /\ \A n \in nodes : WithNeeds(deps, deps[n]) \subseteq NeedsOf(deps)[n]
  <1> DEFINE W == WithNeeds(deps, nodes)
  <1>1. ASSUME NEW n \in ServiceNodes
        PROVE  /\ NeedsOf(deps)[n] \subseteq ServiceNodes /\ deps[n] \subseteq NeedsOf(deps)[n]
               /\ \A m \in NeedsOf(deps)[n] : deps[m] \subseteq NeedsOf(deps)[n]
               /\ \A S \in ClosedSets(deps) : deps[n] \subseteq S => NeedsOf(deps)[n] \subseteq S
    <2>1. /\ NeedsOf(deps)[n] \in ClosedSets(deps)
          /\ NeedsOf(deps)[n] \subseteq ServiceNodes
          /\ deps[n] \subseteq NeedsOf(deps)[n]
          /\ \A S \in ClosedSets(deps) : deps[n] \subseteq S => NeedsOf(deps)[n] \subseteq S
      BY NeedsFacts
    <2> QED
      BY <2>1 DEF ClosedSets
  <1>2. W \subseteq ServiceNodes /\ nodes \subseteq W
    BY <1>1 DEF WithNeeds
  <1>3. ASSUME NEW m \in W PROVE deps[m] \subseteq W
    <2>1. CASE m \in nodes
      BY <1>1, <2>1 DEF WithNeeds
    <2>2. CASE m \notin nodes
      <3>1. PICK n \in nodes : m \in NeedsOf(deps)[n]
        BY <2>2 DEF WithNeeds
      <3> QED
        BY <1>1, <3>1 DEF WithNeeds
    <2> QED
      BY <2>1, <2>2
  <1>4. ASSUME NEW S \in ClosedSets(deps), nodes \subseteq S PROVE W \subseteq S
    <2>1. ASSUME NEW n \in nodes PROVE NeedsOf(deps)[n] \subseteq S
      <3>1. deps[n] \subseteq S
        BY <1>4 DEF ClosedSets
      <3> QED
        BY <1>1, <1>4, <3>1
    <2> QED
      BY <1>4, <2>1 DEF WithNeeds
  <1>5. \A fewer \in SUBSET nodes : WithNeeds(deps, fewer) \subseteq W
    BY DEF WithNeeds
  <1>6. ASSUME NEW n \in nodes PROVE WithNeeds(deps, deps[n]) \subseteq NeedsOf(deps)[n]
    <2>1. \A m \in deps[n] : m \in NeedsOf(deps)[n]
      BY <1>1
    <2>2. \A m \in deps[n] : NeedsOf(deps)[m] \subseteq NeedsOf(deps)[n]
      BY <2>1, NeedsOfNeeds
    <2> QED
      BY <2>1, <2>2 DEF WithNeeds
  <1> QED
    BY <1>2, <1>3, <1>4, <1>5, <1>6 DEF ClosedSets

Appends == [todo : Seq(ServiceNodes), ordered : Seq(ServiceNodes)]
\* The points the append goes to from a point.
AppendRest(at, ordered) == [todo |-> Tail(at.todo), ordered |-> ordered]
AppendBelow(deps, at) == [todo |-> sortedNodesFromSet(deps[Head(at.todo)]), ordered |-> at.ordered]
AppendWeight(deps, at) == Weight(WithNeeds(deps, ToSet(at.todo)), at.todo)
\* One step of the append, whose further steps are the values of f.
AppendStep(deps, allowed, f, at) ==
    IF at.todo = <<>> THEN at.ordered
    ELSE IF Head(at.todo) \notin allowed \/ Head(at.todo) \in ToSet(at.ordered)
    THEN f[AppendRest(at, at.ordered)]
    ELSE f[AppendRest(at, Append(f[AppendBelow(deps, at)], Head(at.todo)))]

\* The points a step goes to are points, with less to do.
LEMMA AppendPoints ==
    ASSUME NEW deps, IsDeps(deps), NoneNeedsItself(deps), NEW at \in Appends, at.todo # <<>>
    PROVE  /\ Head(at.todo) \in ServiceNodes /\ ToSet(at.todo) = {Head(at.todo)} \cup ToSet(Tail(at.todo))
           /\ ToSet(at.todo) \subseteq ServiceNodes
           /\ \A ordered \in Seq(ServiceNodes) :
                 /\ AppendRest(at, ordered) \in Appends
                 /\ AppendWeight(deps, AppendRest(at, ordered)) < AppendWeight(deps, at)
           /\ AppendBelow(deps, at) \in Appends
           /\ ToSet(AppendBelow(deps, at).todo) = deps[Head(at.todo)]
           /\ AppendWeight(deps, AppendBelow(deps, at)) < AppendWeight(deps, at)
  <1> DEFINE node == Head(at.todo)
             all == WithNeeds(deps, ToSet(at.todo))
  <1>1. at.todo \in Seq(ServiceNodes) /\ at.ordered \in Seq(ServiceNodes)
    BY DEF Appends
  <1>2. /\ node \in ServiceNodes /\ Tail(at.todo) \in Seq(ServiceNodes)
        /\ Len(Tail(at.todo)) = Len(at.todo) - 1 /\ Len(at.todo) \in Nat
        /\ ToSet(at.todo) = {node} \cup ToSet(Tail(at.todo))
    BY <1>1, HeadTailProperties, LenProperties, HeadAndTail
  <1>3. ToSet(at.todo) \in SUBSET ServiceNodes
    BY <1>1, SeqIsList
  <1> HIDE DEF node
  <1>4. deps[node] \subseteq ServiceNodes
    BY <1>2 DEF IsDeps
  <1> DEFINE sorted == sortedNodesFromSet(deps[node])
  <1>5. /\ sorted \in Seq(ServiceNodes) /\ ToSet(sorted) = deps[node]
        /\ Len(sorted) \in Nat /\ Len(sorted) <= Cardinality(ServiceNodes)
    BY <1>4, SortedNodesLength
  <1> HIDE DEF sorted
  <1>6. /\ all \subseteq ServiceNodes /\ ToSet(at.todo) \subseteq all
        /\ \A fewer \in SUBSET ToSet(at.todo) : WithNeeds(deps, fewer) \subseteq all
        /\ \A n \in ToSet(at.todo) : WithNeeds(deps, deps[n]) \subseteq NeedsOf(deps)[n]
    BY <1>3, WithNeedsFacts
  <1>7. ASSUME NEW ordered \in Seq(ServiceNodes)
        PROVE  /\ AppendRest(at, ordered) \in Appends
               /\ AppendWeight(deps, AppendRest(at, ordered)) < AppendWeight(deps, at)
    <2>1. AppendRest(at, ordered) \in Appends
      BY <1>2 DEF AppendRest, Appends
    <2>2. Len(Tail(at.todo)) < Len(at.todo)
      BY <1>2
    <2>3. WithNeeds(deps, ToSet(Tail(at.todo))) \subseteq all
      BY <1>2, <1>6
    <2> HIDE DEF all
    <2>4. Weight(WithNeeds(deps, ToSet(Tail(at.todo))), Tail(at.todo)) < Weight(all, at.todo)
      BY <1>1, <1>2, <1>6, <2>2, <2>3, WeightShorter
    <2> QED
      BY <2>1, <2>4 DEF AppendWeight, AppendRest, all
  <1>8. AppendBelow(deps, at) \in Appends /\ ToSet(AppendBelow(deps, at).todo) = deps[node]
    BY <1>1, <1>5 DEF AppendBelow, Appends, sorted, node
  <1>9. AppendWeight(deps, AppendBelow(deps, at)) < AppendWeight(deps, at)
    <2>1. node \in all
      BY <1>2, <1>6
    <2>2. WithNeeds(deps, deps[node]) \subseteq NeedsOf(deps)[node]
      BY <1>2, <1>6
    <2>3. node \notin NeedsOf(deps)[node]
      BY <1>2 DEF NoneNeedsItself
    <2>4. NeedsOf(deps)[node] \subseteq all
      BY <1>2 DEF WithNeeds
    <2>5. WithNeeds(deps, deps[node]) \subseteq all \ {node}
      BY <2>2, <2>3, <2>4
    <2>6. Len(sorted) <= Len(at.todo) + Cardinality(ServiceNodes)
      BY <1>2, <1>5, NodesFinite
    <2> HIDE DEF all
    <2>7. Weight(WithNeeds(deps, deps[node]), sorted) < Weight(all, at.todo)
      BY <1>1, <1>5, <1>6, <2>1, <2>5, <2>6, WeightFewer
    <2> QED
      BY <1>5, <2>7 DEF AppendWeight, AppendBelow, sorted, node, all
  <1> QED
    BY <1>2, <1>3, <1>7, <1>8, <1>9 DEF node

\* The measure of the append.
LEMMA AppendWeightNat ==
    ASSUME NEW deps, IsDeps(deps)
    PROVE  [at \in Appends |-> AppendWeight(deps, at)] \in [Appends -> Nat]
  <1>1. ASSUME NEW at \in Appends PROVE AppendWeight(deps, at) \in Nat
    <2>1. at.todo \in Seq(ServiceNodes)
      BY DEF Appends
    <2>2. ToSet(at.todo) \in SUBSET ServiceNodes
      BY <2>1, SeqIsList
    <2>3. WithNeeds(deps, ToSet(at.todo)) \subseteq ServiceNodes
      BY <2>2, WithNeedsFacts
    <2> QED
      BY <2>1, <2>3, WeightNat DEF AppendWeight
  <1> QED
    BY <1>1

\* The append is what its definition says, for every graph in which no node needs itself.
LEMMA AppendFunction ==
    ASSUME NEW deps, IsDeps(deps), NoneNeedsItself(deps), NEW allowed
    PROVE  /\ appendTopological(deps, allowed) \in [Appends -> Seq(ServiceNodes)]
           /\ \A at \in Appends : appendTopological(deps, allowed)[at]
                                     = AppendStep(deps, allowed, appendTopological(deps, allowed), at)
  <1> DEFINE R == Seq(ServiceNodes)
             mu == [at \in Appends |-> AppendWeight(deps, at)]
             Phi == [f \in [Appends -> R] |-> [at \in Appends |-> AppendStep(deps, allowed, f, at)]]
             c == appendTopological(deps, allowed)
  <1>1. c = CHOOSE f : f = [at \in Appends |-> AppendStep(deps, allowed, f, at)]
    BY DEF appendTopological, AppendStep, AppendRest, AppendBelow, Appends
  <1>2. mu \in [Appends -> Nat]
    BY AppendWeightNat
  <1>3. ASSUME NEW f \in [Appends -> R], NEW at \in Appends PROVE AppendStep(deps, allowed, f, at) \in R
    <2>1. at.todo \in Seq(ServiceNodes) /\ at.ordered \in Seq(ServiceNodes)
      BY DEF Appends
    <2>2. CASE at.todo = <<>>
      BY <2>1, <2>2 DEF AppendStep
    <2>3. CASE at.todo # <<>>
      <3>1. /\ Head(at.todo) \in ServiceNodes /\ AppendBelow(deps, at) \in Appends
            /\ \A ordered \in Seq(ServiceNodes) : AppendRest(at, ordered) \in Appends
        BY <2>3, AppendPoints
      <3>2. f[AppendBelow(deps, at)] \in Seq(ServiceNodes)
        BY <3>1
      <3>3. Append(f[AppendBelow(deps, at)], Head(at.todo)) \in Seq(ServiceNodes)
        BY <3>1, <3>2, AppendProperties
      <3> QED
        BY <2>1, <2>3, <3>1, <3>3 DEF AppendStep
    <2> QED
      BY <2>2, <2>3
  <1>4. [Appends -> R] # {}
    <2>1. <<>> \in R
      BY EmptySeq
    <2>2. [at \in Appends |-> <<>>] \in [Appends -> R]
      BY <2>1
    <2> QED
      BY <2>2
  <1>5. Phi \in [[Appends -> R] -> [Appends -> R]]
    BY <1>3
  <1>6. ASSUME NEW f, NEW g \in [Appends -> R], NEW at \in Appends,
               \A y \in Appends : mu[y] < mu[at] => f[y] = g[y]
        PROVE  AppendStep(deps, allowed, f, at) = AppendStep(deps, allowed, g, at)
    <2>1. \A y \in Appends : AppendWeight(deps, y) < AppendWeight(deps, at) => f[y] = g[y]
      BY <1>6
    <2>2. CASE at.todo = <<>>
      BY <2>2 DEF AppendStep
    <2>3. CASE at.todo # <<>>
      <3> DEFINE below == AppendBelow(deps, at)
      <3>1. /\ Head(at.todo) \in ServiceNodes /\ below \in Appends
            /\ AppendWeight(deps, below) < AppendWeight(deps, at)
            /\ \A ordered \in Seq(ServiceNodes) :
                  /\ AppendRest(at, ordered) \in Appends
                  /\ AppendWeight(deps, AppendRest(at, ordered)) < AppendWeight(deps, at)
        BY <2>3, AppendPoints
      <3>2. \A ordered \in Seq(ServiceNodes) : f[AppendRest(at, ordered)] = g[AppendRest(at, ordered)]
        BY <2>1, <3>1
      <3>3. f[below] = g[below]
        BY <2>1, <3>1
      <3>4. at.ordered \in Seq(ServiceNodes)
        BY DEF Appends
      <3>5. g[below] \in Seq(ServiceNodes)
        BY <3>1
      <3>6. Append(g[below], Head(at.todo)) \in Seq(ServiceNodes)
        BY <3>1, <3>5, AppendProperties
      <3>7. f[AppendRest(at, at.ordered)] = g[AppendRest(at, at.ordered)]
        BY <3>2, <3>4
      <3>8. f[AppendRest(at, Append(g[below], Head(at.todo)))]
               = g[AppendRest(at, Append(g[below], Head(at.todo)))]
        BY <3>2, <3>6
      <3> QED
        BY <2>3, <3>3, <3>7, <3>8, Zenon DEF AppendStep
    <2> QED
      BY <2>2, <2>3
  <1> HIDE DEF R, mu
  <1>7. \A f, g \in [Appends -> R] : \A at \in Appends :
           (\A y \in Appends : mu[y] < mu[at] => f[y] = g[y]) => Phi[f][at] = Phi[g][at]
    BY <1>6
  <1>8. \A f \in [Appends -> R] : Phi[f] = [at \in Appends |-> AppendStep(deps, allowed, f, at)]
    OBVIOUS
  <1> HIDE DEF Phi
  <1>9. PICK f \in [Appends -> R] : f = Phi[f]
    <2>1. Descends(Appends, R, mu, Phi)
      BY <1>2, <1>4, <1>5, <1>7 DEF Descends
    <2>2. HasFixedPoint(Appends, R, Phi)
      BY <2>1, FixedPoint
    <2> QED
      BY <2>2 DEF HasFixedPoint
  <1>10. f = [at \in Appends |-> AppendStep(deps, allowed, f, at)]
    BY <1>8, <1>9
  <1>11. c = [at \in Appends |-> AppendStep(deps, allowed, c, at)]
    BY <1>1, <1>10
  <1> HIDE DEF c
  <1>12. \A at \in Appends : c[at] = AppendStep(deps, allowed, c, at)
    BY <1>11
  <1>13. \A at \in Appends : c[at] = f[at]
    <2> DEFINE P == {at \in Appends : c[at] = f[at]}
    <2>1. ASSUME NEW at \in Appends, \A y \in Appends : mu[y] < mu[at] => y \in P PROVE at \in P
      <3>1. \A y \in Appends : mu[y] < mu[at] => c[y] = f[y]
        BY <2>1
      <3>2. AppendStep(deps, allowed, c, at) = AppendStep(deps, allowed, f, at)
        BY <1>6, <3>1
      <3>3. f[at] = AppendStep(deps, allowed, f, at)
        BY <1>10
      <3> QED
        BY <1>12, <3>2, <3>3
    <2> HIDE DEF P
    <2>2. Inherited(Appends, mu, P)
      BY <1>2, <2>1 DEF Inherited
    <2>3. Appends \subseteq P
      BY <2>2, MeasureInduction
    <2> QED
      BY <2>3 DEF P
  <1>14. c \in [Appends -> R]
    <2>1. c = [at \in Appends |-> c[at]]
      BY <1>11
    <2> QED
      BY <1>13, <2>1
  <1> QED
    BY <1>12, <1>14 DEF c, R

\* A list of nodes that may be appended to: each once, of the allowed ones, and each after the nodes
\* it depends on.
Sorted(deps, allowed, list) ==
    /\ IsInjective(list) /\ ToSet(list) \subseteq allowed
    /\ \A i \in DOMAIN list : \A m \in deps[list[i]] : \E j \in 1..(i - 1) : list[j] = m
\* What the append makes of a point.
AppendTells(deps, allowed, at, r) ==
    /\ Sorted(deps, allowed, r)
    /\ ToSet(at.ordered) \cup (ToSet(at.todo) \cap allowed) \subseteq ToSet(r)
    /\ ToSet(r) \subseteq ToSet(at.ordered) \cup WithNeeds(deps, ToSet(at.todo))

\* A sorted list stays sorted with a node that is not in it, after all it depends on.
LEMMA SortedWith ==
    ASSUME NEW deps, NEW allowed, NEW list \in Seq(ServiceNodes), NEW n \in ServiceNodes,
           Sorted(deps, allowed, list), n \in allowed, n \notin ToSet(list), deps[n] \subseteq ToSet(list)
    PROVE  Sorted(deps, allowed, Append(list, n))
  <1> DEFINE L == Len(list)
             more == Append(list, n)
  <1>1. /\ L \in Nat /\ DOMAIN list = 1..L /\ DOMAIN more = 1..(L + 1)
        /\ \A i \in 1..L : more[i] = list[i]
        /\ more[L + 1] = n /\ ToSet(more) = ToSet(list) \cup {n}
    BY AppendFacts
  <1> HIDE DEF L, more
  <1>2. ASSUME NEW i \in 1..(L + 1), NEW j \in 1..(L + 1), more[i] = more[j] PROVE i = j
    <2>1. \A k \in 1..L : list[k] \in ToSet(list) /\ list[k] # n
      BY <1>1 DEF ToSet
    <2>2. \A k, l \in 1..L : list[k] = list[l] => k = l
      BY <1>1 DEF Sorted, IsInjective
    <2>3. i \in 1..L \/ i = L + 1
      BY <1>1
    <2>4. j \in 1..L \/ j = L + 1
      BY <1>1
    <2> QED
      BY <1>1, <1>2, <2>1, <2>2, <2>3, <2>4
  <1>3. ASSUME NEW i \in 1..(L + 1), NEW m \in deps[more[i]]
        PROVE  \E j \in 1..(i - 1) : more[j] = m
    <2>1. CASE i \in 1..L
      <3>1. PICK j \in 1..(i - 1) : list[j] = m
        <4>1. m \in deps[list[i]]
          BY <1>1, <1>3, <2>1
        <4> QED
          BY <1>1, <2>1, <4>1 DEF Sorted
      <3>2. j \in 1..L
        BY <1>1, <2>1
      <3> QED
        BY <1>1, <3>1, <3>2
    <2>2. CASE i = L + 1
      <3>1. m \in ToSet(list)
        BY <1>1, <1>3, <2>2
      <3>2. PICK j \in 1..L : list[j] = m
        BY <1>1, <3>1 DEF ToSet
      <3>3. j \in 1..(i - 1)
        BY <1>1, <2>2
      <3> QED
        BY <1>1, <3>2, <3>3
    <2> QED
      BY <1>1, <2>1, <2>2
  <1>4. ToSet(more) \subseteq allowed
    BY <1>1 DEF Sorted
  <1>5. IsInjective(more)
    BY <1>1, <1>2 DEF IsInjective
  <1>6. Sorted(deps, allowed, more)
    BY <1>1, <1>3, <1>4, <1>5 DEF Sorted
  <1> QED
    BY <1>6 DEF more

\* The append to a sorted list, where what is allowed is closed: it stays sorted, all that is to do
\* and allowed is in it, and nothing that neither was in it nor is needed.
LEMMA AppendSorts ==
    ASSUME NEW deps, IsDeps(deps), NoneNeedsItself(deps), NEW allowed \in ClosedSets(deps),
           NEW at \in Appends, Sorted(deps, allowed, at.ordered)
    PROVE  AppendTells(deps, allowed, at, appendTopological(deps, allowed)[at])
  <1> DEFINE c == appendTopological(deps, allowed)
             mu == [x \in Appends |-> AppendWeight(deps, x)]
             P == {x \in Appends : Sorted(deps, allowed, x.ordered) => AppendTells(deps, allowed, x, c[x])}
  <1>1. /\ c \in [Appends -> Seq(ServiceNodes)]
        /\ \A x \in Appends : c[x] = AppendStep(deps, allowed, c, x)
    BY AppendFunction
  <1> HIDE DEF c
  <1>2. mu \in [Appends -> Nat]
    BY AppendWeightNat
  <1>3. ASSUME NEW x \in Appends, \A y \in Appends : mu[y] < mu[x] => y \in P PROVE x \in P
    <2> SUFFICES ASSUME Sorted(deps, allowed, x.ordered) PROVE AppendTells(deps, allowed, x, c[x])
      OBVIOUS
    <2>1. \A y \in Appends : AppendWeight(deps, y) < AppendWeight(deps, x) /\ Sorted(deps, allowed, y.ordered)
                                  => AppendTells(deps, allowed, y, c[y])
      BY <1>3
    <2>2. x.todo \in Seq(ServiceNodes) /\ x.ordered \in Seq(ServiceNodes)
      BY DEF Appends
    <2> HIDE DEF P, mu
    <2>3. CASE x.todo = <<>>
      <3>1. c[x] = x.ordered
        BY <1>1, <2>3 DEF AppendStep
      <3>2. ToSet(x.todo) = {}
        BY <2>3 DEF ToSet
      <3> QED
        BY <3>1, <3>2 DEF AppendTells
    <2>4. CASE x.todo # <<>>
      <3> DEFINE node == Head(x.todo)
                 below == AppendBelow(deps, x)
      <3>1. /\ node \in ServiceNodes /\ ToSet(x.todo) = {node} \cup ToSet(Tail(x.todo))
            /\ ToSet(x.todo) \subseteq ServiceNodes
            /\ below \in Appends /\ ToSet(below.todo) = deps[node]
            /\ AppendWeight(deps, below) < AppendWeight(deps, x)
            /\ \A ordered \in Seq(ServiceNodes) :
                  /\ AppendRest(x, ordered) \in Appends
                  /\ AppendWeight(deps, AppendRest(x, ordered)) < AppendWeight(deps, x)
        BY <2>4, AppendPoints
      <3> DEFINE all == WithNeeds(deps, ToSet(x.todo))
      <3>2. /\ WithNeeds(deps, ToSet(Tail(x.todo))) \subseteq all
            /\ WithNeeds(deps, deps[node]) \subseteq NeedsOf(deps)[node]
            /\ NeedsOf(deps)[node] \subseteq all /\ node \in all
        <4>1. /\ ToSet(x.todo) \subseteq all
              /\ \A fewer \in SUBSET ToSet(x.todo) : WithNeeds(deps, fewer) \subseteq all
              /\ \A n \in ToSet(x.todo) : WithNeeds(deps, deps[n]) \subseteq NeedsOf(deps)[n]
          BY <3>1, WithNeedsFacts
        <4>2. \A n \in ToSet(x.todo) : NeedsOf(deps)[n] \subseteq all
          BY DEF WithNeeds
        <4> HIDE DEF all, node
        <4> QED
          BY <3>1, <4>1, <4>2
      <3>3. ASSUME NEW ordered \in Seq(ServiceNodes), Sorted(deps, allowed, ordered),
                   c[x] = c[AppendRest(x, ordered)],
                   ToSet(x.ordered) \cup ({node} \cap allowed) \subseteq ToSet(ordered),
                   ToSet(ordered) \subseteq ToSet(x.ordered) \cup all
            PROVE  AppendTells(deps, allowed, x, c[x])
        <4>1. AppendRest(x, ordered).todo = Tail(x.todo) /\ AppendRest(x, ordered).ordered = ordered
          BY DEF AppendRest
        <4>2. AppendTells(deps, allowed, AppendRest(x, ordered), c[x])
          BY <2>1, <3>1, <3>3, <4>1
        <4> HIDE DEF node, all
        <4>3. Sorted(deps, allowed, c[x])
          BY <4>2 DEF AppendTells
        <4>4. ToSet(ordered) \cup (ToSet(Tail(x.todo)) \cap allowed) \subseteq ToSet(c[x])
          BY <4>1, <4>2, Zenon DEF AppendTells
        <4>5. ToSet(c[x]) \subseteq ToSet(ordered) \cup WithNeeds(deps, ToSet(Tail(x.todo)))
          BY <4>1, <4>2, Zenon DEF AppendTells
        <4>6. ToSet(x.ordered) \cup (ToSet(x.todo) \cap allowed) \subseteq ToSet(c[x])
          BY <3>1, <3>3, <4>4
        <4>7. ToSet(c[x]) \subseteq ToSet(x.ordered) \cup all
          BY <3>2, <3>3, <4>5
        <4> QED
          BY <4>3, <4>6, <4>7 DEF AppendTells, all
      <3>4. CASE node \notin allowed \/ node \in ToSet(x.ordered)
        <4>1. c[x] = c[AppendRest(x, x.ordered)]
          BY <1>1, <2>4, <3>4 DEF AppendStep
        <4>2. ToSet(x.ordered) \cup ({node} \cap allowed) \subseteq ToSet(x.ordered)
          BY <3>4
        <4> QED
          BY <2>2, <3>3, <4>1, <4>2
      <3>5. CASE node \in allowed /\ node \notin ToSet(x.ordered)
        <4> DEFINE list == c[below]
        <4>1. c[x] = c[AppendRest(x, Append(list, node))]
          BY <1>1, <2>4, <3>5 DEF AppendStep
        <4>2. below.ordered = x.ordered
          BY DEF AppendBelow
        <4>3. AppendTells(deps, allowed, below, list) /\ list \in Seq(ServiceNodes)
          BY <1>1, <2>1, <3>1, <4>2
        <4> HIDE DEF list, below
        <4>4. /\ Sorted(deps, allowed, list)
              /\ ToSet(x.ordered) \cup (deps[node] \cap allowed) \subseteq ToSet(list)
              /\ ToSet(list) \subseteq ToSet(x.ordered) \cup WithNeeds(deps, deps[node])
          BY <3>1, <4>2, <4>3 DEF AppendTells
        <4> HIDE DEF node, all
        <4>5. deps[node] \subseteq ToSet(list)
          BY <3>5, <4>4 DEF ClosedSets
        <4>6. node \notin ToSet(list)
          BY <3>1, <3>2, <3>5, <4>4 DEF NoneNeedsItself
        <4>7. Sorted(deps, allowed, Append(list, node))
          BY <3>1, <3>5, <4>3, <4>4, <4>5, <4>6, SortedWith
        <4>8. Append(list, node) \in Seq(ServiceNodes) /\ ToSet(Append(list, node)) = ToSet(list) \cup {node}
          BY <3>1, <4>3, AppendFacts
        <4>9. ToSet(x.ordered) \cup ({node} \cap allowed) \subseteq ToSet(Append(list, node))
          BY <4>4, <4>8
        <4>10. ToSet(Append(list, node)) \subseteq ToSet(x.ordered) \cup all
          BY <3>2, <4>4, <4>8
        <4> QED
          BY <3>3, <4>1, <4>7, <4>8, <4>9, <4>10
      <3> QED
        BY <3>4, <3>5
    <2> QED
      BY <2>3, <2>4
  <1>4. Appends \subseteq P
    <2> HIDE DEF P, mu
    <2>1. Inherited(Appends, mu, P)
      BY <1>2, <1>3 DEF Inherited
    <2> QED
      BY <2>1, MeasureInduction
  <1> QED
    BY <1>4 DEF c

\* On a sorted list every node comes after all it needs.
LEMMA SortedNeedsFirst ==
    ASSUME NEW g, IsDeps(g.deps), NEW allowed, NEW list \in Seq(ServiceNodes), Sorted(g.deps, allowed, list)
    PROVE  NeedsFirst(g, list)
  <1>1. DOMAIN list = 1..Len(list) /\ Len(list) \in Nat /\ \A i \in 1..Len(list) : list[i] \in ServiceNodes
    BY LenProperties
  <1>2. \A i, j \in 1..Len(list) : list[i] = list[j] => i = j
    BY <1>1 DEF Sorted, IsInjective
  <1>3. ASSUME NEW i \in 1..Len(list), NEW j \in 1..Len(list), list[j] \in Needs(g)[list[i]] PROVE j < i
    <2> DEFINE before == {list[k] : k \in 1..(i - 1)}
    <2>1. \A k \in 1..(i - 1) : k \in 1..Len(list)
      BY <1>1
    <2>2. ASSUME NEW k \in 1..Len(list), k <= i, NEW m \in g.deps[list[k]] PROVE m \in before
      <3>1. PICK l \in 1..(k - 1) : list[l] = m
        BY <1>1 DEF Sorted
      <3>2. l \in 1..(i - 1)
        BY <2>2, <3>1
      <3> QED
        BY <3>1, <3>2
    <2>3. before \in ClosedSets(g.deps)
      <3>1. before \subseteq ServiceNodes
        BY <1>1, <2>1
      <3>2. ASSUME NEW e \in before, NEW m \in g.deps[e] PROVE m \in before
        <4>1. PICK k \in 1..(i - 1) : e = list[k]
          OBVIOUS
        <4>2. k \in 1..Len(list) /\ k <= i
          BY <2>1, <4>1
        <4> QED
          BY <2>2, <3>2, <4>1, <4>2
      <3> HIDE DEF before
      <3> QED
        BY <3>1, <3>2 DEF ClosedSets
    <2>4. g.deps[list[i]] \subseteq before
      <3>1. i <= i
        OBVIOUS
      <3> HIDE DEF before
      <3> QED
        BY <2>2, <3>1
    <2>5. Needs(g)[list[i]] \subseteq before
      <3> HIDE DEF before
      <3> QED
        BY <1>1, <2>3, <2>4, NeedsFacts DEF Needs
    <2>6. PICK k \in 1..(i - 1) : list[j] = list[k]
      BY <1>3, <2>5
    <2> QED
      BY <1>2, <2>1, <2>6
  <1>4. IsInjective(list)
    BY DEF Sorted
  <1> QED
    BY <1>1, <1>3, <1>4 DEF NeedsFirst

\* TopologicalOrder of a closed set of nodes of a graph without a cycle.
LEMMA TopologicalOrderFacts ==
    ASSUME NEW g, GraphShape(g), Acyclic(g), NEW selected \in ClosedSets(g.deps)
    PROVE  /\ TopologicalOrder(g, selected) \in Seq(ServiceNodes)
           /\ ToSet(TopologicalOrder(g, selected)) = selected
           /\ NeedsFirst(g, TopologicalOrder(g, selected))
  <1> DEFINE at == [todo |-> sortedNodesFromSet(selected), ordered |-> <<>>]
             r == appendTopological(g.deps, selected)[at]
  <1>1. IsDeps(g.deps) /\ selected \subseteq ServiceNodes
    BY DEF GraphShape, ClosedSets
  <1>2. NoneNeedsItself(g.deps)
    <2> SUFFICES ASSUME NEW n \in ServiceNodes PROVE n \notin NeedsOf(g.deps)[n]
      BY DEF NoneNeedsItself
    <2>1. CASE n \in g.nodes
      BY <2>1 DEF Acyclic, Needs
    <2>2. CASE n \notin g.nodes
      <3>1. g.deps[n] = {}
        BY <2>2 DEF GraphShape
      <3>2. {} \in ClosedSets(g.deps)
        BY DEF ClosedSets
      <3>3. NeedsOf(g.deps)[n] \subseteq {}
        BY <1>1, <3>1, <3>2, NeedsFacts
      <3> QED
        BY <3>3
    <2> QED
      BY <2>1, <2>2
  <1>3. at.todo \in Seq(ServiceNodes) /\ ToSet(at.todo) = selected
    BY <1>1, SortedNodesLength
  <1>4. at \in Appends /\ at.ordered = <<>>
    BY <1>3, EmptySeq DEF Appends
  <1>5. TopologicalOrder(g, selected) = r
    BY DEF TopologicalOrder
  <1> HIDE DEF at
  <1>6. ToSet(at.ordered) = {} /\ DOMAIN at.ordered = {}
    BY <1>4 DEF ToSet
  <1>7. Sorted(g.deps, selected, at.ordered)
    BY <1>6 DEF Sorted, IsInjective
  <1>8. AppendTells(g.deps, selected, at, r)
    BY <1>1, <1>2, <1>4, <1>7, AppendSorts
  <1>9. r \in Seq(ServiceNodes)
    BY <1>1, <1>2, <1>4, AppendFunction
  <1> HIDE DEF r
  <1>10. ToSet(r) = selected
    BY <1>3, <1>8 DEF AppendTells, Sorted
  <1>11. Sorted(g.deps, selected, r)
    BY <1>8 DEF AppendTells
  <1>12. NeedsFirst(g, r)
    BY <1>1, <1>9, <1>11, SortedNeedsFirst
  <1> QED
    BY <1>5, <1>9, <1>10, <1>12

(***************************************************************************)
(* CollectDependencyClosure.                                               *)
(***************************************************************************)

Collects == [collected : SUBSET ServiceNodes, pending : Seq(ServiceNodes)]
\* The point the loop goes to from a point.
CollectNext(deps, at) ==
    IF Last(at.pending) \in at.collected
    THEN [at EXCEPT !.pending = Front(at.pending)]
    ELSE [collected |-> at.collected \cup {Last(at.pending)},
          pending |-> Front(at.pending) \o sortedNodesFromSet(deps[Last(at.pending)])]
CollectStep(deps, f, at) ==
    IF at.pending = <<>> THEN at.collected ELSE f[CollectNext(deps, at)]
CollectLoop(deps) == CHOOSE f : f = [at \in Collects |-> CollectStep(deps, f, at)]
CollectWeight(at) == Weight(ServiceNodes \ at.collected, at.pending)

\* The elements of a list that is not empty: the last and those before it.
LEMMA FrontAndLast ==
    ASSUME NEW S, NEW list \in Seq(S), list # <<>>
    PROVE  /\ Front(list) \in Seq(S) /\ Len(Front(list)) = Len(list) - 1 /\ Len(list) \in Nat
           /\ Last(list) \in S /\ ToSet(list) = ToSet(Front(list)) \cup {Last(list)}
  <1> DEFINE L == Len(list)
             front == Front(list)
  <1>1. L \in Nat /\ DOMAIN list = 1..L /\ list \in [1..L -> S] /\ L > 0
    BY LenProperties, EmptySeq
  <1>2. Last(list) = list[L] /\ front = SubSeq(list, 1, L - 1)
    BY DEF Last, Front
  <1> HIDE DEF L, front
  <1>3. front \in Seq(S) /\ Len(front) = L - 1 /\ \A i \in 1..(L - 1) : front[i] = list[i]
    <2>1. 1 \in Int /\ L - 1 \in Int /\ \A i \in 1..(L - 1) : list[i] \in S
      BY <1>1
    <2>2. /\ front \in Seq(S) /\ Len(front) = IF 1 <= L - 1 THEN (L - 1) - 1 + 1 ELSE 0
          /\ \A i \in 1..((L - 1) - 1 + 1) : front[i] = list[1 + i - 1]
      BY <1>2, <2>1, SubSeqProperties
    <2>3. (L - 1) - 1 + 1 = L - 1 /\ \A i \in 1..(L - 1) : 1 + i - 1 = i
      BY <1>1
    <2>4. Len(front) = L - 1
      BY <1>1, <2>2
    <2>5. ASSUME NEW i \in 1..(L - 1) PROVE front[i] = list[i]
      BY <2>2, <2>3
    <2> QED
      BY <2>2, <2>4, <2>5
  <1>4. DOMAIN front = 1..(L - 1)
    BY <1>3, LenProperties
  <1>5. ASSUME NEW e \in ToSet(list) PROVE e \in ToSet(front) \cup {list[L]}
    <2>1. PICK i \in 1..L : e = list[i]
      BY <1>1 DEF ToSet
    <2>2. i = L \/ i \in 1..(L - 1)
      BY <1>1
    <2> QED
      BY <1>3, <1>4, <2>1, <2>2 DEF ToSet
  <1>6. ASSUME NEW e \in ToSet(front) PROVE e \in ToSet(list)
    <2>1. PICK i \in 1..(L - 1) : e = front[i]
      BY <1>4 DEF ToSet
    <2>2. i \in 1..L
      BY <1>1
    <2> QED
      BY <1>1, <1>3, <2>1, <2>2 DEF ToSet
  <1>7. list[L] \in ToSet(list) /\ list[L] \in S
    <2>1. L \in 1..L
      BY <1>1
    <2> QED
      BY <1>1, <2>1 DEF ToSet
  <1> QED
    BY <1>1, <1>2, <1>3, <1>5, <1>6, <1>7 DEF L, front

\* The point the loop goes to, with less to do.
LEMMA CollectPoints ==
    ASSUME NEW deps, IsDeps(deps), NEW at \in Collects, at.pending # <<>>
    PROVE  LET node == Last(at.pending)
               next == CollectNext(deps, at)
           IN  /\ next \in Collects /\ CollectWeight(next) < CollectWeight(at)
               /\ node \in ToSet(at.pending) /\ node \in ServiceNodes
               /\ next.collected = at.collected \cup {node}
               /\ at.collected \cup ToSet(at.pending) \subseteq next.collected \cup ToSet(next.pending)
               /\ next.collected \cup ToSet(next.pending)
                     \subseteq at.collected \cup ToSet(at.pending) \cup deps[node]
               /\ node \in at.collected
                  \/ deps[node] \subseteq next.collected \cup ToSet(next.pending)
  <1> DEFINE node == Last(at.pending)
             front == Front(at.pending)
             next == CollectNext(deps, at)
             sorted == sortedNodesFromSet(deps[node])
  <1>1. at.pending \in Seq(ServiceNodes) /\ at.collected \in SUBSET ServiceNodes
    BY DEF Collects
  <1>2. /\ front \in Seq(ServiceNodes) /\ Len(front) = Len(at.pending) - 1 /\ Len(at.pending) \in Nat
        /\ node \in ServiceNodes /\ ToSet(at.pending) = ToSet(front) \cup {node}
    BY <1>1, FrontAndLast
  <1> HIDE DEF sorted
  <1>3. /\ sorted \in Seq(ServiceNodes) /\ ToSet(sorted) = deps[node]
        /\ Len(sorted) \in Nat /\ Len(sorted) <= Cardinality(ServiceNodes)
    <2>1. deps[node] \subseteq ServiceNodes
      BY <1>2 DEF IsDeps
    <2> QED
      BY <2>1, SortedNodesLength DEF sorted
  <1>4. CASE node \in at.collected
    <2>1. next = [at EXCEPT !.pending = front]
      BY <1>4 DEF CollectNext
    <2>2. next.pending = front /\ next.collected = at.collected /\ next \in Collects
      BY <1>1, <1>2, <2>1 DEF Collects
    <2> HIDE DEF next, front, node
    <2>3. Len(front) < Len(at.pending)
      BY <1>2
    <2>4. ServiceNodes \ at.collected \subseteq ServiceNodes
      OBVIOUS
    <2>5. Weight(ServiceNodes \ at.collected, front) < Weight(ServiceNodes \ at.collected, at.pending)
      BY <1>1, <1>2, <2>3, <2>4, WeightShorter
    <2>6. CollectWeight(next) < CollectWeight(at)
      BY <2>2, <2>5 DEF CollectWeight
    <2>7. next.collected = at.collected \cup {node}
      BY <1>4, <2>2
    <2>8. /\ at.collected \cup ToSet(at.pending) \subseteq next.collected \cup ToSet(next.pending)
          /\ next.collected \cup ToSet(next.pending)
                \subseteq at.collected \cup ToSet(at.pending) \cup deps[node]
      BY <1>2, <1>4, <2>2
    <2> QED
      BY <1>2, <1>4, <2>2, <2>6, <2>7, <2>8 DEF next, node
  <1>5. CASE node \notin at.collected
    <2>1. next = [collected |-> at.collected \cup {node}, pending |-> front \o sorted]
      BY <1>5 DEF CollectNext, sorted
    <2>2. /\ front \o sorted \in Seq(ServiceNodes) /\ Len(front \o sorted) = Len(front) + Len(sorted)
          /\ ToSet(front \o sorted) = ToSet(front) \cup deps[node]
      <3>1. IsList(front) /\ IsList(sorted)
        BY <1>2, <1>3, SeqIsList
      <3>2. ToSet(front \o sorted) = ToSet(front) \cup ToSet(sorted)
        BY <3>1, ListConcat
      <3>3. front \o sorted \in Seq(ServiceNodes) /\ Len(front \o sorted) = Len(front) + Len(sorted)
        BY <1>2, <1>3, ConcatProperties
      <3> QED
        BY <1>3, <3>2, <3>3
    <2>3. next.pending = front \o sorted /\ next.collected = at.collected \cup {node} /\ next \in Collects
      BY <1>1, <1>2, <2>1, <2>2 DEF Collects
    <2> HIDE DEF next, front, node
    <2>4. Len(front \o sorted) <= Len(at.pending) + Cardinality(ServiceNodes)
      BY <1>2, <1>3, <2>2, NodesFinite
    <2>5. /\ ServiceNodes \ at.collected \subseteq ServiceNodes /\ node \in ServiceNodes \ at.collected
          /\ ServiceNodes \ (at.collected \cup {node}) \subseteq (ServiceNodes \ at.collected) \ {node}
      BY <1>2, <1>5
    <2>6. Weight(ServiceNodes \ (at.collected \cup {node}), front \o sorted)
             < Weight(ServiceNodes \ at.collected, at.pending)
      BY <1>1, <2>2, <2>4, <2>5, WeightFewer
    <2>7. CollectWeight(next) < CollectWeight(at)
      BY <2>3, <2>6 DEF CollectWeight
    <2>8. /\ at.collected \cup ToSet(at.pending) \subseteq next.collected \cup ToSet(next.pending)
          /\ next.collected \cup ToSet(next.pending)
                \subseteq at.collected \cup ToSet(at.pending) \cup deps[node]
          /\ deps[node] \subseteq next.collected \cup ToSet(next.pending)
      BY <1>2, <2>2, <2>3
    <2> QED
      BY <1>2, <2>3, <2>7, <2>8 DEF next, node
  <1> QED
    BY <1>4, <1>5

\* The loop is what its definition says, for every graph.
LEMMA CollectFunction ==
    ASSUME NEW deps, IsDeps(deps)
    PROVE  \A at \in Collects : CollectLoop(deps)[at] = CollectStep(deps, CollectLoop(deps), at)
  <1> DEFINE R == SUBSET ServiceNodes
             mu == [at \in Collects |-> CollectWeight(at)]
             Phi == [f \in [Collects -> R] |-> [at \in Collects |-> CollectStep(deps, f, at)]]
             c == CollectLoop(deps)
  <1>1. c = CHOOSE f : f = [at \in Collects |-> CollectStep(deps, f, at)]
    BY DEF CollectLoop
  <1>2. mu \in [Collects -> Nat]
    <2>1. ASSUME NEW at \in Collects PROVE CollectWeight(at) \in Nat
      <3>1. at.pending \in Seq(ServiceNodes) /\ ServiceNodes \ at.collected \subseteq ServiceNodes
        BY DEF Collects
      <3> QED
        BY <3>1, WeightNat DEF CollectWeight
    <2> QED
      BY <2>1
  <1>3. ASSUME NEW at \in Collects, at.pending # <<>>
        PROVE  CollectNext(deps, at) \in Collects /\ CollectWeight(CollectNext(deps, at)) < CollectWeight(at)
    BY <1>3, CollectPoints
  <1>4. ASSUME NEW f \in [Collects -> R], NEW at \in Collects PROVE CollectStep(deps, f, at) \in R
    <2>1. at.collected \in R
      BY DEF Collects
    <2> QED
      BY <1>3, <2>1 DEF CollectStep
  <1>5. [Collects -> R] # {}
    <2>1. [at \in Collects |-> {}] \in [Collects -> R]
      OBVIOUS
    <2> QED
      BY <2>1
  <1>6. Phi \in [[Collects -> R] -> [Collects -> R]]
    BY <1>4
  <1>7. \A f, g \in [Collects -> R] : \A at \in Collects :
           (\A y \in Collects : mu[y] < mu[at] => f[y] = g[y]) => Phi[f][at] = Phi[g][at]
    BY <1>3 DEF CollectStep
  <1>8. \A f \in [Collects -> R] : Phi[f] = [at \in Collects |-> CollectStep(deps, f, at)]
    OBVIOUS
  <1> HIDE DEF R, mu, Phi
  <1>9. PICK f \in [Collects -> R] : f = Phi[f]
    <2>1. Descends(Collects, R, mu, Phi)
      BY <1>2, <1>5, <1>6, <1>7 DEF Descends
    <2>2. HasFixedPoint(Collects, R, Phi)
      BY <2>1, FixedPoint
    <2> QED
      BY <2>2 DEF HasFixedPoint
  <1>10. f = [at \in Collects |-> CollectStep(deps, f, at)]
    BY <1>8, <1>9
  <1>11. c = [at \in Collects |-> CollectStep(deps, c, at)]
    BY <1>1, <1>10
  <1> HIDE DEF c
  <1> QED
    BY <1>11 DEF c

\* A point of the loop on the way from some nodes to all they need.
CollectFrom(deps, targets, at) ==
    LET seen == at.collected \cup ToSet(at.pending)
    IN  /\ targets \subseteq seen /\ seen \subseteq WithNeeds(deps, targets)
        /\ \A n \in at.collected : deps[n] \subseteq seen

\* The loop collects some nodes and all they need, and nothing else.
LEMMA CollectFinds ==
    ASSUME NEW deps, IsDeps(deps), NEW targets \in SUBSET ServiceNodes, NEW at \in Collects,
           CollectFrom(deps, targets, at)
    PROVE  CollectLoop(deps)[at] = WithNeeds(deps, targets)
  <1> DEFINE c == CollectLoop(deps)
             mu == [x \in Collects |-> CollectWeight(x)]
             all == WithNeeds(deps, targets)
             P == {x \in Collects : CollectFrom(deps, targets, x) => c[x] = all}
  <1>1. \A x \in Collects : c[x] = CollectStep(deps, c, x)
    BY CollectFunction
  <1> HIDE DEF c
  <1>2. mu \in [Collects -> Nat]
    <2>1. ASSUME NEW x \in Collects PROVE CollectWeight(x) \in Nat
      <3>1. x.pending \in Seq(ServiceNodes) /\ ServiceNodes \ x.collected \subseteq ServiceNodes
        BY DEF Collects
      <3> QED
        BY <3>1, WeightNat DEF CollectWeight
    <2> QED
      BY <2>1
  <1>3. /\ all \in ClosedSets(deps)
        /\ \A S \in ClosedSets(deps) : targets \subseteq S => all \subseteq S
    BY WithNeedsFacts
  <1>4. ASSUME NEW x \in Collects, \A y \in Collects : mu[y] < mu[x] => y \in P PROVE x \in P
    <2> SUFFICES ASSUME CollectFrom(deps, targets, x) PROVE c[x] = all
      OBVIOUS
    <2>1. \A y \in Collects : CollectWeight(y) < CollectWeight(x) /\ CollectFrom(deps, targets, y) => c[y] = all
      BY <1>4
    <2> HIDE DEF P, mu, all
    <2>2. /\ targets \subseteq x.collected \cup ToSet(x.pending)
          /\ x.collected \cup ToSet(x.pending) \subseteq all
          /\ \A n \in x.collected : deps[n] \subseteq x.collected \cup ToSet(x.pending)
      BY DEF CollectFrom, all
    <2>3. CASE x.pending = <<>>
      <3>1. c[x] = x.collected
        BY <1>1, <2>3 DEF CollectStep
      <3>2. ToSet(x.pending) = {}
        BY <2>3 DEF ToSet
      <3>3. x.collected \in ClosedSets(deps)
        <4>1. x.collected \in SUBSET ServiceNodes
          BY DEF Collects
        <4> QED
          BY <2>2, <3>2, <4>1 DEF ClosedSets
      <3> QED
        BY <1>3, <2>2, <3>1, <3>2, <3>3
    <2>4. CASE x.pending # <<>>
      <3> DEFINE node == Last(x.pending)
                 next == CollectNext(deps, x)
                 seen == x.collected \cup ToSet(x.pending)
                 nextSeen == next.collected \cup ToSet(next.pending)
      <3>1. /\ next \in Collects /\ CollectWeight(next) < CollectWeight(x)
            /\ node \in ToSet(x.pending) /\ node \in ServiceNodes
            /\ next.collected = x.collected \cup {node}
            /\ seen \subseteq nextSeen /\ nextSeen \subseteq seen \cup deps[node]
            /\ node \in x.collected \/ deps[node] \subseteq nextSeen
        BY <2>4, CollectPoints
      <3>2. c[x] = c[next]
        BY <1>1, <2>4 DEF CollectStep
      <3> HIDE DEF node, next
      <3>3. deps[node] \subseteq all
        BY <1>3, <2>2, <3>1 DEF ClosedSets
      <3>4. targets \subseteq nextSeen /\ nextSeen \subseteq all
        BY <2>2, <3>1, <3>3
      <3>5. \A n \in next.collected : deps[n] \subseteq nextSeen
        BY <2>2, <3>1
      <3>6. CollectFrom(deps, targets, next)
        BY <3>4, <3>5 DEF CollectFrom, all
      <3> QED
        BY <2>1, <3>1, <3>2, <3>6
    <2> QED
      BY <2>3, <2>4
  <1>5. Collects \subseteq P
    <2> HIDE DEF P, mu
    <2>1. Inherited(Collects, mu, P)
      BY <1>2, <1>4 DEF Inherited
    <2> QED
      BY <2>1, MeasureInduction
  <1> QED
    BY <1>5 DEF c, all

\* CollectDependencyClosure gives the targets and all they need.
LEMMA CollectFacts ==
    ASSUME NEW g, GraphShape(g), NEW targets \in SUBSET ServiceNodes
    PROVE  CollectDependencyClosure(g, targets) = WithNeeds(g.deps, targets)
  <1> DEFINE at == [collected |-> {}, pending |-> sortedNodesFromSet(targets)]
  <1>1. CollectDependencyClosure(g, targets) = CollectLoop(g.deps)[at]
    BY DEF CollectDependencyClosure, CollectLoop, CollectStep, CollectNext, Collects
  <1>2. IsDeps(g.deps)
    BY DEF GraphShape
  <1>3. sortedNodesFromSet(targets) \in Seq(ServiceNodes) /\ ToSet(sortedNodesFromSet(targets)) = targets
    BY SortedNodesLength
  <1>4. at \in Collects
    BY <1>3 DEF Collects
  <1>5. targets \subseteq WithNeeds(g.deps, targets)
    BY DEF WithNeeds
  <1>6. CollectFrom(g.deps, targets, at)
    BY <1>3, <1>5 DEF CollectFrom
  <1> HIDE DEF at
  <1> QED
    BY <1>1, <1>2, <1>4, <1>6, CollectFinds

(***************************************************************************)
(* Plans and scopes of a graph without a cycle.                            *)
(***************************************************************************)

\* The graph of stacks with names that can be: the dependencies of a service are services that are
\* switched on, and only such a service has any.
LEMMA GraphOfSet ==
    ASSUME NEW set, IsList(set.stacks), \A s \in ToSet(set.stacks) : s.name \in ToSet(StackOrder)
    PROVE  GraphShape(Graph(set)) /\ "" \notin Graph(set).stackNames
  <1> DEFINE nodes == CollectServiceNodes(set)
             deps == Dependencies(set)
  <1>1. Graph(set).nodes = nodes /\ Graph(set).deps = deps
        /\ Graph(set).stackNames = ToSet(Column(set.stacks, LAMBDA s : s.name))
    BY DEF Graph
  <1>2. nodes \subseteq ServiceNodes
    <2>1. ASSUME NEW s \in ToSet(set.stacks)
          PROVE  <<s.name, "xray">> \in ServiceNodes /\ <<s.name, "clash">> \in ServiceNodes
      BY NodesOfNames
    <2> QED
      BY <2>1 DEF CollectServiceNodes
  <1>3. ASSUME NEW e \in ClashListenerIndex(set) PROVE <<e.stack, "clash">> \in nodes
    <2>1. PICK s \in ToSet(set.stacks) : ClashOn(s) /\ e \in IndexClashListeners(s)
      BY <1>3 DEF ClashListenerIndex
    <2>2. e.stack = s.name
      <3>1. \A kind, listeners : \A f \in IndexListeners(s, kind, listeners) : f.stack = s.name
        BY DEF IndexListeners
      <3> QED
        BY <2>1, <3>1 DEF IndexClashListeners
    <2> QED
      BY <2>1, <2>2 DEF CollectServiceNodes
  <1>4. ASSUME NEW e \in XrayInboundIndex(set) PROVE <<e.stack, "xray">> \in nodes
    <2>1. PICK s \in ToSet(set.stacks) : XrayOn(s) /\ e \in IndexXrayInbounds(s)
      BY <1>4 DEF XrayInboundIndex
    <2>2. e.stack = s.name
      BY <2>1 DEF IndexXrayInbounds
    <2> QED
      BY <2>1, <2>2 DEF CollectServiceNodes
  <1>5. ASSUME NEW s \in ToSet(set.stacks)
        PROVE  /\ XrayDependencies(set, s) \subseteq nodes /\ ClashDependencies(set, s) \subseteq nodes
               /\ XrayDependencies(set, s) # {} => <<s.name, "xray">> \in nodes
               /\ ClashDependencies(set, s) # {} => <<s.name, "clash">> \in nodes
    <2>1. XrayDependencies(set, s) \subseteq nodes
      <3> HIDE DEF nodes
      <3> QED
        BY <1>3 DEF XrayDependencies, ResolveClashListener
    <2>2. ClashDependencies(set, s) \subseteq nodes
      <3> HIDE DEF nodes
      <3> QED
        BY <1>4 DEF ClashDependencies
    <2>3. XrayDependencies(set, s) # {} => XrayOn(s)
      BY DEF XrayDependencies
    <2>4. ClashDependencies(set, s) # {} => ClashOn(s)
      BY DEF ClashDependencies
    <2>5. XrayOn(s) => <<s.name, "xray">> \in nodes
      BY DEF CollectServiceNodes
    <2>6. ClashOn(s) => <<s.name, "clash">> \in nodes
      BY DEF CollectServiceNodes
    <2> QED
      BY <2>1, <2>2, <2>3, <2>4, <2>5, <2>6
  <1> HIDE DEF nodes
  <1>6. ASSUME NEW n \in ServiceNodes
        PROVE  deps[n] \subseteq nodes /\ (deps[n] # {} => n \in nodes)
    <2>1. deps[n] = UNION {IF n[2] = "xray" THEN XrayDependencies(set, s) ELSE ClashDependencies(set, s)
                              : s \in ByName(set, n[1])}
      BY DEF Dependencies
    <2>2. n = <<n[1], n[2]>> /\ n[2] \in {"xray", "clash"}
      <3>1. PICK k \in DOMAIN AllNodes : n = AllNodes[k]
        BY DEF ServiceNodes, ToSet
      <3>2. n = <<StackOrder[(k + 1) \div 2], IF k % 2 = 1 THEN "clash" ELSE "xray">>
        BY <3>1 DEF AllNodes
      <3> QED
        BY <3>2
    <2>3. \A s \in ByName(set, n[1]) : s \in ToSet(set.stacks) /\ s.name = n[1]
      BY DEF ByName
    <2>4. CASE n[2] = "xray"
      <3>1. deps[n] = UNION {XrayDependencies(set, s) : s \in ByName(set, n[1])}
        BY <2>1, <2>4
      <3>2. deps[n] \subseteq nodes
        BY <1>5, <2>3, <3>1
      <3>3. ASSUME deps[n] # {} PROVE n \in nodes
        <4>1. PICK s \in ByName(set, n[1]) : XrayDependencies(set, s) # {}
          BY <3>1, <3>3
        <4>2. <<s.name, "xray">> \in nodes /\ s.name = n[1]
          BY <1>5, <2>3, <4>1
        <4>3. n = <<s.name, "xray">>
          BY <2>2, <2>4, <4>2
        <4> QED
          BY <4>2, <4>3
      <3> QED
        BY <3>2, <3>3
    <2>5. CASE n[2] # "xray"
      <3>1. deps[n] = UNION {ClashDependencies(set, s) : s \in ByName(set, n[1])}
        BY <2>1, <2>5
      <3>2. deps[n] \subseteq nodes
        BY <1>5, <2>3, <3>1
      <3>3. ASSUME deps[n] # {} PROVE n \in nodes
        <4>1. PICK s \in ByName(set, n[1]) : ClashDependencies(set, s) # {}
          BY <3>1, <3>3
        <4>2. <<s.name, "clash">> \in nodes /\ s.name = n[1]
          BY <1>5, <2>3, <4>1
        <4>3. n = <<s.name, "clash">>
          BY <2>2, <2>5, <4>2
        <4> QED
          BY <4>2, <4>3
      <3> QED
        BY <3>2, <3>3
    <2> QED
      BY <2>4, <2>5
  <1>7. IsDeps(deps)
    <2>1. deps = [n \in ServiceNodes |-> deps[n]]
      BY DEF Dependencies
    <2> HIDE DEF deps
    <2>2. \A n \in ServiceNodes : deps[n] \in SUBSET ServiceNodes
      BY <1>2, <1>6
    <2> QED
      BY <2>1, <2>2 DEF IsDeps
  <1> HIDE DEF deps
  <1>8. GraphShape(Graph(set))
    BY <1>1, <1>2, <1>6, <1>7 DEF GraphShape
  <1>9. "" \notin ToSet(Column(set.stacks, LAMBDA s : s.name))
    <2> DEFINE cells == [i \in DOMAIN set.stacks |-> set.stacks[i].name]
    <2>1. Column(set.stacks, LAMBDA s : s.name) = cells \o <<>>
      BY DEF Column
    <2>2. cells = [i \in DOMAIN set.stacks |-> cells[i]]
      OBVIOUS
    <2>3. \A i \in DOMAIN set.stacks : cells[i] = set.stacks[i].name
      OBVIOUS
    <2> HIDE DEF cells
    <2>4. cells \o <<>> = cells /\ DOMAIN cells = DOMAIN set.stacks
      BY <2>2, ColumnFacts
    <2>5. \A i \in DOMAIN cells : cells[i] \in ToSet(StackOrder)
      BY <2>3, <2>4 DEF ToSet
    <2>6. ToSet(cells) \subseteq ToSet(StackOrder)
      BY <2>5 DEF ToSet
    <2> QED
      BY <2>1, <2>4, <2>6, NamesAssumption
  <1> QED
    BY <1>1, <1>8, <1>9

\* The nodes of a graph are closed.
LEMMA GraphNodesClosed ==
    ASSUME NEW g, GraphShape(g)
    PROVE  g.nodes \in ClosedSets(g.deps)
  BY DEF GraphShape, ClosedSets

\* A plan holds its targets and all they need, each after what it needs; the others are those that
\* are no targets.
LEMMA PlanFacts ==
    ASSUME NEW g, GraphShape(g), Acyclic(g), NEW target
    PROVE  LET plan == BuildDependencyPlan(g, target)
               targets == SelectTargetNodes(g, target)
           IN  /\ ToSet(plan.order) = targets \cup UNION {Needs(g)[n] : n \in targets}
               /\ NeedsFirst(g, plan.order)
               /\ ToSet(plan.others) = ToSet(plan.order) \ targets
  <1> DEFINE plan == BuildDependencyPlan(g, target)
             targets == SelectTargetNodes(g, target)
             planned == WithNeeds(g.deps, targets)
             ordered == TopologicalOrder(g, planned)
             rows == [k \in DOMAIN ordered |-> IF ordered[k] \notin targets THEN <<ordered[k]>> ELSE <<>>]
  <1>1. targets \in SUBSET ServiceNodes /\ IsDeps(g.deps)
    BY DEF SelectTargetNodes, GraphShape
  <1> HIDE DEF targets
  <1>2. CollectDependencyClosure(g, targets) = planned
    BY <1>1, CollectFacts
  <1>3. planned \in ClosedSets(g.deps)
    BY <1>1, WithNeedsFacts
  <1>4. plan.order = ordered /\ plan.others = FlattenSeq(rows)
    BY <1>2 DEF BuildDependencyPlan, Keep, targets
  <1> HIDE DEF planned, plan, ordered
  <1>5. ordered \in Seq(ServiceNodes) /\ ToSet(ordered) = planned /\ NeedsFirst(g, ordered)
    BY <1>3, TopologicalOrderFacts DEF ordered
  <1>6. IsList(ordered)
    BY <1>5, SeqIsList
  <1>7. /\ rows = [k \in DOMAIN ordered |-> rows[k]]
        /\ \A k \in DOMAIN ordered : rows[k] \in {<<>>, <<ordered[k]>>}
        /\ \A k \in DOMAIN ordered : rows[k] # <<>> <=> ordered[k] \notin targets
    OBVIOUS
  <1> HIDE DEF rows
  <1>8. \A e : e \in ToSet(FlattenSeq(rows)) <=> \E k \in DOMAIN ordered : rows[k] # <<>> /\ e = ordered[k]
    BY <1>6, <1>7, KeepFacts
  <1>9. ToSet(FlattenSeq(rows)) = ToSet(ordered) \ targets
    <2>1. \A e : e \in ToSet(ordered) <=> \E k \in DOMAIN ordered : e = ordered[k]
      BY DEF ToSet
    <2>2. \A e : e \in ToSet(FlattenSeq(rows)) <=> e \in ToSet(ordered) /\ e \notin targets
      BY <1>7, <1>8, <2>1
    <2> QED
      BY <2>2
  <1>10. planned = targets \cup UNION {Needs(g)[n] : n \in targets}
    BY DEF planned, WithNeeds, Needs
  <1> QED
    BY <1>4, <1>5, <1>9, <1>10 DEF plan, targets

\* The scope of everything holds every node, each after what it needs.
LEMMA ScopeFacts ==
    ASSUME NEW g, GraphShape(g), Acyclic(g), "" \notin g.stackNames,
           NEW component, NEW order \in ResolveTargetScope(g, "", component)
    PROVE  ToSet(order) = g.nodes /\ NeedsFirst(g, order)
  <1>1. component = "" /\ order = TopologicalOrder(g, g.nodes)
    BY DEF ResolveTargetScope, SelectTargetNodes
  <1>2. g.nodes \in ClosedSets(g.deps)
    BY GraphNodesClosed
  <1> QED
    BY <1>1, <1>2, TopologicalOrderFacts

=============================================================================
