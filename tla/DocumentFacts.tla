---------------------------- MODULE DocumentFacts ----------------------------
(***************************************************************************)
(* Facts about the documents of a base directory, for every document: what *)
(* the operators that go through lists give (Column, Keep, FlattenSeq),    *)
(* what resolving the refs of users changes, and what it means that files  *)
(* load.                                                                   *)
(*                                                                         *)
(* FlattenSeq is a recursive function.  What it gives for every table is   *)
(* proved by the principle of the least number, applied to the set of the  *)
(* lengths for which a fact holds.                                         *)
(***************************************************************************)
EXTENDS StackValidation, FiniteSetTheorems, SequenceTheorems, WellFoundedInduction, TLAPS

\* A set of numbers that is not empty has a least one.
LEMMA LeastNumber ==
    ASSUME NEW T, T \subseteq Nat, T # {}
    PROVE  \E m \in T : \A k \in T : m <= k
  <1>1. PICK m \in T : \A k \in T : ~ (<<k, m>> \in OpToRel(<, Nat))
    BY NatLessThanWellFounded, WFMin
  <1>2. \A k \in T : ~(k < m)
    BY <1>1 DEF OpToRel
  <1> QED
    BY <1>2

\* Induction over numbers, as a fact about the set of those for which something holds: the rule
\* of NaturalsInduction takes an operator, which the provers cannot instantiate.
LEMMA InductionOnSet ==
    ASSUME NEW T, 0 \in T, \A n \in Nat : n \in T => n + 1 \in T
    PROVE  Nat \subseteq T
  <1> SUFFICES ASSUME Nat \ T # {} PROVE FALSE
    OBVIOUS
  <1>1. PICK m \in Nat \ T : \A k \in Nat \ T : m <= k
    BY LeastNumber
  <1>2. m # 0
    BY <1>1
  <1>3. m - 1 \in Nat /\ m - 1 \notin Nat \ T
    BY <1>1, <1>2
  <1> QED
    BY <1>1, <1>3

\* The recursive function behind FlattenSeq exists and has the values its definition says.
LEMMA FlattenFunction ==
    ASSUME NEW S, NEW rows \in Seq(Seq(S)), rows # <<>>
    PROVE  \E f \in [1..Len(rows) -> Seq(S)] :
              /\ FlattenSeq(rows) = f[Len(rows)]
              /\ \A i \in 1..Len(rows) : f[i] = IF i = 1 THEN rows[i] ELSE f[i-1] \o rows[i]
  <1> DEFINE N == Len(rows)
             Step(g, n) == \A i \in 1..n : g[i] = IF i = 1 THEN rows[i] ELSE g[i-1] \o rows[i]
             T == {n \in Nat : n <= N => \E g \in [1..n -> Seq(S)] : Step(g, n)}
  <1>0. N \in Nat /\ N >= 1 /\ DOMAIN rows = 1..N /\ \A i \in 1..N : rows[i] \in Seq(S)
    BY EmptySeq, LenProperties
  <1> HIDE DEF N
  <1>1. 0 \in T
    <2>1. [i \in 1..0 |-> <<>>] \in [1..0 -> Seq(S)] /\ Step([i \in 1..0 |-> <<>>], 0)
      OBVIOUS
    <2> QED
      BY <2>1
  <1>2. ASSUME NEW n \in Nat, n \in T PROVE n + 1 \in T
    <2>1. SUFFICES ASSUME n + 1 <= N PROVE \E g \in [1..n+1 -> Seq(S)] : Step(g, n+1)
      <3> HIDE DEF Step
      <3> QED
        BY <1>0
    <2>2. PICK g \in [1..n -> Seq(S)] : Step(g, n)
      <3>1. n <= N
        BY <1>0, <2>1
      <3> HIDE DEF Step
      <3> QED
        BY <1>2, <3>1
    <2> DEFINE last == IF n = 0 THEN rows[1] ELSE g[n] \o rows[n+1]
               h == [i \in 1..n+1 |-> IF i <= n THEN g[i] ELSE last]
    <2>3. rows[n+1] \in Seq(S)
      BY <1>0, <2>1
    <2>4. last \in Seq(S)
      BY <2>2, <2>3, ConcatProperties
    <2> HIDE DEF last
    <2>5. h \in [1..n+1 -> Seq(S)]
      BY <2>2, <2>4
    <2>6. ASSUME NEW i \in 1..n+1 PROVE h[i] = IF i = 1 THEN rows[i] ELSE h[i-1] \o rows[i]
      <3>1. CASE i <= n
        <4>1. h[i] = g[i] /\ (i # 1 => i - 1 \in 1..n+1 /\ h[i-1] = g[i-1])
          BY <3>1
        <4>2. i \in 1..n
          BY <3>1
        <4>3. g[i] = IF i = 1 THEN rows[i] ELSE g[i-1] \o rows[i]
          BY <2>2, <4>2
        <4> HIDE DEF h
        <4> QED
          BY <4>1, <4>3
      <3>2. CASE i = n + 1
        <4>1. h[i] = last /\ (i # 1 => i - 1 = n /\ h[n] = g[n])
          BY <3>2
        <4> QED
          BY <3>2, <4>1 DEF last
      <3> QED
        BY <3>1, <3>2
    <2> QED
      BY <2>5, <2>6
  <1>3. Nat \subseteq T
    <2> HIDE DEF T
    <2> QED
      BY <1>1, <1>2, InductionOnSet
  <1>4. PICK g \in [1..N -> Seq(S)] : Step(g, N)
    <2> HIDE DEF Step
    <2>1. N \in T
      BY <1>0, <1>3
    <2> QED
      BY <2>1, <1>0
  <1> DEFINE Def(f) == [i \in 1..N |-> IF i = 1 THEN rows[i] ELSE f[i-1] \o rows[i]]
             c == CHOOSE f : f = Def(f)
  <1>5. g = Def(g)
    BY <1>4
  <1>6. c = Def(c)
    <2> HIDE DEF Def
    <2> QED
      BY <1>5
  <1>7. FlattenSeq(rows) = c[N]
    BY <1>0 DEF FlattenSeq, N
  <1> HIDE DEF c
  <1>8. c = g
    <2> DEFINE U == {n \in Nat : n \in 1..N => c[n] = g[n]}
    <2>1. 0 \in U
      OBVIOUS
    <2>2. ASSUME NEW n \in Nat, n \in U PROVE n + 1 \in U
      <3>1. CASE n + 1 \notin 1..N
        BY <3>1
      <3>2. CASE n + 1 \in 1..N
        <4>1. c[n+1] = IF n + 1 = 1 THEN rows[n+1] ELSE c[n] \o rows[n+1]
          <5>1. c[n+1] = IF n + 1 = 1 THEN rows[n+1] ELSE c[(n+1)-1] \o rows[n+1]
            BY <1>6, <3>2, Zenon
          <5>2. (n + 1) - 1 = n
            OBVIOUS
          <5> QED
            BY <5>1, <5>2, Zenon
        <4>2. g[n+1] = IF n + 1 = 1 THEN rows[n+1] ELSE g[n] \o rows[n+1]
          <5>1. g[n+1] = IF n + 1 = 1 THEN rows[n+1] ELSE g[(n+1)-1] \o rows[n+1]
            BY <1>5, <3>2, Zenon
          <5>2. (n + 1) - 1 = n
            OBVIOUS
          <5> QED
            BY <5>1, <5>2, Zenon
        <4>3. n + 1 # 1 => c[n] = g[n]
          BY <1>0, <2>2, <3>2
        <4> QED
          BY <4>1, <4>2, <4>3
      <3> QED
        BY <3>1, <3>2
    <2>3. Nat \subseteq U
      <3> HIDE DEF U
      <3> QED
        BY <2>1, <2>2, InductionOnSet
    <2>4. \A n \in 1..N : c[n] = g[n]
      BY <2>3
    <2>5. c = [i \in 1..N |-> c[i]]
      BY <1>6
    <2> QED
      BY <2>4, <2>5
  <1> QED
    BY <1>4, <1>7, <1>8 DEF N

\* What a list is: a function from its first numbers, empty exactly if it has no length.
LEMMA ListShape ==
    ASSUME NEW x, IsList(x)
    PROVE  /\ Len(x) \in Nat /\ DOMAIN x = 1..Len(x)
           /\ x = [i \in 1..Len(x) |-> x[i]]
           /\ x # <<>> <=> Len(x) > 0
           /\ x = <<>> <=> Len(x) = 0
  <1>1. Len(x) \in Nat /\ DOMAIN x = 1..Len(x) /\ x \in [1..Len(x) -> ToSet(x)]
    BY LenProperties DEF IsList
  <1>2. x # <<>> => Len(x) # 0
    BY EmptySeq DEF IsList
  <1>3. Len(<<>>) = 0
    OBVIOUS
  <1> QED
    BY <1>1, <1>2, <1>3

\* A sequence over a set is a list of elements of the set.
LEMMA SeqIsList ==
    ASSUME NEW S, NEW x \in Seq(S)
    PROVE  IsList(x) /\ ToSet(x) \subseteq S
  <1>1. Len(x) \in Nat /\ DOMAIN x = 1..Len(x) /\ x \in [1..Len(x) -> S]
    BY LenProperties
  <1>2. x \in [1..Len(x) -> ToSet(x)]
    BY <1>1 DEF ToSet
  <1>3. x \in Seq(ToSet(x))
    BY <1>1, <1>2, SeqDef
  <1> QED
    BY <1>1, <1>3 DEF IsList, ToSet

\* A function from the first numbers is a list; Column makes lists this way.
LEMMA FunctionIsList ==
    ASSUME NEW n \in Nat, NEW x, x = [i \in 1..n |-> x[i]]
    PROVE  IsList(x) /\ Len(x) = n /\ x \o <<>> = x
  <1>1. x \in [1..n -> ToSet(x)]
    BY DEF ToSet
  <1>2. x \in Seq(ToSet(x))
    BY <1>1, SeqDef
  <1>3. DOMAIN x = 1..Len(x) /\ Len(x) \in Nat
    BY <1>2, LenProperties
  <1>4. DOMAIN x = 1..n
    BY <1>1
  <1>5. Len(x) = n
    BY <1>3, <1>4
  <1> QED
    BY <1>2, <1>5, ConcatEmptySeq DEF IsList

\* A column is the function of its cells.
LEMMA ColumnFacts ==
    ASSUME NEW rows, IsList(rows), NEW cells, cells = [k \in DOMAIN rows |-> cells[k]]
    PROVE  /\ cells \o <<>> = cells /\ IsList(cells)
           /\ DOMAIN cells = DOMAIN rows /\ Len(cells) = Len(rows)
  <1>1. DOMAIN rows = 1..Len(rows) /\ Len(rows) \in Nat
    BY ListShape
  <1>2. cells = [k \in 1..Len(rows) |-> cells[k]]
    BY <1>1, Zenon
  <1> QED
    BY <1>1, <1>2, FunctionIsList, Zenon

\* A list of one element.
LEMMA SingletonList ==
    ASSUME NEW x
    PROVE  IsList(<<x>>) /\ Len(<<x>>) = 1 /\ DOMAIN <<x>> = 1..1 /\ <<x>>[1] = x /\ ToSet(<<x>>) = {x}
  <1>1. <<x>> = [m \in 1..1 |-> <<x>>[m]] /\ <<x>>[1] = x
    OBVIOUS
  <1>2. IsList(<<x>>) /\ Len(<<x>>) = 1 /\ DOMAIN <<x>> = 1..1
    BY <1>1, FunctionIsList
  <1> QED
    BY <1>1, <1>2 DEF ToSet

\* A list whose elements lie in a set is a sequence over the set.
LEMMA ListIsSeq ==
    ASSUME NEW S, NEW x, IsList(x), \A i \in DOMAIN x : x[i] \in S
    PROVE  x \in Seq(S)
  <1>1. Len(x) \in Nat /\ DOMAIN x = 1..Len(x) /\ x = [i \in 1..Len(x) |-> x[i]]
    BY ListShape
  <1>2. x \in [1..Len(x) -> S]
    BY <1>1
  <1> QED
    BY <1>1, <1>2, SeqDef

\* What stands where in the concatenation of two lists.
LEMMA ListConcat ==
    ASSUME NEW x, NEW y, IsList(x), IsList(y)
    PROVE  /\ IsList(x \o y)
           /\ Len(x \o y) = Len(x) + Len(y)
           /\ \A i \in 1..Len(x) : (x \o y)[i] = x[i]
           /\ \A i \in 1..Len(y) : (x \o y)[Len(x) + i] = y[i]
           /\ ToSet(x \o y) = ToSet(x) \cup ToSet(y)
  <1> DEFINE S == ToSet(x) \cup ToSet(y)
  <1>1. x \in Seq(S) /\ y \in Seq(S)
    BY SeqMonotonic, ToSet(x) \subseteq S, ToSet(y) \subseteq S DEF IsList
  <1>2. /\ x \o y \in Seq(S) /\ Len(x \o y) = Len(x) + Len(y)
        /\ \A i \in 1..Len(x) + Len(y) :
              (x \o y)[i] = IF i <= Len(x) THEN x[i] ELSE y[i - Len(x)]
    BY <1>1, ConcatProperties
  <1>3. Len(x) \in Nat /\ Len(y) \in Nat /\ DOMAIN x = 1..Len(x) /\ DOMAIN y = 1..Len(y)
    BY ListShape
  <1>4. IsList(x \o y) /\ DOMAIN (x \o y) = 1..(Len(x) + Len(y))
    BY <1>2, SeqIsList, ListShape
  <1>5. ASSUME NEW i \in 1..Len(x) PROVE (x \o y)[i] = x[i]
    BY <1>2, <1>3
  <1>6. ASSUME NEW i \in 1..Len(y) PROVE (x \o y)[Len(x) + i] = y[i]
    <2>1. Len(x) + i \in 1..Len(x) + Len(y) /\ ~(Len(x) + i <= Len(x)) /\ (Len(x) + i) - Len(x) = i
      BY <1>3
    <2>2. (x \o y)[Len(x) + i] = IF Len(x) + i <= Len(x) THEN x[Len(x) + i] ELSE y[(Len(x) + i) - Len(x)]
      BY <1>2, <2>1
    <2> QED
      BY <2>1, <2>2, Zenon
  <1>7. \A e \in ToSet(x \o y) : e \in S
    BY <1>2, <1>4, SeqIsList
  <1>8. \A e \in ToSet(x) : e \in ToSet(x \o y)
    BY <1>3, <1>4, <1>5 DEF ToSet
  <1>9. \A e \in ToSet(y) : e \in ToSet(x \o y)
    <2> TAKE e \in ToSet(y)
    <2>1. PICK i \in 1..Len(y) : e = y[i]
      BY <1>3 DEF ToSet
    <2>2. Len(x) + i \in DOMAIN (x \o y)
      BY <1>3, <1>4
    <2> QED
      BY <1>6, <2>1, <2>2 DEF ToSet
  <1> QED
    BY <1>2, <1>4, <1>5, <1>6, <1>7, <1>8, <1>9

IsTable(rows) == IsList(rows) /\ \A i \in DOMAIN rows : IsList(rows[i])

\* A list of lists is a sequence of sequences over one set.
LEMMA TableIsSeq ==
    ASSUME NEW rows, IsTable(rows)
    PROVE  \E S : rows \in Seq(Seq(S))
  <1> DEFINE S == UNION {ToSet(rows[i]) : i \in DOMAIN rows}
  <1>1. ASSUME NEW i \in DOMAIN rows PROVE rows[i] \in Seq(S)
    <2>1. ToSet(rows[i]) \subseteq S
      OBVIOUS
    <2> HIDE DEF S
    <2> QED
      BY <2>1, SeqMonotonic DEF IsTable, IsList
  <1> HIDE DEF S
  <1> QED
    BY <1>1, ListIsSeq DEF IsTable

\* Which cells of a table the elements of a sequence are.
Places(rows, n, flat, row, col) ==
    /\ \A p \in DOMAIN flat : /\ row[p] \in 1..n /\ col[p] \in DOMAIN rows[row[p]]
                             /\ flat[p] = rows[row[p]][col[p]]
    /\ \A p, q \in DOMAIN flat : row[p] = row[q] /\ col[p] = col[q] => p = q
    /\ \A i \in 1..n : \A k \in DOMAIN rows[i] :
          \E p \in DOMAIN flat : row[p] = i /\ col[p] = k

\* One more row: the places of the concatenation, from those of the rows before.
LEMMA PlacesNext ==
    ASSUME NEW n \in Nat, NEW rows, NEW flat, IsList(flat), NEW row, NEW col,
           Places(rows, n, flat, row, col), IsList(rows[n + 1])
    PROVE  \E r, c : Places(rows, n + 1, flat \o rows[n + 1], r, c)
  <1> DEFINE L == Len(flat)
             next == rows[n + 1]
             both == flat \o next
             r == [p \in 1..(L + Len(next)) |-> IF p <= L THEN row[p] ELSE n + 1]
             c == [p \in 1..(L + Len(next)) |-> IF p <= L THEN col[p] ELSE p - L]
  <1>1. /\ L \in Nat /\ DOMAIN flat = 1..L /\ Len(next) \in Nat /\ DOMAIN next = 1..Len(next)
        /\ DOMAIN both = 1..(L + Len(next))
        /\ \A i \in 1..L : both[i] = flat[i]
        /\ \A i \in 1..Len(next) : both[L + i] = next[i]
    BY ListShape, ListConcat
  <1> HIDE DEF L, both
  <1>2. \A p \in 1..L : r[p] = row[p] /\ c[p] = col[p] /\ row[p] \in 1..n
    <2> TAKE p \in 1..L
    <2>1. p \in 1..(L + Len(next)) /\ p <= L /\ p \in DOMAIN flat
      BY <1>1
    <2>2. row[p] \in 1..n
      BY <2>1 DEF Places
    <2> QED
      BY <2>1, <2>2
  <1>3. \A p \in 1..(L + Len(next)) : p > L => r[p] = n + 1 /\ c[p] = p - L /\ p - L \in 1..Len(next)
    BY <1>1
  <1> HIDE DEF r, c
  <1>4. ASSUME NEW p \in DOMAIN both
        PROVE  r[p] \in 1..n + 1 /\ c[p] \in DOMAIN rows[r[p]] /\ both[p] = rows[r[p]][c[p]]
    <2>1. CASE p <= L
      <3>1. p \in 1..L
        BY <1>1, <2>1
      <3> QED
        BY <1>1, <1>2, <3>1 DEF Places
    <2>2. CASE p > L
      <3>1. r[p] = n + 1 /\ c[p] = p - L /\ p - L \in 1..Len(next) /\ L + (p - L) = p
        BY <1>1, <1>3, <2>2
      <3>2. both[p] = next[p - L]
        BY <1>1, <3>1
      <3> QED
        BY <1>1, <3>1, <3>2
    <2> QED
      BY <1>1, <2>1, <2>2
  <1>5. ASSUME NEW p \in DOMAIN both, NEW q \in DOMAIN both, r[p] = r[q], c[p] = c[q]
        PROVE  p = q
    <2>1. CASE p <= L /\ q <= L
      <3>1. p \in 1..L /\ q \in 1..L
        BY <1>1, <2>1
      <3> QED
        BY <1>1, <1>2, <1>5, <3>1 DEF Places
    <2>2. CASE p > L /\ q > L
      BY <1>1, <1>3, <1>5, <2>2
    <2>3. ASSUME NEW u \in DOMAIN both, NEW v \in DOMAIN both, u <= L, v > L PROVE r[u] # r[v]
      <3>1. u \in 1..L /\ v \in 1..(L + Len(next))
        BY <1>1, <2>3
      <3>2. r[u] \in 1..n /\ r[v] = n + 1
        BY <1>2, <1>3, <2>3, <3>1
      <3> QED
        BY <3>2
    <2> QED
      BY <1>1, <1>5, <2>1, <2>2, <2>3
  <1>6. ASSUME NEW i \in 1..n + 1, NEW k \in DOMAIN rows[i]
        PROVE  \E p \in DOMAIN both : r[p] = i /\ c[p] = k
    <2>1. CASE i \in 1..n
      <3>1. PICK p \in DOMAIN flat : row[p] = i /\ col[p] = k
        BY <2>1 DEF Places
      <3>2. p \in DOMAIN both
        BY <1>1, <3>1
      <3> QED
        BY <1>1, <1>2, <3>1, <3>2
    <2>2. CASE i = n + 1
      <3>1. k \in 1..Len(next)
        BY <1>1, <2>2
      <3>2. L + k \in 1..(L + Len(next)) /\ L + k > L /\ (L + k) - L = k
        BY <1>1, <3>1
      <3> QED
        BY <1>1, <1>3, <2>2, <3>2
    <2> QED
      BY <2>1, <2>2
  <1>7. Places(rows, n + 1, both, r, c)
    BY <1>4, <1>5, <1>6 DEF Places
  <1> QED
    BY <1>7 DEF both

\* FlattenSeq gives a list whose every place is one of one row, the rows in their order.
LEMMA FlattenPlaces ==
    ASSUME NEW rows, IsTable(rows)
    PROVE  /\ IsList(FlattenSeq(rows))
           /\ \E row, col : Places(rows, Len(rows), FlattenSeq(rows), row, col)
  <1>1. Len(rows) \in Nat /\ DOMAIN rows = 1..Len(rows) /\ (rows = <<>> <=> Len(rows) = 0)
    BY ListShape DEF IsTable
  <1>2. CASE rows = <<>>
    <2>1. FlattenSeq(rows) = rows
      BY <1>1, <1>2 DEF FlattenSeq
    <2>2. Places(rows, Len(rows), rows, <<>>, <<>>)
      BY <1>1, <1>2 DEF Places
    <2> QED
      BY <2>1, <2>2 DEF IsTable
  <1>3. CASE rows # <<>>
    <2>1. PICK S : rows \in Seq(Seq(S))
      BY TableIsSeq
    <2>2. PICK f \in [1..Len(rows) -> Seq(S)] :
              /\ FlattenSeq(rows) = f[Len(rows)]
              /\ \A i \in 1..Len(rows) : f[i] = IF i = 1 THEN rows[i] ELSE f[i-1] \o rows[i]
      BY <1>3, <2>1, FlattenFunction
    <2> DEFINE T == {n \in Nat : n \in 1..Len(rows) => \E row, col : Places(rows, n, f[n], row, col)}
    <2>3. 0 \in T
      BY <1>1
    <2>4. ASSUME NEW n \in Nat, n \in T, n + 1 \in 1..Len(rows)
          PROVE  \E row, col : Places(rows, n + 1, f[n + 1], row, col)
      <3>1. IsList(rows[n + 1])
        BY <1>1, <2>4 DEF IsTable
      <3>2. CASE n = 0
        <4>1. f[n + 1] = rows[1]
          <5>1. n + 1 = 1 /\ 1 \in 1..Len(rows)
            BY <2>4, <3>2
          <5>2. f[1] = rows[1]
            BY <2>2, <5>1, Zenon
          <5> QED
            BY <5>1, <5>2
        <4>2. DOMAIN rows[1] = 1..Len(rows[1]) /\ Len(rows[1]) \in Nat
          BY <3>1, <3>2, ListShape
        <4> DEFINE r == [p \in DOMAIN rows[1] |-> 1]
                   c == [p \in DOMAIN rows[1] |-> p]
        <4>3. Places(rows, 1, rows[1], r, c)
          BY DEF Places
        <4> HIDE DEF r, c
        <4> QED
          BY <3>2, <4>1, <4>3
      <3>3. CASE n # 0
        <4>1. n \in 1..Len(rows) /\ (n + 1) - 1 = n /\ n + 1 # 1
          BY <1>1, <2>4, <3>3
        <4>2. f[n + 1] = f[(n + 1) - 1] \o rows[n + 1]
          BY <2>2, <2>4, <4>1, Zenon
        <4>3. f[n + 1] = f[n] \o rows[n + 1]
          BY <4>1, <4>2, Zenon
        <4>4. IsList(f[n])
          BY <2>2, <4>1, SeqIsList
        <4>5. PICK row, col : Places(rows, n, f[n], row, col)
          BY <2>4, <4>1
        <4> QED
          BY <3>1, <4>3, <4>4, <4>5, PlacesNext
      <3> QED
        BY <3>2, <3>3
    <2>5. Nat \subseteq T
      <3>1. ASSUME NEW n \in Nat, n \in T PROVE n + 1 \in T
        <4>1. n + 1 \in Nat
          OBVIOUS
        <4>2. n + 1 \in 1..Len(rows) => \E row, col : Places(rows, n + 1, f[n + 1], row, col)
          BY <2>4, <3>1
        <4> QED
          BY <4>1, <4>2, Zenon
      <3> HIDE DEF T
      <3> QED
        BY <2>3, <3>1, InductionOnSet
    <2>6. Len(rows) \in 1..Len(rows) /\ Len(rows) \in T
      BY <1>1, <1>3, <2>5
    <2>7. IsList(f[Len(rows)])
      BY <2>2, <2>6, SeqIsList
    <2> QED
      BY <2>2, <2>6, <2>7
  <1> QED
    BY <1>2, <1>3

\* FlattenSeq has the elements of the rows, and no others.
LEMMA FlattenElements ==
    ASSUME NEW rows, IsTable(rows)
    PROVE  \A e : e \in ToSet(FlattenSeq(rows)) <=> \E i \in DOMAIN rows : e \in ToSet(rows[i])
  <1>1. DOMAIN rows = 1..Len(rows)
    BY ListShape DEF IsTable
  <1>2. PICK row, col : Places(rows, Len(rows), FlattenSeq(rows), row, col)
    BY FlattenPlaces
  <1> DEFINE F == FlattenSeq(rows)
  <1> HIDE DEF F
  <1>3. ASSUME NEW e \in ToSet(F) PROVE \E i \in DOMAIN rows : e \in ToSet(rows[i])
    <2>1. PICK p \in DOMAIN F : e = F[p]
      BY DEF ToSet
    <2>2. row[p] \in DOMAIN rows /\ col[p] \in DOMAIN rows[row[p]] /\ F[p] = rows[row[p]][col[p]]
      BY <1>1, <1>2 DEF Places, F
    <2> QED
      BY <2>1, <2>2 DEF ToSet
  <1>4. ASSUME NEW i \in DOMAIN rows, NEW e \in ToSet(rows[i]) PROVE e \in ToSet(F)
    <2>1. PICK k \in DOMAIN rows[i] : e = rows[i][k]
      BY DEF ToSet
    <2>2. PICK p \in DOMAIN F : row[p] = i /\ col[p] = k
      BY <1>1, <1>2 DEF Places, F
    <2>3. F[p] = rows[i][k]
      BY <1>2, <2>2 DEF Places, F
    <2> QED
      BY <2>1, <2>3 DEF ToSet
  <1> QED
    BY <1>3, <1>4 DEF F

\* No two cells of a table have one key.
DistinctCells(rows, key) ==
    \A i, j \in DOMAIN rows : \A k \in DOMAIN rows[i], l \in DOMAIN rows[j] :
        key[rows[i][k]] = key[rows[j][l]] => i = j /\ k = l
DistinctRow(row, key) == \A k, l \in DOMAIN row : key[row[k]] = key[row[l]] => k = l

\* The values of a key differ all over FlattenSeq exactly if they differ in the rows and from
\* row to row.
LEMMA FlattenDistinct ==
    ASSUME NEW rows, IsTable(rows), NEW key
    PROVE  DistinctRow(FlattenSeq(rows), key) <=> DistinctCells(rows, key)
  <1>1. DOMAIN rows = 1..Len(rows)
    BY ListShape DEF IsTable
  <1>2. PICK row, col : Places(rows, Len(rows), FlattenSeq(rows), row, col)
    BY FlattenPlaces
  <1> DEFINE F == FlattenSeq(rows)
  <1> HIDE DEF F
  <1>3. /\ \A p \in DOMAIN F : /\ row[p] \in DOMAIN rows /\ col[p] \in DOMAIN rows[row[p]]
                                /\ F[p] = rows[row[p]][col[p]]
        /\ \A p, q \in DOMAIN F : row[p] = row[q] /\ col[p] = col[q] => p = q
        /\ \A i \in DOMAIN rows : \A k \in DOMAIN rows[i] :
              \E p \in DOMAIN F : row[p] = i /\ col[p] = k
    BY <1>1, <1>2 DEF Places, F
  <1>4. ASSUME DistinctRow(F, key), NEW i \in DOMAIN rows, NEW j \in DOMAIN rows,
               NEW k \in DOMAIN rows[i], NEW l \in DOMAIN rows[j],
               key[rows[i][k]] = key[rows[j][l]]
        PROVE  i = j /\ k = l
    <2>1. PICK p \in DOMAIN F : row[p] = i /\ col[p] = k
      BY <1>3
    <2>2. PICK q \in DOMAIN F : row[q] = j /\ col[q] = l
      BY <1>3
    <2>3. F[p] = rows[i][k] /\ F[q] = rows[j][l]
      BY <1>3, <2>1, <2>2
    <2>4. p = q
      BY <1>4, <2>3 DEF DistinctRow
    <2> QED
      BY <2>1, <2>2, <2>4
  <1>5. ASSUME DistinctCells(rows, key), NEW p \in DOMAIN F, NEW q \in DOMAIN F,
               key[F[p]] = key[F[q]]
        PROVE  p = q
    BY <1>3, <1>5 DEF DistinctCells
  <1> QED
    BY <1>4, <1>5 DEF DistinctRow, DistinctCells, F

\* Keeping some elements of a list.
LEMMA KeepFacts ==
    ASSUME NEW list, IsList(list), NEW rows, rows = [k \in DOMAIN list |-> rows[k]],
           \A k \in DOMAIN list : rows[k] \in {<<>>, <<list[k]>>}
    PROVE  /\ IsList(FlattenSeq(rows))
           /\ \A e : e \in ToSet(FlattenSeq(rows))
                        <=> \E k \in DOMAIN list : rows[k] # <<>> /\ e = list[k]
           /\ \A key : DistinctRow(list, key) => DistinctRow(FlattenSeq(rows), key)
  <1>1. DOMAIN list = 1..Len(list) /\ Len(list) \in Nat
    BY ListShape
  <1>2. IsList(rows) /\ DOMAIN rows = DOMAIN list
    BY <1>1, FunctionIsList, Zenon
  <1>3. ASSUME NEW k \in DOMAIN list
        PROVE  /\ IsList(rows[k])
               /\ \A e : e \in ToSet(rows[k]) <=> rows[k] # <<>> /\ e = list[k]
               /\ \A l \in DOMAIN rows[k] : l = 1 /\ rows[k][l] = list[k]
    <2>1. CASE rows[k] = <<>>
      <3>1. IsList(<<>>) /\ ToSet(<<>>) = {} /\ DOMAIN <<>> = {}
        BY EmptySeq DEF IsList, ToSet
      <3> QED
        BY <2>1, <3>1
    <2>2. CASE rows[k] = <<list[k]>>
      <3>1. <<list[k]>> = [m \in 1..1 |-> <<list[k]>>[m]] /\ <<list[k]>>[1] = list[k]
        OBVIOUS
      <3>2. IsList(<<list[k]>>) /\ DOMAIN <<list[k]>> = 1..1
        BY <3>1, FunctionIsList
      <3>3. \A e : e \in ToSet(<<list[k]>>) <=> e = list[k]
        BY <3>1, <3>2 DEF ToSet
      <3>4. <<list[k]>> # <<>>
        BY <3>2
      <3> QED
        BY <2>2, <3>1, <3>2, <3>3, <3>4
    <2> QED
      BY <2>1, <2>2
  <1>4. IsTable(rows)
    BY <1>2, <1>3 DEF IsTable
  <1>5. \A e : e \in ToSet(FlattenSeq(rows)) <=> \E k \in DOMAIN list : rows[k] # <<>> /\ e = list[k]
    BY <1>2, <1>3, <1>4, FlattenElements
  <1>6. ASSUME NEW key, DistinctRow(list, key) PROVE DistinctRow(FlattenSeq(rows), key)
    <2>1. DistinctCells(rows, key)
      BY <1>2, <1>3, <1>6 DEF DistinctCells, DistinctRow
    <2> QED
      BY <1>4, <2>1, FlattenDistinct
  <1> QED
    BY <1>4, <1>5, <1>6, FlattenPlaces

\* One more row at the end of a table is one more list at the end.
LEMMA FlattenAppend ==
    ASSUME NEW rows, IsTable(rows), NEW row, IsList(row)
    PROVE  FlattenSeq(Append(rows, row)) = FlattenSeq(rows) \o row
  <1> DEFINE N == Len(rows)
             more == rows \o <<row>>
  <1>1. N \in Nat /\ DOMAIN rows = 1..N /\ (rows = <<>> <=> N = 0) /\ IsList(rows)
    BY ListShape DEF IsTable
  <1>2. IsList(<<row>>) /\ Len(<<row>>) = 1 /\ <<row>>[1] = row
    BY SingletonList
  <1>3. /\ IsList(more) /\ Len(more) = N + 1
        /\ \A i \in 1..N : more[i] = rows[i]
        /\ more[N + 1] = row
    <2>1. /\ IsList(more) /\ Len(more) = Len(rows) + Len(<<row>>)
          /\ \A i \in 1..Len(rows) : more[i] = rows[i]
          /\ \A i \in 1..Len(<<row>>) : more[Len(rows) + i] = <<row>>[i]
      BY <1>1, <1>2, ListConcat
    <2> HIDE DEF more
    <2> QED
      BY <1>2, <2>1
  <1>4. Append(rows, row) = more
    BY <1>1 DEF IsList
  <1> HIDE DEF N, more
  <1>5. DOMAIN more = 1..(N + 1) /\ more # <<>>
    BY <1>1, <1>3, ListShape
  <1>6. IsTable(more)
    <2>1. \A i \in 1..(N + 1) : i \in 1..N \/ i = N + 1
      BY <1>1
    <2> QED
      BY <1>1, <1>3, <1>5, <2>1 DEF IsTable
  <1>7. PICK S : more \in Seq(Seq(S))
    BY <1>6, TableIsSeq
  <1>8. PICK f \in [1..(N + 1) -> Seq(S)] :
            /\ FlattenSeq(more) = f[N + 1]
            /\ \A i \in 1..(N + 1) : f[i] = IF i = 1 THEN more[i] ELSE f[i-1] \o more[i]
    <2>1. \E f \in [1..Len(more) -> Seq(S)] :
             /\ FlattenSeq(more) = f[Len(more)]
             /\ \A i \in 1..Len(more) : f[i] = IF i = 1 THEN more[i] ELSE f[i-1] \o more[i]
      BY <1>5, <1>7, FlattenFunction
    <2>2. Len(more) = N + 1
      BY <1>3
    <2> QED
      BY <2>1, <2>2, Zenon
  <1>9. N + 1 \in 1..(N + 1) /\ (N + 1) - 1 = N
    BY <1>1
  <1>10. CASE N = 0
    <2>1. FlattenSeq(rows) = <<>>
      BY <1>1, <1>10 DEF FlattenSeq
    <2>2. f[1] = more[1]
      BY <1>8, <1>10
    <2>3. <<>> \o row = row
      BY ConcatEmptySeq DEF IsList
    <2> QED
      BY <1>3, <1>4, <1>8, <1>10, <2>1, <2>2, <2>3
  <1>11. CASE N # 0
    <2>1. rows \in Seq(Seq(S))
      <3>1. \A i \in 1..N : more[i] \in Seq(S)
        BY <1>1, <1>3, <1>7, LenProperties
      <3> QED
        BY <1>1, <1>3, <3>1, ListIsSeq
    <2>2. PICK g \in [1..N -> Seq(S)] :
              /\ FlattenSeq(rows) = g[N]
              /\ \A i \in 1..N : g[i] = IF i = 1 THEN rows[i] ELSE g[i-1] \o rows[i]
      BY <1>1, <1>11, <2>1, FlattenFunction DEF N
    <2> DEFINE T == {n \in Nat : n \in 1..N => f[n] = g[n]}
    <2>3. 0 \in T
      OBVIOUS
    <2>4. ASSUME NEW n \in Nat, n \in T PROVE n + 1 \in T
      <3> SUFFICES ASSUME n + 1 \in 1..N PROVE f[n + 1] = g[n + 1]
        OBVIOUS
      <3>1. n + 1 \in 1..(N + 1) /\ (n + 1) - 1 = n /\ more[n + 1] = rows[n + 1]
        BY <1>1, <1>3
      <3>2. f[n + 1] = IF n + 1 = 1 THEN rows[n + 1] ELSE f[n] \o rows[n + 1]
        BY <1>8, <3>1, Zenon
      <3>3. g[n + 1] = IF n + 1 = 1 THEN rows[n + 1] ELSE g[n] \o rows[n + 1]
        BY <2>2, <3>1, Zenon
      <3>4. n + 1 # 1 => f[n] = g[n]
        BY <1>1, <2>4
      <3> QED
        BY <3>2, <3>3, <3>4
    <2>5. Nat \subseteq T
      <3> HIDE DEF T
      <3> QED
        BY <2>3, <2>4, InductionOnSet
    <2>6. f[N] = g[N]
      BY <1>1, <1>11, <2>5
    <2>7. f[N + 1] = f[N] \o more[N + 1]
      <3>1. N + 1 # 1
        BY <1>1, <1>11
      <3>2. f[N + 1] = f[(N + 1) - 1] \o more[N + 1]
        BY <1>8, <1>9, <3>1, Zenon
      <3> QED
        BY <1>9, <3>2, Zenon
    <2> QED
      BY <1>3, <1>4, <1>8, <2>2, <2>6, <2>7
  <1> QED
    BY <1>10, <1>11

\* Keeping all elements of a list but the one at place p, or all if p lies behind the list.
LEMMA KeepOthers ==
    ASSUME NEW list, IsList(list), NEW p \in 1..(Len(list) + 1), NEW rows,
           rows = [k \in DOMAIN list |-> rows[k]],
           \A k \in DOMAIN list : rows[k] = IF k = p THEN <<>> ELSE <<list[k]>>
    PROVE  FlattenSeq(rows) = [j \in 1..(IF p <= Len(list) THEN Len(list) - 1 ELSE Len(list)) |->
                                  IF j < p THEN list[j] ELSE list[j + 1]]
  <1> DEFINE N == Len(list)
             M(i) == IF p <= i THEN i - 1 ELSE i
             At(j) == IF j < p THEN list[j] ELSE list[j + 1]
             Prefix(i) == [j \in 1..M(i) |-> At(j)]
  <1>1. N \in Nat /\ DOMAIN list = 1..N /\ p \in Nat /\ p >= 1
    BY ListShape
  <1>2. IsList(rows) /\ Len(rows) = N /\ DOMAIN rows = 1..N
    <2>1. rows = [k \in 1..N |-> rows[k]]
      BY <1>1, Zenon
    <2> QED
      BY <1>1, <2>1, FunctionIsList
  <1> HIDE DEF N
  <1>3. \A k \in 1..N : rows[k] = IF k = p THEN <<>> ELSE <<list[k]>>
    BY <1>1
  <1>4. \A i \in Nat : M(i) \in Nat /\ Prefix(i) = [j \in 1..M(i) |-> Prefix(i)[j]]
                       /\ \A j \in 1..M(i) : Prefix(i)[j] = At(j)
    BY <1>1
  <1> HIDE DEF At
  <1>5. \A i \in Nat : IsList(Prefix(i)) /\ Len(Prefix(i)) = M(i) /\ Prefix(i) \o <<>> = Prefix(i)
    <2> TAKE i \in Nat
    <2> DEFINE x == Prefix(i)
    <2>1. M(i) \in Nat /\ x = [j \in 1..M(i) |-> x[j]]
      BY <1>4
    <2> HIDE DEF x, M
    <2>2. IsList(x) /\ Len(x) = M(i) /\ x \o <<>> = x
      BY <2>1, FunctionIsList
    <2> QED
      BY <2>2 DEF x, M
  <1>6. ASSUME NEW i \in Nat, i + 1 \in 1..N
        PROVE  Prefix(i) \o rows[i + 1] = Prefix(i + 1)
    <2>1. CASE i + 1 = p
      <3>1. M(i) = M(i + 1)
        BY <1>1, <2>1
      <3>2. Prefix(i) = Prefix(i + 1)
        BY <3>1
      <3>3. rows[i + 1] = <<>>
        BY <1>3, <1>6, <2>1
      <3> QED
        BY <1>5, <3>2, <3>3
    <2>2. CASE i + 1 # p
      <3> DEFINE x == Prefix(i)
                 e == list[i + 1]
                 m == M(i)
                 both == x \o <<e>>
      <3>1. rows[i + 1] = <<e>>
        BY <1>3, <1>6, <2>2
      <3>2. m \in Nat /\ M(i + 1) = m + 1 /\ At(m + 1) = e
        BY <1>1, <2>2 DEF At
      <3>3. IsList(x) /\ Len(x) = m /\ \A j \in 1..m : x[j] = At(j)
        BY <1>4, <1>5
      <3>4. IsList(<<e>>) /\ Len(<<e>>) = 1 /\ <<e>>[1] = e
        BY SingletonList
      <3> HIDE DEF x, e, m
      <3>5. /\ IsList(both) /\ Len(both) = Len(x) + Len(<<e>>)
            /\ \A j \in 1..Len(x) : both[j] = x[j]
            /\ \A j \in 1..Len(<<e>>) : both[Len(x) + j] = <<e>>[j]
        BY <3>3, <3>4, ListConcat
      <3> HIDE DEF both
      <3>6. /\ Len(both) = m + 1 /\ both[m + 1] = e
            /\ \A j \in 1..m : both[j] = At(j)
        BY <3>2, <3>3, <3>4, <3>5
      <3>7. \A j \in 1..(m + 1) : both[j] = At(j)
        BY <3>2, <3>6
      <3>8. both = [j \in 1..(m + 1) |-> both[j]]
        BY <3>5, <3>6, ListShape
      <3>9. both = [j \in 1..(m + 1) |-> At(j)]
        BY <3>7, <3>8
      <3>10. Prefix(i + 1) = [j \in 1..(m + 1) |-> At(j)]
        BY <3>2
      <3> QED
        BY <3>1, <3>9, <3>10 DEF both, x, e
    <2> QED
      BY <2>1, <2>2
  <1>7. Prefix(0) = <<>>
    BY <1>1
  <1> HIDE DEF M, Prefix
  <1>8. CASE N = 0
    <2>1. rows = <<>>
      BY <1>2, <1>8, ListShape
    <2>2. FlattenSeq(rows) = <<>>
      BY <1>2, <1>8, <2>1 DEF FlattenSeq
    <2> QED
      BY <1>7, <1>8, <2>2 DEF Prefix, M, At, N
  <1>9. CASE N # 0
    <2>0. ASSUME NEW k \in 1..N PROVE rows[k] \in Seq(ToSet(list))
      <3>1. list[k] \in ToSet(list)
        BY <1>1 DEF ToSet
      <3>2. rows[k] = <<>> \/ rows[k] = <<list[k]>>
        BY <1>3
      <3>3. <<list[k]>> \in Seq(ToSet(list))
        <4> HIDE DEF N
        <4> QED
          BY <3>1, SingletonList, ListIsSeq
      <3> DEFINE S == ToSet(list)
      <3>4. <<>> \in Seq(S)
        <4> HIDE DEF S
        <4> QED
          OBVIOUS
      <3> QED
        BY <3>2, <3>3, <3>4
    <2>1. rows \in Seq(Seq(ToSet(list)))
      BY <1>2, <2>0, ListIsSeq
    <2>2. PICK f \in [1..N -> Seq(ToSet(list))] :
              /\ FlattenSeq(rows) = f[N]
              /\ \A i \in 1..N : f[i] = IF i = 1 THEN rows[i] ELSE f[i-1] \o rows[i]
      <3>1. rows # <<>>
        BY <1>2, <1>9, ListShape
      <3>2. \E f \in [1..Len(rows) -> Seq(ToSet(list))] :
               /\ FlattenSeq(rows) = f[Len(rows)]
               /\ \A i \in 1..Len(rows) : f[i] = IF i = 1 THEN rows[i] ELSE f[i-1] \o rows[i]
        BY <2>1, <3>1, FlattenFunction
      <3>3. Len(rows) = N
        BY <1>2
      <3> QED
        BY <3>2, <3>3, Zenon
    <2> DEFINE T == {n \in Nat : n \in 1..N => f[n] = Prefix(n)}
    <2>3. 0 \in T
      OBVIOUS
    <2>4. ASSUME NEW n \in Nat, n \in T PROVE n + 1 \in T
      <3> SUFFICES ASSUME n + 1 \in 1..N PROVE f[n + 1] = Prefix(n + 1)
        OBVIOUS
      <3>1. Prefix(n) \o rows[n + 1] = Prefix(n + 1)
        BY <1>6
      <3>2. CASE n = 0
        <4>0. 1 \in 1..N /\ n + 1 = 1
          BY <1>1, <1>9, <3>2
        <4>1. f[1] = rows[1]
          BY <2>2, <4>0, Zenon
        <4>2. rows[1] \in Seq(ToSet(list))
          BY <2>0, <4>0
        <4>3. <<>> \o rows[1] = rows[1]
          BY <4>2, ConcatEmptySeq
        <4>4. Prefix(n) = <<>>
          BY <1>7, <3>2
        <4> QED
          BY <3>1, <4>0, <4>1, <4>3, <4>4, Zenon
      <3>3. CASE n # 0
        <4>1. n \in 1..N /\ (n + 1) - 1 = n /\ n + 1 # 1
          BY <1>1, <3>3
        <4>2. f[n + 1] = f[n] \o rows[n + 1]
          BY <2>2, <4>1, Zenon
        <4> QED
          BY <2>4, <3>1, <4>1, <4>2
      <3> QED
        BY <3>2, <3>3
    <2>5. Nat \subseteq T
      <3> HIDE DEF T
      <3> QED
        BY <2>3, <2>4, InductionOnSet
    <2>6. f[N] = Prefix(N)
      BY <1>1, <1>9, <2>5
    <2> QED
      BY <2>2, <2>6 DEF Prefix, M, At, N
  <1> QED
    BY <1>8, <1>9

\* The published inbounds are those of the stack with sub on, if its Xray is on.
LEMMA PublishedFacts ==
    ASSUME NEW s, IsList(s.xray.inbounds)
    PROVE  /\ IsList(PublishedInbounds(s))
           /\ \A i : i \in ToSet(PublishedInbounds(s))
                        <=> XrayOn(s) /\ i \in ToSet(s.xray.inbounds) /\ i.sub = "on"
  <1> DEFINE rows == [k \in DOMAIN s.xray.inbounds |->
                         IF s.xray.inbounds[k].sub = "on" THEN <<s.xray.inbounds[k]>> ELSE <<>>]
  <1>1. CASE XrayOn(s)
    <2>1. PublishedInbounds(s) = FlattenSeq(rows)
      BY <1>1 DEF PublishedInbounds, Keep
    <2>2. \A k \in DOMAIN s.xray.inbounds : rows[k] \in {<<>>, <<s.xray.inbounds[k]>>}
      OBVIOUS
    <2>3. \A k \in DOMAIN s.xray.inbounds : rows[k] # <<>> <=> s.xray.inbounds[k].sub = "on"
      OBVIOUS
    <2>4. rows = [k \in DOMAIN s.xray.inbounds |-> rows[k]]
      OBVIOUS
    <2> HIDE DEF rows
    <2>5. /\ IsList(FlattenSeq(rows))
          /\ \A e : e \in ToSet(FlattenSeq(rows))
                       <=> \E k \in DOMAIN s.xray.inbounds : rows[k] # <<>> /\ e = s.xray.inbounds[k]
      BY <2>2, <2>4, KeepFacts
    <2>6. \A e : (\E k \in DOMAIN s.xray.inbounds : rows[k] # <<>> /\ e = s.xray.inbounds[k])
                    <=> e \in ToSet(s.xray.inbounds) /\ e.sub = "on"
      BY <2>3 DEF ToSet
    <2> QED
      BY <1>1, <2>1, <2>5, <2>6
  <1>2. CASE ~XrayOn(s)
    BY <1>2, EmptySeq DEF PublishedInbounds, IsList, ToSet
  <1> QED
    BY <1>1, <1>2

(***************************************************************************)
(* What loading yields.                                                    *)
(***************************************************************************)

\* The names of the files of a directory, in order.
NamesOf(files) == Keep(StackOrder, LAMBDA n : n \in DOMAIN files)

\* The names of the files, in order, name each file once.
LEMMA NamesOfFacts ==
    ASSUME NEW files, DOMAIN files \subseteq ToSet(StackOrder)
    PROVE  /\ IsList(NamesOf(files)) /\ ToSet(NamesOf(files)) = DOMAIN files
           /\ \A j, k \in DOMAIN NamesOf(files) : NamesOf(files)[j] = NamesOf(files)[k] => j = k
  <1> DEFINE rows == [k \in DOMAIN StackOrder |->
                         IF StackOrder[k] \in DOMAIN files THEN <<StackOrder[k]>> ELSE <<>>]
             names == FlattenSeq(rows)
             key == [n \in ToSet(StackOrder) |-> n]
  <1>1. IsList(StackOrder)
    BY StackOrderAssumption, SeqIsList
  <1>2. NamesOf(files) = names
    BY DEF NamesOf, Keep
  <1>3. \A k \in DOMAIN StackOrder : rows[k] \in {<<>>, <<StackOrder[k]>>}
    OBVIOUS
  <1>4. \A k \in DOMAIN StackOrder : rows[k] # <<>> <=> StackOrder[k] \in DOMAIN files
    OBVIOUS
  <1>5. rows = [k \in DOMAIN StackOrder |-> rows[k]]
    OBVIOUS
  <1> HIDE DEF rows
  <1>6. /\ IsList(names)
        /\ \A n : n \in ToSet(names) <=> \E k \in DOMAIN StackOrder : rows[k] # <<>> /\ n = StackOrder[k]
        /\ \A f : DistinctRow(StackOrder, f) => DistinctRow(names, f)
    BY <1>1, <1>3, <1>5, KeepFacts
  <1>7. \A n : (\E k \in DOMAIN StackOrder : rows[k] # <<>> /\ n = StackOrder[k]) <=> n \in DOMAIN files
    BY <1>4 DEF ToSet
  <1>8. DistinctRow(StackOrder, key)
    <2>1. \A k \in DOMAIN StackOrder : key[StackOrder[k]] = StackOrder[k]
      BY DEF ToSet
    <2>2. \A j, k \in DOMAIN StackOrder : StackOrder[j] = StackOrder[k] => j = k
      BY StackOrderAssumption DEF IsInjective
    <2> HIDE DEF key
    <2> QED
      BY <2>1, <2>2 DEF DistinctRow
  <1>9. \A j, k \in DOMAIN names : names[j] = names[k] => j = k
    <2>1. \A k \in DOMAIN names : key[names[k]] = names[k]
      <3>1. \A k \in DOMAIN names : names[k] \in ToSet(names)
        BY DEF ToSet
      <3> QED
        BY <1>6, <1>7, <3>1
    <2>2. DistinctRow(names, key)
      BY <1>6, <1>8
    <2> HIDE DEF key, names
    <2> QED
      BY <2>1, <2>2 DEF DistinctRow
  <1> QED
    BY <1>2, <1>6, <1>7, <1>9

\* The loaded stacks are the documents of the files.
LEMMA LoadStacksFacts ==
    ASSUME NEW config, NEW files, DOMAIN files \subseteq ToSet(StackOrder)
    PROVE  /\ LoadStacks(config, files).config = config
           /\ IsList(LoadStacks(config, files).stacks)
           /\ \A s : s \in ToSet(LoadStacks(config, files).stacks)
                        <=> \E n \in DOMAIN files : s = files[n]
           /\ DOMAIN LoadStacks(config, files).stacks = DOMAIN NamesOf(files)
           /\ \A k \in DOMAIN NamesOf(files) :
                 LoadStacks(config, files).stacks[k] = files[NamesOf(files)[k]]
  <1> DEFINE names == NamesOf(files)
             docs == [k \in DOMAIN names |-> files[names[k]]]
  <1>1. IsList(names) /\ ToSet(names) = DOMAIN files
    BY NamesOfFacts
  <1>2. LoadStacks(config, files) = [config |-> config, stacks |-> docs \o <<>>]
    BY DEF LoadStacks, Column, NamesOf
  <1> HIDE DEF names
  <1>5. DOMAIN docs = DOMAIN names /\ \A k \in DOMAIN names : docs[k] = files[names[k]]
    OBVIOUS
  <1>3. IsList(docs) /\ docs \o <<>> = docs
    <2>1. DOMAIN names = 1..Len(names) /\ Len(names) \in Nat
      BY <1>1, ListShape
    <2>2. docs = [k \in 1..Len(names) |-> docs[k]]
      BY <2>1
    <2> HIDE DEF docs
    <2> QED
      BY <2>1, <2>2, FunctionIsList
  <1>4. \A s : s \in ToSet(docs) <=> \E n \in DOMAIN files : s = files[n]
    BY <1>1 DEF ToSet
  <1> QED
    BY <1>2, <1>3, <1>4, <1>5 DEF names

\* Resolving the refs of an inbound changes its users and nothing else.
LEMMA ExpandFacts ==
    ASSUME NEW config, NEW i, InboundShape(i)
    PROVE  /\ InboundShape(ExpandInbound(config, i))
           /\ ExpandInbound(config, i).user_refs = <<>>
           /\ \A f \in InboundFields \ {"users", "user_refs", "expanded"} :
                 ExpandInbound(config, i)[f] = i[f]
           /\ i.user_refs = <<>> => ExpandInbound(config, i) = i
           /\ i.user_refs # <<>> => Len(ExpandInbound(config, i).users) = Len(i.user_refs)
  <1> DEFINE users == [k \in DOMAIN i.user_refs |->
                 mergeUserRef(CHOOSE p \in ProfilesOf(config, i.user_refs[k]) : TRUE, i.user_refs[k])]
  <1>1. CASE i.user_refs = <<>>
    BY <1>1 DEF ExpandInbound
  <1>2. CASE i.user_refs # <<>>
    <2>1. IsList(users) /\ Len(users) = Len(i.user_refs) /\ users \o <<>> = users
      <3>1. DOMAIN i.user_refs = 1..Len(i.user_refs) /\ Len(i.user_refs) \in Nat
        BY ListShape DEF InboundShape
      <3>2. users = [k \in 1..Len(i.user_refs) |-> users[k]]
        BY <3>1
      <3> HIDE DEF users
      <3> QED
        BY <3>1, <3>2, FunctionIsList
    <2>2. ExpandInbound(config, i) =
              [i EXCEPT !.users = users \o <<>>, !.user_refs = <<>>, !.expanded = TRUE]
      BY <1>2 DEF ExpandInbound, Column
    <2> HIDE DEF users
    <2>3. ExpandInbound(config, i) = [i EXCEPT !.users = users, !.user_refs = <<>>, !.expanded = TRUE]
      BY <2>1, <2>2
    <2>4. DOMAIN ExpandInbound(config, i) = DOMAIN i
      BY <2>3
    <2>5. ExpandInbound(config, i).users = users /\ ExpandInbound(config, i).user_refs = <<>>
      BY <2>3 DEF InboundShape, InboundFields
    <2>6. \A f \in InboundFields \ {"users", "user_refs", "expanded"} : ExpandInbound(config, i)[f] = i[f]
      BY <2>3 DEF InboundShape
    <2>7. IsList(<<>>)
      BY EmptySeq DEF IsList
    <2> QED
      BY <1>2, <2>1, <2>4, <2>5, <2>6, <2>7 DEF InboundShape
  <1> QED
    BY <1>1, <1>2

\* Resolving the refs of a stack changes the users of its inbounds and nothing else.
LEMMA ResolveStackFacts ==
    ASSUME NEW config, NEW s, StackShape(s)
    PROVE  LET t == ResolveStackUserRefs(config, s)
           IN  /\ t.name = s.name /\ t.enabled = s.enabled /\ t.role = s.role /\ t.clash = s.clash
               /\ \A f \in DOMAIN s.xray \ {"inbounds"} : t.xray[f] = s.xray[f]
               /\ DOMAIN t = DOMAIN s /\ DOMAIN t.xray = DOMAIN s.xray
               /\ IsList(t.xray.inbounds) /\ Len(t.xray.inbounds) = Len(s.xray.inbounds)
               /\ \A k \in DOMAIN s.xray.inbounds :
                     t.xray.inbounds[k] = ExpandInbound(config, s.xray.inbounds[k])
  <1> DEFINE old == s.xray.inbounds
             new == [k \in DOMAIN old |-> ExpandInbound(config, old[k])]
             t == ResolveStackUserRefs(config, s)
  <1>1. DOMAIN old = 1..Len(old) /\ Len(old) \in Nat
    BY ListShape DEF StackShape, XrayShape, ListOf
  <1>2. IsList(new) /\ Len(new) = Len(old) /\ new \o <<>> = new
    <2>1. new = [k \in 1..Len(old) |-> new[k]]
      BY <1>1
    <2> HIDE DEF new
    <2> QED
      BY <1>1, <2>1, FunctionIsList
  <1>3. t = [s EXCEPT !.xray.inbounds = new \o <<>>]
    BY DEF ResolveStackUserRefs, Column
  <1>4. \A k \in DOMAIN old : new[k] = ExpandInbound(config, old[k])
    OBVIOUS
  <1> HIDE DEF new, t
  <1>5. t = [s EXCEPT !.xray = [s.xray EXCEPT !.inbounds = new]]
    BY <1>2, <1>3
  <1>6. /\ DOMAIN t = DOMAIN s
        /\ \A f \in DOMAIN s \ {"xray"} : t[f] = s[f]
        /\ t.xray = [s.xray EXCEPT !.inbounds = new]
    BY <1>5 DEF StackShape
  <1>7. /\ DOMAIN t.xray = DOMAIN s.xray /\ t.xray.inbounds = new
        /\ \A f \in DOMAIN s.xray \ {"inbounds"} : t.xray[f] = s.xray[f]
    BY <1>6 DEF StackShape, XrayShape
  <1>8. t.name = s.name /\ t.enabled = s.enabled /\ t.role = s.role /\ t.clash = s.clash
    BY <1>6 DEF StackShape
  <1> QED
    BY <1>2, <1>4, <1>6, <1>7, <1>8 DEF t

\* Resolving the refs of a set resolves those of each stack.
LEMMA ResolveSetFacts ==
    ASSUME NEW set, IsList(set.stacks), {"config", "stacks"} \subseteq DOMAIN set
    PROVE  LET r == ResolveStackSetUserRefs(set)
           IN  /\ r.config = set.config /\ DOMAIN r = DOMAIN set
               /\ IsList(r.stacks) /\ Len(r.stacks) = Len(set.stacks)
               /\ DOMAIN r.stacks = DOMAIN set.stacks
               /\ \A k \in DOMAIN set.stacks :
                     r.stacks[k] = ResolveStackUserRefs(set.config, set.stacks[k])
  <1> DEFINE new == [k \in DOMAIN set.stacks |-> ResolveStackUserRefs(set.config, set.stacks[k])]
             r == ResolveStackSetUserRefs(set)
  <1>1. DOMAIN set.stacks = 1..Len(set.stacks) /\ Len(set.stacks) \in Nat
    BY ListShape
  <1>2. IsList(new) /\ Len(new) = Len(set.stacks) /\ new \o <<>> = new
    <2>1. new = [k \in 1..Len(set.stacks) |-> new[k]]
      BY <1>1
    <2> HIDE DEF new
    <2> QED
      BY <1>1, <2>1, FunctionIsList
  <1>3. r = [set EXCEPT !.stacks = new \o <<>>]
    BY DEF ResolveStackSetUserRefs, Column
  <1>4. \A k \in DOMAIN set.stacks : new[k] = ResolveStackUserRefs(set.config, set.stacks[k])
    OBVIOUS
  <1>5. DOMAIN new = DOMAIN set.stacks
    OBVIOUS
  <1> HIDE DEF new, r
  <1>6. r.config = set.config /\ r.stacks = new /\ DOMAIN r = DOMAIN set
    BY <1>2, <1>3
  <1> QED
    BY <1>2, <1>4, <1>5, <1>6 DEF r

\* What is known of a stack whose document was accepted and whose refs were resolved.
LoadedInbound(i) == InboundShape(i) /\ ValidateInbound(i) /\ i.user_refs = <<>>
LoadedStack(s) ==
    /\ s.name \in ToSet(StackOrder)
    /\ ClashShape(s.clash) /\ ValidateClash(s.clash)
    /\ ValidateOutbound(s.xray.outbound)
    /\ ValidateAPI(Overlay(DefaultXrayAPIConfig, s.xray.api))
    /\ IsList(s.xray.inbounds)
    /\ \A k \in DOMAIN s.xray.inbounds : LoadedInbound(s.xray.inbounds[k])
    /\ \A j, k \in DOMAIN s.xray.inbounds :
          s.xray.inbounds[j].name = s.xray.inbounds[k].name => j = k

\* ensureUnique of a column is that of the fields themselves.
LEMMA NamesUnique ==
    ASSUME NEW rows, IsList(rows)
    PROVE  /\ ensureUnique(Column(rows, LAMBDA r : r.name))
                 <=> \A j, k \in DOMAIN rows : rows[j].name = rows[k].name => j = k
           /\ ToSet(Column(rows, LAMBDA r : r.name)) = {rows[k].name : k \in DOMAIN rows}
  <1> DEFINE c == [k \in DOMAIN rows |-> rows[k].name]
  <1>1. c \o <<>> = c
    <2>1. DOMAIN rows = 1..Len(rows) /\ Len(rows) \in Nat
      BY ListShape
    <2>2. c = [k \in 1..Len(rows) |-> c[k]]
      BY <2>1
    <2> HIDE DEF c
    <2> QED
      BY <2>1, <2>2, FunctionIsList
  <1>2. Column(rows, LAMBDA r : r.name) = c
    BY <1>1 DEF Column
  <1> QED
    BY <1>2 DEF ensureUnique, ToSet

\* A document that is valid and can be resolved is, resolved, still valid.
LEMMA LoadedStackFacts ==
    ASSUME NEW config, NEW n \in ToSet(StackOrder), NEW s, StackShape(s),
           LoadableStack(n, s), ResolvableStack(config, s)
    PROVE  LoadedStack(ResolveStackUserRefs(config, s))
  <1> DEFINE t == ResolveStackUserRefs(config, s)
  <1>1. /\ t.name = s.name /\ t.clash = s.clash
        /\ \A f \in DOMAIN s.xray \ {"inbounds"} : t.xray[f] = s.xray[f]
        /\ IsList(t.xray.inbounds) /\ Len(t.xray.inbounds) = Len(s.xray.inbounds)
        /\ \A k \in DOMAIN s.xray.inbounds :
              t.xray.inbounds[k] = ExpandInbound(config, s.xray.inbounds[k])
    BY ResolveStackFacts
  <1> HIDE DEF t
  <1>2. IsList(s.xray.inbounds) /\ \A k \in DOMAIN s.xray.inbounds : InboundShape(s.xray.inbounds[k])
    BY DEF StackShape, XrayShape, ListOf
  <1>3. DOMAIN t.xray.inbounds = DOMAIN s.xray.inbounds
    BY <1>1, <1>2, ListShape
  <1>4. ValidateXray(s.xray) /\ ValidateClash(s.clash) /\ s.name = n
    BY DEF LoadableStack, ValidateStack
  <1>5. t.xray.outbound = s.xray.outbound /\ t.xray.api = s.xray.api
    BY <1>1 DEF StackShape, XrayShape
  <1>6. ASSUME NEW k \in DOMAIN t.xray.inbounds
        PROVE  LoadedInbound(t.xray.inbounds[k])
    <2> DEFINE i == s.xray.inbounds[k]
    <2>1. k \in DOMAIN s.xray.inbounds /\ InboundShape(i) /\ t.xray.inbounds[k] = ExpandInbound(config, i)
      BY <1>1, <1>2, <1>3
    <2>2. ValidateInbound(i) /\ Expandable(config, i)
      BY <1>4, <2>1 DEF ValidateXray, ResolvableStack
    <2> HIDE DEF i
    <2>3. ValidateInbound(ExpandInbound(config, i))
      <3>1. CASE i.user_refs = <<>>
        BY <2>1, <2>2, <3>1, ExpandFacts
      <3>2. CASE i.user_refs # <<>>
        BY <2>2, <3>2 DEF Expandable
      <3> QED
        BY <3>1, <3>2
    <2> QED
      BY <2>1, <2>3, ExpandFacts DEF LoadedInbound
  <1>7. ASSUME NEW j \in DOMAIN t.xray.inbounds, NEW k \in DOMAIN t.xray.inbounds,
               t.xray.inbounds[j].name = t.xray.inbounds[k].name
        PROVE  j = k
    <2>1. \A m \in DOMAIN s.xray.inbounds : t.xray.inbounds[m].name = s.xray.inbounds[m].name
      <3> TAKE m \in DOMAIN s.xray.inbounds
      <3>1. "name" \in InboundFields \ {"users", "user_refs", "expanded"}
        BY DEF InboundFields
      <3> QED
        BY <1>1, <1>2, <3>1, ExpandFacts
    <2>2. \A a, b \in DOMAIN s.xray.inbounds :
             s.xray.inbounds[a].name = s.xray.inbounds[b].name => a = b
      BY <1>2, <1>4, NamesUnique DEF ValidateXray
    <2> QED
      BY <1>3, <1>7, <2>1, <2>2
  <1>8. ClashShape(s.clash)
    BY DEF StackShape
  <1>9. ValidateOutbound(s.xray.outbound) /\ ValidateAPI(Overlay(DefaultXrayAPIConfig, s.xray.api))
    BY <1>4 DEF ValidateXray
  <1> QED
    BY <1>1, <1>4, <1>5, <1>6, <1>7, <1>8, <1>9 DEF LoadedStack, t

\* What the files of a base directory promise if each is valid and can be resolved.
LEMMA ReadFacts ==
    ASSUME NEW config, NEW files, FilesShape(files), Resolvable(LoadStacks(config, files)),
           \A n \in DOMAIN files : LoadableStack(n, files[n])
    PROVE  LET set == LoadedStacks(config, files)
           IN  /\ set.config = config /\ IsList(set.stacks)
               /\ \A s : s \in ToSet(set.stacks)
                            <=> \E n \in DOMAIN files : s = ResolveStackUserRefs(config, files[n])
               /\ \A n \in DOMAIN files : ResolveStackUserRefs(config, files[n]).name = n
               /\ \A j, k \in DOMAIN set.stacks : set.stacks[j].name = set.stacks[k].name => j = k
               /\ \A s, t \in ToSet(set.stacks) : s.name = t.name => s = t
               /\ \A s \in ToSet(set.stacks) : LoadedStack(s)
  <1> DEFINE raw == LoadStacks(config, files)
             set == LoadedStacks(config, files)
  <1>1. /\ raw.config = config /\ IsList(raw.stacks)
        /\ \A s : s \in ToSet(raw.stacks) <=> \E n \in DOMAIN files : s = files[n]
        /\ DOMAIN raw.stacks = DOMAIN NamesOf(files)
        /\ \A k \in DOMAIN NamesOf(files) : raw.stacks[k] = files[NamesOf(files)[k]]
    BY LoadStacksFacts DEF FilesShape
  <1>2. DOMAIN raw = {"config", "stacks"}
    BY DEF LoadStacks
  <1>3. Resolvable(raw)
    OBVIOUS
  <1>4. set = ResolveStackSetUserRefs(raw)
    BY DEF LoadedStacks
  <1> HIDE DEF raw, set
  <1>5. /\ set.config = config /\ IsList(set.stacks) /\ DOMAIN set.stacks = DOMAIN raw.stacks
        /\ \A k \in DOMAIN raw.stacks : set.stacks[k] = ResolveStackUserRefs(config, raw.stacks[k])
    BY <1>1, <1>2, <1>4, ResolveSetFacts
  <1>6. \A s : s \in ToSet(set.stacks) <=> \E n \in DOMAIN files : s = ResolveStackUserRefs(config, files[n])
    <2>1. ASSUME NEW k \in DOMAIN set.stacks
          PROVE  \E n \in DOMAIN files : set.stacks[k] = ResolveStackUserRefs(config, files[n])
      <3>1. raw.stacks[k] \in ToSet(raw.stacks)
        BY <1>5 DEF ToSet
      <3> QED
        BY <1>1, <1>5, <3>1
    <2>2. ASSUME NEW n \in DOMAIN files
          PROVE  \E k \in DOMAIN set.stacks : set.stacks[k] = ResolveStackUserRefs(config, files[n])
      <3>1. files[n] \in ToSet(raw.stacks)
        BY <1>1
      <3>2. PICK k \in DOMAIN raw.stacks : raw.stacks[k] = files[n]
        BY <3>1 DEF ToSet
      <3> QED
        BY <1>5, <3>2
    <2> QED
      BY <2>1, <2>2 DEF ToSet
  <1>7. ASSUME NEW n \in DOMAIN files
        PROVE  /\ n \in ToSet(StackOrder) /\ StackShape(files[n]) /\ ResolvableStack(config, files[n])
               /\ ResolveStackUserRefs(config, files[n]).name = n
    <2>1. n \in ToSet(StackOrder) /\ StackShape(files[n])
      BY DEF FilesShape
    <2>2. PICK k \in DOMAIN raw.stacks : raw.stacks[k] = files[n]
      BY <1>1 DEF ToSet
    <2>3. ResolvableStack(config, files[n])
      BY <1>1, <1>3, <2>2 DEF Resolvable
    <2>4. files[n].name = n
      BY <1>3 DEF LoadableStack
    <2> QED
      BY <2>1, <2>3, <2>4, ResolveStackFacts
  <1>8. \A s \in ToSet(set.stacks) : LoadedStack(s)
    BY <1>3, <1>6, <1>7, LoadedStackFacts
  <1>9. \A j, k \in DOMAIN set.stacks : set.stacks[j].name = set.stacks[k].name => j = k
    <2>1. /\ ToSet(NamesOf(files)) = DOMAIN files
          /\ \A j, k \in DOMAIN NamesOf(files) : NamesOf(files)[j] = NamesOf(files)[k] => j = k
      BY NamesOfFacts DEF FilesShape
    <2>2. \A k \in DOMAIN NamesOf(files) : set.stacks[k].name = NamesOf(files)[k]
      BY <1>1, <1>5, <1>7, <2>1 DEF ToSet
    <2> QED
      BY <1>1, <1>5, <2>1, <2>2
  <1>10. \A s, t \in ToSet(set.stacks) : s.name = t.name => s = t
    BY <1>9 DEF ToSet
  <1> QED
    BY <1>5, <1>6, <1>7, <1>8, <1>9, <1>10 DEF set

\* What the files of a base directory promise once they load.
LEMMA LoadedFacts ==
    ASSUME NEW config, NEW files, FilesShape(files), NEW occupied, LoadsWith(config, files, occupied)
    PROVE  LET set == LoadedStacks(config, files)
           IN  /\ set.config = config /\ IsList(set.stacks)
               /\ \A s : s \in ToSet(set.stacks)
                            <=> \E n \in DOMAIN files : s = ResolveStackUserRefs(config, files[n])
               /\ \A n \in DOMAIN files : ResolveStackUserRefs(config, files[n]).name = n
               /\ \A j, k \in DOMAIN set.stacks : set.stacks[j].name = set.stacks[k].name => j = k
               /\ \A s, t \in ToSet(set.stacks) : s.name = t.name => s = t
               /\ \A s \in ToSet(set.stacks) : LoadedStack(s)
               /\ ValidateStackSet(set, occupied)
  BY ReadFacts DEF LoadsWith

\* Resolving refs that are resolved changes nothing.
LEMMA ResolvedTwice ==
    ASSUME NEW config, NEW s, StackShape(s)
    PROVE  LET t == ResolveStackUserRefs(config, s) IN ResolveStackUserRefs(config, t) = t
  <1> DEFINE old == s.xray.inbounds
             new == [k \in DOMAIN old |-> ExpandInbound(config, old[k])]
             again == [k \in DOMAIN new |-> ExpandInbound(config, new[k])]
             xray == [s.xray EXCEPT !.inbounds = new]
             t == ResolveStackUserRefs(config, s)
  <1>1. IsList(old) /\ \A k \in DOMAIN old : InboundShape(old[k])
    BY DEF StackShape, XrayShape, ListOf
  <1>2. \A k \in DOMAIN old : ExpandInbound(config, ExpandInbound(config, old[k])) = ExpandInbound(config, old[k])
    <2> TAKE k \in DOMAIN old
    <2> DEFINE i == ExpandInbound(config, old[k])
    <2>1. InboundShape(i) /\ i.user_refs = <<>>
      BY <1>1, ExpandFacts
    <2> HIDE DEF i
    <2>2. ExpandInbound(config, i) = i
      BY <2>1, ExpandFacts
    <2> QED
      BY <2>2 DEF i
  <1>3. again = new
    BY <1>2
  <1>4. t = [s EXCEPT !.xray = [s.xray EXCEPT !.inbounds = new \o <<>>]]
    BY DEF ResolveStackUserRefs, Column
  <1>5. new = [k \in DOMAIN old |-> new[k]]
    OBVIOUS
  <1>6. new \o <<>> = new
    <2> HIDE DEF new
    <2> QED
      BY <1>1, <1>5, ColumnFacts
  <1>7. ResolveStackUserRefs(config, t)
            = [t EXCEPT !.xray = [t.xray EXCEPT !.inbounds =
                  [k \in DOMAIN t.xray.inbounds |-> ExpandInbound(config, t.xray.inbounds[k])] \o <<>>]]
    BY DEF ResolveStackUserRefs, Column
  <1> HIDE DEF t, new
  <1>8. t = [s EXCEPT !.xray = xray] /\ t.xray = xray /\ xray.inbounds = new
    BY <1>4, <1>6 DEF StackShape, XrayShape
  <1>9. t.xray.inbounds = new
    BY <1>8
  <1> HIDE DEF again
  <1>10. ResolveStackUserRefs(config, t) = [t EXCEPT !.xray = [t.xray EXCEPT !.inbounds = again \o <<>>]]
    BY <1>7, <1>9 DEF again
  <1>11. ResolveStackUserRefs(config, t) = [t EXCEPT !.xray = [xray EXCEPT !.inbounds = new]]
    BY <1>3, <1>6, <1>8, <1>10
  <1>12. [xray EXCEPT !.inbounds = new] = xray
    OBVIOUS
  <1> HIDE DEF xray
  <1>13. [t EXCEPT !.xray = xray] = t
    BY <1>8
  <1> QED
    BY <1>11, <1>12, <1>13 DEF t

(***************************************************************************)
(* What validation looks at in all stacks at once.                         *)
(***************************************************************************)

\* The bindings of a stack are lists.
LEMMA BindingLists ==
    ASSUME NEW s, NEW t, LoadedStack(t)
    PROVE  IsList(XrayBindings(s, t)) /\ IsList(ClashBindings(t))
  <1> DEFINE inbounds == t.xray.inbounds
             socks == t.clash.listeners.socks
             http == t.clash.listeners.http
             a == [k \in DOMAIN inbounds |-> <<inbounds[k].listen, inbounds[k].port>>]
             x == [k \in DOMAIN socks |-> <<socks[k].listen, socks[k].port>>]
             y == [k \in DOMAIN http |-> <<http[k].listen, http[k].port>>]
             api == ResolveXrayAPIConfig(s.config.defaults, t.xray)
             aEnd == IF api.enabled /\ ParseListen(api.listen) THEN <<api.listen>> ELSE <<>>
             cEnd == IF ParseListen(t.clash.controller.listen) THEN <<t.clash.controller.listen>> ELSE <<>>
  <1>1. IsList(<<>>) /\ \A e : IsList(<<e>>)
    BY EmptySeq, SingletonList DEF IsList
  <1>2. IsList(inbounds) /\ IsList(socks) /\ IsList(http)
    BY DEF LoadedStack, ClashShape, ListOf
  <1>3. a = [k \in DOMAIN inbounds |-> a[k]] /\ x = [k \in DOMAIN socks |-> x[k]] /\ y = [k \in DOMAIN http |-> y[k]]
    OBVIOUS
  <1>4. XrayBindings(s, t) = IF ~XrayOn(t) THEN <<>> ELSE (a \o <<>>) \o aEnd
    BY DEF XrayBindings, Column
  <1>5. ClashBindings(t) = IF ~ClashOn(t) THEN <<>> ELSE ((x \o <<>>) \o (y \o <<>>)) \o cEnd
    BY DEF ClashBindings, Column
  <1>6. IsList(aEnd) /\ IsList(cEnd)
    BY <1>1
  <1> HIDE DEF a, x, y, aEnd, cEnd
  <1>7. /\ a \o <<>> = a /\ IsList(a) /\ x \o <<>> = x /\ IsList(x) /\ y \o <<>> = y /\ IsList(y)
    BY <1>2, <1>3, ColumnFacts
  <1>8. IsList(a \o aEnd) /\ IsList(x \o y)
    BY <1>6, <1>7, ListConcat
  <1>9. IsList((x \o y) \o cEnd)
    BY <1>6, <1>8, ListConcat
  <1> QED
    BY <1>1, <1>4, <1>5, <1>7, <1>8, <1>9

\* The sockets counted for a stack.
SocketRow(s, t) == XrayBindings(s, t) \o ClashBindings(t)

\* The table of the sockets of all stacks.
LEMMA BindingTable ==
    ASSUME NEW s, IsList(s.stacks), \A t \in ToSet(s.stacks) : LoadedStack(t)
    PROVE  LET rows == [j \in DOMAIN s.stacks |-> SocketRow(s, s.stacks[j])]
           IN  IsTable(rows) /\ CollectPortBindings(s) = FlattenSeq(rows)
  <1> DEFINE rows == [j \in DOMAIN s.stacks |-> SocketRow(s, s.stacks[j])]
  <1>2. CollectPortBindings(s) = FlattenSeq(rows \o <<>>)
    BY DEF CollectPortBindings, Column, SocketRow
  <1>3. rows = [j \in DOMAIN s.stacks |-> rows[j]]
    OBVIOUS
  <1>4. ASSUME NEW j \in DOMAIN s.stacks PROVE IsList(rows[j])
    <2>1. LoadedStack(s.stacks[j])
      BY DEF ToSet
    <2> QED
      BY <2>1, BindingLists, ListConcat DEF SocketRow
  <1> HIDE DEF rows
  <1>5. rows \o <<>> = rows /\ IsList(rows) /\ DOMAIN rows = DOMAIN s.stacks
    BY <1>3, ColumnFacts
  <1> QED
    BY <1>2, <1>4, <1>5 DEF IsTable, rows

\* The ports of a list of addresses are distinct.
LEMMA PortsDistinct ==
    ASSUME NEW list, IsList(list), NEW key, \A k \in DOMAIN list : key[list[k]] = list[k][2]
    PROVE  ensureUnique(Column(list, LAMBDA b : b[2])) <=> DistinctRow(list, key)
  <1> DEFINE cells == [k \in DOMAIN list |-> list[k][2]]
  <1>1. Column(list, LAMBDA b : b[2]) = cells \o <<>>
    BY DEF Column
  <1>2. cells = [k \in DOMAIN list |-> cells[k]] /\ \A k \in DOMAIN list : cells[k] = key[list[k]]
    OBVIOUS
  <1> HIDE DEF cells
  <1>3. cells \o <<>> = cells /\ DOMAIN cells = DOMAIN list
    BY <1>2, ColumnFacts
  <1> QED
    BY <1>1, <1>2, <1>3 DEF ensureUnique, DistinctRow

\* The users and names a stack publishes.
ProxyNamesOf(t) ==
    FlattenSeq(Column(PublishedInbounds(t), LAMBDA i : collectSubscriptionProxyNames(t, i)))

\* They are a list.
LEMMA ProxyNamesList ==
    ASSUME NEW t, LoadedStack(t)
    PROVE  IsList(ProxyNamesOf(t))
  <1> DEFINE published == PublishedInbounds(t)
             cells == [k \in DOMAIN published |-> collectSubscriptionProxyNames(t, published[k])]
  <1>1. IsList(published) /\ \A i \in ToSet(published) : i \in ToSet(t.xray.inbounds)
    BY PublishedFacts DEF LoadedStack
  <1>2. \A k \in DOMAIN published : LoadedInbound(published[k])
    BY <1>1 DEF LoadedStack, ToSet
  <1>3. ProxyNamesOf(t) = FlattenSeq(cells \o <<>>)
    BY DEF ProxyNamesOf, Column
  <1> HIDE DEF published
  <1>4. cells = [k \in DOMAIN published |-> cells[k]]
    OBVIOUS
  <1>5. ASSUME NEW k \in DOMAIN published PROVE IsList(cells[k])
    <2> DEFINE i == published[k]
               users == subscriptionInboundUsers(i)
               Name(u) == <<u.user, subscriptionRemark(t, i, FirstNonEmpty(u.remark, i.remark))>>
               names == [m \in DOMAIN users |-> Name(users[m])]
               own == <<FirstNonEmpty(i.user, "default"), subscriptionRemark(t, i, i.remark)>>
    <2>1. cells[k] = IF users = <<>> THEN <<own>> ELSE names \o <<>>
      BY DEF collectSubscriptionProxyNames, Column
    <2>2. IsList(users)
      BY <1>2 DEF LoadedInbound, InboundShape, subscriptionInboundUsers
    <2>3. names = [m \in DOMAIN users |-> names[m]]
      OBVIOUS
    <2> HIDE DEF users, names, own
    <2>4. IsList(names) /\ names \o <<>> = names
      BY <2>2, <2>3, ColumnFacts
    <2> QED
      BY <2>1, <2>4, SingletonList
  <1> HIDE DEF cells
  <1>6. cells \o <<>> = cells /\ IsList(cells) /\ DOMAIN cells = DOMAIN published
    BY <1>1, <1>4, ColumnFacts
  <1> QED
    BY <1>3, <1>5, <1>6, FlattenPlaces DEF IsTable

\* Writing or deleting a file keeps the documents well-formed.
LEMMA PutKeepsShape ==
    ASSUME NEW files, FilesShape(files), NEW n \in ToSet(StackOrder), NEW doc, StackShape(doc)
    PROVE  FilesShape(Put(files, n, doc))
  BY DEF FilesShape, Put

\* The files keep their shape when one is deleted.
LEMMA DropKeepsShape ==
    ASSUME NEW files, FilesShape(files), NEW n
    PROVE  FilesShape(Drop(files, n))
  BY DEF FilesShape, Drop

AtMostOne(S) == \A x, y \in S : x = y

\* A set of one element at most has at most one element.
LEMMA AtMostOneCardinality ==
    ASSUME NEW S, AtMostOne(S)
    PROVE  Cardinality(S) <= 1
  <1>1. CASE S = {}
    BY <1>1, FS_EmptySet
  <1>2. CASE S # {}
    <2>1. PICK x : x \in S
      BY <1>2
    <2>2. S = {x}
      BY <2>1 DEF AtMostOne
    <2>3. Cardinality({x}) = 1
      BY FS_Singleton
    <2> QED
      BY <2>2, <2>3
  <1> QED
    BY <1>1, <1>2
=============================================================================
