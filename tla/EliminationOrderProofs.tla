------------------------ MODULE EliminationOrderProofs ----------------------
(***************************************************************************)
(* For every interference graph, however its vertices are numbered: the    *)
(* ordering lists no register twice, the copy of the graph it takes apart  *)
(* stays the part of the caller's graph that remains, the counts it keeps  *)
(* up stay upper bounds of the pairs of neighbours that are not adjacent,  *)
(* and the outer loop never spins on a vertex it has visited already.      *)
(***************************************************************************)
EXTENDS EliminationOrder, TLAPS, FiniteSetTheorems, SequenceTheorems, WellFoundedInduction

-----------------------------------------------------------------------------
\* Sequences as queues of vertices.

NoRepeats(s) == \A i, j \in 1..Len(s) : s[i] = s[j] => i = j

\* Appending e adds e to the entries, and no repetition unless e was there.
LEMMA AppendEntry ==
  ASSUME NEW S, NEW s \in Seq(S), NEW e \in S
  PROVE  /\ Append(s, e) \in Seq(S)
         /\ Append(s, e)[Len(Append(s, e))] = e
         /\ Entries(Append(s, e)) = Entries(s) \cup {e}
         /\ NoRepeats(s) /\ e \notin Entries(s) => NoRepeats(Append(s, e))
<1> DEFINE t == Append(s, e)
<1>1. /\ t \in Seq(S)
      /\ Len(s) \in Nat /\ Len(t) = Len(s) + 1
      /\ \A i \in 1..Len(s) : t[i] = s[i]
      /\ t[Len(s) + 1] = e
  OBVIOUS
<1> HIDE DEF t
<1>2. Entries(t) = Entries(s) \cup {e}
  <2>1. 1..Len(t) = (1..Len(s)) \cup {Len(s) + 1}
    BY <1>1
  <2> QED
    BY <1>1, <2>1 DEF Entries
<1>3. ASSUME NoRepeats(s), e \notin Entries(s)
      PROVE  NoRepeats(t)
  <2>1. \A i \in 1..Len(s) : t[i] # e
    BY <1>1, <1>3 DEF Entries
  <2> SUFFICES ASSUME NEW i \in 1..Len(t), NEW j \in 1..Len(t), t[i] = t[j]
               PROVE  i = j
    BY DEF NoRepeats
  <2>2. (i \in 1..Len(s) \/ i = Len(s) + 1) /\ (j \in 1..Len(s) \/ j = Len(s) + 1)
    BY <1>1
  <2> QED
    BY <1>1, <1>3, <2>1, <2>2 DEF NoRepeats
<1> QED
  BY <1>1, <1>2, <1>3 DEF t

\* Taking the head off takes it out of the entries if it is there once.
LEMMA TailEntries ==
  ASSUME NEW S, NEW s \in Seq(S), s # <<>>, NoRepeats(s)
  PROVE  /\ Head(s) \in S /\ Head(s) \in Entries(s)
         /\ Tail(s) \in Seq(S)
         /\ Entries(Tail(s)) = Entries(s) \ {Head(s)}
         /\ NoRepeats(Tail(s))
<1> DEFINE t == Tail(s)
<1>1. /\ Len(s) \in Nat /\ Len(s) >= 1 /\ Head(s) = s[1] /\ Head(s) \in S
      /\ t \in Seq(S) /\ Len(t) = Len(s) - 1
      /\ \A i \in 1..Len(t) : t[i] = s[i + 1]
  BY HeadTailProperties, EmptySeq
<1> HIDE DEF t
<1>2. Head(s) \in Entries(s)
  BY <1>1 DEF Entries
<1>3. ASSUME NEW e
      PROVE  e \in Entries(t) <=> e \in Entries(s) /\ e # Head(s)
  <2>1. ASSUME e \in Entries(t)
        PROVE  e \in Entries(s) /\ e # Head(s)
    <3>1. PICK k \in 1..Len(t) : e = t[k]
      BY <2>1 DEF Entries
    <3>2. k + 1 \in 1..Len(s) /\ k + 1 # 1 /\ e = s[k + 1]
      BY <1>1, <3>1
    <3> QED
      BY <1>1, <3>2 DEF Entries, NoRepeats
  <2>2. ASSUME e \in Entries(s), e # Head(s)
        PROVE  e \in Entries(t)
    <3>1. PICK k \in 1..Len(s) : e = s[k]
      BY <2>2 DEF Entries
    <3>2. k - 1 \in 1..Len(t) /\ e = t[k - 1]
      BY <1>1, <2>2, <3>1
    <3> QED
      BY <3>2 DEF Entries
  <2> QED
    BY <2>1, <2>2
<1>4. NoRepeats(t)
  <2> SUFFICES ASSUME NEW i \in 1..Len(t), NEW j \in 1..Len(t), t[i] = t[j]
               PROVE  i = j
    BY DEF NoRepeats
  <2>1. i + 1 \in 1..Len(s) /\ j + 1 \in 1..Len(s) /\ s[i + 1] = s[j + 1]
    BY <1>1
  <2> QED
    BY <2>1 DEF NoRepeats
<1> QED
  BY <1>1, <1>2, <1>3, <1>4 DEF t

\* A sequence without repetitions is as long as it has entries.
LEMMA LengthIsNumberOfEntries ==
  ASSUME NEW S, NEW s \in Seq(S), NoRepeats(s)
  PROVE  Len(s) = Cardinality(Entries(s))
<1>1. Len(s) \in Nat /\ s \in [1..Len(s) -> S] /\ DOMAIN s = 1..Len(s)
  BY LenProperties
<1>2. s \in Surjection(1..Len(s), Entries(s)) /\ s \in Injection(1..Len(s), Entries(s))
  <2>1. s \in [1..Len(s) -> Entries(s)]
    BY <1>1 DEF Entries
  <2>2. \A e \in Entries(s) : \E k \in 1..Len(s) : s[k] = e
    BY DEF Entries
  <2> QED
    BY <2>1, <2>2 DEF Surjection, Injection, IsInjective, NoRepeats
<1>3. IsFiniteSet(1..Len(s)) /\ Cardinality(1..Len(s)) = Len(s)
  BY <1>1, FS_Interval
<1> QED
  BY <1>2, <1>3, FS_Surjection

\* The vertex with the lowest number is one of them.
LEMMA LowestIsMember ==
  ASSUME NEW S \in SUBSET Vertices, S # {}, \A I \in Vertices : inst2num[I] \in Nat
  PROVE  Lowest(S) \in S /\ \A J \in S : inst2num[Lowest(S)] <= inst2num[J]
<1> DEFINE numbers == {inst2num[I] : I \in S}
<1>1. numbers \in SUBSET Nat /\ numbers # {}
  OBVIOUS
<1>2. PICK n \in numbers : \A m \in numbers : n <= m
  <2> DEFINE below == OpToRel(<, Nat)
  <2>1. \A m, n \in Nat : m < n => <<m, n>> \in below
    BY DEF OpToRel
  <2>2. IsWellFoundedOn(below, Nat)
    BY NatLessThanWellFounded
  <2> HIDE DEF below
  <2>3. PICK n \in numbers : \A m \in numbers : ~(<<m, n>> \in below)
    BY <1>1, <2>2, WFMin
  <2>4. ASSUME NEW m \in numbers PROVE n <= m
    <3>1. m \in Nat /\ n \in Nat
      BY <1>1
    <3>2. ~(m < n)
      BY <2>1, <2>3, <3>1, Zenon
    <3> QED
      BY <3>1, <3>2
  <2> QED
    BY <2>3, <2>4
<1>3. PICK I \in S : inst2num[I] = n
  OBVIOUS
<1>4. \A J \in S : inst2num[I] <= inst2num[J]
  BY <1>2, <1>3
<1> QED
  BY <1>4 DEF Lowest

-----------------------------------------------------------------------------
\* Counting pairs.

\* The pairs of members of S that are not adjacent in a graph.
Separated(g, S) ==
  {e \in {{J, K} : J, K \in S} : \E J, K \in e : J # K /\ K \notin g[J]}

\* In such a pair neither is a neighbour of the other.
LEMMA SeparatedPairs ==
  ASSUME NEW g, IsGraph(g), NEW S \in SUBSET DOMAIN g, NEW e
  PROVE  e \in Separated(g, S) <=>
           \E J, K \in S : e = {J, K} /\ J # K /\ K \notin g[J] /\ J \notin g[K]
<1>1. \A J, K \in S : K \in g[J] <=> J \in g[K]
  BY DEF IsGraph
<1>2. ASSUME e \in Separated(g, S)
      PROVE  \E J, K \in S : e = {J, K} /\ J # K /\ K \notin g[J] /\ J \notin g[K]
  <2>1. PICK A \in S, B \in S : e = {A, B}
    BY <1>2 DEF Separated
  <2>2. PICK J \in e, K \in e : J # K /\ K \notin g[J]
    BY <1>2 DEF Separated
  <2>3. J \in S /\ K \in S /\ e = {J, K}
    BY <2>1, <2>2
  <2> QED
    BY <1>1, <2>2, <2>3
<1>3. ASSUME NEW J \in S, NEW K \in S, e = {J, K}, J # K, K \notin g[J]
      PROVE  e \in Separated(g, S)
  BY <1>3 DEF Separated
<1> QED
  BY <1>2, <1>3

\* There are finitely many pairs in a finite set.
LEMMA SeparatedIsFinite ==
  ASSUME NEW g, NEW S, IsFiniteSet(S)
  PROVE  IsFiniteSet(Separated(g, S)) /\ Cardinality(Separated(g, S)) \in Nat
<1>1. Separated(g, S) \in SUBSET (SUBSET S)
  BY DEF Separated
<1>2. IsFiniteSet(SUBSET S)
  BY FS_SUBSET
<1> QED
  BY <1>1, <1>2, FS_Subset, FS_CardinalityType

\* Without v a set has exactly those pairs less that v forms with what is no
\* neighbour of v.
LEMMA TakingOut ==
  ASSUME NEW g, IsGraph(g), NEW S \in SUBSET DOMAIN g, IsFiniteSet(S), NEW v \in S
  PROVE  Cardinality(Separated(g, S)) =
           Cardinality(Separated(g, S \ {v})) + Cardinality(S \ ({v} \cup g[v]))
<1> DEFINE others == S \ ({v} \cup g[v])
           pairs  == {{v, x} : x \in others}
           f      == [x \in others |-> {v, x}]
<1>1. /\ IsFiniteSet(others) /\ IsFiniteSet(S \ {v})
      /\ IsFiniteSet(Separated(g, S \ {v})) /\ Cardinality(Separated(g, S \ {v})) \in Nat
  BY FS_Subset, SeparatedIsFinite
<1>2. IsFiniteSet(pairs) /\ Cardinality(pairs) = Cardinality(others)
  <2>1. f \in Surjection(others, pairs)
    BY DEF Surjection
  <2>2. f \in Injection(others, pairs)
    BY DEF Injection, IsInjective
  <2> QED
    BY <1>1, <2>1, <2>2, FS_Surjection
<1>3. Separated(g, S) = Separated(g, S \ {v}) \cup pairs
  <2> SUFFICES ASSUME NEW e
               PROVE  e \in Separated(g, S) <=> e \in Separated(g, S \ {v}) \/ e \in pairs
    OBVIOUS
  <2>1. S \ {v} \in SUBSET DOMAIN g
    OBVIOUS
  <2>2. ASSUME e \in Separated(g, S)
        PROVE  e \in Separated(g, S \ {v}) \/ e \in pairs
    <3>1. PICK J \in S, K \in S :
            e = {J, K} /\ J # K /\ K \notin g[J] /\ J \notin g[K]
      BY <2>2, SeparatedPairs
    <3>2. CASE J = v
      BY <3>1, <3>2
    <3>3. CASE K = v
      <4>1. J \in others /\ e = {v, J}
        BY <3>1, <3>3
      <4> QED
        BY <4>1
    <3>4. CASE J # v /\ K # v
      BY <2>1, <3>1, <3>4, SeparatedPairs
    <3> QED
      BY <3>2, <3>3, <3>4
  <2>3. ASSUME e \in Separated(g, S \ {v})
        PROVE  e \in Separated(g, S)
    BY <2>3 DEF Separated
  <2>4. ASSUME e \in pairs
        PROVE  e \in Separated(g, S)
    <3>1. PICK x \in others : e = {v, x}
      BY <2>4
    <3>2. v # x /\ x \notin g[v] /\ x \in S
      BY <3>1
    <3> QED
      BY <3>1, <3>2 DEF Separated
  <2> QED
    BY <2>2, <2>3, <2>4
<1>4. Separated(g, S \ {v}) \cap pairs = {}
  BY DEF Separated
<1>5. Cardinality(Separated(g, S \ {v}) \cap pairs) = 0
  BY <1>4, FS_EmptySet
<1>6. Cardinality(Separated(g, S)) =
        Cardinality(Separated(g, S \ {v})) + Cardinality(pairs) - Cardinality(Separated(g, S \ {v}) \cap pairs)
  BY <1>1, <1>2, <1>3, FS_Union
<1>7. Cardinality(others) \in Nat
  BY <1>1, FS_CardinalityType
<1> QED
  BY <1>1, <1>2, <1>5, <1>6, <1>7

\* The recount after v is taken from the neighbours S of w: what C[w] goes down by is
\* at most the number of pairs of v that are missing, when size counts the neighbours v
\* has left, w among them.
LEMMA RecountIsSafe ==
  ASSUME NEW g, IsGraph(g), NEW S \in SUBSET DOMAIN g, IsFiniteSet(S), NEW v \in S,
         NEW near, IsFiniteSet(near), NEW w \in near, w \notin S,
         S \cap g[v] \subseteq near,
         NEW c \in Int, c >= Cardinality(Separated(g, S))
  PROVE  c - (Cardinality(S \ {v}) - (Cardinality(near) - 1)) >= Cardinality(Separated(g, S \ {v}))
<1> DEFINE remaining == S \ {v}
           far == remaining \ g[v]
           close == remaining \cap g[v]
<1>1. IsFiniteSet(remaining)
  BY FS_Subset
<1>2. IsFiniteSet(near \ {w}) /\ Cardinality(near \ {w}) = Cardinality(near) - 1
  BY FS_RemoveElement
<1>3. close \in SUBSET (near \ {w})
  OBVIOUS
<1>4. Cardinality(close) <= Cardinality(near) - 1
  BY <1>2, <1>3, FS_Subset
<1>5. Cardinality(far) = Cardinality(remaining) - Cardinality(close)
  BY <1>1, FS_Difference
<1>6. /\ Cardinality(remaining) \in Nat /\ Cardinality(close) \in Nat /\ Cardinality(near) \in Nat
      /\ Cardinality(Separated(g, S)) \in Nat /\ Cardinality(Separated(g, remaining)) \in Nat
  BY <1>1, FS_Intersection, FS_CardinalityType, SeparatedIsFinite
<1>7. far = S \ ({v} \cup g[v])
  OBVIOUS
<1>8. Cardinality(Separated(g, S)) = Cardinality(Separated(g, remaining)) + Cardinality(far)
  BY <1>7, TakingOut
<1> HIDE DEF remaining, far, close
<1>9. c - (Cardinality(remaining) - (Cardinality(near) - 1)) >= Cardinality(Separated(g, remaining))
  BY <1>4, <1>5, <1>6, <1>8
<1> QED
  BY <1>9 DEF remaining

-----------------------------------------------------------------------------
\* The inductive invariant. NoVertexTwice relies on the types only; the copy of the
\* graph is looked at between two iterations of the inner loop as well, when the last
\* vertex listed is still a neighbour of those in rest.

Latest(I) == IF I \in rest THEN {order[Len(order)]} ELSE {}

Halfway ==
  \A I \in Vertices \ Entries(order) : adj[I] = inter_graph[I] \ (Entries(order) \ Latest(I))

\* The counts between two iterations of the inner loop: C bounds the pairs that are
\* missing among what adj still lists, and size is the number of neighbours the vertex
\* listed last had left.
Counted == \A I \in Vertices \ Entries(order) : C[I] >= Cardinality(Separated(inter_graph, adj[I]))

Sized ==
  rest # {} => /\ rest \subseteq inter_graph[order[Len(order)]]
               /\ size = Cardinality(inter_graph[order[Len(order)]] \ Entries(order))

OrderInv ==
  /\ OrderTypeOK
  /\ NoVertexTwice
  /\ IsGraph(inter_graph) /\ DOMAIN inter_graph = Vertices
  /\ rest # {} => order # <<>>
  /\ rest \cap Entries(order) = {}
  /\ Halfway
  /\ Counted /\ Sized

\* NoVertexTwice in the terms of the lemmas above.
LEMMA Distinct ==
  NoVertexTwice <=>
    /\ NoRepeats(order) /\ NoRepeats(Q)
    /\ Entries(order) \cap Entries(Q) = {}
    /\ visit = Entries(order) \cup Entries(Q)
BY DEF NoVertexTwice, NoRepeats

\* Pairs of neighbours can be counted.
LEMMA MissingIsFinite ==
  ASSUME NEW graph, NEW I, IsFiniteSet(graph[I])
  PROVE  Cardinality(Missing(graph, I)) \in Nat
<1>1. Missing(graph, I) \in SUBSET (SUBSET graph[I])
  BY DEF Missing
<1>2. IsFiniteSet(SUBSET graph[I])
  BY FS_SUBSET
<1> QED
  BY <1>1, <1>2, FS_Subset, FS_CardinalityType

\* The outer loop starts with an intact copy of the graph and empty lists.
LEMMA OrderingStarts == OrderInit => OrderInv
<1> SUFFICES ASSUME OrderInit
             PROVE  OrderInv
  OBVIOUS
<1> DEFINE graph == inter_graph
           num == inst2num
<1>1. IsInput(graph, num) /\ StartOrder(graph, num)
  BY DEF OrderInit
<1> HIDE DEF graph, num
<1>2. /\ inter_graph = graph /\ adj = graph /\ inst2num = num
      /\ Q = <<>> /\ order = <<>> /\ visit = {} /\ rest = {} /\ size = 0
      /\ C = InitialCounts(graph)
  BY <1>1 DEF StartOrder
<1>3. /\ IsGraph(graph) /\ IsFiniteSet(DOMAIN graph)
      /\ \A I \in DOMAIN graph : num[I] \in Nat
  BY <1>1 DEF IsInput
<1>4. graph \in [DOMAIN graph -> SUBSET DOMAIN graph] /\ DOMAIN graph \subseteq Inst
  BY <1>3 DEF IsGraph
<1>5. \A I \in DOMAIN graph : Cardinality(Missing(graph, I)) \in Nat
  BY <1>3, <1>4, FS_Subset, MissingIsFinite
<1>6. OrderTypeOK
  BY <1>2, <1>3, <1>4, <1>5 DEF OrderTypeOK, Vertices, InitialCounts
<1>7. Entries(<<>>) = {} /\ NoRepeats(<<>>)
  BY DEF Entries, NoRepeats
<1>8. NoVertexTwice
  BY <1>2, <1>7, Distinct
<1>9. Halfway
  BY <1>2, <1>4, <1>7 DEF Halfway, Latest, Vertices
<1>10. Counted /\ Sized
  <2>1. \A I \in DOMAIN graph : C[I] = Cardinality(Separated(inter_graph, adj[I]))
    BY <1>2 DEF InitialCounts, Missing, Separated
  <2> QED
    BY <1>2, <1>5, <2>1 DEF Counted, Sized, InitialCounts, Vertices
<1> QED
  BY <1>2, <1>3, <1>6, <1>7, <1>8, <1>9, <1>10 DEF OrderInv, Vertices

\* Once the queue is empty and the loop goes on, some vertex has not been visited.
LEMMA SomeVertexIsLeft ==
  ASSUME OrderInv, Q = <<>>, rest = {}, ~Ordered
  PROVE  Vertices \ visit # {}
<1>1. /\ IsFiniteSet(Vertices) /\ order \in Seq(Vertices) /\ visit \subseteq Vertices
  BY DEF OrderInv, OrderTypeOK
<1>2. NoRepeats(order) /\ visit = Entries(order)
  <2>1. Entries(Q) = {}
    BY DEF Entries
  <2> QED
    BY <2>1, Distinct DEF OrderInv
<1>3. Len(order) = Cardinality(visit)
  BY <1>1, <1>2, LengthIsNumberOfEntries
<1> QED
  BY <1>1, <1>3 DEF Ordered

\* So what std::min_element returns is a vertex not visited yet: the queue is filled
\* again, and the loop does not spin.
LEMMA MinElementIsNew ==
  ASSUME OrderInv, Q = <<>>, rest = {}, ~Ordered
  PROVE  MinElement \in Vertices \ visit
<1>1. Vertices \ visit # {}
  BY SomeVertexIsLeft
<1>2. \A I \in Vertices : inst2num[I] \in Nat
  BY DEF OrderInv, OrderTypeOK
<1>3. Lowest(Vertices \ visit) \in Vertices \ visit
  BY <1>1, <1>2, LowestIsMember
<1> QED
  BY <1>1, <1>3 DEF MinElement

\* The bound on the counts looks at no other variable than these.
LEMMA CountedIsKept ==
  ASSUME Counted, UNCHANGED <<inter_graph, adj, C, order>>, Vertices' = Vertices
  PROVE  Counted'
<1> SUFFICES ASSUME NEW I \in Vertices, I \notin Entries(order)
             PROVE  C'[I] >= Cardinality(Separated(inter_graph, adj'[I]))
  BY DEF Counted, Entries
<1>1. C[I] >= Cardinality(Separated(inter_graph, adj[I]))
  BY DEF Counted
<1> QED
  BY <1>1

-----------------------------------------------------------------------------
\* One lemma per action.

\* Filling the queue leaves the graph alone.
LEMMA PickKeepsInvariant == OrderInv /\ Pick => OrderInv'
<1> SUFFICES ASSUME OrderInv, Pick
             PROVE  OrderInv'
  OBVIOUS
<1> DEFINE m == MinElement
<1>1. /\ Q = <<>> /\ rest = {} /\ ~Ordered
      /\ visit' = visit \cup {m} /\ Q' = Append(Q, m)
      /\ UNCHANGED <<inter_graph, inst2num, adj, C, order, rest, size>>
  BY DEF Pick
<1>2. m \in Vertices /\ m \notin visit
  BY <1>1, MinElementIsNew
<1> HIDE DEF m
<1>3. /\ Q \in Seq(Vertices)
      /\ NoRepeats(order) /\ NoRepeats(Q) /\ Entries(order) \cap Entries(Q) = {}
      /\ visit = Entries(order) \cup Entries(Q)
  BY Distinct DEF OrderInv, OrderTypeOK
<1>4. Q' \in Seq(Vertices) /\ Entries(Q') = Entries(Q) \cup {m} /\ NoRepeats(Q')
  <2>1. m \notin Entries(Q)
    BY <1>2, <1>3
  <2>2. Q' = Append(Q, m)
    BY <1>1
  <2>3. Q \in Seq(Vertices) /\ NoRepeats(Q) /\ m \in Vertices
    BY <1>2, <1>3
  <2> QED
    BY <2>1, <2>2, <2>3, AppendEntry
<1>5. Vertices' = Vertices
  BY <1>1 DEF Vertices
<1>6. OrderTypeOK'
  BY <1>1, <1>2, <1>4, <1>5 DEF OrderInv, OrderTypeOK
<1>7. NoVertexTwice'
  <2>1. order' = order
    BY <1>1
  <2>2. Entries(order') \cap Entries(Q') = {} /\ visit' = Entries(order') \cup Entries(Q')
    BY <1>1, <1>2, <1>3, <1>4, <2>1
  <2> QED
    BY <1>3, <1>4, <2>1, <2>2 DEF NoVertexTwice, NoRepeats
<1>8. Halfway'
  BY <1>1, <1>5 DEF OrderInv, Halfway, Latest, Entries
<1>9. (rest # {} => order # <<>>)' /\ (rest \cap Entries(order) = {})'
  BY <1>1
<1>10. Counted'
  BY <1>1, <1>5, CountedIsKept DEF OrderInv
<1>11. Sized'
  BY <1>1 DEF Sized
<1> QED
  BY <1>1, <1>5, <1>6, <1>7, <1>8, <1>9, <1>10, <1>11 DEF OrderInv, IsGraph

\* The head of the queue is a vertex the order does not have yet; its neighbours in
\* the copy are what is left of those in the caller's graph.
LEMMA DequeueKeepsInvariant == OrderInv /\ Dequeue => OrderInv'
<1> SUFFICES ASSUME OrderInv, Dequeue
             PROVE  OrderInv'
  OBVIOUS
<1> DEFINE v == Head(Q)
<1>1. /\ Q # <<>> /\ rest = {}
      /\ order' = Append(order, v) /\ Q' = Tail(Q)
      /\ rest' = adj[v] /\ size' = Cardinality(adj[v])
      /\ UNCHANGED <<inter_graph, inst2num, adj, C, visit>>
  BY DEF Dequeue
<1>2. /\ OrderTypeOK /\ Q \in Seq(Vertices) /\ order \in Seq(Vertices)
      /\ adj \in [Vertices -> SUBSET Vertices] /\ IsFiniteSet(Vertices)
  BY DEF OrderInv, OrderTypeOK
<1>3. /\ NoRepeats(order) /\ NoRepeats(Q) /\ Entries(order) \cap Entries(Q) = {}
      /\ visit = Entries(order) \cup Entries(Q)
  BY Distinct DEF OrderInv
<1>4. /\ v \in Vertices /\ v \in Entries(Q)
      /\ Q' \in Seq(Vertices) /\ Entries(Q') = Entries(Q) \ {v} /\ NoRepeats(Q')
  BY <1>1, <1>2, <1>3, TailEntries
<1> HIDE DEF v
<1>5. v \notin Entries(order)
  BY <1>3, <1>4
<1>6. /\ order' \in Seq(Vertices) /\ Entries(order') = Entries(order) \cup {v}
      /\ order'[Len(order')] = v /\ NoRepeats(order')
  BY <1>1, <1>2, <1>3, <1>4, <1>5, AppendEntry
<1>7. Vertices' = Vertices /\ order' # <<>>
  BY <1>1, <1>2 DEF Vertices
<1>8. adj[v] \subseteq Vertices /\ Cardinality(adj[v]) \in Nat
  BY <1>2, <1>4, FS_Subset, FS_CardinalityType
<1>9. OrderTypeOK'
  BY <1>1, <1>2, <1>4, <1>6, <1>7, <1>8 DEF OrderTypeOK
<1>10. NoVertexTwice'
  <2>1. /\ Entries(order') \cap Entries(Q') = {}
        /\ visit' = Entries(order') \cup Entries(Q')
    BY <1>1, <1>3, <1>4, <1>6
  <2> QED
    BY <1>4, <1>6, <2>1 DEF NoVertexTwice, NoRepeats
<1>11. adj[v] = inter_graph[v] \ Entries(order)
  BY <1>1, <1>4, <1>5 DEF OrderInv, Halfway, Latest
<1>12. /\ IsGraph(inter_graph) /\ DOMAIN inter_graph = Vertices
       /\ v \notin inter_graph[v]
       /\ \A I \in Vertices : v \in inter_graph[I] <=> I \in inter_graph[v]
  BY <1>4 DEF OrderInv, IsGraph
<1>13. rest' \cap Entries(order') = {}
  BY <1>1, <1>6, <1>11, <1>12
<1>14. ASSUME NEW I \in Vertices, I \notin Entries(order')
       PROVE  adj'[I] = inter_graph'[I] \ (Entries(order') \ Latest(I)')
  <2>1. adj[I] = inter_graph[I] \ Entries(order) /\ I \notin Entries(order)
    BY <1>1, <1>6, <1>14 DEF OrderInv, Halfway, Latest
  <2>2. CASE I \in rest'
    <3>1. Entries(order') \ Latest(I)' = Entries(order)
      BY <1>5, <1>6, <2>2 DEF Latest
    <3> QED
      BY <1>1, <2>1, <3>1
  <2>3. CASE I \notin rest'
    <3>1. v \notin inter_graph[I]
      BY <1>1, <1>11, <1>12, <2>1, <2>3
    <3>2. Latest(I)' = {}
      BY <2>3 DEF Latest
    <3> QED
      BY <1>1, <1>6, <2>1, <3>1, <3>2
  <2> QED
    BY <2>2, <2>3
<1>15. Halfway'
  BY <1>7, <1>14 DEF Halfway
<1>16. IsGraph(inter_graph)' /\ (DOMAIN inter_graph = Vertices)'
  BY <1>1, <1>7, <1>12 DEF IsGraph
<1>17. Counted'
  <2> SUFFICES ASSUME NEW I \in Vertices, I \notin Entries(order')
               PROVE  C'[I] >= Cardinality(Separated(inter_graph, adj'[I]))
    BY <1>1, <1>7 DEF Counted
  <2>1. C[I] >= Cardinality(Separated(inter_graph, adj[I]))
    BY <1>6 DEF OrderInv, Counted
  <2> QED
    BY <1>1, <2>1
<1>18. Sized'
  <2>1. inter_graph[v] \ Entries(order') = adj[v]
    BY <1>6, <1>11, <1>12
  <2> QED
    BY <1>1, <1>6, <1>11, <2>1 DEF Sized
<1> QED
  BY <1>7, <1>9, <1>10, <1>13, <1>15, <1>16, <1>17, <1>18 DEF OrderInv

\* Each neighbour w of the vertex v listed last loses v from its set, and is queued
\* only if it has not been visited.
LEMMA RelaxKeepsInvariant == OrderInv /\ Relax => OrderInv'
<1> SUFFICES ASSUME OrderInv, Relax
             PROVE  OrderInv'
  OBVIOUS
<1> DEFINE v == order[Len(order)]
           w == Lowest(rest)
           c == Recounted(w, adj[w] \ {v})
<1>1. /\ rest # {}
      /\ adj' = Without(w, v) /\ C' = [C EXCEPT ![w] = c]
      /\ rest' = rest \ {w}
      /\ UNCHANGED <<inter_graph, inst2num, order, size>>
  BY DEF Relax
<1>2. \/ BecomesReady(w, c) /\ visit' = visit \cup {w} /\ Q' = Append(Q, w)
      \/ UNCHANGED <<visit, Q>>
  BY DEF Relax
<1>3. /\ OrderTypeOK /\ Q \in Seq(Vertices) /\ order \in Seq(Vertices)
      /\ adj \in [Vertices -> SUBSET Vertices] /\ IsFiniteSet(Vertices)
      /\ C \in [Vertices -> Int] /\ size \in Nat /\ rest \subseteq Vertices
      /\ visit \subseteq Vertices
  BY DEF OrderInv, OrderTypeOK
<1>4. /\ NoRepeats(order) /\ NoRepeats(Q) /\ Entries(order) \cap Entries(Q) = {}
      /\ visit = Entries(order) \cup Entries(Q)
  BY Distinct DEF OrderInv
<1>5. w \in rest /\ w \in Vertices /\ w \notin Entries(order)
  BY <1>1, <1>3, LowestIsMember DEF OrderInv, OrderTypeOK
<1>6. v \in Entries(order)
  <2>1. order # <<>> /\ Len(order) \in Nat
    BY <1>1, <1>3 DEF OrderInv
  <2>2. Len(order) \in 1..Len(order)
    BY <1>3, <2>1
  <2> QED
    BY <2>2 DEF Entries
<1>7. c \in Int
  <2>1. adj[w] \ {v} \in SUBSET Vertices
    BY <1>3, <1>5
  <2>2. Cardinality(adj[w] \ {v}) \in Nat
    BY <1>3, <2>1, FS_Subset, FS_CardinalityType
  <2>3. C[w] \in Int
    BY <1>3, <1>5
  <2> QED
    BY <1>3, <2>2, <2>3 DEF Recounted
<1> HIDE DEF v, w, c
<1>8. /\ Vertices' = Vertices
      /\ adj' \in [Vertices -> SUBSET Vertices]
      /\ adj'[w] = adj[w] \ {v}
      /\ \A I \in Vertices : I # w => adj'[I] = adj[I]
  BY <1>1, <1>3, <1>5 DEF Without, Vertices
<1>9. /\ Q' \in Seq(Vertices) /\ NoRepeats(Q') /\ visit' \subseteq Vertices
      /\ Entries(order) \cap Entries(Q') = {}
      /\ visit' = Entries(order) \cup Entries(Q')
  <2>1. CASE BecomesReady(w, c) /\ visit' = visit \cup {w} /\ Q' = Append(Q, w)
    <3>1. w \notin Entries(Q)
      BY <1>4, <2>1 DEF BecomesReady
    <3>2. Q' \in Seq(Vertices) /\ Entries(Q') = Entries(Q) \cup {w} /\ NoRepeats(Q')
      BY <1>3, <1>4, <1>5, <2>1, <3>1, AppendEntry
    <3> QED
      BY <1>3, <1>4, <1>5, <2>1, <3>2
  <2>2. CASE UNCHANGED <<visit, Q>>
    BY <1>3, <1>4, <2>2
  <2> QED
    BY <1>2, <2>1, <2>2
<1>10. OrderTypeOK'
  BY <1>1, <1>3, <1>5, <1>7, <1>8, <1>9 DEF OrderTypeOK
<1>11. NoVertexTwice'
  <2>1. order' = order
    BY <1>1
  <2> QED
    BY <1>4, <1>9, <2>1 DEF NoVertexTwice, NoRepeats
<1>12. ASSUME NEW I \in Vertices, I \notin Entries(order)
       PROVE  adj'[I] = inter_graph[I] \ (Entries(order) \ IF I \in rest' THEN {v} ELSE {})
  <2>1. adj[I] = inter_graph[I] \ (Entries(order) \ IF I \in rest THEN {v} ELSE {})
    BY <1>12 DEF OrderInv, Halfway, Latest, v
  <2>2. CASE I = w
    BY <1>1, <1>5, <1>6, <1>8, <2>1, <2>2
  <2>3. CASE I # w
    BY <1>1, <1>8, <2>1, <2>3
  <2> QED
    BY <2>2, <2>3
<1>13. Halfway'
  BY <1>1, <1>8, <1>12 DEF Halfway, Latest, Entries, v
<1>14. (rest # {} => order # <<>>)' /\ (rest \cap Entries(order) = {})'
  <2>1. order # <<>> /\ rest \cap Entries(order) = {}
    BY <1>1 DEF OrderInv
  <2>2. order' = order /\ rest' \subseteq rest
    BY <1>1
  <2> QED
    BY <2>1, <2>2
<1>15. IsGraph(inter_graph)' /\ (DOMAIN inter_graph = Vertices)'
  BY <1>1, <1>8 DEF OrderInv, IsGraph
<1>16. rest \subseteq inter_graph[v] /\ size = Cardinality(inter_graph[v] \ Entries(order))
  BY <1>1 DEF OrderInv, Sized, v
<1>17. Sized'
  BY <1>1, <1>16 DEF Sized, v, Entries
<1>18. c >= Cardinality(Separated(inter_graph, adj'[w]))
  <2> DEFINE near == inter_graph[v] \ Entries(order)
  <2>1. /\ IsGraph(inter_graph) /\ DOMAIN inter_graph = Vertices
        /\ v \in Vertices
    BY <1>3, <1>6 DEF OrderInv, Entries
  <2>2. w \in inter_graph[v] /\ w \notin inter_graph[w] /\ v \in inter_graph[w]
    BY <1>5, <1>16, <2>1 DEF IsGraph
  <2>3. adj[w] = inter_graph[w] \ (Entries(order) \ {v})
    BY <1>5 DEF OrderInv, Halfway, Latest, v
  <2>4. /\ adj[w] \in SUBSET DOMAIN inter_graph /\ IsFiniteSet(adj[w])
        /\ v \in adj[w] /\ w \notin adj[w]
    BY <1>3, <1>5, <2>1, <2>2, <2>3, FS_Subset
  <2>5. v \notin inter_graph[v]
    BY <2>1 DEF IsGraph
  <2>6. adj[w] \cap inter_graph[v] \subseteq near
    BY <2>3, <2>5
  <2>7. near \in SUBSET Vertices
    BY <2>1 DEF IsGraph
  <2>8. w \in near /\ IsFiniteSet(near)
    BY <1>3, <1>5, <2>2, <2>7, FS_Subset
  <2>9. C[w] \in Int /\ C[w] >= Cardinality(Separated(inter_graph, adj[w]))
    BY <1>3, <1>5 DEF OrderInv, Counted
  <2> HIDE DEF near
  <2>10. C[w] - (Cardinality(adj[w] \ {v}) - (Cardinality(near) - 1))
           >= Cardinality(Separated(inter_graph, adj[w] \ {v}))
    BY <2>1, <2>4, <2>6, <2>8, <2>9, RecountIsSafe
  <2>11. c = C[w] - (Cardinality(adj[w] \ {v}) - (Cardinality(near) - 1))
    BY <1>16 DEF c, Recounted, near
  <2> QED
    BY <1>8, <2>10, <2>11
<1>19. Counted'
  <2> SUFFICES ASSUME NEW I \in Vertices, I \notin Entries(order)
               PROVE  C'[I] >= Cardinality(Separated(inter_graph, adj'[I]))
    BY <1>1, <1>8 DEF Counted, Entries
  <2>1. CASE I = w
    BY <1>1, <1>3, <1>18, <2>1
  <2>2. CASE I # w
    BY <1>1, <1>3, <1>8, <2>2 DEF OrderInv, Counted
  <2> QED
    BY <2>1, <2>2
<1> QED
  BY <1>10, <1>11, <1>13, <1>14, <1>15, <1>17, <1>19 DEF OrderInv

\* No step of the three loops breaks the invariant.
LEMMA OrderingSteps == OrderInv /\ [OrderNext]_eoVars => OrderInv'
<1> SUFFICES ASSUME OrderInv, [OrderNext]_eoVars
             PROVE  OrderInv'
  OBVIOUS
<1>1. CASE UNCHANGED eoVars
  <2>1. UNCHANGED <<inter_graph, inst2num, adj, C, Q, visit, order, rest, size>>
    BY <1>1 DEF eoVars
  <2>2. OrderTypeOK'
    BY <2>1 DEF OrderInv, OrderTypeOK, Vertices
  <2>3. NoVertexTwice'
    BY <2>1 DEF OrderInv, NoVertexTwice, Entries
  <2>4. Halfway'
    BY <2>1 DEF OrderInv, Halfway, Latest, Entries, Vertices
  <2>5. IsGraph(inter_graph)' /\ (DOMAIN inter_graph = Vertices)'
    BY <2>1 DEF OrderInv, IsGraph, Vertices
  <2>6. (rest # {} => order # <<>>)' /\ (rest \cap Entries(order) = {})'
    BY <2>1 DEF OrderInv, Entries
  <2>7. Counted'
    BY <2>1, CountedIsKept DEF OrderInv, Vertices
  <2>8. Sized'
    BY <2>1 DEF OrderInv, Sized
  <2> QED
    BY <2>2, <2>3, <2>4, <2>5, <2>6, <2>7, <2>8 DEF OrderInv
<1> QED
  BY <1>1, PickKeepsInvariant, DequeueKeepsInvariant, RelaxKeepsInvariant DEF OrderNext

-----------------------------------------------------------------------------
\* What the invariant says before the inner loop is entered.

\* The copy is the part of the graph the remaining vertices span.
LEMMA InducedInOrder == OrderInv => IsInducedSubgraph
BY DEF OrderInv, IsInducedSubgraph, Halfway, Latest

\* Pairs missing in the copy are pairs missing in the graph.
LEMMA CountsInOrder == OrderInv => CountsAreUpperBounds
<1> SUFFICES ASSUME OrderInv, rest = {}, NEW I \in Vertices, I \notin Entries(order)
             PROVE  C[I] >= Cardinality(Missing(adj, I))
  BY DEF CountsAreUpperBounds
<1>1. \A J \in Vertices \ Entries(order) : adj[J] = inter_graph[J] \ Entries(order)
  BY DEF OrderInv, Halfway, Latest
<1>2. adj[I] \subseteq Vertices \ Entries(order)
  BY <1>1 DEF OrderInv, OrderTypeOK
<1>3. \A J, K \in adj[I] : K \in adj[J] <=> K \in inter_graph[J]
  BY <1>1, <1>2
<1>4. Missing(adj, I) = Separated(inter_graph, adj[I])
  BY <1>3 DEF Missing, Separated
<1> QED
  BY <1>4 DEF OrderInv, Counted

-----------------------------------------------------------------------------
\* Perfect orders.

\* The neighbours of each vertex that have larger numbers are neighbours of one another.
PerfectlyNumbered(g, num) ==
  \A c \in DOMAIN g : \A a, b \in g[c] :
    num[c] < num[a] /\ num[c] < num[b] /\ a # b => b \in g[a]

\* The neighbours of I that are not gone are neighbours of one another.
LeavesClique(I, gone) == \A a, b \in inter_graph[I] \ gone : a # b => b \in inter_graph[a]

\* Each vertex leaves a clique when it is listed: one whose count is 0 does because the
\* counts are upper bounds, the one with the least number because of the numbers.
OrderedPerfectly == \A k \in 1..Len(order) : LeavesClique(order[k], {order[i] : i \in 1..k})

Perfecting ==
  /\ PerfectlyNumbered(inter_graph, inst2num)
  /\ \A I, J \in Vertices : inst2num[I] = inst2num[J] => I = J
  /\ \A I \in Entries(Q) : LeavesClique(I, Entries(order))
  /\ OrderedPerfectly

\* To begin with nothing is queued or listed.
LEMMA PerfectingStarts == OrderInit /\ PerfectlyNumbered(inter_graph, inst2num) => Perfecting
<1> SUFFICES ASSUME OrderInit, PerfectlyNumbered(inter_graph, inst2num) PROVE Perfecting
  OBVIOUS
<1>1. adj = inter_graph /\ Q = <<>> /\ order = <<>>
  BY DEF OrderInit, StartOrder
<1>2. Entries(Q) = {} /\ 1..Len(order) = {}
  BY <1>1 DEF Entries
<1>3. \A I, J \in Vertices : inst2num[I] = inst2num[J] => I = J
  BY <1>1 DEF OrderInit, IsInput, Vertices
<1> QED
  BY <1>2, <1>3 DEF Perfecting, OrderedPerfectly

\* With the queue empty, the vertex of the least number among those left is taken.
LEMMA PickLeavesClique ==
  ASSUME OrderInv, Perfecting, Pick
  PROVE  LeavesClique(MinElement, Entries(order))
<1>1. /\ Q = <<>> /\ rest = {} /\ ~Ordered
  BY DEF Pick
<1>2. /\ MinElement \in Vertices \ visit
      /\ \A J \in Vertices \ visit : inst2num[MinElement] <= inst2num[J]
  <2>1. MinElement \in Vertices \ visit
    BY <1>1, MinElementIsNew
  <2>2. MinElement = Lowest(Vertices \ visit) /\ Vertices \ visit # {}
    BY <2>1 DEF MinElement
  <2>3. \A I \in Vertices : inst2num[I] \in Nat
    BY DEF OrderInv, OrderTypeOK
  <2> QED
    BY <2>1, <2>2, <2>3, LowestIsMember
<1> DEFINE m == MinElement
<1> HIDE DEF m
<1>3. visit = Entries(order)
  BY <1>1, Distinct DEF OrderInv, Entries
<1>4. \A a \in inter_graph[m] \ Entries(order) : inst2num[m] < inst2num[a]
  <2> SUFFICES ASSUME NEW a \in inter_graph[m], a \notin Entries(order)
               PROVE  inst2num[m] < inst2num[a]
    OBVIOUS
  <2>1. a \in Vertices /\ a # m /\ m \in Vertices
    BY <1>2 DEF m, OrderInv, IsGraph
  <2>2. inst2num[m] <= inst2num[a] /\ inst2num[m] # inst2num[a]
    BY <1>2, <1>3, <2>1 DEF m, Perfecting
  <2>3. inst2num[m] \in Nat /\ inst2num[a] \in Nat
    BY <2>1 DEF OrderInv, OrderTypeOK
  <2> QED
    BY <2>2, <2>3
<1>5. m \in DOMAIN inter_graph
  BY <1>2 DEF m, OrderInv
<1>6. LeavesClique(m, Entries(order))
  BY <1>4, <1>5 DEF LeavesClique, Perfecting, PerfectlyNumbered
<1> QED
  BY <1>6 DEF m

\* A vertex is queued when its count says that no pair is missing.
LEMMA ReadyLeavesClique ==
  ASSUME OrderInv, OrderInv', Relax, NEW w, w = Lowest(rest), C'[w] = 0
  PROVE  LeavesClique(w, Entries(order))
<1>1. /\ rest # {} /\ rest' = rest \ {w} /\ UNCHANGED <<inter_graph, order>>
  BY DEF Relax
<1>2. w \in rest /\ w \in Vertices /\ w \notin Entries(order)
  <2>1. w \in rest
    BY <1>1, LowestIsMember DEF OrderInv, OrderTypeOK
  <2> QED
    BY <2>1 DEF OrderInv, OrderTypeOK
<1>3. w \in Vertices' /\ Entries(order') = Entries(order)
  BY <1>1, <1>2 DEF OrderInv, Entries
<1>4. adj'[w] = inter_graph[w] \ Entries(order)
  BY <1>1, <1>2, <1>3 DEF OrderInv, Halfway, Latest
<1>5. Cardinality(Separated(inter_graph, adj'[w])) <= 0
  BY <1>1, <1>2, <1>3 DEF OrderInv, Counted
<1>6. /\ IsGraph(inter_graph) /\ adj'[w] \in SUBSET DOMAIN inter_graph /\ IsFiniteSet(adj'[w])
  BY <1>2, <1>4, FS_Subset DEF OrderInv, OrderTypeOK, IsGraph
<1>7. Separated(inter_graph, adj'[w]) = {}
  BY <1>5, <1>6, SeparatedIsFinite, FS_EmptySet
<1>8. \A a, b \in adj'[w] : a # b => b \in inter_graph[a]
  <2> SUFFICES ASSUME NEW a \in adj'[w], NEW b \in adj'[w], a # b, b \notin inter_graph[a]
               PROVE  FALSE
    OBVIOUS
  <2>1. a \notin inter_graph[b]
    BY <1>6 DEF IsGraph
  <2>2. {a, b} \in Separated(inter_graph, adj'[w])
    BY <1>6, <2>1, SeparatedPairs
  <2> QED
    BY <1>7, <2>2
<1> QED
  BY <1>4, <1>8 DEF LeavesClique

\* What has left a clique goes on doing so as vertices go.
LEMMA CliqueStays ==
  ASSUME NEW I, NEW S, NEW T, S \subseteq T, LeavesClique(I, S)
  PROVE  LeavesClique(I, T)
  BY DEF LeavesClique

\* Queueing and listing vertices keeps the order perfect.
LEMMA PerfectingSteps ==
  ASSUME OrderInv, OrderInv', Perfecting, [OrderNext]_eoVars
  PROVE  Perfecting'
<1>1. /\ UNCHANGED <<inter_graph, inst2num>> /\ Vertices' = Vertices
      /\ Q \in Seq(Vertices) /\ order \in Seq(Vertices)
  <2>1. UNCHANGED <<inter_graph, inst2num>>
    BY DEF OrderNext, Pick, Dequeue, Relax, eoVars
  <2> QED
    BY <2>1 DEF OrderInv, OrderTypeOK
<1>2. \A I, S : LeavesClique(I, S)' <=> LeavesClique(I, S')
  BY <1>1 DEF LeavesClique
<1> SUFFICES /\ \A I \in Entries(Q') : LeavesClique(I, Entries(order'))
             /\ \A k \in 1..Len(order') : LeavesClique(order'[k], {order'[i] : i \in 1..k})
  BY <1>1, <1>2 DEF Perfecting, OrderedPerfectly, LeavesClique, PerfectlyNumbered, Entries
<1>3. /\ \A I \in Entries(Q) : LeavesClique(I, Entries(order))
      /\ \A k \in 1..Len(order) : LeavesClique(order[k], {order[i] : i \in 1..k})
  BY DEF Perfecting, OrderedPerfectly
<1>4. CASE Pick
  <2>1. order' = order /\ Q' = Append(Q, MinElement) /\ MinElement \in Vertices
    BY <1>4, MinElementIsNew DEF Pick
  <2>2. Entries(Q') = Entries(Q) \cup {MinElement}
    BY <1>1, <2>1, AppendEntry
  <2> QED
    BY <1>3, <1>4, <2>1, <2>2, PickLeavesClique
<1>5. CASE Dequeue
  <2> DEFINE v == Head(Q)
             n == Len(order)
  <2>1. Q # <<>> /\ order' = Append(order, v) /\ Q' = Tail(Q)
    BY <1>5 DEF Dequeue
  <2>2. /\ v \in Entries(Q) /\ v \in Vertices /\ Entries(Q') = Entries(Q) \ {v}
    BY <1>1, <2>1, TailEntries, Distinct DEF OrderInv
  <2> HIDE DEF v
  <2>3. /\ n \in Nat /\ Len(order') = n + 1 /\ order'[n + 1] = v
        /\ \A i \in 1..n : order'[i] = order[i]
        /\ Entries(order') = Entries(order) \cup {v}
    BY <1>1, <2>1, <2>2, AppendEntry
  <2>4. ASSUME NEW I \in Entries(Q') PROVE LeavesClique(I, Entries(order'))
    BY <1>3, <2>2, <2>3, <2>4, CliqueStays
  <2>5. ASSUME NEW k \in 1..Len(order')
        PROVE  LeavesClique(order'[k], {order'[i] : i \in 1..k})
    <3>1. CASE k = n + 1
      <4>1. {order'[i] : i \in 1..k} = Entries(order')
        BY <2>3, <3>1 DEF Entries
      <4> QED
        BY <1>3, <2>2, <2>3, <3>1, <4>1, CliqueStays
    <3>2. CASE k \in 1..n
      <4>1. {order'[i] : i \in 1..k} = {order[i] : i \in 1..k}
        BY <2>3, <3>2
      <4> QED
        BY <1>3, <2>3, <3>2, <4>1
    <3> QED
      BY <2>3, <3>1, <3>2
  <2> QED
    BY <2>4, <2>5
<1>6. CASE Relax
  <2> DEFINE w == Lowest(rest)
             c == Recounted(w, adj[w] \ {order[Len(order)]})
  <2>1. /\ order' = order /\ C' = [C EXCEPT ![w] = c] /\ rest # {}
        /\ \/ c = 0 /\ Q' = Append(Q, w)
           \/ Q' = Q
    BY <1>6 DEF Relax, BecomesReady
  <2>2. w \in Vertices /\ C'[w] = c
    <3>1. w \in rest
      BY <2>1, LowestIsMember DEF OrderInv, OrderTypeOK
    <3> QED
      BY <2>1, <3>1 DEF OrderInv, OrderTypeOK
  <2>3. CASE c = 0 /\ Q' = Append(Q, w)
    <3>1. LeavesClique(w, Entries(order))
      BY <1>6, <2>2, <2>3, ReadyLeavesClique
    <3>2. Entries(Q') = Entries(Q) \cup {w}
      BY <1>1, <2>2, <2>3, AppendEntry
    <3> QED
      BY <1>3, <2>1, <3>1, <3>2
  <2>4. CASE Q' = Q
    BY <1>3, <2>1, <2>4
  <2> QED
    BY <2>1, <2>3, <2>4
<1>7. CASE UNCHANGED eoVars
  BY <1>3, <1>7 DEF eoVars
<1> QED
  BY <1>4, <1>5, <1>6, <1>7 DEF OrderNext

-----------------------------------------------------------------------------
\* Theorems.

\* In every behaviour the copy of the graph and the lists are what the loops rely on.
THEOREM OrderInvHolds == OrderSpec => []OrderInv
<1> QED
  BY OrderingStarts, OrderingSteps, PTL DEF OrderSpec

\* The queue, the order and the copy of the graph keep their types.
THEOREM OrderTypeCorrect == OrderSpec => []OrderTypeOK
<1>1. OrderInv => OrderTypeOK
  BY DEF OrderInv
<1> QED
  BY <1>1, OrderInvHolds, PTL

\* PerfectEliminationOrdering queues and lists no register twice, so GreedyColoring
\* gives none a second colour.
THEOREM EachVertexOnce == OrderSpec => []NoVertexTwice
<1>1. OrderInv => NoVertexTwice
  BY DEF OrderInv
<1> QED
  BY <1>1, OrderInvHolds, PTL

\* Taken apart from one side only, the copy stays the subgraph of the caller's graph
\* that the registers not yet listed span.
THEOREM CopyIsInduced == OrderSpec => []IsInducedSubgraph
<1> QED
  BY InducedInOrder, OrderInvHolds, PTL

\* The counts std::min_element and the queue go by never fall below the number of pairs
\* of remaining neighbours that are not adjacent, whichever vertices are taken: a count
\* of 0 means a clique.
THEOREM CountsBound == OrderSpec => []CountsAreUpperBounds
<1> QED
  BY CountsInOrder, OrderInvHolds, PTL

\* std::min_element, called whenever the queue is empty, never returns a vertex that
\* has been visited: while (order.size() < inter_graph.size()) does not spin.
FillsTheQueue == Q = <<>> /\ rest = {} /\ ~Ordered => MinElement \in Vertices \ visit

THEOREM NeverSpins == OrderSpec => []FillsTheQueue
<1>1. OrderInv => FillsTheQueue
  BY MinElementIsNew DEF FillsTheQueue
<1> QED
  BY <1>1, OrderInvHolds, PTL

\* If the numbers of the registers are perfect, so is the order, whatever the graph: each
\* register is listed when the neighbours it has left are neighbours of one another,
\* whether the queue or std::min_element brought it up.
THEOREM GoodNumbersGiveGoodOrder ==
  OrderSpec /\ PerfectlyNumbered(inter_graph, inst2num) => []OrderedPerfectly
<1>1. Perfecting => OrderedPerfectly
  BY DEF Perfecting
<1> QED
  BY <1>1, PerfectingStarts, PerfectingSteps, OrderInvHolds, PTL DEF OrderSpec

=============================================================================
