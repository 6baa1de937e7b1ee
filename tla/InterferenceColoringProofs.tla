---------------------- MODULE InterferenceColoringProofs --------------------
(***************************************************************************)
(* The three algorithms in a row, for every interference graph: what is    *)
(* proved of each of them alone - of coalescing here, of the others in     *)
(* their own modules - holds of what the one before hands it, and          *)
(* in the end no two values that are live together share a register unless *)
(* they were merged.                                                       *)
(***************************************************************************)
EXTENDS InterferenceColoring, EliminationOrderProofs, GreedyColoringProofs

-----------------------------------------------------------------------------
\* Coalescing: merging vertices one by one, in any order, yields the quotient graph, for
\* every interference graph and every choice of representatives.

\* What a vertex stands for when the vertices in `merged' have been merged.
PartOf(merged, J) == {J} \cup {I \in merged : into[I] = J}

\* Some vertex that J stands for interferes with some vertex that K stands for.
Linked(merged, J, K) ==
  \E u \in PartOf(merged, J), w \in PartOf(merged, K) : w \in graph[u]

\* The graph half way: J and K are adjacent exactly when parts of them were. This is
\* what later merges rely on when they copy sets that earlier merges have changed.
HalfWay ==
  inter_graph = [J \in DOMAIN graph |-> {K \in DOMAIN graph : Linked(trash, J, K)}]

Finished == trash = DOMAIN into /\ DOMAIN into # {} /\ inter_graph = Quotient(graph, into)

CoalesceInv ==
  /\ IsGraph(graph)
  /\ IsMerge(graph, into)
  /\ trash \subseteq DOMAIN into
  /\ HalfWay \/ Finished

\* Before the first merge every vertex stands for itself only.
LEMMA CoalescingStarts == CoalesceInit => CoalesceInv
<1> SUFFICES ASSUME CoalesceInit
             PROVE  CoalesceInv
  OBVIOUS
<1>1. IsGraph(graph) /\ IsMerge(graph, into) /\ inter_graph = graph /\ trash = {}
  BY DEF CoalesceInit
<1>2. \A J : PartOf(trash, J) = {J}
  BY <1>1 DEF PartOf
<1>3. HalfWay
  BY <1>1, <1>2 DEF HalfWay, Linked, IsGraph
<1> QED
  BY <1>1, <1>3 DEF CoalesceInv

\* One merge more, and J and K are linked exactly when they were, or when the merge
\* brings one of them a part that links them.
LEMMA MergingLinks ==
  ASSUME IsGraph(graph), IsMerge(graph, into), trash \subseteq DOMAIN into,
         NEW I \in DOMAIN into, I \notin trash,
         NEW J \in DOMAIN graph, NEW K \in DOMAIN graph
  PROVE  Linked(trash \cup {I}, J, K) <=>
           \/ Linked(trash, J, K)
           \/ J = into[I] /\ Linked(trash, I, K)
           \/ K = into[I] /\ Linked(trash, I, J)
<1> DEFINE p == into[I]
<1>1. p \in DOMAIN graph /\ p \notin DOMAIN into /\ I \in DOMAIN graph
  BY DEF IsMerge
<1>2. /\ \A X, u : u \in PartOf(trash, X) => u \in PartOf(trash \cup {I}, X)
      /\ I \in PartOf(trash \cup {I}, p)
      /\ \A X, u : u \in PartOf(trash \cup {I}, X) /\ u \notin PartOf(trash, X)
                     => X = p /\ u = I
  BY DEF PartOf
<1>3. PartOf(trash, I) = {I}
  BY DEF PartOf, IsMerge
<1>4. \A X \in DOMAIN graph : PartOf(trash, X) \subseteq DOMAIN graph
  BY DEF PartOf, IsMerge
<1>5. \A u, w \in DOMAIN graph : w \in graph[u] <=> u \in graph[w]
  BY DEF IsGraph
<1>6. I \notin graph[I]
  BY <1>1 DEF IsGraph
<1>7. ASSUME Linked(trash \cup {I}, J, K)
      PROVE  \/ Linked(trash, J, K)
             \/ J = into[I] /\ Linked(trash, I, K)
             \/ K = into[I] /\ Linked(trash, I, J)
  <2>1. PICK u \in PartOf(trash \cup {I}, J), w \in PartOf(trash \cup {I}, K) : w \in graph[u]
    BY <1>7 DEF Linked
  <2>2. CASE u \in PartOf(trash, J) /\ w \in PartOf(trash, K)
    BY <2>1, <2>2 DEF Linked
  <2>3. CASE u \notin PartOf(trash, J)
    <3>1. J = p /\ u = I
      BY <1>2, <2>1, <2>3
    <3>2. w \in PartOf(trash, K)
      <4>1. w # I
        BY <1>6, <2>1, <3>1
      <4> QED
        BY <1>2, <2>1, <4>1
    <3> QED
      BY <1>3, <2>1, <3>1, <3>2 DEF Linked
  <2>4. CASE u \in PartOf(trash, J) /\ w \notin PartOf(trash, K)
    <3>1. K = p /\ w = I
      BY <1>2, <2>1, <2>4
    <3>2. u \in graph[I]
      BY <1>1, <1>4, <1>5, <2>1, <2>4, <3>1
    <3> QED
      BY <1>3, <2>4, <3>1, <3>2 DEF Linked
  <2> QED
    BY <2>2, <2>3, <2>4
<1>8. ASSUME Linked(trash, J, K)
      PROVE  Linked(trash \cup {I}, J, K)
  BY <1>2, <1>8 DEF Linked
<1>9. ASSUME J = p, Linked(trash, I, K)
      PROVE  Linked(trash \cup {I}, J, K)
  BY <1>2, <1>3, <1>9 DEF Linked
<1>10. ASSUME K = p, Linked(trash, I, J)
       PROVE  Linked(trash \cup {I}, J, K)
  <2>1. PICK w \in PartOf(trash, J) : w \in graph[I]
    BY <1>3, <1>10 DEF Linked
  <2>2. I \in graph[w]
    BY <1>1, <1>4, <1>5, <2>1
  <2> QED
    BY <1>2, <1>10, <2>1, <2>2 DEF Linked
<1> QED
  BY <1>7, <1>8, <1>9, <1>10

\* Each merge extends the half-merged graph by one vertex, whichever it is, and the
\* final erasure turns the fully merged graph into the quotient.
LEMMA CoalescingSteps == CoalesceInv /\ [CoalesceNext]_coVars => CoalesceInv'
<1> SUFFICES ASSUME CoalesceInv, [CoalesceNext]_coVars
             PROVE  CoalesceInv'
  OBVIOUS
<1>1. ASSUME NEW I \in DOMAIN into, Merge(I)
      PROVE  CoalesceInv'
  <2>1. /\ I \notin trash
        /\ inter_graph' = Merged(inter_graph, I, into[I])
        /\ trash' = trash \cup {I}
        /\ graph' = graph /\ into' = into
    BY <1>1 DEF Merge
  <2>2. HalfWay
    BY <2>1 DEF CoalesceInv, Finished
  <2>3. IsGraph(graph) /\ IsMerge(graph, into) /\ trash \subseteq DOMAIN into
    BY DEF CoalesceInv
  <2>4. I \in DOMAIN graph
    BY <2>3 DEF IsMerge
  <2>5. DOMAIN inter_graph' = DOMAIN graph
    BY <2>1, <2>2 DEF Merged, HalfWay
  <2>6. ASSUME NEW J \in DOMAIN graph
        PROVE  inter_graph'[J] = {K \in DOMAIN graph : Linked(trash \cup {I}, J, K)}
    <3>1. inter_graph'[J] = inter_graph[J]
              \cup (IF J = into[I] THEN inter_graph[I] ELSE {})
              \cup (IF J \in inter_graph[I] THEN {into[I]} ELSE {})
      BY <2>1, <2>2 DEF Merged, HalfWay
    <3>2. \A K \in DOMAIN graph : K \in inter_graph[J] <=> Linked(trash, J, K)
      BY <2>2 DEF HalfWay
    <3>3. \A K \in DOMAIN graph : K \in inter_graph[I] <=> Linked(trash, I, K)
      BY <2>2, <2>4 DEF HalfWay
    <3>4. inter_graph[I] \subseteq DOMAIN graph /\ inter_graph[J] \subseteq DOMAIN graph
      BY <2>2, <2>4 DEF HalfWay
    <3>5. into[I] \in DOMAIN graph
      BY <2>3 DEF IsMerge
    <3>6. inter_graph'[J] \subseteq DOMAIN graph
      BY <3>1, <3>4, <3>5
    <3>7. ASSUME NEW K \in DOMAIN graph
          PROVE  K \in inter_graph'[J] <=> Linked(trash \cup {I}, J, K)
      <4>1. K \in inter_graph'[J] <=> \/ Linked(trash, J, K)
                                      \/ J = into[I] /\ Linked(trash, I, K)
                                      \/ K = into[I] /\ Linked(trash, I, J)
        BY <3>1, <3>2, <3>3
      <4> QED
        BY <2>1, <2>3, <4>1, MergingLinks
    <3> QED
      BY <3>6, <3>7
  <2>7. HalfWay'
    <3>1. inter_graph' = [J \in DOMAIN graph |-> {K \in DOMAIN graph : Linked(trash \cup {I}, J, K)}]
      BY <2>1, <2>5, <2>6 DEF Merged
    <3> QED
      BY <2>1, <3>1 DEF HalfWay, Linked, PartOf
  <2>8. IsGraph(graph)' /\ IsMerge(graph, into)' /\ (trash \subseteq DOMAIN into)'
    BY <2>1, <2>3 DEF IsGraph, IsMerge
  <2> QED
    BY <2>7, <2>8 DEF CoalesceInv
<1>2. CASE Erase
  <2>1. /\ trash = DOMAIN into /\ DOMAIN into # {}
        /\ DOMAIN into \cap DOMAIN inter_graph # {}
        /\ inter_graph' = Erased(inter_graph, trash)
        /\ trash' = trash /\ graph' = graph /\ into' = into
    BY <1>2 DEF Erase
  <2>2. HalfWay
    BY <2>1 DEF CoalesceInv, Finished, Quotient
  <2>3. inter_graph' = [J \in DOMAIN graph \ DOMAIN into |->
                          {K \in DOMAIN graph : Linked(trash, J, K)} \ (DOMAIN into \cup {J})]
    BY <2>1, <2>2 DEF Erased, HalfWay
  <2>4. ASSUME NEW J \in DOMAIN graph \ DOMAIN into
        PROVE  {K \in DOMAIN graph : Linked(trash, J, K)} \ (DOMAIN into \cup {J})
                 = {K \in DOMAIN graph \ (DOMAIN into \cup {J}) :
                      \E u \in Class(into, J) : graph[u] \cap Class(into, K) # {}}
    BY <2>1 DEF Linked, PartOf, Class
  <2>5. inter_graph' = Quotient(graph, into)
    BY <2>3, <2>4 DEF Quotient
  <2>6. IsGraph(graph)' /\ IsMerge(graph, into)' /\ (trash \subseteq DOMAIN into)'
    BY <2>1 DEF CoalesceInv, IsGraph, IsMerge
  <2>7. Quotient(graph, into)' = Quotient(graph, into)
    BY <2>1 DEF Quotient, Class
  <2>8. Finished'
    BY <2>1, <2>5, <2>7 DEF Finished
  <2> QED
    BY <2>6, <2>8 DEF CoalesceInv
<1>3. CASE UNCHANGED coVars
  BY <1>3 DEF coVars, CoalesceInv, IsGraph, IsMerge, HalfWay, Finished, Linked, PartOf, Quotient, Class
<1> QED
  BY <1>1, <1>2, <1>3 DEF CoalesceNext

\* With every merge made and the merged vertices gone, or nothing to merge, the graph is
\* the one the allocator goes on with.
Handed == IF DOMAIN into = {} THEN graph ELSE Quotient(graph, into)

\* When coalescing has ended its graph is the one that is ordered.
LEMMA MergedIsHanded ==
  ASSUME CoalesceInv, trash = DOMAIN into, DOMAIN into \cap DOMAIN inter_graph = {}
  PROVE  inter_graph = Handed
<1>1. CASE DOMAIN into = {}
  <2>1. HalfWay
    BY <1>1 DEF CoalesceInv, Finished
  <2>2. \A J : PartOf(trash, J) = {J}
    BY <1>1 DEF PartOf
  <2> QED
    BY <1>1, <2>1, <2>2 DEF HalfWay, Linked, Handed, CoalesceInv, IsGraph
<1>2. CASE DOMAIN into # {}
  <2>1. ~HalfWay
    BY <1>2 DEF HalfWay, CoalesceInv, IsMerge
  <2> QED
    BY <1>2, <2>1 DEF CoalesceInv, Finished, Handed
<1> QED
  BY <1>1, <1>2

\* Once the merged vertices are gone the graph is the quotient.
LEMMA MergedIsQuotient == CoalesceInv => IsQuotient
<1> SUFFICES ASSUME CoalesceInv, DOMAIN into \cap DOMAIN inter_graph = {}, DOMAIN into # {}
             PROVE  inter_graph = Quotient(graph, into)
  BY DEF IsQuotient
<1>1. ~HalfWay
  BY DEF HalfWay, CoalesceInv, IsMerge
<1> QED
  BY <1>1 DEF CoalesceInv, Finished

-----------------------------------------------------------------------------
\* In every behaviour the half-merged graph is what later merges take it for.
THEOREM CoalesceInvHolds == CoalesceSpec => []CoalesceInv
<1>1. CoalesceInit => CoalesceInv
  BY CoalescingStarts
<1>2. CoalesceInv /\ [CoalesceNext]_coVars => CoalesceInv'
  BY CoalescingSteps
<1> QED
  BY <1>1, <1>2, PTL DEF CoalesceSpec

\* The order in which std::map visits the vertices -- that of their addresses in the
\* compiler's memory -- has no influence on the coalesced graph.
THEOREM OrderDoesNotMatter == CoalesceSpec => []IsQuotient
<1> QED
  BY MergedIsQuotient, CoalesceInvHolds, PTL

-----------------------------------------------------------------------------
\* What is handed over.

\* Merging vertices of a graph gives a graph.
LEMMA QuotientIsGraph ==
  ASSUME NEW g, IsGraph(g), NEW m, IsMerge(g, m)
  PROVE  /\ IsGraph(Quotient(g, m))
         /\ DOMAIN Quotient(g, m) = DOMAIN g \ DOMAIN m
<1> DEFINE q == Quotient(g, m)
<1>1. /\ DOMAIN q = DOMAIN g \ DOMAIN m
      /\ \A I, J \in DOMAIN q : J \in q[I] <=>
           J # I /\ \E u \in Class(m, I) : g[u] \cap Class(m, J) # {}
      /\ q \in [DOMAIN q -> SUBSET DOMAIN q]
  BY DEF Quotient
<1> HIDE DEF q
<1>2. \A I \in DOMAIN q : Class(m, I) \subseteq DOMAIN g
  BY <1>1 DEF Class, IsMerge
<1>3. ASSUME NEW I \in DOMAIN q, NEW J \in DOMAIN q, J \in q[I]
      PROVE  I \in q[J]
  <2>1. PICK u \in Class(m, I) : g[u] \cap Class(m, J) # {}
    BY <1>1, <1>3
  <2>2. PICK w \in Class(m, J) : w \in g[u]
    BY <2>1
  <2>3. u \in g[w]
    BY <1>2, <1>3, <2>1, <2>2 DEF IsGraph
  <2> QED
    BY <1>1, <1>3, <2>1, <2>2, <2>3
<1>4. IsGraph(q)
  BY <1>1, <1>3 DEF IsGraph
<1> QED
  BY <1>1, <1>4 DEF q

\* std::reverse keeps the entries and brings in no repetition.
LEMMA ReverseKeepsEntries ==
  ASSUME NEW S, NEW s \in Seq(S)
  PROVE  /\ Reverse(s) \in Seq(S) /\ Len(Reverse(s)) = Len(s)
         /\ Entries(Reverse(s)) = Entries(s)
         /\ NoRepeats(s) => NoRepeats(Reverse(s))
<1> DEFINE t == Reverse(s)
<1>1. /\ Len(s) \in Nat /\ \A i \in 1..Len(s) : s[i] \in S
      /\ t = [i \in 1..Len(s) |-> s[(Len(s) - i) + 1]]
  BY DEF Reverse
<1>2. \A i \in 1..Len(s) : (Len(s) - i) + 1 \in 1..Len(s)
  BY <1>1
<1>3. t \in Seq(S) /\ Len(t) = Len(s)
  <2>1. t \in [1..Len(s) -> S]
    BY <1>1, <1>2
  <2> QED
    BY <1>1, <2>1
<1>4. \A i \in 1..Len(s) : t[i] = s[(Len(s) - i) + 1] /\ t[(Len(s) - i) + 1] = s[i]
  BY <1>1, <1>2
<1> HIDE DEF t
<1>5. Entries(t) = Entries(s)
  <2> SUFFICES ASSUME NEW e
               PROVE  e \in Entries(t) <=> e \in Entries(s)
    OBVIOUS
  <2>1. ASSUME e \in Entries(t)
        PROVE  e \in Entries(s)
    <3>1. PICK i \in 1..Len(s) : e = t[i]
      BY <1>3, <2>1 DEF Entries
    <3> QED
      BY <1>2, <1>4, <3>1 DEF Entries
  <2>2. ASSUME e \in Entries(s)
        PROVE  e \in Entries(t)
    <3>1. PICK i \in 1..Len(s) : e = s[i]
      BY <2>2 DEF Entries
    <3> QED
      BY <1>2, <1>3, <1>4, <3>1 DEF Entries
  <2> QED
    BY <2>1, <2>2
<1>6. ASSUME NoRepeats(s)
      PROVE  NoRepeats(t)
  <2> SUFFICES ASSUME NEW i \in 1..Len(s), NEW j \in 1..Len(s), t[i] = t[j]
               PROVE  i = j
    BY <1>3 DEF NoRepeats
  <2>1. (Len(s) - i) + 1 = (Len(s) - j) + 1
    BY <1>2, <1>4, <1>6 DEF NoRepeats
  <2> QED
    BY <1>1, <2>1
<1> QED
  BY <1>3, <1>5, <1>6 DEF t
-----------------------------------------------------------------------------
\* The inductive invariant: in each phase the invariant of the algorithm at work, on the
\* graph it was handed, while the others have not begun, or have ended.

Interfering ==
  /\ IsInput(graph, inst2num) /\ IsMerge(graph, into)
  /\ bank \in [Inst -> {"general", "vector", "none"}]

NothingOrdered ==
  adj = NoColors /\ Q = <<>> /\ visit = {} /\ rest = {} /\ size = 0 /\ order = <<>>

AllListed ==
  /\ Vertices = DOMAIN inter_graph /\ Entries(order) = Vertices /\ NoRepeats(order)
  /\ Q = <<>> /\ visit = Vertices /\ rest = {}

WhileCoalescing == phase = "coalesce" /\ CoalesceInv /\ NothingOrdered /\ StartColoring

WhileOrdering == phase = "order" /\ inter_graph = Handed /\ OrderInv /\ StartColoring

WhileColoring ==
  /\ phase = "color" /\ inter_graph = Handed /\ AllListed
  /\ ColorInv /\ OptimalOnPerfectOrder /\ PassedAreColored

PhaseInv == Interfering /\ (WhileCoalescing \/ WhileOrdering \/ WhileColoring)

\* What PerfectEliminationOrdering is handed is again an input for it.
LEMMA HandedIsInput ==
  ASSUME Interfering
  PROVE  IsInput(Handed, inst2num) /\ DOMAIN Handed = DOMAIN graph \ DOMAIN into
<1>1. /\ IsGraph(graph) /\ IsFiniteSet(DOMAIN graph) /\ IsMerge(graph, into)
      /\ \A I \in DOMAIN graph : inst2num[I] \in Nat
      /\ \A I, J \in DOMAIN graph : inst2num[I] = inst2num[J] => I = J
  BY DEF Interfering, IsInput
<1>2. IsGraph(Handed) /\ DOMAIN Handed = DOMAIN graph \ DOMAIN into
  BY <1>1, QuotientIsGraph DEF Handed
<1>3. IsFiniteSet(DOMAIN Handed)
  BY <1>1, <1>2, FS_Subset
<1> QED
  BY <1>1, <1>2, <1>3 DEF IsInput

\* Merges and numbers, graph and banks stay what the caller passed.
LEMMA InputsStay ==
  ASSUME Interfering, [ColoringNext]_icVars
  PROVE  /\ UNCHANGED <<graph, into, inst2num, bank>>
         /\ Interfering'
<1>1. UNCHANGED <<graph, into, inst2num, bank>>
  BY DEF ColoringNext, icVars, coVars, eoVars, gcVars, inputVars, Coalesce, CoalesceNext, Merge,
         Erase, OrderCoalesced, OrderVertices, OrderNext, Pick, Dequeue, Relax, ReverseOrder,
         ColorVertices, ColorNext, ColorGeneral, ColorVector, ColorNone
<1> QED
  BY <1>1 DEF Interfering

\* Before the first merge nothing has been ordered or coloured.
LEMMA PhasesStart == ColoringInit => PhaseInv
<1> SUFFICES ASSUME ColoringInit
             PROVE  PhaseInv
  OBVIOUS
<1>1. Interfering /\ phase = "coalesce" /\ NothingOrdered /\ StartColoring
  BY DEF ColoringInit, StartGraph, Interfering, NothingOrdered
<1>2. CoalesceInit
  BY DEF ColoringInit, StartGraph, CoalesceInit, IsInput
<1> QED
  BY <1>1, <1>2, CoalescingStarts DEF PhaseInv, WhileCoalescing

-----------------------------------------------------------------------------
\* One lemma per phase.

\* Merging goes on, or the merged graph is handed to PerfectEliminationOrdering.
LEMMA CoalescingPhase ==
  ASSUME Interfering, WhileCoalescing, [ColoringNext]_icVars
  PROVE  WhileCoalescing' \/ WhileOrdering'
<1>1. phase = "coalesce" /\ CoalesceInv /\ NothingOrdered /\ StartColoring
  BY DEF WhileCoalescing
<1>2. UNCHANGED <<graph, into, inst2num, bank>>
  BY InputsStay
<1>3. CASE Coalesce \/ UNCHANGED icVars
  <2>1. [CoalesceNext]_coVars
    BY <1>3 DEF Coalesce, icVars
  <2>2. CoalesceInv'
    BY <1>1, <2>1, CoalescingSteps
  <2>3. UNCHANGED <<phase, adj, Q, visit, rest, size, order, colorVars>>
    BY <1>3 DEF Coalesce, icVars, eoVars, gcVars
  <2> QED
    BY <1>1, <2>2, <2>3 DEF WhileCoalescing, NothingOrdered, StartColoring, colorVars
<1>4. CASE OrderCoalesced
  <2>1. /\ phase' = "order" /\ adj' = inter_graph /\ C' = InitialCounts(inter_graph)
        /\ trash = DOMAIN into /\ DOMAIN into \cap DOMAIN inter_graph = {}
        /\ UNCHANGED <<graph, into, inter_graph, trash, inst2num, Q, visit, rest, size, order,
                       bank, next, general_reg_color, vector_reg_color,
                       general_num_colors, vector_num_colors>>
    BY <1>4 DEF OrderCoalesced, coVars, colorVars
  <2>2. inter_graph = Handed
    BY <1>1, <2>1, MergedIsHanded
  <2>3. IsInput(inter_graph, inst2num)
    BY <2>2, HandedIsInput
  <2>4. OrderInit'
    BY <1>1, <2>1, <2>3 DEF OrderInit, StartOrder, NothingOrdered
  <2>5. OrderInit' => OrderInv'
    BY OrderingStarts, PTL
  <2>6. StartColoring'
    BY <1>1, <2>1 DEF StartColoring
  <2>7. inter_graph' = Handed'
    BY <2>1, <2>2 DEF Handed
  <2> QED
    BY <2>1, <2>4, <2>5, <2>6, <2>7 DEF WhileOrdering
<1>5. ~OrderVertices /\ ~ReverseOrder /\ ~ColorVertices
  BY <1>1 DEF OrderVertices, ReverseOrder, ColorVertices
<1> QED
  BY <1>3, <1>4, <1>5 DEF ColoringNext

\* Once the order is as long as the graph has vertices it lists them all.
LEMMA OrderedListsAll ==
  ASSUME OrderInv, Ordered
  PROVE  AllListed
<1>1. /\ IsFiniteSet(Vertices) /\ order \in Seq(Vertices) /\ Q \in Seq(Vertices)
      /\ visit \subseteq Vertices /\ DOMAIN inter_graph = Vertices
      /\ Len(order) = Cardinality(Vertices) /\ rest = {}
  BY DEF OrderInv, OrderTypeOK, Ordered
<1>2. /\ NoRepeats(order) /\ Entries(order) \cap Entries(Q) = {}
      /\ visit = Entries(order) \cup Entries(Q)
  BY Distinct DEF OrderInv
<1>3. Entries(order) \in SUBSET Vertices
  BY <1>1 DEF Entries
<1>4. Cardinality(Entries(order)) = Cardinality(Vertices)
  BY <1>1, <1>2, LengthIsNumberOfEntries
<1>5. Entries(order) = Vertices
  BY <1>1, <1>3, <1>4, FS_Subset
<1>6. Entries(Q) = {} /\ visit = Vertices
  BY <1>1, <1>2, <1>5
<1>7. Q = <<>>
  <2> SUFFICES ASSUME Q # <<>>
               PROVE  FALSE
    OBVIOUS
  <2>1. 1 \in 1..Len(Q)
    BY <1>1, EmptySeq
  <2> QED
    BY <1>6, <2>1 DEF Entries
<1> QED
  BY <1>1, <1>2, <1>5, <1>6, <1>7 DEF AllListed

\* Ordering goes on, or the reversed order is handed to GreedyColoring.
LEMMA OrderingPhase ==
  ASSUME Interfering, WhileOrdering, [ColoringNext]_icVars
  PROVE  WhileOrdering' \/ WhileColoring'
<1>1. phase = "order" /\ inter_graph = Handed /\ OrderInv /\ StartColoring
  BY DEF WhileOrdering
<1>2. UNCHANGED <<graph, into, inst2num, bank>>
  BY InputsStay
<1>3. CASE OrderVertices \/ UNCHANGED icVars
  <2>1. [OrderNext]_eoVars
    BY <1>3 DEF OrderVertices, icVars
  <2>2. OrderInv'
    BY <1>1, <2>1, OrderingSteps
  <2>3. UNCHANGED <<phase, inter_graph, colorVars>>
    BY <1>3 DEF OrderVertices, OrderNext, Pick, Dequeue, Relax, icVars, coVars, gcVars
  <2>4. inter_graph' = Handed'
    BY <1>1, <1>2, <2>3 DEF Handed
  <2> QED
    BY <1>1, <2>2, <2>3, <2>4 DEF WhileOrdering, StartColoring, colorVars
<1>4. CASE ReverseOrder
  <2>1. /\ Ordered /\ phase' = "color" /\ order' = Reverse(order)
        /\ UNCHANGED <<graph, into, inter_graph, trash, inst2num, adj, C, Q, visit, rest, size,
                       bank, next, general_reg_color, vector_reg_color,
                       general_num_colors, vector_num_colors>>
    BY <1>4 DEF ReverseOrder, coVars, colorVars
  <2>2. AllListed /\ order \in Seq(Vertices)
    BY <1>1, <2>1, OrderedListsAll DEF OrderInv, OrderTypeOK
  <2>3. order' \in Seq(Vertices) /\ Entries(order') = Entries(order) /\ NoRepeats(order')
    BY <2>1, <2>2, ReverseKeepsEntries DEF AllListed
  <2>4. AllListed'
    BY <2>1, <2>2, <2>3 DEF AllListed, Vertices
  <2>5. inter_graph' = Handed'
    BY <1>1, <2>1 DEF Handed
  <2>6. /\ IsGraph(inter_graph) /\ DOMAIN inter_graph = Vertices
        /\ \A I \in DOMAIN inter_graph : IsFiniteSet(inter_graph[I])
    <3>1. IsGraph(inter_graph) /\ DOMAIN inter_graph = Vertices /\ IsFiniteSet(Vertices)
      BY <1>1 DEF OrderInv, OrderTypeOK
    <3>2. \A I \in DOMAIN inter_graph : inter_graph[I] \in SUBSET Vertices
      BY <3>1 DEF IsGraph
    <3> QED
      BY <3>1, <3>2, FS_Subset
  <2>7. Inputs'
    BY <2>1, <2>3, <2>6 DEF Inputs, NoRepeats, Interfering
  <2>8. StartColoring'
    BY <1>1, <2>1 DEF StartColoring
  <2>9. ColorInv'
    <3>1. ColorInit' => ColorInv'
      BY ColoringStarts, PTL
    <3> QED
      BY <2>7, <2>8, <3>1 DEF ColorInit
  <2>10. OptimalOnPerfectOrder' /\ PassedAreColored'
    BY <2>8 DEF StartColoring, NoColors, OptimalOnPerfectOrder, PassedAreColored
  <2> QED
    BY <2>1, <2>4, <2>5, <2>9, <2>10 DEF WhileColoring
<1>5. ~Coalesce /\ ~OrderCoalesced /\ ~ColorVertices
  BY <1>1 DEF Coalesce, OrderCoalesced, ColorVertices
<1> QED
  BY <1>3, <1>4, <1>5 DEF ColoringNext

\* Colouring goes on.
LEMMA ColoringPhase ==
  ASSUME Interfering, WhileColoring, [ColoringNext]_icVars
  PROVE  WhileColoring'
<1>1. /\ phase = "color" /\ inter_graph = Handed /\ AllListed
      /\ ColorInv /\ OptimalOnPerfectOrder /\ PassedAreColored
  BY DEF WhileColoring
<1>2. UNCHANGED <<graph, into, inst2num, bank>>
  BY InputsStay
<1>3. ColorVertices \/ UNCHANGED icVars
  BY <1>1 DEF ColoringNext, Coalesce, OrderCoalesced, OrderVertices, ReverseOrder
<1>4. [ColorNext]_gcVars
  BY <1>3 DEF ColorVertices, icVars
<1>5. ColorInv' /\ OptimalOnPerfectOrder' /\ PassedAreColored'
  BY <1>1, <1>4, ColoringSteps, StaysOptimal, PassingColors
<1>6. UNCHANGED <<phase, inter_graph, order, adj, Q, visit, rest>>
  BY <1>3 DEF ColorVertices, ColorNext, ColorGeneral, ColorVector, ColorNone, inputVars,
              icVars, eoVars, coVars, gcVars
<1>7. inter_graph' = Handed'
  BY <1>1, <1>2, <1>6 DEF Handed
<1>8. AllListed'
  BY <1>1, <1>6 DEF AllListed, Vertices, Entries, NoRepeats
<1> QED
  BY <1>1, <1>5, <1>6, <1>7, <1>8 DEF WhileColoring

\* No step of any phase breaks the invariant.
LEMMA PhasesStep == PhaseInv /\ [ColoringNext]_icVars => PhaseInv'
<1> SUFFICES ASSUME PhaseInv, [ColoringNext]_icVars
             PROVE  PhaseInv'
  OBVIOUS
<1>1. Interfering /\ Interfering'
  BY InputsStay DEF PhaseInv
<1> QED
  BY <1>1, CoalescingPhase, OrderingPhase, ColoringPhase DEF PhaseInv

-----------------------------------------------------------------------------
\* Theorems.

\* Each algorithm works on what the one before hands it.
THEOREM PhaseInvHolds == ColoringSpec => []PhaseInv
<1> QED
  BY PhasesStart, PhasesStep, PTL DEF ColoringSpec

\* Vertices that interfere, or stand for values that do, are adjacent in the merged graph,
\* and its colouring is proper.
LEMMA ColoringKeepsApart == PhaseInv => LiveValuesKeptApart
<1> SUFFICES ASSUME PhaseInv, NEW I \in Colored, NEW J \in graph[I] \cap Colored,
                    Representative(I) # Representative(J),
                    bank[Representative(I)] = bank[Representative(J)]
             PROVE  ColorOf(I) # ColorOf(J)
  BY DEF LiveValuesKeptApart
<1> DEFINE r == Representative(I)
           s == Representative(J)
<1>1. WhileColoring
  BY DEF PhaseInv, WhileCoalescing, WhileOrdering, StartColoring, NoColors, Colored
<1>2. /\ IsGraph(graph) /\ IsMerge(graph, into) /\ I \in DOMAIN graph /\ J \in DOMAIN graph
  BY DEF PhaseInv, Interfering, IsInput, Colored
<1>3. /\ ColorMap(general_reg_color, "general") /\ ColorMap(vector_reg_color, "vector")
      /\ Proper(general_reg_color) /\ Proper(vector_reg_color)
  BY <1>1 DEF WhileColoring, ColorInv, ColorTypeOK, ProperColoring
<1>4. s \in inter_graph[r]
  <2>1. inter_graph = Handed
    BY <1>1 DEF WhileColoring
  <2>2. CASE DOMAIN into = {}
    BY <2>1, <2>2 DEF Handed, Representative
  <2>3. CASE DOMAIN into # {}
    <3>1. I \in Class(into, r) /\ J \in Class(into, s)
      BY DEF Class, Representative
    <3>2. r \in DOMAIN graph \ DOMAIN into /\ s \in DOMAIN graph \ DOMAIN into
      BY <1>2 DEF Representative, IsMerge
    <3> QED
      BY <2>1, <2>3, <3>1, <3>2 DEF Handed, Quotient
  <2> QED
    BY <2>2, <2>3
<1>5. /\ r \in DOMAIN general_reg_color \cup DOMAIN vector_reg_color
      /\ s \in DOMAIN general_reg_color \cup DOMAIN vector_reg_color
  BY DEF Colored
<1> HIDE DEF r, s
<1>6. \/ r \in DOMAIN general_reg_color /\ s \in DOMAIN general_reg_color
      \/ /\ r \in DOMAIN vector_reg_color /\ s \in DOMAIN vector_reg_color
         /\ r \notin DOMAIN general_reg_color /\ s \notin DOMAIN general_reg_color
  BY <1>3, <1>5 DEF ColorMap, r, s
<1> QED
  BY <1>3, <1>4, <1>6 DEF Proper, ColorOf, r, s

\* Values that are live together get different registers unless they were merged, from
\* the interference graph to the colours, whatever was merged and in whatever order the
\* vertices were taken.
THEOREM KeptApart == ColoringSpec => []LiveValuesKeptApart
  BY ColoringKeepsApart, PhaseInvHolds, PTL

\* In the composition each algorithm still does what it promises alone: the merged graph
\* is the quotient, no vertex is listed twice, the copy and the counts are right, and the
\* colouring is proper, without gaps, and the lowest possible.
PartsAreRight ==
  /\ IsQuotient
  /\ NoVertexTwice /\ IsInducedSubgraph /\ CountsAreUpperBounds
  /\ ProperColoring /\ LowestColors /\ ColorsAreContiguous /\ OptimalOnPerfectOrder

\* The promises of the three algorithms hold in the composition.
THEOREM PartsHold == ColoringSpec => []PartsAreRight
<1>1. ASSUME PhaseInv
      PROVE  PartsAreRight
  <2>1. CASE WhileCoalescing
    <3>1. CoalesceInv /\ NothingOrdered /\ StartColoring
      BY <2>1 DEF WhileCoalescing
    <3>2. IsQuotient
      BY <3>1, MergedIsQuotient
    <3>3. Entries(<<>>) = {} /\ Vertices = {}
      BY <3>1 DEF Entries, NothingOrdered, Vertices, NoColors
    <3>4. NoVertexTwice
      BY <3>1, <3>3 DEF NothingOrdered, NoVertexTwice
    <3>5. IsInducedSubgraph /\ CountsAreUpperBounds
      BY <3>3 DEF IsInducedSubgraph, CountsAreUpperBounds
    <3> QED
      BY <3>1, <3>2, <3>4, <3>5, NothingColoredYet DEF PartsAreRight
  <2>2. CASE WhileOrdering
    <3>1. inter_graph = Handed /\ OrderInv /\ StartColoring
      BY <2>2 DEF WhileOrdering
    <3>2. NoVertexTwice /\ IsInducedSubgraph /\ CountsAreUpperBounds
      BY <3>1, InducedInOrder, CountsInOrder DEF OrderInv
    <3> QED
      BY <3>1, <3>2, NothingColoredYet DEF PartsAreRight, Handed, IsQuotient
  <2>3. CASE WhileColoring
    <3>1. inter_graph = Handed /\ AllListed /\ ColorInv /\ OptimalOnPerfectOrder
      BY <2>3 DEF WhileColoring
    <3>2. NoVertexTwice
      <4>1. Entries(Q) = {} /\ NoRepeats(Q)
        BY <3>1 DEF AllListed, Entries, NoRepeats
      <4> QED
        BY <3>1, <4>1, Distinct DEF AllListed
    <3>3. IsInducedSubgraph /\ CountsAreUpperBounds
      BY <3>1 DEF AllListed, IsInducedSubgraph, CountsAreUpperBounds
    <3> QED
      BY <3>1, <3>2, <3>3 DEF PartsAreRight, Handed, IsQuotient, ColorInv
  <2> QED
    BY <1>1, <2>1, <2>2, <2>3 DEF PhaseInv
<1> QED
  BY <1>1, PhaseInvHolds, PTL

\* The order lists every vertex of the merged graph, and the loop went through it.
LEMMA ColoringLeavesNothingOut == PhaseInv => NothingLeftOut
<1> SUFFICES ASSUME PhaseInv, phase = "color", Done,
                    NEW I \in DOMAIN graph, bank[Representative(I)] # "none"
             PROVE  I \in Colored
  BY DEF NothingLeftOut
<1> DEFINE r == Representative(I)
<1>1. WhileColoring /\ Interfering
  BY DEF PhaseInv, WhileCoalescing, WhileOrdering
<1>2. r \in DOMAIN graph \ DOMAIN into
  BY <1>1 DEF Interfering, IsMerge, Representative
<1>3. r \in DOMAIN inter_graph
  BY <1>1, <1>2, HandedIsInput DEF WhileColoring
<1>4. PICK k \in 1..Len(order) : order[k] = r
  BY <1>1, <1>3 DEF WhileColoring, AllListed, Entries
<1>5. k \in 1..(next - 1)
  BY <1>1, <1>4 DEF WhileColoring, ColorInv, ColorTypeOK, Inputs, Done
<1>6. bank[r] \in {"general", "vector"}
  <2>1. r \in Inst
    BY <1>1, <1>2 DEF Interfering, IsInput, IsGraph
  <2> QED
    BY <1>1, <2>1 DEF Interfering
<1> QED
  BY <1>1, <1>4, <1>5, <1>6 DEF WhileColoring, PassedAreColored, Colored

\* When the colouring ends every value that needs a register has one.
THEOREM EveryValueColored == ColoringSpec => []NothingLeftOut
  BY ColoringLeavesNothingOut, PhaseInvHolds, PTL

=============================================================================
