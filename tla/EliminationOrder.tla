--------------------------- MODULE EliminationOrder -------------------------
(***************************************************************************)
(* PerfectEliminationOrdering of register_allocate.cpp: remove the         *)
(* vertices of (a copy of) the interference graph one by one. C[I] starts  *)
(* as the number of pairs of neighbours of I that are not adjacent and is  *)
(* kept up as vertices go; vertices with C = 0 are queued, and when the    *)
(* queue runs dry std::min_element chooses the next vertex.                *)
(***************************************************************************)
EXTENDS AllocationGraph

VARIABLES
  inst2num,        \* the vertices' numbers, by which they are compared
  adj,             \* the copy of inter_graph, passed by value and taken apart
  C, Q, visit,     \* as in the code
  rest,            \* neighbours of order's last vertex the inner loop has not done
  size             \* inter_graph[v].size() of that vertex

eoVars == <<inter_graph, inst2num, adj, C, Q, visit, order, rest, size>>

Vertices == DOMAIN adj

\* A graph of finitely many vertices, whose numbers differ.
IsInput(graph, num) ==
  /\ IsGraph(graph) /\ IsFiniteSet(DOMAIN graph)
  /\ \A I \in DOMAIN graph : num[I] \in Nat
  /\ \A I, J \in DOMAIN graph : num[I] = num[J] => I = J

\* The pairs of neighbours of I that are not neighbours of each other.
Missing(graph, I) ==
  {e \in {{J, K} : J, K \in graph[I]} : \E J, K \in e : J # K /\ K \notin graph[J]}

\* C[I] = size * (size - 1) / 2, minus the pairs of neighbours that are adjacent.
InitialCounts(graph) == [I \in DOMAIN graph |-> Cardinality(Missing(graph, I))]

StartOrder(graph, num) ==
  /\ inter_graph = graph
  /\ inst2num = num
  /\ adj = graph
  /\ C = InitialCounts(graph)
  /\ Q = <<>>
  /\ visit = {}
  /\ order = <<>>
  /\ rest = {}
  /\ size = 0

-----------------------------------------------------------------------------

Lowest(S)  == CHOOSE I \in S : \A J \in S : inst2num[I] <= inst2num[J]
Highest(S) == CHOOSE I \in S : \A J \in S : inst2num[J] <= inst2num[I]

LastUnlisted == Len(order) + 1 >= Cardinality(Vertices) /\ rest = {}
Ordered == Len(order) = Cardinality(Vertices) /\ rest = {}

\* *std::min_element(nodes.cbegin(), nodes.cend(), lambda). The lambda answers
\* `false' -- keep the current minimum -- for the first vertex it sees that is not
\* in visit, and again at every later element, since min equals that vertex's C by
\* then: the first unvisited vertex by number is returned, whatever C is.
\* (With everything visited, the last vertex is.)
AnyVertex   == Lowest(Vertices)
LowestCount == Lowest({I \in Vertices \ visit : \A J \in Vertices \ visit : C[I] <= C[J]})
MinElement ==
  IF Vertices \ visit # {} THEN Lowest(Vertices \ visit) ELSE Highest(Vertices)

\* while (order.size() < inter_graph.size()) with an empty queue
Pick ==
  /\ Q = <<>> /\ rest = {} /\ ~Ordered
  /\ MinElement \notin visit
  /\ visit' = visit \cup {MinElement}
  /\ Q' = Append(Q, MinElement)
  /\ UNCHANGED <<inter_graph, inst2num, adj, C, order, rest, size>>

\* while (!Q.empty()): the next vertex goes
Dequeue ==
  /\ Q # <<>> /\ rest = {}
  /\ order' = Append(order, Head(Q))
  /\ Q' = Tail(Q)
  /\ rest' = adj[Head(Q)]
  /\ size' = Cardinality(adj[Head(Q)])
  /\ UNCHANGED <<inter_graph, inst2num, adj, C, visit>>

\* C[w] -= inter_graph[w].size() - (size - 1): the pairs of w that lose a member,
\* if every other neighbour of the removed vertex is a neighbour of w.
Forgets(w, remaining)   == C[w] - Cardinality(remaining)
Recounted(w, remaining) == C[w] - (Cardinality(remaining) - (size - 1))

\* inter_graph[w].erase(v)
Untouched(w, v)    == adj
Without(w, v)      == [adj EXCEPT ![w] = @ \ {v}]

\* Once its count is 0 a vertex is queued, unless it has been before.
QueuedAgain(w, c)  == c = 0
BecomesReady(w, c) == c = 0 /\ w \notin visit

\* One iteration of  for (w : adj_nodes)
Relax ==
  /\ rest # {}
  /\ LET v == order[Len(order)]
         w == Lowest(rest)
         c == Recounted(w, adj[w] \ {v})
     IN  /\ adj' = Without(w, v)
         /\ C' = [C EXCEPT ![w] = c]
         /\ IF BecomesReady(w, c)
            THEN visit' = visit \cup {w} /\ Q' = Append(Q, w)
            ELSE UNCHANGED <<visit, Q>>
         /\ rest' = rest \ {w}
  /\ UNCHANGED <<inter_graph, inst2num, order, size>>

OrderNext == Pick \/ Dequeue \/ Relax

OrderInit == IsInput(inter_graph, inst2num) /\ StartOrder(inter_graph, inst2num)

OrderSpec == OrderInit /\ [][OrderNext]_eoVars

-----------------------------------------------------------------------------
\* Properties.

Entries(s) == {s[k] : k \in 1..Len(s)}

\* The variables keep their types: queue, result and visited set hold vertices of the
\* graph, and the copy taken apart keeps its neighbours among its vertices.
OrderTypeOK ==
  /\ IsFiniteSet(Vertices) /\ Vertices \subseteq Inst
  /\ \A I \in Vertices : inst2num[I] \in Nat
  /\ adj \in [Vertices -> SUBSET Vertices]
  /\ C \in [Vertices -> Int]
  /\ Q \in Seq(Vertices) /\ order \in Seq(Vertices)
  /\ visit \subseteq Vertices /\ rest \subseteq Vertices
  /\ size \in Nat

\* A vertex is queued at most once and listed at most once, and visit records
\* exactly the vertices queued or listed.
NoVertexTwice ==
  /\ \A i, j \in 1..Len(order) : order[i] = order[j] => i = j
  /\ \A i, j \in 1..Len(Q) : Q[i] = Q[j] => i = j
  /\ Entries(order) \cap Entries(Q) = {}
  /\ visit = Entries(order) \cup Entries(Q)

\* C never falls below the number of pairs that are really missing, even after
\* a vertex was removed whose neighbours are not all adjacent, so C[w] = 0 does
\* mean that w's remaining neighbours form a clique.
CountsAreUpperBounds ==
  rest = {} =>
    \A I \in Vertices \ Entries(order) : C[I] >= Cardinality(Missing(adj, I))

\* The one-sided updates of the copy keep it the part of the caller's graph that the
\* remaining vertices span, which the arithmetic on C takes for granted.
IsInducedSubgraph ==
  rest = {} =>
    \A I \in Vertices \ Entries(order) : adj[I] = inter_graph[I] \ Entries(order)
=============================================================================
