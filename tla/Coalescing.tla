------------------------------ MODULE Coalescing ----------------------------
(***************************************************************************)
(* coalesceMovInsts and coalescePHINodes of register_allocate.cpp merge    *)
(* vertices of the interference graph into a representative: a move into   *)
(* the value it copies, a phi operand into the phi.  Both loop over a      *)
(* std::map keyed by pointers, so the order of the merges is whatever the  *)
(* allocator of the compiler's own memory makes it; both drop the merged   *)
(* vertices only afterwards.                                               *)
(***************************************************************************)
EXTENDS AllocationGraph

VARIABLES
  graph,           \* the graph as it was, for the properties
  into,            \* merged vertex |-> its representative
  trash            \* the vertices merged into others so far

coVars == <<graph, into, inter_graph, trash>>

\* The graph in which each vertex stands for itself and all vertices merged into
\* it: adjacent when some of those are.
Class(m, I) == {I} \cup {J \in DOMAIN m : m[J] = I}

Quotient(g, m) ==
  [I \in DOMAIN g \ DOMAIN m |->
     {J \in DOMAIN g \ (DOMAIN m \cup {I}) :
        \E u \in Class(m, I) : g[u] \cap Class(m, J) # {}}]

\* A merged vertex is no representative: the chains of moves are followed to their
\* root, and no phi is an operand of a phi.
IsMerge(g, m) ==
  /\ DOMAIN m \subseteq DOMAIN g
  /\ \A I \in DOMAIN m : m[I] \in DOMAIN g \ DOMAIN m

\* inter_graph[p].insert(S...); for (other : S) inter_graph[other].insert(p);
MergedOneWay(g, I, p) == [g EXCEPT ![p] = @ \cup g[I]]

Merged(g, I, p) ==
  [J \in DOMAIN g |-> g[J] \cup (IF J = p THEN g[I] ELSE {})
                           \cup (IF J \in g[I] THEN {p} ELSE {})]

Merge(I) ==
  /\ I \in DOMAIN into \ trash
  /\ inter_graph' = Merged(inter_graph, I, into[I])
  /\ trash' = trash \cup {I}
  /\ UNCHANGED <<graph, into>>

\* inter_graph.erase of the trash; then for (auto &[I, S] : inter_graph) S.erase(I)
\* and S.erase of the trash.
Erased(g, gone) == [I \in DOMAIN g \ gone |-> g[I] \ (gone \cup {I})]

Erase ==
  /\ trash = DOMAIN into /\ DOMAIN into \cap DOMAIN inter_graph # {}
  /\ inter_graph' = Erased(inter_graph, trash)
  /\ UNCHANGED <<graph, into, trash>>

CoalesceNext == Erase \/ \E I \in DOMAIN into : Merge(I)

CoalesceInit == IsGraph(graph) /\ IsMerge(graph, into) /\ inter_graph = graph /\ trash = {}

CoalesceSpec == CoalesceInit /\ [][CoalesceNext]_coVars

-----------------------------------------------------------------------------
\* Properties.

\* Whatever the order of the merges, and although later merges see the results of
\* earlier ones, the outcome is the quotient graph: the merged vertices are gone,
\* a representative has the neighbours of its whole class, on both sides, and none
\* is its own neighbour even if it was merged with one.
IsQuotient ==
  DOMAIN into \cap DOMAIN inter_graph = {} /\ DOMAIN into # {} =>
    inter_graph = Quotient(graph, into)
=============================================================================
