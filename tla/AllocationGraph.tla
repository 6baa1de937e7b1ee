--------------------------- MODULE AllocationGraph --------------------------
(***************************************************************************)
(* What the graph algorithms of register_allocate.cpp share: the           *)
(* interference graph, a std::map from instructions to sets of             *)
(* instructions, and the order in which its vertices are to be coloured.   *)
(***************************************************************************)
EXTENDS Integers, Sequences, FiniteSets

CONSTANT Inst      \* the instructions a graph may have as vertices

VARIABLES
  inter_graph,     \* the interference graph: vertex |-> set of neighbours
  order            \* the vertices, in the order they are eliminated or coloured

\* A graph is undirected and has no loops.
IsGraph(g) ==
  /\ DOMAIN g \subseteq Inst
  /\ g \in [DOMAIN g -> SUBSET DOMAIN g]
  /\ \A I \in DOMAIN g : I \notin g[I]
  /\ \A I, J \in DOMAIN g : J \in g[I] => I \in g[J]
=============================================================================
