------------------------ MODULE InterferenceColoring ------------------------
(***************************************************************************)
(* What RegisterAllocatePass::run does with an interference graph once no  *)
(* phi operand has to be copied: merge the operands of phis into the phis, *)
(* order the vertices that are left, reverse the order, and colour.  The   *)
(* graph is arbitrary here; RegisterAllocate takes those of functions.     *)
(***************************************************************************)
EXTENDS Coalescing, EliminationOrder, GreedyColoring, SequencesExt

VARIABLE phase     \* "coalesce", "order" or "color"

icVars == <<coVars, eoVars, gcVars, phase>>

NoNumbers == [I \in {} |-> 0]

\* The graph g is to be coloured, after merging the vertices in DOMAIN m.
StartGraph(g, m, num, banks) ==
  /\ phase = "coalesce"
  /\ graph = g /\ into = m /\ inter_graph = g /\ trash = {}
  /\ inst2num = num /\ bank = banks
  /\ adj = NoColors /\ C = NoNumbers /\ Q = <<>> /\ visit = {} /\ rest = {} /\ size = 0
  /\ order = <<>>
  /\ StartColoring

Coalesce ==
  /\ phase = "coalesce"
  /\ CoalesceNext
  /\ UNCHANGED <<inst2num, adj, C, Q, visit, rest, size, order, bank, colorVars, phase>>

\* PerfectEliminationOrdering(inter_graph, ...)
OrderCoalesced ==
  /\ phase = "coalesce" /\ trash = DOMAIN into /\ DOMAIN into \cap DOMAIN inter_graph = {}
  /\ phase' = "order"
  /\ adj' = inter_graph
  /\ C' = InitialCounts(inter_graph)
  /\ UNCHANGED <<coVars, inst2num, Q, visit, rest, size, order, bank, colorVars>>

OrderVertices ==
  /\ phase = "order"
  /\ OrderNext
  /\ UNCHANGED <<graph, into, trash, bank, colorVars, phase>>

\* std::reverse(order.begin(), order.end());
ReverseOrder ==
  /\ phase = "order" /\ Ordered
  /\ phase' = "color"
  /\ order' = Reverse(order)
  /\ UNCHANGED <<coVars, inst2num, adj, C, Q, visit, rest, size, bank, colorVars>>

ColorVertices ==
  /\ phase = "color"
  /\ ColorNext
  /\ UNCHANGED <<graph, into, trash, inst2num, adj, C, Q, visit, rest, size, phase>>

ColoringNext == Coalesce \/ OrderCoalesced \/ OrderVertices \/ ReverseOrder \/ ColorVertices

\* Whatever finitely many values interfere, however they are merged and numbered.
ColoringInit ==
  /\ StartGraph(graph, into, inst2num, bank)
  /\ IsInput(graph, inst2num)
  /\ IsMerge(graph, into)
  /\ bank \in [Inst -> {"general", "vector", "none"}]

ColoringSpec == ColoringInit /\ [][ColoringNext]_icVars

-----------------------------------------------------------------------------
\* Properties.

\* The vertex that stands for I, and its register colour.
Representative(I) == IF I \in DOMAIN into THEN into[I] ELSE I

ColorOf(I) ==
  LET r == Representative(I) IN
  IF r \in DOMAIN general_reg_color THEN general_reg_color[r] ELSE vector_reg_color[r]

Colored == {I \in DOMAIN graph :
              Representative(I) \in DOMAIN general_reg_color \cup DOMAIN vector_reg_color}

\* Values that are live together get different registers unless they were merged
\* into one, through coalescing, ordering and colouring.
LiveValuesKeptApart ==
  \A I \in Colored : \A J \in graph[I] \cap Colored :
    Representative(I) # Representative(J) /\ bank[Representative(I)] = bank[Representative(J)]
      => ColorOf(I) # ColorOf(J)

\* When the last loop is through, every value that needs a register has one: no vertex
\* was lost between the maps, the queue and the two orders.
NothingLeftOut ==
  phase = "color" /\ Done =>
    \A I \in DOMAIN graph : bank[Representative(I)] # "none" => I \in Colored

\* Every value that needs a register gets one: the loop
\* while (order.size() < inter_graph.size()) ends, although min_element may return a
\* visited vertex, upon which it would spin for ever, and no vertex is left out.
EventuallyColored ==
  <>[](\A I \in DOMAIN graph : bank[Representative(I)] # "none" => I \in Colored)
=============================================================================
