---------------------------- MODULE GreedyColoring --------------------------
(***************************************************************************)
(* GreedyColoring of register_allocate.cpp: walk the registers in a given  *)
(* order and give each the lowest colour none of its already coloured      *)
(* neighbours has. Integers and pointers are coloured in general_reg_color,*)
(* vectors in vector_reg_color, each with colours from 1; a value of any   *)
(* other type gets none.                                                   *)
(***************************************************************************)
EXTENDS AllocationGraph

VARIABLES
  bank,            \* the register bank of an instruction's type
  next,            \* index of the loop over order
  general_reg_color, vector_reg_color,
  general_num_colors, vector_num_colors

inputVars == <<inter_graph, order, bank>>
colorVars == <<next, general_reg_color, vector_reg_color,
               general_num_colors, vector_num_colors>>
gcVars    == <<inputVars, colorVars>>

Color == Nat \ {0}

\* What the function is called with: an undirected graph without loops, an order
\* that lists its vertices at most once each, and a bank for every instruction.
Inputs ==
  /\ IsGraph(inter_graph)
  /\ \A I \in DOMAIN inter_graph : IsFiniteSet(inter_graph[I])
  /\ order \in Seq(DOMAIN inter_graph)
  /\ \A i, j \in 1..Len(order) : order[i] = order[j] => i = j
  /\ bank \in [Inst -> {"general", "vector", "none"}]

NoColors == [I \in {} |-> 1]

StartColoring ==
  /\ next = 1
  /\ general_reg_color = NoColors
  /\ vector_reg_color = NoColors
  /\ general_num_colors = 0
  /\ vector_num_colors = 0

-----------------------------------------------------------------------------

\* The colours the neighbours of I have in a colour map.
Used(color, I) == {color[J] : J \in inter_graph[I] \cap DOMAIN color}

\* int i = 1; while (used.count(i)) i++;
\* The loop stops at the latest at the first number beyond as many as are used.
AboveUsed(used) == Cardinality(used) + 1
AboveLast(used) == IF used = {} THEN 1 ELSE 1 + CHOOSE i \in used : \A j \in used : j <= i
LowestFree(used) ==
  CHOOSE i \in 1..(Cardinality(used) + 1) : i \notin used /\ 1..(i - 1) \subseteq used

\* color[I] = c
Paint(color, I, c) ==
  [J \in DOMAIN color \cup {I} |-> IF J = I THEN c ELSE color[J]]

LastColor(n, c) == c
Larger(n, c)    == IF c > n THEN c ELSE n

LastLeftOut == next >= Len(order)
Done        == next > Len(order)

ColorGeneral ==
  /\ ~Done /\ bank[order[next]] = "general"
  /\ LET I == order[next]
         i == LowestFree(Used(general_reg_color, I))
     IN  /\ general_reg_color' = Paint(general_reg_color, I, i)
         /\ general_num_colors' = Larger(general_num_colors, i)
  /\ next' = next + 1
  /\ UNCHANGED <<inputVars, vector_reg_color, vector_num_colors>>

ColorVector ==
  /\ ~Done /\ bank[order[next]] = "vector"
  /\ LET I == order[next]
         i == LowestFree(Used(vector_reg_color, I))
     IN  /\ vector_reg_color' = Paint(vector_reg_color, I, i)
         /\ vector_num_colors' = Larger(vector_num_colors, i)
  /\ next' = next + 1
  /\ UNCHANGED <<inputVars, general_reg_color, general_num_colors>>

ColorNone ==
  /\ ~Done /\ bank[order[next]] = "none"
  /\ next' = next + 1
  /\ UNCHANGED <<inputVars, general_reg_color, vector_reg_color,
                 general_num_colors, vector_num_colors>>

ColorNext == ColorGeneral \/ ColorVector \/ ColorNone

ColorInit == Inputs /\ StartColoring

ColorSpec == ColorInit /\ [][ColorNext]_gcVars

-----------------------------------------------------------------------------
\* Properties.

\* A colour map is a finite map from vertices of its bank to colours.
ColorMap(color, b) ==
  /\ DOMAIN color \subseteq {I \in DOMAIN inter_graph : bank[I] = b}
  /\ color \in [DOMAIN color -> Color]

\* The variables keep their types: each map colours vertices of its own bank only, with
\* colours from 1, and the inputs stay the graph and order the caller passed.
ColorTypeOK ==
  /\ Inputs
  /\ next \in 1..(Len(order) + 1)
  /\ ColorMap(general_reg_color, "general")
  /\ ColorMap(vector_reg_color, "vector")
  /\ general_num_colors \in Nat
  /\ vector_num_colors \in Nat

\* Coloured neighbours have different colours.
Proper(color) ==
  \A I, J \in DOMAIN color : J \in inter_graph[I] => color[I] # color[J]

\* No two values of one bank that are live together share a register, at any time.
ProperColoring == Proper(general_reg_color) /\ Proper(vector_reg_color)

\* The colours in use are exactly 1..n. The caller compares n with the number of
\* registers, so a gap would spill for nothing.
NoGaps(color, n) == {color[I] : I \in DOMAIN color} = 1..n

\* Of the numbers returned, each is exactly the number of colours in use in its bank.
ColorsAreContiguous ==
  /\ NoGaps(general_reg_color, general_num_colors)
  /\ NoGaps(vector_reg_color, vector_num_colors)

\* A colour c is only given to a vertex that has neighbours of every lower colour:
\* with fewer than n interfering registers of its bank a vertex fits in n registers.
ColorNeedsNeighbours(color) ==
  \A I \in DOMAIN color : \A c \in 1..(color[I] - 1) :
    \E J \in inter_graph[I] \cap DOMAIN color : color[J] = c

\* Both loops over i stop at the first colour no interfering value has.
LowestColors ==
  ColorNeedsNeighbours(general_reg_color) /\ ColorNeedsNeighbours(vector_reg_color)

\* Neither does the loop skip a colour, nor does the number returned count one too many.
NoColorSkipped == LowestColors /\ ColorsAreContiguous

\* An order is perfect when the earlier neighbours of each vertex are neighbours
\* of one another; its reverse is a perfect elimination order.
PerfectOrder ==
  \A i, j, k \in DOMAIN order :
    j < k /\ k < i /\ order[j] \in inter_graph[order[i]] /\ order[k] \in inter_graph[order[i]]
      => order[j] \in inter_graph[order[k]]

\* I and c - 1 vertices of its bank interfere with one another.
InClique(color, I, c) ==
  \E K \in SUBSET DOMAIN color :
    /\ I \in K /\ Cardinality(K) = c
    /\ \A J, L \in K : J # L => J \in inter_graph[L]

\* Along a perfect order no colour is wasted: the number of colours is the size
\* of some set of registers that really are live together.
OptimalOnPerfectOrder ==
  PerfectOrder =>
    /\ \A I \in DOMAIN general_reg_color : InClique(general_reg_color, I, general_reg_color[I])
    /\ \A I \in DOMAIN vector_reg_color : InClique(vector_reg_color, I, vector_reg_color[I])
=============================================================================
