------------------------- MODULE GreedyColoringProofs -----------------------
(***************************************************************************)
(* Greedy colouring is correct for every interference graph, every order   *)
(* and every assignment of banks.                                          *)
(***************************************************************************)
EXTENDS GreedyColoring, TLAPS, FiniteSetTheorems, WellFoundedInduction

-----------------------------------------------------------------------------
\* The loop that looks for a colour.

\* while (used.count(i)) i++ ends with the least colour that is not used, and that is
\* at most one more than the number of colours used.
LEMMA LowestFreeIsFree ==
  ASSUME NEW used \in SUBSET Color, IsFiniteSet(used)
  PROVE  /\ LowestFree(used) \in 1..(Cardinality(used) + 1)
         /\ LowestFree(used) \notin used
         /\ 1..(LowestFree(used) - 1) \subseteq used
<1> DEFINE n == Cardinality(used)
           free == (1..(n + 1)) \ used
<1>1. n \in Nat
  BY FS_CardinalityType
<1>2. free # {}
  <2> SUFFICES ASSUME 1..(n + 1) \subseteq used
               PROVE  FALSE
    OBVIOUS
  <2>1. Cardinality(1..(n + 1)) <= n
    BY FS_Subset
  <2>2. Cardinality(1..(n + 1)) = n + 1
    BY <1>1, FS_Interval
  <2> QED
    BY <1>1, <2>1, <2>2
<1>3. PICK i \in free : \A m \in free : i <= m
  <2>1. free \in SUBSET Nat
    BY <1>1
  <2> DEFINE below == OpToRel(<, Nat)
  <2>2. \A m, i \in Nat : m < i => <<m, i>> \in below
    BY DEF OpToRel
  <2>3. IsWellFoundedOn(below, Nat)
    BY NatLessThanWellFounded
  <2> HIDE DEF below
  <2>4. PICK i \in free : \A m \in free : ~(<<m, i>> \in below)
    BY <1>2, <2>1, <2>3, WFMin
  <2>5. ASSUME NEW m \in free PROVE i <= m
    <3>1. m \in Nat /\ i \in Nat
      BY <1>2, <2>1
    <3>2. ~(m < i)
      BY <2>2, <2>4, <3>1, Zenon
    <3> QED
      BY <3>1, <3>2
  <2> QED
    BY <2>4, <2>5
<1>4. i \in 1..(n + 1) /\ i \notin used
  BY <1>3
<1>5. 1..(i - 1) \subseteq used
  BY <1>1, <1>3, <1>4
<1>6. \E j \in 1..(n + 1) : j \notin used /\ 1..(j - 1) \subseteq used
  BY <1>4, <1>5
<1> QED
  BY <1>6 DEF LowestFree

-----------------------------------------------------------------------------
\* Giving one vertex its colour, in either bank.

\* Finitely many neighbours use finitely many colours.
LEMMA UsedIsFinite ==
  ASSUME Inputs, NEW I \in DOMAIN inter_graph,
         NEW color, color \in [DOMAIN color -> Color]
  PROVE  IsFiniteSet(Used(color, I)) /\ Used(color, I) \in SUBSET Color
<1> DEFINE near == inter_graph[I] \cap DOMAIN color
           f == [J \in near |-> color[J]]
<1>1. IsFiniteSet(near)
  <2>1. IsFiniteSet(inter_graph[I])
    BY DEF Inputs, IsGraph
  <2> QED
    BY <2>1, FS_Subset
<1>2. f \in Surjection(near, Used(color, I))
  BY DEF Surjection, Used
<1>3. IsFiniteSet(Used(color, I))
  BY <1>1, <1>2, FS_Surjection
<1>4. Used(color, I) \in SUBSET Color
  BY DEF Used
<1> QED
  BY <1>3, <1>4

\* Painting an uncoloured vertex with the lowest free colour keeps the map a proper
\* colouring in which every colour is needed, and its colours free of gaps.
LEMMA PaintingIsSafe ==
  ASSUME Inputs, NEW b,
         NEW color, ColorMap(color, b), Proper(color), ColorNeedsNeighbours(color),
         NEW n \in Nat, NoGaps(color, n),
         NEW I \in DOMAIN inter_graph, I \notin DOMAIN color, bank[I] = b,
         NEW c, c = LowestFree(Used(color, I))
  PROVE  /\ c \in Color
         /\ ColorMap(Paint(color, I, c), b)
         /\ Proper(Paint(color, I, c))
         /\ ColorNeedsNeighbours(Paint(color, I, c))
         /\ Larger(n, c) \in Nat
         /\ NoGaps(Paint(color, I, c), Larger(n, c))
<1> DEFINE used == Used(color, I)
           painted == Paint(color, I, c)
<1>1. color \in [DOMAIN color -> Color] /\ DOMAIN color \subseteq DOMAIN inter_graph
  BY DEF ColorMap
<1>2. IsFiniteSet(used) /\ used \in SUBSET Color
  BY <1>1, UsedIsFinite
<1>3. c \in Color /\ c \notin used /\ 1..(c - 1) \subseteq used
  <2>1. /\ c \in 1..(Cardinality(used) + 1) /\ c \notin used /\ 1..(c - 1) \subseteq used
    BY <1>2, LowestFreeIsFree
  <2>2. Cardinality(used) \in Nat
    BY <1>2, FS_CardinalityType
  <2> QED
    BY <2>1, <2>2 DEF Color
<1>4. /\ DOMAIN painted = DOMAIN color \cup {I}
      /\ painted[I] = c
      /\ \A J \in DOMAIN color : painted[J] = color[J]
  BY DEF Paint
<1>5. ColorMap(painted, b)
  <2>1. painted \in [DOMAIN color \cup {I} -> Color]
    BY <1>1, <1>3 DEF Paint
  <2> QED
    BY <1>4, <2>1 DEF ColorMap
<1>6. Proper(painted)
  <2> SUFFICES ASSUME NEW J \in DOMAIN painted, NEW K \in DOMAIN painted,
                      K \in inter_graph[J]
               PROVE  painted[J] # painted[K]
    BY DEF Proper
  <2>1. J \in inter_graph[K] /\ J # K
    BY <1>1, <1>4 DEF Inputs, IsGraph
  <2>2. CASE J = I
    BY <1>3, <1>4, <2>1, <2>2 DEF Used
  <2>3. CASE K = I
    BY <1>3, <1>4, <2>1, <2>3 DEF Used
  <2>4. CASE J # I /\ K # I
    BY <1>4, <2>4 DEF Proper
  <2> QED
    BY <2>2, <2>3, <2>4
<1>7. ColorNeedsNeighbours(painted)
  <2> SUFFICES ASSUME NEW J \in DOMAIN painted, NEW d \in 1..(painted[J] - 1)
               PROVE  \E K \in inter_graph[J] \cap DOMAIN painted : painted[K] = d
    BY DEF ColorNeedsNeighbours
  <2>1. CASE J = I
    <3>1. d \in used
      BY <1>3, <1>4, <2>1
    <3>2. PICK K \in inter_graph[I] \cap DOMAIN color : color[K] = d
      BY <3>1 DEF Used
    <3> QED
      BY <1>4, <2>1, <3>2
  <2>2. CASE J # I
    <3>1. J \in DOMAIN color /\ d \in 1..(color[J] - 1)
      BY <1>4, <2>2
    <3>2. PICK K \in inter_graph[J] \cap DOMAIN color : color[K] = d
      BY <3>1 DEF ColorNeedsNeighbours
    <3> QED
      BY <1>4, <3>2
  <2> QED
    BY <2>1, <2>2
<1>8. Larger(n, c) \in Nat
  BY <1>3 DEF Larger, Color
<1>9. NoGaps(painted, Larger(n, c))
  <2>1. {color[J] : J \in DOMAIN color} = 1..n
    BY DEF NoGaps
  <2>2. {painted[J] : J \in DOMAIN painted} = (1..n) \cup {c}
    BY <1>4, <2>1
  <2>3. 1..(c - 1) \subseteq 1..n
    BY <1>3, <2>1 DEF Used
  <2>4. (1..n) \cup {c} = 1..Larger(n, c)
    <3>1. CASE c > n
      <4>1. c = n + 1
        BY <1>3, <2>3, <3>1 DEF Color
      <4> QED
        BY <3>1, <4>1 DEF Larger
    <3>2. CASE ~(c > n)
      BY <1>3, <3>2 DEF Larger, Color
    <3> QED
      BY <3>1, <3>2
  <2> QED
    BY <2>2, <2>4 DEF NoGaps
<1> QED
  BY <1>3, <1>5, <1>6, <1>7, <1>8, <1>9

-----------------------------------------------------------------------------
\* The inductive invariant. Properties alone are not inductive: a vertex must not
\* be coloured a second time, and that only follows because the coloured vertices
\* are among those the loop has passed.

ColoredBefore(color) == DOMAIN color \subseteq {order[k] : k \in 1..(next - 1)}

ColorInv ==
  /\ ColorTypeOK
  /\ ColoredBefore(general_reg_color)
  /\ ColoredBefore(vector_reg_color)
  /\ ProperColoring
  /\ LowestColors
  /\ ColorsAreContiguous

\* With nothing coloured yet there is nothing the colour maps could violate.
LEMMA NothingColoredYet ==
  ASSUME StartColoring
  PROVE  ProperColoring /\ LowestColors /\ ColorsAreContiguous /\ OptimalOnPerfectOrder
<1>1. ProperColoring /\ LowestColors
  BY DEF StartColoring, NoColors, ProperColoring, Proper, LowestColors, ColorNeedsNeighbours
<1>2. ColorsAreContiguous
  <2>1. 1..0 = {}
    OBVIOUS
  <2> QED
    BY <2>1 DEF StartColoring, NoColors, ColorsAreContiguous, NoGaps
<1>3. OptimalOnPerfectOrder
  BY DEF StartColoring, NoColors, OptimalOnPerfectOrder
<1> QED
  BY <1>1, <1>2, <1>3

\* With nothing coloured yet the invariant holds.
LEMMA ColoringStarts == ColorInit => ColorInv
<1> SUFFICES ASSUME ColorInit
             PROVE  ColorInv
  OBVIOUS
<1>1. Inputs /\ StartColoring
  BY DEF ColorInit
<1>2. order \in Seq(DOMAIN inter_graph) /\ Len(order) \in Nat
  BY <1>1 DEF Inputs, IsGraph
<1>3. ColorTypeOK
  BY <1>1, <1>2 DEF ColorTypeOK, StartColoring, ColorMap, NoColors, Color
<1>4. ColoredBefore(general_reg_color) /\ ColoredBefore(vector_reg_color)
  BY <1>1 DEF StartColoring, ColoredBefore, NoColors
<1>5. ProperColoring /\ LowestColors /\ ColorsAreContiguous
  BY <1>1, NothingColoredYet
<1> QED
  BY <1>3, <1>4, <1>5 DEF ColorInv

\* The vertex about to be coloured is a vertex of the graph without a colour.
LEMMA NextIsUncolored ==
  ASSUME ColorInv, ~Done
  PROVE  /\ next \in 1..Len(order)
         /\ order[next] \in DOMAIN inter_graph
         /\ order[next] \notin DOMAIN general_reg_color
         /\ order[next] \notin DOMAIN vector_reg_color
<1>1. Inputs /\ next \in 1..(Len(order) + 1)
  BY DEF ColorInv, ColorTypeOK
<1>2. order \in Seq(DOMAIN inter_graph) /\ Len(order) \in Nat
  BY <1>1 DEF Inputs, IsGraph
<1>3. next \in 1..Len(order) /\ order[next] \in DOMAIN inter_graph
  BY <1>1, <1>2 DEF Done
<1>4. \A k \in 1..(next - 1) : order[k] # order[next]
  BY <1>1, <1>2, <1>3 DEF Inputs, IsGraph
<1> QED
  BY <1>3, <1>4 DEF ColorInv, ColoredBefore

\* Each iteration of the loop over the order keeps the invariant, whichever bank the
\* vertex belongs to.
LEMMA ColoringSteps == ColorInv /\ [ColorNext]_gcVars => ColorInv'
<1> SUFFICES ASSUME ColorInv, [ColorNext]_gcVars
             PROVE  ColorInv'
  OBVIOUS
<1>1. CASE ColorGeneral
  <2> DEFINE I == order[next]
             c == LowestFree(Used(general_reg_color, I))
  <2>1. ~Done /\ bank[I] = "general"
    BY <1>1 DEF ColorGeneral
  <2>2. /\ general_reg_color' = Paint(general_reg_color, I, c)
        /\ general_num_colors' = Larger(general_num_colors, c)
        /\ next' = next + 1
        /\ UNCHANGED <<inter_graph, order, bank, vector_reg_color, vector_num_colors>>
    BY <1>1 DEF ColorGeneral, inputVars
  <2>3. /\ next \in 1..Len(order)
        /\ I \in DOMAIN inter_graph
        /\ I \notin DOMAIN general_reg_color
    BY <2>1, NextIsUncolored
  <2>4. /\ ColorMap(general_reg_color', "general")
        /\ Proper(general_reg_color')
        /\ ColorNeedsNeighbours(general_reg_color')
        /\ general_num_colors' \in Nat
        /\ NoGaps(general_reg_color', general_num_colors')
    <3>1. /\ Inputs /\ ColorMap(general_reg_color, "general") /\ general_num_colors \in Nat
          /\ Proper(general_reg_color) /\ ColorNeedsNeighbours(general_reg_color)
          /\ NoGaps(general_reg_color, general_num_colors)
      BY DEF ColorInv, ColorTypeOK, ProperColoring, LowestColors, ColorsAreContiguous
    <3> HIDE DEF I, c
    <3> QED
      BY <2>1, <2>2, <2>3, <3>1, PaintingIsSafe DEF c
  <2>5. Inputs' /\ Len(order) \in Nat
    BY <2>2 DEF ColorInv, ColorTypeOK, Inputs, IsGraph
  <2>6. ColorTypeOK'
    BY <2>2, <2>3, <2>4, <2>5 DEF ColorInv, ColorTypeOK, ColorMap
  <2>7. ColoredBefore(general_reg_color)'
    <3>1. DOMAIN general_reg_color' = DOMAIN general_reg_color \cup {order[next]}
      BY <2>2 DEF Paint
    <3>2. 1..(next' - 1) = (1..(next - 1)) \cup {next}
      BY <2>2, <2>3, <2>5
    <3> QED
      BY <2>2, <3>1, <3>2 DEF ColorInv, ColoredBefore
  <2>8. ColoredBefore(vector_reg_color)'
    <3>1. 1..(next - 1) \subseteq 1..(next' - 1)
      BY <2>2, <2>3, <2>5
    <3> QED
      BY <2>2, <3>1 DEF ColorInv, ColoredBefore
  <2>9. ProperColoring' /\ LowestColors' /\ ColorsAreContiguous'
    BY <2>2, <2>4 DEF ColorInv, ProperColoring, Proper, LowestColors, ColorNeedsNeighbours,
                      ColorsAreContiguous, NoGaps
  <2> QED
    BY <2>6, <2>7, <2>8, <2>9 DEF ColorInv
<1>2. CASE ColorVector
  <2> DEFINE I == order[next]
             c == LowestFree(Used(vector_reg_color, I))
  <2>1. ~Done /\ bank[I] = "vector"
    BY <1>2 DEF ColorVector
  <2>2. /\ vector_reg_color' = Paint(vector_reg_color, I, c)
        /\ vector_num_colors' = Larger(vector_num_colors, c)
        /\ next' = next + 1
        /\ UNCHANGED <<inter_graph, order, bank, general_reg_color, general_num_colors>>
    BY <1>2 DEF ColorVector, inputVars
  <2>3. /\ next \in 1..Len(order)
        /\ I \in DOMAIN inter_graph
        /\ I \notin DOMAIN vector_reg_color
    BY <2>1, NextIsUncolored
  <2>4. /\ ColorMap(vector_reg_color', "vector")
        /\ Proper(vector_reg_color')
        /\ ColorNeedsNeighbours(vector_reg_color')
        /\ vector_num_colors' \in Nat
        /\ NoGaps(vector_reg_color', vector_num_colors')
    <3>1. /\ Inputs /\ ColorMap(vector_reg_color, "vector") /\ vector_num_colors \in Nat
          /\ Proper(vector_reg_color) /\ ColorNeedsNeighbours(vector_reg_color)
          /\ NoGaps(vector_reg_color, vector_num_colors)
      BY DEF ColorInv, ColorTypeOK, ProperColoring, LowestColors, ColorsAreContiguous
    <3> HIDE DEF I, c
    <3> QED
      BY <2>1, <2>2, <2>3, <3>1, PaintingIsSafe DEF c
  <2>5. Inputs' /\ Len(order) \in Nat
    BY <2>2 DEF ColorInv, ColorTypeOK, Inputs, IsGraph
  <2>6. ColorTypeOK'
    BY <2>2, <2>3, <2>4, <2>5 DEF ColorInv, ColorTypeOK, ColorMap
  <2>7. ColoredBefore(vector_reg_color)'
    <3>1. DOMAIN vector_reg_color' = DOMAIN vector_reg_color \cup {order[next]}
      BY <2>2 DEF Paint
    <3>2. 1..(next' - 1) = (1..(next - 1)) \cup {next}
      BY <2>2, <2>3, <2>5
    <3> QED
      BY <2>2, <3>1, <3>2 DEF ColorInv, ColoredBefore
  <2>8. ColoredBefore(general_reg_color)'
    <3>1. 1..(next - 1) \subseteq 1..(next' - 1)
      BY <2>2, <2>3, <2>5
    <3> QED
      BY <2>2, <3>1 DEF ColorInv, ColoredBefore
  <2>9. ProperColoring' /\ LowestColors' /\ ColorsAreContiguous'
    BY <2>2, <2>4 DEF ColorInv, ProperColoring, Proper, LowestColors, ColorNeedsNeighbours,
                      ColorsAreContiguous, NoGaps
  <2> QED
    BY <2>6, <2>7, <2>8, <2>9 DEF ColorInv
<1>3. CASE ColorNone
  <2>1. /\ ~Done
        /\ next' = next + 1
        /\ UNCHANGED <<inter_graph, order, bank, general_reg_color, vector_reg_color,
                       general_num_colors, vector_num_colors>>
    BY <1>3 DEF ColorNone, inputVars
  <2>2. next \in 1..Len(order)
    BY <2>1, NextIsUncolored
  <2>3. Inputs' /\ Len(order) \in Nat
    BY <2>1 DEF ColorInv, ColorTypeOK, Inputs, IsGraph
  <2>4. ColorTypeOK'
    BY <2>1, <2>2, <2>3 DEF ColorInv, ColorTypeOK, ColorMap
  <2>5. ColoredBefore(general_reg_color)' /\ ColoredBefore(vector_reg_color)'
    <3>1. 1..(next - 1) \subseteq 1..(next' - 1)
      BY <2>1, <2>2, <2>3
    <3> QED
      BY <2>1, <3>1 DEF ColorInv, ColoredBefore
  <2>6. ProperColoring' /\ LowestColors' /\ ColorsAreContiguous'
    BY <2>1 DEF ColorInv, ProperColoring, Proper, LowestColors, ColorNeedsNeighbours,
                ColorsAreContiguous, NoGaps
  <2> QED
    BY <2>4, <2>5, <2>6 DEF ColorInv
<1>4. CASE UNCHANGED gcVars
  BY <1>4 DEF gcVars, inputVars, colorVars, ColorInv, ColorTypeOK, Inputs, IsGraph, ColorMap, ColoredBefore,
              ProperColoring, Proper, LowestColors, ColorNeedsNeighbours,
              ColorsAreContiguous, NoGaps
<1> QED
  BY <1>1, <1>2, <1>3, <1>4 DEF ColorNext

-----------------------------------------------------------------------------
\* Along a perfect order the colours are those of cliques.

\* The neighbours that make a vertex take colour c come before it, so along a perfect
\* order they are neighbours of one another: one of each colour below c, and the vertex
\* itself, are c vertices that all interfere.
LEMMA PaintedInClique ==
  ASSUME Inputs, PerfectOrder, NEW color, ColoredBefore(color),
         next \in 1..Len(order),
         NEW c \in Color, 1..(c - 1) \subseteq Used(color, order[next])
  PROVE  InClique(Paint(color, order[next], c), order[next], c)
<1> DEFINE I == order[next]
           near == inter_graph[I] \cap DOMAIN color
           rep == [d \in 1..(c - 1) |-> CHOOSE J \in near : color[J] = d]
           below == {rep[d] : d \in 1..(c - 1)}
           K == below \cup {I}
<1>1. /\ IsGraph(inter_graph) /\ order \in Seq(DOMAIN inter_graph)
      /\ DOMAIN order = 1..Len(order) /\ Len(order) \in Nat
      /\ I \in DOMAIN inter_graph
  BY DEF Inputs
<1>2. \A d \in 1..(c - 1) : rep[d] \in near /\ color[rep[d]] = d
  <2> SUFFICES ASSUME NEW d \in 1..(c - 1)
               PROVE  rep[d] \in near /\ color[rep[d]] = d
    OBVIOUS
  <2>1. \E J \in near : color[J] = d
    BY DEF Used
  <2> QED
    BY <2>1
<1> HIDE DEF rep
<1>3. IsFiniteSet(below) /\ Cardinality(below) = c - 1
  <2>1. rep \in Surjection(1..(c - 1), below) /\ rep \in Injection(1..(c - 1), below)
    <3>1. rep \in [1..(c - 1) -> below]
      BY DEF rep
    <3> QED
      BY <1>2, <3>1 DEF Surjection, Injection, IsInjective
  <2>2. IsFiniteSet(1..(c - 1)) /\ Cardinality(1..(c - 1)) = c - 1
    BY FS_Interval DEF Color
  <2> QED
    BY <2>1, <2>2, FS_Surjection
<1>4. below \in SUBSET near
  BY <1>2
<1> HIDE DEF below
<1>5. \A J \in below : \E j \in DOMAIN order : J = order[j] /\ j < next
  <2>1. \A J \in near : \E j \in 1..(next - 1) : J = order[j]
    BY DEF ColoredBefore
  <2> QED
    BY <1>1, <1>4, <2>1
<1>6. I \notin below
  BY <1>1, <1>4 DEF IsGraph
<1>7. Cardinality(K) = c
  <2>1. Cardinality(K) = Cardinality(below) + 1
    BY <1>3, <1>6, FS_AddElement
  <2> QED
    BY <1>3, <2>1 DEF Color
<1>8. \A J, L \in below : J # L => J \in inter_graph[L]
  <2> SUFFICES ASSUME NEW J \in below, NEW L \in below, J # L
               PROVE  J \in inter_graph[L]
    OBVIOUS
  <2>1. PICK j \in DOMAIN order : J = order[j] /\ j < next
    BY <1>5
  <2>2. PICK l \in DOMAIN order : L = order[l] /\ l < next
    BY <1>5
  <2>3. J \in inter_graph[I] /\ L \in inter_graph[I]
    BY <1>4
  <2>4. CASE j < l
    BY <1>1, <2>1, <2>2, <2>3, <2>4 DEF PerfectOrder
  <2>5. CASE l < j
    <3>1. L \in inter_graph[J]
      BY <1>1, <2>1, <2>2, <2>3, <2>5 DEF PerfectOrder
    <3> QED
      BY <1>1, <2>1, <2>2, <3>1 DEF IsGraph
  <2> QED
    BY <1>1, <2>1, <2>2, <2>4, <2>5
<1>9. \A J, L \in K : J # L => J \in inter_graph[L]
  <2>1. \A J \in below : J \in inter_graph[I] /\ I \in inter_graph[J]
    BY <1>1, <1>4 DEF IsGraph
  <2> QED
    BY <1>8, <2>1
<1>10. K \in SUBSET DOMAIN Paint(color, I, c)
  BY <1>4 DEF Paint
<1> HIDE DEF K
<1>11. I \in K
  BY DEF K
<1> QED
  BY <1>7, <1>9, <1>10, <1>11 DEF InClique

\* Painting another vertex takes no vertex out of its clique.
LEMMA CliquesStay ==
  ASSUME NEW color, \A J \in DOMAIN color : InClique(color, J, color[J]),
         NEW I, I \notin DOMAIN color, NEW c, InClique(Paint(color, I, c), I, c)
  PROVE  \A J \in DOMAIN Paint(color, I, c) :
           InClique(Paint(color, I, c), J, Paint(color, I, c)[J])
<1> SUFFICES ASSUME NEW J \in DOMAIN Paint(color, I, c)
             PROVE  InClique(Paint(color, I, c), J, Paint(color, I, c)[J])
  OBVIOUS
<1>1. DOMAIN color \subseteq DOMAIN Paint(color, I, c)
  BY DEF Paint
<1>2. CASE J = I
  <2>1. Paint(color, I, c)[J] = c
    BY <1>2 DEF Paint
  <2> QED
    BY <1>2, <2>1
<1>3. CASE J # I
  <2>1. J \in DOMAIN color /\ Paint(color, I, c)[J] = color[J]
    BY <1>3 DEF Paint
  <2> QED
    BY <1>1, <2>1 DEF InClique
<1> QED
  BY <1>2, <1>3

\* The next vertex painted is in a clique of as many registers as its colour says, and
\* so are those painted before it.
LEMMA PaintingKeepsCliques ==
  ASSUME ColorInv, PerfectOrder, ~Done,
         NEW color, ColoredBefore(color), color \in [DOMAIN color -> Color],
         NEW c, c = LowestFree(Used(color, order[next])),
         \A J \in DOMAIN color : InClique(color, J, color[J]),
         NEW painted, painted = Paint(color, order[next], c)
  PROVE  \A J \in DOMAIN painted : InClique(painted, J, painted[J])
<1> DEFINE I == order[next]
           used == Used(color, I)
<1>1. /\ Inputs /\ next \in 1..Len(order) /\ I \in DOMAIN inter_graph
  BY NextIsUncolored DEF ColorInv, ColorTypeOK
<1>2. I \notin DOMAIN color
  <2>1. next \in Nat /\ \A k \in 1..(next - 1) : order[k] # order[next]
    BY <1>1 DEF Inputs
  <2> QED
    BY <2>1 DEF ColoredBefore
<1>3. IsFiniteSet(used) /\ used \in SUBSET Color
  BY <1>1, UsedIsFinite
<1>4. c \in 1..(Cardinality(used) + 1) /\ 1..(c - 1) \subseteq used
  BY <1>3, LowestFreeIsFree
<1>5. c \in Color
  <2>1. Cardinality(used) \in Nat
    BY <1>3, FS_CardinalityType
  <2> QED
    BY <1>4, <2>1 DEF Color
<1>6. InClique(painted, I, c)
  BY <1>1, <1>4, <1>5, PaintedInClique
<1> QED
  BY <1>2, <1>6, CliquesStay

\* No iteration of the loop wastes a colour.
LEMMA StaysOptimal ==
  ColorInv /\ OptimalOnPerfectOrder /\ [ColorNext]_gcVars => OptimalOnPerfectOrder'
<1> SUFFICES ASSUME ColorInv, OptimalOnPerfectOrder, [ColorNext]_gcVars, PerfectOrder'
             PROVE  /\ \A I \in DOMAIN general_reg_color' :
                         InClique(general_reg_color, I, general_reg_color[I])'
                    /\ \A I \in DOMAIN vector_reg_color' :
                         InClique(vector_reg_color, I, vector_reg_color[I])'
  BY DEF OptimalOnPerfectOrder
<1>1. inter_graph' = inter_graph /\ order' = order
  BY DEF ColorNext, ColorGeneral, ColorVector, ColorNone, gcVars, inputVars
<1>2. PerfectOrder
  BY <1>1 DEF PerfectOrder
<1>3. /\ \A I \in DOMAIN general_reg_color : InClique(general_reg_color, I, general_reg_color[I])
      /\ \A I \in DOMAIN vector_reg_color : InClique(vector_reg_color, I, vector_reg_color[I])
  BY <1>2 DEF OptimalOnPerfectOrder
<1>4. /\ ColoredBefore(general_reg_color) /\ ColoredBefore(vector_reg_color)
      /\ general_reg_color \in [DOMAIN general_reg_color -> Color]
      /\ vector_reg_color \in [DOMAIN vector_reg_color -> Color]
  BY DEF ColorInv, ColorTypeOK, ColorMap
<1>5. CASE ColorGeneral
  <2> DEFINE c == LowestFree(Used(general_reg_color, order[next]))
             painted == Paint(general_reg_color, order[next], c)
  <2>1. ~Done /\ general_reg_color' = painted /\ vector_reg_color' = vector_reg_color
    BY <1>5 DEF ColorGeneral
  <2>2. \A J \in DOMAIN painted : InClique(painted, J, painted[J])
    BY <1>2, <1>3, <1>4, <2>1, PaintingKeepsCliques
  <2> HIDE DEF painted
  <2> QED
    BY <1>1, <1>3, <2>1, <2>2 DEF InClique
<1>6. CASE ColorVector
  <2> DEFINE c == LowestFree(Used(vector_reg_color, order[next]))
             painted == Paint(vector_reg_color, order[next], c)
  <2>1. ~Done /\ vector_reg_color' = painted /\ general_reg_color' = general_reg_color
    BY <1>6 DEF ColorVector
  <2>2. \A J \in DOMAIN painted : InClique(painted, J, painted[J])
    BY <1>2, <1>3, <1>4, <2>1, PaintingKeepsCliques
  <2> HIDE DEF painted
  <2> QED
    BY <1>1, <1>3, <2>1, <2>2 DEF InClique
<1>7. CASE ColorNone \/ UNCHANGED gcVars
  <2>1. general_reg_color' = general_reg_color /\ vector_reg_color' = vector_reg_color
    BY <1>7 DEF ColorNone, gcVars, colorVars
  <2> QED
    BY <1>1, <1>3, <2>1 DEF InClique
<1> QED
  BY <1>5, <1>6, <1>7 DEF ColorNext

-----------------------------------------------------------------------------
\* No vertex is passed over.

PassedAreColored ==
  /\ \A k \in 1..(next - 1) : bank[order[k]] = "general" => order[k] \in DOMAIN general_reg_color
  /\ \A k \in 1..(next - 1) : bank[order[k]] = "vector" => order[k] \in DOMAIN vector_reg_color

\* The vertices the loop has passed keep their colours, and the next one gets one.
LEMMA PassingColors ==
  ColorInv /\ PassedAreColored /\ [ColorNext]_gcVars => PassedAreColored'
<1> SUFFICES ASSUME ColorInv, PassedAreColored, [ColorNext]_gcVars
             PROVE  PassedAreColored'
  OBVIOUS
<1>1. ASSUME ColorNext
      PROVE  PassedAreColored'
  <2>1. ~Done /\ next' = next + 1 /\ order' = order /\ bank' = bank
    BY <1>1 DEF ColorNext, ColorGeneral, ColorVector, ColorNone, inputVars
  <2>2. next \in Nat
    BY <2>1, NextIsUncolored
  <2>3. \A k \in 1..(next' - 1) : k \in 1..(next - 1) \/ k = next
    BY <2>1, <2>2
  <2>4. /\ DOMAIN general_reg_color \subseteq DOMAIN general_reg_color'
        /\ DOMAIN vector_reg_color \subseteq DOMAIN vector_reg_color'
    BY <1>1 DEF ColorNext, ColorGeneral, ColorVector, ColorNone, Paint
  <2>5. /\ bank[order[next]] = "general" => order[next] \in DOMAIN general_reg_color'
        /\ bank[order[next]] = "vector" => order[next] \in DOMAIN vector_reg_color'
    BY <1>1 DEF ColorNext, ColorGeneral, ColorVector, ColorNone, Paint
  <2> QED
    BY <2>1, <2>3, <2>4, <2>5 DEF PassedAreColored
<1>2. CASE UNCHANGED gcVars
  BY <1>2 DEF gcVars, inputVars, colorVars, PassedAreColored
<1> QED
  BY <1>1, <1>2

-----------------------------------------------------------------------------
\* The invariant of every behaviour, and what follows from it.

\* Whatever graph and order GreedyColoring is called with, ColorInv always holds.
THEOREM ColorInvHolds == ColorSpec => []ColorInv
<1>1. ColorInit => ColorInv
  BY ColoringStarts
<1>2. ColorInv /\ [ColorNext]_gcVars => ColorInv'
  BY ColoringSteps
<1> QED
  BY <1>1, <1>2, PTL DEF ColorSpec

\* The maps GreedyColoring fills always map vertices of their bank to colours, and the
\* loop never leaves the order.
THEOREM ColorTypeCorrect == ColorSpec => []ColorTypeOK
<1>1. ColorInv => ColorTypeOK
  BY DEF ColorInv
<1> QED
  BY <1>1, ColorInvHolds, PTL

\* No two interfering values of one bank ever share a register colour.
THEOREM ColoringIsProper == ColorSpec => []ProperColoring
<1>1. ColorInv => ProperColoring
  BY DEF ColorInv
<1> QED
  BY <1>1, ColorInvHolds, PTL

\* A value only gets a colour when interfering values hold all lower ones, and the number of
\* colours RegisterAllocatePass compares with the number of registers is exactly the number
\* of different colours in use.
THEOREM NoColorIsSkipped == ColorSpec => []NoColorSkipped
<1>1. ColorInv => NoColorSkipped
  BY DEF ColorInv, NoColorSkipped
<1> QED
  BY <1>1, ColorInvHolds, PTL

\* Coloured along the reverse of a perfect elimination order, each register's colour is
\* the size of some set of registers that are all live together: when the algorithm
\* finds such an order, it spills only where no allocation could avoid it.
THEOREM ColoringIsOptimal == ColorSpec => []OptimalOnPerfectOrder
<1>1. ColorInit => OptimalOnPerfectOrder
  BY NothingColoredYet DEF ColorInit
<1>2. ColorInv /\ OptimalOnPerfectOrder /\ [ColorNext]_gcVars => OptimalOnPerfectOrder'
  BY StaysOptimal
<1> QED
  BY <1>1, <1>2, ColorInvHolds, PTL DEF ColorSpec
=============================================================================
