--------------------------- MODULE RegisterAllocate -------------------------
(***************************************************************************)
(* RegisterAllocatePass::run for one function: build the interference      *)
(* graph, merge moves, copy phi operands that interfere with their phi and *)
(* start again until none has to be copied, merge phis, order, colour, and *)
(* spill and start again when there are more colours than registers.  The  *)
(* phases of the big loop are in `phase'; the algorithms inside are the    *)
(* modules InterferenceGraph, EliminationOrder and GreedyColoring.         *)
(***************************************************************************)
EXTENDS Spilling, ConstMap, InterferenceGraph

CONSTANTS MAX_REGISTER, MAX_VECTOR_REGISTER,
          MaxCopies   \* how often resolvePHIInterference may insert a copy

\* Of each kind of register the machine has some number.
ASSUME RegisterCounts == MAX_REGISTER \in Nat /\ MAX_VECTOR_REGISTER \in Nat

VARIABLES            \* besides those of InterferenceGraph
  adj, C, Q, visit, order, rest, size,
  next, general_reg_color, vector_reg_color,
  general_num_colors, vector_num_colors,
  copies,      \* number of copies resolvePHIInterference has inserted
  tolerated    \* phi operands <<phi, i>> it ever left interfering with their phi

graphVars  == <<stack, bbVisit, bbNext, insts, in, out, pos, updated>>
orderVars  == <<adj, C, Q, visit, rest, size>>
colorVars  == <<next, general_reg_color, vector_reg_color,
                general_num_colors, vector_num_colors>>
raVars     == <<prog, phase, graphVars, inter_graph, inst2num, orderVars, order,
                colorVars, copies, tolerated>>

Bank(type) == IF IsVector(type) THEN "vector" ELSE "general"
bank       == [I \in Insts(prog) |-> Bank(prog.type[I])]

EO == INSTANCE EliminationOrder WITH Inst <- Nat
GC == INSTANCE GreedyColoring WITH Inst <- Nat
CO == INSTANCE Coalescing WITH Inst <- Nat, graph <- inter_graph, into <- <<>>, trash <- {}

NoColors == [I \in {} |-> 1]

\* What the pass may be called with, and leaves when it starts again: legal SSA whose phis
\* are prepared, constants of the cache where every use can have them, and the $decr_sp
\* of spillColors in front of all else.
HasRecords(p) == {"frame", "slot", "reload", "noSpill"} \subseteq DOMAIN p

FrameFirst(p) == p.frame \in Int /\ (p.frame >= 0 => p.kind[p.body[1][1]] = "sp")

Allocatable(p) == Ready(p) /\ HasRecords(p) /\ FrameFirst(p)

\* A function the pass is called with, with what spilling keeps about it.
Unspilled(p) == [body |-> p.body, succ |-> p.succ, kind |-> p.kind, args |-> p.args,
                 from |-> p.from, type |-> p.type, cmap |-> p.cmap,
                 frame |-> -1, slot |-> <<>>, reload |-> <<>>, noSpill |-> {}]

StartAllocation(p) ==
  /\ Fresh(p)
  /\ adj = EmptyMap /\ C = NoColors /\ Q = <<>> /\ visit = {} /\ rest = {} /\ size = 0
  /\ order = <<>>
  /\ next = 1
  /\ general_reg_color = NoColors /\ vector_reg_color = NoColors
  /\ general_num_colors = 0 /\ vector_num_colors = 0
  /\ copies = 0 /\ tolerated = {}

-----------------------------------------------------------------------------
\* while (true) { while (true) { makeInterferenceGraph; coalesceMovInsts;
\*                               if (resolvePHIInterference) break; } ...

BuildGraph == BuildNext /\ UNCHANGED <<orderVars, order, colorVars, copies, tolerated>>

\* coalesceMovInsts merges every move into the root of its chain.
MoveInto == [I \in {J \in DOMAIN inter_graph : prog.kind[J] = "move"} |-> Root(prog, I)]

CoalesceMoves ==
  /\ phase = "built"
  /\ phase' = "resolve"
  /\ inter_graph' = CO!Quotient(inter_graph, MoveInto)
  /\ UNCHANGED <<prog, graphVars, inst2num, orderVars, order, colorVars, copies, tolerated>>

\* parent[i], and everything phi or one of its operands interferes with
Parent(phi, i) == Root(prog, prog.args[phi][i])
OwnNeighbours(phi) == inter_graph[phi]
Inter(phi) == inter_graph[phi] \cup
  UNION {inter_graph[Parent(phi, i)] : i \in DOMAIN prog.args[phi]}
Interferes(phi, i) == Parent(phi, i) \in Inter(phi)

\* if (next == t) continue;  -- only moves separate the operand from the terminator
\* of the block it comes from.
NeverEnds(phi, i) == FALSE
EndsItsBlock(phi, i) ==
  LET b  == prog.body[BlockOf(prog, Parent(phi, i))]
      k  == IndexOf(prog, Parent(phi, i))
      after == SelectSeq(SubSeq(b, k + 1, Len(b)), LAMBDA I : prog.kind[I] # "move")
  IN  after # <<>> /\ Head(after) = getTerminator(prog, prog.from[phi][i])

ToCopy(phi) == {i \in DOMAIN prog.args[phi] : Interferes(phi, i) /\ ~EndsItsBlock(phi, i)}
MustCopy    == {phi \in AllPhis(prog) \cap DOMAIN inter_graph : ToCopy(phi) # {}}

\* Copies go in front of the terminator of the block the operand comes from.
EndOfItsOwnBlock(p, phi, i) == getTerminator(p, BlockOf(p, phi))
CopyPoint(p, phi, i) == getTerminator(p, p.from[phi][i])

\* A copy of operand i of phi, multiplied by the constant 1. Pointers are cast to i64
\* and back.
Copied(phi, i) ==
  LET v    == prog.args[phi][i]
      wide == IF prog.type[v] = "ptr" THEN "i64" ELSE prog.type[v]
      p    == resolve_constant(prog, One(wide), phi)
      t    == CopyPoint(p, phi, i)
      I    == FreshInst(p)
      J    == I + 1
      plain == InsertBefore(p, t, I, "op", <<v, p.cmap[One(wide)]>>, wide)
      cast1 == InsertBefore(p, t, I, "move", <<v>>, "i64")
      cast2 == InsertBefore(cast1, t, J, "op", <<I, p.cmap[One(wide)]>>, wide)
      cast3 == InsertBefore(cast2, t, J + 1, "move", <<J>>, "ptr")
  IN  IF prog.type[v] = "ptr" THEN setIncomingValue(cast3, phi, i, J + 1)
                              ELSE setIncomingValue(plain, phi, i, I)

\* inter_graph.clear(); inst2num.clear(); and into makeInterferenceGraph again
BuildAgain(p) ==
  /\ prog' = p
  /\ phase' = "collect"
  /\ stack' = <<<<1, 1>>>> /\ bbVisit' = {1} /\ bbNext' = 1
  /\ insts' = <<>> /\ in' = EmptyMap /\ out' = EmptyMap
  /\ pos' = 1 /\ updated' = TRUE
  /\ inter_graph' = EmptyMap /\ inst2num' = EmptyMap

\* The first operand of a phi that has to be copied; phis come in the order of a
\* map keyed by pointers.
CopyPhiOperand ==
  /\ phase = "resolve" /\ copies < MaxCopies
  /\ \E phi \in MustCopy :
       LET i == Min(ToCopy(phi)) IN
       /\ ~IsVector(prog.type[prog.args[phi][i]])
       /\ BuildAgain(Copied(phi, i))
  /\ copies' = copies + 1
  /\ UNCHANGED <<orderVars, order, colorVars, tolerated>>

\* The vector branch hands dyn_cast<ConstantDataVector>(v) to resolve_constant; v is
\* an instruction, so that is a null pointer.
CopyVectorOperand ==
  /\ phase = "resolve"
  /\ \E phi \in MustCopy : IsVector(prog.type[prog.args[phi][Min(ToCopy(phi))]])
  /\ phase' = "crash"
  /\ UNCHANGED <<prog, graphVars, inter_graph, inst2num, orderVars, order, colorVars,
                 copies, tolerated>>

\* resolvePHIInterference returns true: coalescePHINodes merges the operands of
\* every phi into it, and PerfectEliminationOrdering starts.
PhiOperandRoots    == UNION {{Parent(phi, i) : i \in DOMAIN prog.args[phi]} : phi \in AllPhis(prog)}
PhiInto == [V \in PhiOperandRoots |->
              CHOOSE phi \in AllPhis(prog) : \E i \in DOMAIN prog.args[phi] : Parent(phi, i) = V]

CoalescePhis ==
  /\ phase = "resolve" /\ MustCopy = {}
  /\ phase' = "order"
  /\ tolerated' = tolerated \cup
       UNION {{<<phi, i>> : i \in {j \in DOMAIN prog.args[phi] : Interferes(phi, j)}} :
                phi \in AllPhis(prog)}
  /\ \E graph \in {CO!Quotient(inter_graph, PhiInto)} :
       /\ inter_graph' = graph
       /\ adj' = graph
       /\ C' = EO!InitialCounts(graph)
  /\ Q' = <<>> /\ visit' = {} /\ rest' = {} /\ size' = 0
  /\ order' = <<>>
  /\ UNCHANGED <<prog, graphVars, inst2num, colorVars, copies>>

OrderVertices ==
  /\ phase = "order"
  /\ EO!OrderNext
  /\ UNCHANGED <<prog, phase, graphVars, colorVars, copies, tolerated>>

\* std::reverse(order); and into GreedyColoring
ReverseOrder ==
  /\ phase = "order" /\ EO!Ordered
  /\ phase' = "color"
  /\ order' = Reverse(order)
  /\ next' = 1
  /\ general_reg_color' = NoColors /\ vector_reg_color' = NoColors
  /\ general_num_colors' = 0 /\ vector_num_colors' = 0
  /\ UNCHANGED <<prog, graphVars, inter_graph, inst2num, orderVars, copies, tolerated>>

ColorVertices ==
  /\ phase = "color"
  /\ UNCHANGED <<prog, phase, graphVars, inst2num, orderVars, copies, tolerated>>
  /\ GC!ColorNext

\* propagatePHINodeColors: the operands of a coloured phi get its colour.
Propagated(color) ==
  LET given(V) == {phi \in AllPhis(prog) \cap DOMAIN color :
                     \E i \in DOMAIN prog.args[phi] : Parent(phi, i) = V}
      V2 == {V \in PhiOperandRoots : given(V) # {}}
  IN  [V \in DOMAIN color \cup V2 |->
         IF V \in V2 THEN color[CHOOSE phi \in given(V) : TRUE] ELSE color[V]]

PropagateColors ==
  /\ phase = "color" /\ GC!Done
  /\ phase' = IF general_num_colors <= MAX_REGISTER /\ vector_num_colors <= MAX_VECTOR_REGISTER
              THEN "done" ELSE "spill"
  /\ general_reg_color' = Propagated(general_reg_color)
  /\ vector_reg_color' = Propagated(vector_reg_color)
  /\ UNCHANGED <<prog, graphVars, inter_graph, inst2num, orderVars, order, next,
                 general_num_colors, vector_num_colors, copies, tolerated>>

-----------------------------------------------------------------------------
\* spillColors

\* The values of one colour, moves included; those of a colour of the bank that it
\* is worth something to spill, or none.
ColorClass(color, c) ==
  {I \in Regs(prog) : Root(prog, I) \in DOMAIN color /\ color[Root(prog, I)] = c}

Spillable(color) ==
  LET classes == {ColorClass(color, c) : c \in Range(color)}
      costly  == {S \in classes : HasCost(prog, S)}
  IN  IF costly = {} THEN {{}} ELSE costly

SpillCrashes == StackPointers(prog) # {} /\ ~LiteralFrame(prog)

Spill ==
  /\ phase = "spill" /\ ~SpillCrashes
  /\ \E general \in Spillable(general_reg_color), vector \in Spillable(vector_reg_color) :
       BuildAgain(SpillColors(prog, general, vector))
  /\ UNCHANGED <<orderVars, order, colorVars, copies, tolerated>>

SpillWithoutLiteral ==
  /\ phase = "spill" /\ SpillCrashes
  /\ phase' = "crash"
  /\ UNCHANGED <<prog, graphVars, inter_graph, inst2num, orderVars, order, colorVars,
                 copies, tolerated>>

AllocateNext ==
  \/ BuildGraph \/ CoalesceMoves \/ CopyPhiOperand \/ CopyVectorOperand \/ CoalescePhis
  \/ OrderVertices \/ ReverseOrder \/ ColorVertices \/ PropagateColors
  \/ Spill \/ SpillWithoutLiteral

\* insertSymbols: a value's register, which for a move is that of the value it
\* copies; <<>> for what lives in the stack pointer, an argument or nowhere.
place ==
  [I \in Insts(prog) |->
     LET r == Root(prog, I) IN
     CASE r \in DOMAIN general_reg_color -> <<"r", general_reg_color[r]>>
       [] r \in DOMAIN vector_reg_color  -> <<"v", vector_reg_color[r]>>
       [] OTHER                          -> <<>>]
=============================================================================
