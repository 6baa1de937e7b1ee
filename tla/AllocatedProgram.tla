--------------------------- MODULE AllocatedProgram -------------------------
(***************************************************************************)
(* Allocate the registers of a function, then run it: the registers the    *)
(* back end chooses against what the emitted program finds in them.        *)
(***************************************************************************)
EXTENDS RegisterAllocate

VARIABLES at, holds

RM == INSTANCE RegisterMachine

apVars == <<raVars, at, holds>>

Start(p) == StartAllocation(Unspilled(p)) /\ RM!StartMachine

Allocate == AllocateNext /\ UNCHANGED <<at, holds>>

Run == phase = "done" /\ UNCHANGED raVars /\ RM!MachineNext

Next == Allocate \/ Run

\* Any function the pass may be called with.
Spec == Allocatable(prog) /\ StartAllocation(prog) /\ RM!StartMachine /\ [][Next]_apVars

-----------------------------------------------------------------------------
\* Properties.

\* The variables keep their types, and the registers of an allocated function only
\* hold its values.
TypeOK ==
  /\ phase \in {"collect", "solve", "built", "resolve", "order", "color", "spill", "done", "crash"}
  /\ copies \in 0..MaxCopies
  /\ \A x \in tolerated : IsPhi(prog, x[1]) /\ x[2] \in DOMAIN prog.args[x[1]]
  /\ DOMAIN prog.reload \subseteq DOMAIN prog.slot
  /\ \A I \in DOMAIN prog.slot : prog.slot[I] >= 0 /\ prog.slot[I] < prog.frame
  /\ phase = "done" =>
       /\ general_num_colors <= MAX_REGISTER
       /\ vector_num_colors <= MAX_VECTOR_REGISTER
       /\ at # NoValue => at \in Points(prog) /\ \A r \in DOMAIN holds : holds[r] \subseteq Insts(prog)

\* The copies, constants, stores and loads the allocator inserts keep the function
\* legal SSA with prepared phis, the stack pointer first and every cached constant where
\* it can be used: that is what each of the two loops takes for granted when it begins.
StaysAllocatable == phase = "collect" /\ insts = <<>> => Allocatable(prog)

\* The value whose register v gets: that of its chain of moves, or the phi that reads that.
Standing(v) ==
  LET r == Root(prog, v) IN IF r \in PhiOperandRoots THEN PhiInto[r] ELSE r

\* Both values are needed at some point, or one when the other is given its register.
NeededTogether(u, v) ==
  \/ u \in out[v] \/ v \in out[u]
  \/ \E I \in Points(prog) : isPotentiallyReachable(prog, BlockOf(prog, I)) /\ {u, v} \subseteq in[I]

\* When an allocated function is about to run every value has a register the machine has, and values that
\* are needed together have different ones unless they were merged, through copies,
\* restarts and spilling.
RegistersKeptApart ==
  phase = "done" /\ at = NoValue =>
    /\ \A v \in Regs(prog) : place[v] \in ({"r"} \X (1..MAX_REGISTER))
                                         \cup ({"v"} \X (1..MAX_VECTOR_REGISTER))
    /\ \A u, v \in Regs(prog) :
         place[u] = place[v] /\ Standing(u) # Standing(v) => ~NeededTogether(u, v)

\* Whatever path the emitted program takes, each instruction finds in the registers
\* the emitter names the very values its operands stand for, and each reload finds
\* the spilled value in its slot. This is what "the backend will emit the correct
\* assembly" (backend.h) asks of the allocator.
ReadsCorrect == phase = "done" => RM!ReadsItsOperands

\* So it is for every function all of whose phi operands could be kept apart from
\* their phis.
ReadsCorrectUnlessTolerated == tolerated = {} => ReadsCorrect

\* Values spillColors weighs with a cost of their own.
CanBeSpilled(p) == {I \in Regs(p) : HasCost(p, {I})}

\* While spilling some colour is worth something, every round leaves fewer values
\* that could be spilled: what spilling inserts is not spilled itself. So there are
\* only finitely many such rounds. (Once nothing is worth spilling and colours still
\* exceed registers, spillColors changes nothing, and run() repeats it for ever.)
SpillingProgresses ==
  [][phase = "spill" /\ phase' = "collect" /\ CanBeSpilled(prog) # {} =>
       Cardinality(CanBeSpilled(prog')) < Cardinality(CanBeSpilled(prog))]_apVars

\* An order in which the earlier neighbours of each vertex are all adjacent: the
\* reverse of a perfect elimination order, as GreedyColoring wants it.
IsPerfectOrder(g, s) ==
  \A i, j, k \in 1..Len(s) :
    i < j /\ j < k /\ s[i] \in g[s[k]] /\ s[j] \in g[s[k]] => s[i] \in g[s[j]]

\* A function without phis all of whose code can be reached is coloured along a perfect
\* order, so with as few registers as it has values live at once: although
\* std::min_element is misused (MinElement of EliminationOrder), the numbering makes up
\* for it. (A move in unreachable code may read a value whose definition does not dominate
\* it, and hands that value neighbours it is never live with.)
HasOnlyMoves(p) == AllPhis(p) = {} /\ \A b \in Blocks(p) : isPotentiallyReachable(p, b)

PerfectWithoutPhis ==
  phase = "color" /\ HasOnlyMoves(prog) => IsPerfectOrder(inter_graph, order)

\* The slots of different colours are different words of the frame: the offset of
\* one is never inside another. A vector takes 32 bytes.
SlotBytes(I) == LET v == IF I \in DOMAIN prog.reload THEN I ELSE prog.args[I][1]
                IN  IF IsVector(prog.type[v]) THEN 32 ELSE 8

SlotsDisjoint ==
  \A I, J \in DOMAIN prog.slot :
    prog.slot[I] < prog.slot[J] => prog.slot[I] + SlotBytes(I) <= prog.slot[J]

\* As long as nothing is spilled, a copy resolvePHIInterference inserted is not copied
\* again: each phi operand is kept apart from its phi by at most one copy, so graph
\* construction restarts at most as often as there are phi operands.
OneCopyPerOperand ==
  prog.noSpill = {} =>
    copies <= Cardinality(UNION {{<<phi, i>> : i \in DOMAIN prog.args[phi]} : phi \in AllPhis(prog)})
=============================================================================
