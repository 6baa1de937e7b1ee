-------------------------- MODULE InterferenceGraph -------------------------
(***************************************************************************)
(* makeInterferenceGraph of register_allocate.cpp: collect the function's  *)
(* instructions in depth-first post-order, iterate the liveness equations  *)
(* over that order until a whole pass changes nothing, then connect every  *)
(* register with the registers that are live after its definition.         *)
(*                                                                         *)
(* The recursion of PostOrderRegCollect is an explicit stack of frames     *)
(* <<block, number of the next successor to look at>>; one action is one   *)
(* iteration of one loop of the code.                                      *)
(***************************************************************************)
EXTENDS SSAProgram

VARIABLES
  prog,         \* the function; makeInterferenceGraph does not change it
  phase,        \* "collect" | "solve" | "built"
  stack,        \* activations of PostOrderRegCollect
  bbVisit,      \* the set `visit` PostOrderRegCollect shares
  bbNext,       \* next block of the loop over the unreachable blocks
  insts,        \* instructions in DFS post-order
  in, out,      \* the liveness sets
  pos,          \* index of the loop over insts
  updated,
  inter_graph, inst2num

igVars == <<prog, phase, stack, bbVisit, bbNext, insts, in, out, pos, updated,
            inter_graph, inst2num>>

EmptyMap == [I \in {} |-> {}]

\* Everything makeInterferenceGraph starts from, for function p.
Fresh(p) ==
  /\ prog = p
  /\ phase = "collect"
  /\ stack = <<<<1, 1>>>>
  /\ bbVisit = {1}
  /\ bbNext = 1
  /\ insts = <<>>
  /\ in = EmptyMap /\ out = EmptyMap
  /\ pos = 1
  /\ updated = TRUE
  /\ inter_graph = EmptyMap
  /\ inst2num = EmptyMap

-----------------------------------------------------------------------------
\* Liveness itself, stated on the paths of a function and not as the equations
\* makeInterferenceGraph solves.

\* Program points are the instructions that are not phis: a phi is executed on the edge
\* into its block.
Points(p) == {I \in Insts(p) : ~IsPhi(p, I)}

\* Control passes from point I to point J.
Follows(p, I) ==
  IF getNextNode(p, I) # NoValue THEN {getNextNode(p, I)}
  ELSE {getFirstNonPHI(p, s) : s \in Range(p.succ[BlockOf(p, I)])}

\* Leaving I, the edge to some successor reads v for a phi.
ReadOnEdge(p, I, v) ==
  /\ getNextNode(p, I) = NoValue
  /\ \E s \in Range(p.succ[BlockOf(p, I)]) : \E phi \in Phis(p, s) :
       Incoming(p, phi, BlockOf(p, I)) = v

\* Going from I to J gives v a new value: v is a phi of the block entered.
RedefinedOn(p, I, J, v) == getNextNode(p, I) = NoValue /\ v \in Phis(p, BlockOf(p, J))

\* The points that read v, and from a set of points those one step before.
ReadAt(p, v) ==
  {I \in Points(p) : v \in Operands(p, I) \/ (v # I /\ ReadOnEdge(p, I, v))}

Backward(p, v) ==
  [later \in SUBSET Points(p) |->
     later \cup {I \in Points(p) \ {v} :
                   \E J \in Follows(p, I) \cap later : ~RedefinedOn(p, I, J, v)}]

\* The points from which some path reads v before anything redefines it.
LivePoints(p, v) == Iterate(Backward(p, v), ReadAt(p, v), Cardinality(Points(p)))

LiveBefore(p, I) == {v \in Insts(p) : I \in LivePoints(p, v)}

LiveOut(p, I) ==
  IF IsPhi(p, I) THEN LiveBefore(p, getFirstNonPHI(p, BlockOf(p, I)))
  ELSE {v \in Insts(p) :
          \/ ReadOnEdge(p, I, v)
          \/ \E J \in Follows(p, I) : J \in LivePoints(p, v) /\ ~RedefinedOn(p, I, J, v)}

-----------------------------------------------------------------------------
\* PostOrderRegCollect

Top == stack[Len(stack)]

\* for (i ...) { next = successor i; if (!visit.count(next)) recurse }
Descend ==
  /\ phase = "collect" /\ stack # <<>>
  /\ Top[2] <= Len(prog.succ[Top[1]])
  /\ LET next == prog.succ[Top[1]][Top[2]]
         advanced == [stack EXCEPT ![Len(stack)][2] = @ + 1]
     IN  IF next \in bbVisit
         THEN stack' = advanced /\ UNCHANGED bbVisit
         ELSE stack' = Append(advanced, <<next, 1>>) /\ bbVisit' = bbVisit \cup {next}
  /\ UNCHANGED <<prog, phase, bbNext, insts, in, out, pos, updated, inter_graph, inst2num>>

ForwardOrder(b)      == prog.body[b]
BlockInstructions(b) == Reverse(prog.body[b])

Retreat ==
  /\ phase = "collect" /\ stack # <<>>
  /\ Top[2] > Len(prog.succ[Top[1]])
  /\ insts' = insts \o BlockInstructions(Top[1])
  /\ stack' = Front(stack)
  /\ UNCHANGED <<prog, phase, bbVisit, bbNext, in, out, pos, updated, inter_graph, inst2num>>

\* The loop over all blocks, for those the entry does not reach. The code does
\* not ask whether such a block was collected already.
CollectUnreachable ==
  /\ phase = "collect" /\ stack = <<>> /\ bbNext <= Len(prog.body)
  /\ bbNext' = bbNext + 1
  /\ IF isPotentiallyReachable(prog, bbNext)
     THEN UNCHANGED <<stack, bbVisit>>
     ELSE stack' = <<<<bbNext, 1>>>> /\ bbVisit' = bbVisit \cup {bbNext}
  /\ UNCHANGED <<prog, phase, insts, in, out, pos, updated, inter_graph, inst2num>>

InitialSets ==
  /\ phase = "collect" /\ stack = <<>> /\ bbNext > Len(prog.body)
  /\ phase' = "solve"
  /\ in'  = [I \in Range(insts) |-> Operands(prog, I)]
  /\ out' = [I \in Range(insts) |-> {}]
  /\ pos' = Len(insts) + 1
  /\ UNCHANGED <<prog, stack, bbVisit, bbNext, insts, updated, inter_graph, inst2num>>

-----------------------------------------------------------------------------
\* The liveness equations.

\* temp: what block b hands to its successor s. The phis of s are taken in
\* order, each erased before its own incoming value is inserted.
AllOperandsFlow(b, s) == (in[getFirstNonPHI(prog, s)] \ Phis(prog, s)) \cup
  UNION {Operands(prog, phi) : phi \in Phis(prog, s)}

ErasedAgain(phi, b, s) ==
  \E psi \in Phis(prog, s) :
    IndexOf(prog, phi) < IndexOf(prog, psi) /\ psi = Incoming(prog, phi, b)

FlowsInto(b, s) == (in[getFirstNonPHI(prog, s)] \ Phis(prog, s)) \cup
  {Incoming(prog, phi, b) : phi \in {psi \in Phis(prog, s) : ~ErasedAgain(psi, b, s)}}

LiveAfter(I) ==
  IF IsPhi(prog, I) THEN in[getFirstNonPHI(prog, BlockOf(prog, I))]
  ELSE IF getNextNode(prog, I) # NoValue THEN in[getNextNode(prog, I)]
  ELSE UNION {FlowsInto(BlockOf(prog, I), s) : s \in Range(prog.succ[BlockOf(prog, I)])}

\* What is live after I is live before it, except what I itself defines.
ThroughDefinition(I, live) == live \ {I}

\* One iteration of  for (I : insts)  inside  while (updated).
Visit ==
  /\ phase = "solve" /\ pos <= Len(insts)
  /\ LET I == insts[pos]
         o == out[I] \cup LiveAfter(I)
         i == in[I] \cup ThroughDefinition(I, o)
     IN  /\ out' = [out EXCEPT ![I] = o]
         /\ in'  = [in EXCEPT ![I] = i]
         /\ updated' = (updated \/ o # out[I] \/ i # in[I])
  /\ pos' = pos + 1
  /\ UNCHANGED <<prog, phase, stack, bbVisit, bbNext, insts, inter_graph, inst2num>>

\* while (updated) { updated = false; ... }
\* (updated is TRUE before the first pass, and then speaks of the pass just done;
\* the code compares the sizes of the sets before and after, and they only grow)
AlwaysAgain == TRUE
Again == updated

NextPass ==
  /\ phase = "solve" /\ pos > Len(insts) /\ Again
  /\ pos' = 1
  /\ updated' = FALSE
  /\ UNCHANGED <<prog, phase, stack, bbVisit, bbNext, insts, in, out, inter_graph, inst2num>>

-----------------------------------------------------------------------------
\* The graph: J is a neighbour of I when one is live after the other.

OneSided(I)  == {J \in Regs(prog) \ {I} : I \in DOMAIN out /\ J \in out[I]}

NeighboursBefore(I) == {J \in Regs(prog) \ {I} : J \in in[I] \/ I \in in[J]}

Neighbours(I) == {J \in Regs(prog) \ {I} : J \in out[I] \/ I \in out[J]}

LastIndex(s, x) == Max({k \in DOMAIN s : s[k] = x})

\* cnt where the loop over insts comes to I for the last time
LastNumber(I) ==
  Cardinality({k \in 1..(LastIndex(insts, I) - 1) : isReg(prog, insts[k])})

Connect ==
  /\ phase = "solve" /\ pos > Len(insts) /\ ~Again
  /\ phase' = "built"
  /\ inter_graph' = [I \in Regs(prog) |-> Neighbours(I)]
  /\ inst2num' = [I \in Regs(prog) |-> LastNumber(I)]
  /\ UNCHANGED <<prog, stack, bbVisit, bbNext, insts, in, out, pos, updated>>

BuildNext == \/ Descend \/ Retreat \/ CollectUnreachable
             \/ InitialSets \/ Visit \/ NextPass \/ Connect

\* makeInterferenceGraph of any function phi preprocessing hands on.
BuildInit == IsFunction(prog) /\ PhisReadRegisters(prog) /\ Fresh(prog)

BuildSpec == BuildInit /\ [][BuildNext]_igVars

-----------------------------------------------------------------------------
\* Properties.

\* When the loop `while (updated)` is left, in and out are exactly the live values:
\* nothing a path still reads is missing, and nothing is kept live that no path
\* reads. (The sets only grow, so they never held anything spurious before.)
LivenessExact ==
  phase = "built" =>
    \A I \in Insts(prog) : /\ out[I] = LiveOut(prog, I)
                           /\ ~IsPhi(prog, I) => in[I] = LiveBefore(prog, I)

\* Two registers that are live together at some reachable point are adjacent,
\* although makeInterferenceGraph only looks at what is live after definitions.
GraphCoversLiveRanges ==
  phase = "built" =>
    \A I \in {J \in Points(prog) : isPotentiallyReachable(prog, BlockOf(prog, J))} :
      \A u, v \in LiveBefore(prog, I) \cap Regs(prog) : u # v => v \in inter_graph[u]

\* The registers of the code control can come to.
Found == {I \in Regs(prog) : isPotentiallyReachable(prog, BlockOf(prog, I))}

\* inst2num numbers a register after every register it dominates, which is what
\* makes the reversed elimination order follow the dominator tree.
NumberedAfterDominated ==
  phase = "built" =>
    \A a, b \in Found : a # b /\ DefDominates(prog, a, b) => inst2num[b] < inst2num[a]

\* Taken by their numbers, registers are eliminated perfectly: the neighbours of each that
\* are still there are neighbours of one another. Phis nothing reads are the exception:
\* two of one block are both neighbours of a third, but not of each other.
DeadPhi(I) == IsPhi(prog, I) /\ I \notin out[I]

NumberedPerfectly ==
  phase = "built" =>
    \A c \in Found : \A a, b \in {I \in inter_graph[c] \cap Found : inst2num[c] < inst2num[I]} :
      a # b /\ ~(DeadPhi(a) /\ DeadPhi(b)) => b \in inter_graph[a]

\* Of the vertices V of graph g those whose neighbours in V are all adjacent; taking such
\* vertices away, round after round, leaves nothing of a chordal graph.
Simplicial(g, V) == {I \in V : \A J, K \in g[I] \cap V : J # K => K \in g[J]}
Peeling(g, V)    == [gone \in SUBSET V |-> gone \cup Simplicial(g, V \ gone)]
IsChordal(g, V)  == Iterate(Peeling(g, V), {}, Cardinality(V)) = V

\* "SSA-form should have chordal interference graph" (the assertion that ends
\* PerfectEliminationOrdering). It has, as makeInterferenceGraph builds it;
\* what reaches PerfectEliminationOrdering has had its phis coalesced and need not.
ChordalAsBuilt == phase = "built" => IsChordal(inter_graph, Found)

\* Construction of the graph always ends: the sets grow and are bounded.
EventuallyBuilt == <>(phase = "built")
=============================================================================
