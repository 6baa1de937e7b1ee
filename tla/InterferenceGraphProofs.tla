---------------------- MODULE InterferenceGraphProofs ----------------------
(***************************************************************************)
(* makeInterferenceGraph, for every function: the loop over the liveness   *)
(* equations ends with the live values and nothing else; the graph joins   *)
(* any two registers that are live together, although only what is live    *)
(* after definitions is looked at; a register is numbered after every      *)
(* register it dominates, so that the numbers are a perfect elimination    *)
(* order; and the graph is chordal.                                        *)
(*                                                                         *)
(* The live values are the least set that holds what is read and is closed *)
(* under going one step back, so are the reachable blocks the least set    *)
(* closed under successors. Arguments that go along paths are made with    *)
(* these sets: what every step keeps, the whole path keeps.                *)
(***************************************************************************)
EXTENDS InterferenceGraph, SSAProofs

-----------------------------------------------------------------------------
\* Points.

\* Where control enters a block there is a point.
LEMMA FirstPoint ==
  ASSUME NEW p, IsFunction(p), NEW b \in Blocks(p)
  PROVE  /\ getFirstNonPHI(p, b) \in Points(p) /\ BlockOf(p, getFirstNonPHI(p, b)) = b
         /\ \A I \in Points(p) :
              BlockOf(p, I) = b => IndexOf(p, getFirstNonPHI(p, b)) <= IndexOf(p, I)
<1> DEFINE code == p.body[b]
           points == {k \in DOMAIN code : ~IsPhi(p, code[k])}
           First(k) == ~IsPhi(p, code[k]) /\ \A j \in 1..(k - 1) : IsPhi(p, code[j])
<1>1. /\ code \in Seq(Insts(p)) /\ DOMAIN code = 1..Len(code) /\ Len(code) \in Nat \ {0}
      /\ ~IsPhi(p, code[Len(code)])
  BY LenProperties, EmptySeq DEF IsFunction, Blocks, getTerminator, Last
<1>2. \E k \in DOMAIN code : First(k)
  <2>1. points # {} /\ points \in SUBSET Nat
    BY <1>1
  <2> HIDE DEF points
  <2>2. PICK k \in points : \A j \in points : k <= j
    BY <2>1, LeastNatural
  <2>3. \A j \in 1..(k - 1) : j \in DOMAIN code /\ j \notin points
    BY <1>1, <2>1, <2>2 DEF points
  <2>4. First(k)
    BY <1>1, <2>2, <2>3 DEF points
  <2> QED
    BY <1>1, <2>2, <2>4 DEF points
<1>3. PICK k \in DOMAIN code : First(k) /\ getFirstNonPHI(p, b) = code[k]
  BY <1>2 DEF getFirstNonPHI
<1>4. code[k] \in Insts(p)
  BY <1>1
<1>5. BlockOf(p, code[k]) = b /\ IndexOf(p, code[k]) = k
  BY <1>1, <1>4, Places
<1>6. ASSUME NEW I \in Points(p), BlockOf(p, I) = b PROVE k <= IndexOf(p, I)
  <2>1. IndexOf(p, I) \in 1..Len(code) /\ code[IndexOf(p, I)] = I /\ ~IsPhi(p, I)
    BY <1>6, Places DEF Points
  <2> QED
    BY <1>1, <1>3, <2>1
<1> QED
  BY <1>3, <1>4, <1>5, <1>6 DEF Points

\* The instruction after an instruction is in its block, and after a point comes a point.
LEMMA NextInst ==
  ASSUME NEW p, IsFunction(p), NEW I \in Insts(p), getNextNode(p, I) # NoValue
  PROVE  /\ getNextNode(p, I) \in Insts(p)
         /\ BlockOf(p, getNextNode(p, I)) = BlockOf(p, I)
         /\ I \in Points(p) => getNextNode(p, I) \in Points(p)
<1> DEFINE b == BlockOf(p, I)
           k == IndexOf(p, I)
<1>1. /\ b \in Blocks(p) /\ k \in 1..Len(p.body[b]) /\ p.body[b][k] = I
  BY Places
<1>2. p.body[b] \in Seq(Insts(p)) /\ DOMAIN p.body[b] = 1..Len(p.body[b])
  BY <1>1, LenProperties DEF IsFunction, Blocks
<1>3. k < Len(p.body[b]) /\ getNextNode(p, I) = p.body[b][k + 1]
  BY DEF getNextNode
<1> HIDE DEF b, k
<1>4. k + 1 \in 1..Len(p.body[b])
  BY <1>1, <1>2, <1>3
<1>5. p.body[b][k + 1] \in Insts(p)
  BY <1>2, <1>4
<1>6. BlockOf(p, p.body[b][k + 1]) = b
  BY <1>1, <1>4, <1>5, Places
<1>7. IsPhi(p, p.body[b][k + 1]) => IsPhi(p, p.body[b][k])
  <2>1. k \in 1..(k + 1) /\ k + 1 \in DOMAIN p.body[b]
    BY <1>1, <1>2, <1>4
  <2> QED
    BY <1>1, <2>1 DEF IsFunction
<1> QED
  BY <1>1, <1>3, <1>5, <1>6, <1>7 DEF Points, b

\* There is no next instruction behind the last of a block.
LEMMA NoNextInst ==
  ASSUME NEW p, IsFunction(p), NEW I \in Insts(p)
  PROVE  getNextNode(p, I) = NoValue <=> IndexOf(p, I) = Len(p.body[BlockOf(p, I)])
<1> DEFINE b == BlockOf(p, I)
           k == IndexOf(p, I)
<1>1. b \in Blocks(p) /\ k \in 1..Len(p.body[b])
  BY Places
<1>2. Len(p.body[b]) \in Nat /\ \A j \in 1..Len(p.body[b]) : p.body[b][j] \in Insts(p)
  BY <1>1, CodeOf
<1>3. \A J \in Insts(p) : J # NoValue
  BY DEF IsFunction, IsInst, NoValue
<1> HIDE DEF b, k
<1>4. k < Len(p.body[b]) => k + 1 \in 1..Len(p.body[b])
  BY <1>1, <1>2
<1>5. getNextNode(p, I) = IF k < Len(p.body[b]) THEN p.body[b][k + 1] ELSE NoValue
  BY DEF getNextNode, b, k
<1>6. getNextNode(p, I) = NoValue <=> k = Len(p.body[b])
  BY <1>1, <1>2, <1>3, <1>4, <1>5
<1> QED
  BY <1>6 DEF b, k

\* A block ends with a point.
LEMMA LastPoint ==
  ASSUME NEW p, IsFunction(p), NEW b \in Blocks(p)
  PROVE  /\ getTerminator(p, b) \in Points(p) /\ BlockOf(p, getTerminator(p, b)) = b
         /\ getNextNode(p, getTerminator(p, b)) = NoValue
<1>1. /\ p.body[b] \in Seq(Insts(p)) /\ Len(p.body[b]) \in Nat \ {0}
      /\ getTerminator(p, b) = p.body[b][Len(p.body[b])] /\ ~IsPhi(p, getTerminator(p, b))
  BY EmptySeq DEF IsFunction, Blocks, getTerminator, Last
<1>2. getTerminator(p, b) \in Insts(p)
  BY <1>1, ElementOfSeq
<1>3. /\ BlockOf(p, getTerminator(p, b)) = b
      /\ IndexOf(p, getTerminator(p, b)) = Len(p.body[b])
  BY <1>1, <1>2, Places
<1> QED
  BY <1>1, <1>2, <1>3, NoNextInst DEF Points

\* Control passes from points to points.
LEMMA FollowsPoints ==
  ASSUME NEW p, IsFunction(p), NEW I \in Points(p)
  PROVE  /\ Follows(p, I) \subseteq Points(p)
         /\ BlockOf(p, I) \in Blocks(p)
         /\ Range(p.succ[BlockOf(p, I)]) \subseteq Blocks(p)
<1>1. I \in Insts(p) /\ BlockOf(p, I) \in Blocks(p)
  BY Places DEF Points
<1>2. Range(p.succ[BlockOf(p, I)]) \subseteq Blocks(p)
  <2>1. p.succ[BlockOf(p, I)] \in Seq(Blocks(p))
    BY <1>1 DEF IsFunction
  <2> QED
    BY <2>1, RangeOfSeq
<1> QED
  BY <1>1, <1>2, NextInst, FirstPoint DEF Follows

\* A phi has an operand for every edge into its block.
LEMMA IncomingPlace ==
  ASSUME NEW p, IsFunction(p), NEW b \in Blocks(p),
         NEW s \in Range(p.succ[b]), s \in Blocks(p), NEW phi \in Phis(p, s)
  PROVE  \E k \in DOMAIN p.args[phi] :
           p.args[phi][k] = Incoming(p, phi, b) /\ p.from[phi][k] = b
<1> DEFINE arms == {k \in DOMAIN p.from[phi] : p.from[phi][k] = b}
<1>1. /\ p.from[phi] \in Seq(Blocks(p)) /\ DOMAIN p.args[phi] = DOMAIN p.from[phi]
      /\ b \in Range(p.from[phi])
  BY DEF IsFunction
<1>2. arms # {} /\ arms \in SUBSET Nat
  BY <1>1, LenProperties DEF Range
<1>3. \E k \in arms : \A j \in arms : k <= j
  <2> HIDE DEF arms
  <2> QED
    BY <1>2, LeastNatural
<1>4. Min(arms) \in arms
  <2> HIDE DEF arms
  <2> QED
    BY <1>3 DEF Min
<1> QED
  BY <1>1, <1>4 DEF Incoming

\* What a phi reads is an instruction and no phi.
LEMMA IncomingOperand ==
  ASSUME NEW p, IsFunction(p), PhisReadRegisters(p), NEW b \in Blocks(p),
         NEW s \in Range(p.succ[b]), s \in Blocks(p), NEW phi \in Phis(p, s)
  PROVE  Incoming(p, phi, b) \in Insts(p) /\ ~IsPhi(p, Incoming(p, phi, b))
<1>1. \E k \in DOMAIN p.args[phi] : p.args[phi][k] = Incoming(p, phi, b)
  BY IncomingPlace
<1>2. phi \in AllPhis(p)
  BY PhisAreInsts DEF AllPhis
<1> QED
  BY <1>1, <1>2 DEF PhisReadRegisters, Range

-----------------------------------------------------------------------------
\* Liveness.

\* The points where v is live are the least set that holds the points reading v and is
\* closed under going one step back, past no definition of v.
LEMMA LivePointsAreLeast ==
  ASSUME NEW p, IsFunction(p), NEW v
  PROVE  /\ LivePoints(p, v) \subseteq Points(p)
         /\ ReadAt(p, v) \subseteq LivePoints(p, v)
         /\ \A I \in Points(p) \ {v} : \A J \in Follows(p, I) :
              J \in LivePoints(p, v) /\ ~RedefinedOn(p, I, J, v) => I \in LivePoints(p, v)
         /\ \A T \in SUBSET Points(p) :
              /\ ReadAt(p, v) \subseteq T
              /\ \A I \in Points(p) \ {v} : \A J \in Follows(p, I) :
                   J \in T /\ ~RedefinedOn(p, I, J, v) => I \in T
              => LivePoints(p, v) \subseteq T
<1> DEFINE P == Points(p)
           back == Backward(p, v)
           R == ReadAt(p, v)
<1>0. back \in [SUBSET P -> SUBSET P] /\ \A X \in SUBSET P : X \subseteq back[X]
  BY DEF Backward
<1>1. /\ \A X \in SUBSET P : \A I \in P \ {v} : \A J \in Follows(p, I) :
           J \in X /\ ~RedefinedOn(p, I, J, v) => I \in back[X]
      /\ \A X \in SUBSET P : \A I \in back[X] : I \in X \/
           (I \in P \ {v} /\ \E J \in Follows(p, I) \cap X : ~RedefinedOn(p, I, J, v))
  BY DEF Backward
<1>2. R \in SUBSET P /\ IsFiniteSet(P)
  <2>1. P \subseteq Insts(p) /\ IsFiniteSet(Insts(p))
    BY DEF Points, IsFunction
  <2> QED
    BY <2>1, FS_Subset DEF ReadAt
<1>3. LivePoints(p, v) = Iterate(back, R, Cardinality(P))
  BY DEF LivePoints
<1> HIDE DEF P, back, R
<1> DEFINE L == Iterate(back, R, Cardinality(P))
<1>4. L \in SUBSET P /\ R \subseteq L /\ back[L] = L
  BY <1>0, <1>2, IterateClosed, Zenon
<1>5. ASSUME NEW T \in SUBSET P, R \subseteq T,
             \A I \in P \ {v} : \A J \in Follows(p, I) :
               J \in T /\ ~RedefinedOn(p, I, J, v) => I \in T
      PROVE  L \subseteq T
  <2>1. ASSUME NEW X \in SUBSET T, NEW I \in back[X] PROVE I \in T
    <3>1. X \in SUBSET P
      OBVIOUS
    <3>2. I \in X \/
           (I \in P \ {v} /\ \E J \in Follows(p, I) \cap X : ~RedefinedOn(p, I, J, v))
      BY <1>1, <3>1
    <3> QED
      BY <1>5, <3>2
  <2>2. Cardinality(P) \in Nat
    BY <1>2, FS_CardinalityType
  <2>3. \A X \in SUBSET T : back[X] \subseteq T
    BY <2>1
  <2>4. back \in [SUBSET P -> SUBSET P] /\ R \in SUBSET P /\ R \subseteq T
    BY <1>0, <1>2, <1>5
  <2> QED
    BY <2>2, <2>3, <2>4, IterateWithin, ZenonT(60)
<1>6. \A I \in P \ {v} : \A J \in Follows(p, I) :
        J \in L /\ ~RedefinedOn(p, I, J, v) => I \in L
  BY <1>1, <1>4
<1> HIDE DEF L
<1> QED
  BY <1>3, <1>4, <1>5, <1>6 DEF P, R, L

\* The live values solve the equations.
LEMMA LiveValuesSolve ==
  ASSUME NEW p, IsFunction(p), NEW I \in Points(p)
  PROVE  /\ Operands(p, I) \subseteq LiveBefore(p, I)
         /\ LiveOut(p, I) \ {I} \subseteq LiveBefore(p, I)
<1>1. Operands(p, I) \subseteq Insts(p)
  BY DEF IsFunction, Points
<1>2. ASSUME NEW v \in Operands(p, I) PROVE I \in LivePoints(p, v)
  BY LivePointsAreLeast DEF ReadAt
<1>3. ASSUME NEW v \in LiveOut(p, I), v # I PROVE I \in LivePoints(p, v)
  BY <1>3, LivePointsAreLeast DEF ReadAt, LiveOut, Points
<1>4. LiveOut(p, I) \subseteq Insts(p)
  BY DEF LiveOut, Points
<1> QED
  BY <1>1, <1>2, <1>3, <1>4 DEF LiveBefore

\* What is live after I, when `before` says what is live before the points.
Passed(p, before, I) ==
  IF IsPhi(p, I) THEN before[getFirstNonPHI(p, BlockOf(p, I))]
  ELSE {v \in Insts(p) :
          \/ ReadOnEdge(p, I, v)
          \/ \E J \in Follows(p, I) : v \in before[J] /\ ~RedefinedOn(p, I, J, v)}

\* Sets that hold no more than the live values before the points pass on no more.
LEMMA PassedIsLive ==
  ASSUME NEW p, IsFunction(p), NEW before,
         \A J \in Points(p) : before[J] \subseteq LiveBefore(p, J), NEW I \in Insts(p)
  PROVE  Passed(p, before, I) \subseteq LiveOut(p, I)
<1>1. CASE IsPhi(p, I)
  BY <1>1, Places, FirstPoint DEF Passed, LiveOut
<1>2. CASE ~IsPhi(p, I)
  <2>1. I \in Points(p)
    BY <1>2 DEF Points
  <2>2. \A J \in Follows(p, I) : \A v \in before[J] : J \in LivePoints(p, v)
    BY <2>1, FollowsPoints DEF LiveBefore
  <2> QED
    BY <1>2, <2>2 DEF Passed, LiveOut
<1> QED
  BY <1>1, <1>2

\* Sets that satisfy the equations hold every live value.
LEMMA SolutionsHoldLiveValues ==
  ASSUME NEW p, IsFunction(p), NEW before \in [Insts(p) -> SUBSET Insts(p)],
         NEW after \in [Insts(p) -> SUBSET Insts(p)],
         \A I \in Insts(p) : /\ Operands(p, I) \subseteq before[I]
                             /\ Passed(p, before, I) \subseteq after[I]
                             /\ after[I] \ {I} \subseteq before[I]
  PROVE  /\ \A I \in Points(p) : LiveBefore(p, I) \subseteq before[I]
         /\ \A I \in Insts(p) : LiveOut(p, I) \subseteq after[I]
<1>1. ASSUME NEW v \in Insts(p)
      PROVE  \A I \in LivePoints(p, v) : v \in before[I]
  <2> DEFINE T == {I \in Points(p) : v \in before[I]}
  <2>1. ASSUME NEW I \in Points(p), v \in Passed(p, before, I), v # I
        PROVE  I \in T
    BY <2>1 DEF Points
  <2>2. ReadAt(p, v) \subseteq T
    <3> SUFFICES ASSUME NEW I \in ReadAt(p, v) PROVE I \in T
      OBVIOUS
    <3>1. I \in Points(p) /\ I \in Insts(p) /\ ~IsPhi(p, I)
      BY DEF ReadAt, Points
    <3>2. CASE v \in Operands(p, I)
      BY <3>1, <3>2
    <3>3. CASE v # I /\ ReadOnEdge(p, I, v)
      BY <2>1, <3>1, <3>3 DEF Passed
    <3> QED
      BY <3>2, <3>3 DEF ReadAt
  <2>3. ASSUME NEW I \in Points(p) \ {v}, NEW J \in Follows(p, I), J \in T,
               ~RedefinedOn(p, I, J, v)
        PROVE  I \in T
    <3>1. v \in Passed(p, before, I)
      BY <2>3 DEF Passed, Points
    <3> QED
      BY <2>1, <3>1
  <2>4. LivePoints(p, v) \subseteq T
    <3>1. T \in SUBSET Points(p)
      OBVIOUS
    <3> HIDE DEF T
    <3> QED
      BY <2>2, <2>3, <3>1, LivePointsAreLeast
  <2> QED
    BY <2>4
<1>2. \A I \in Points(p) : LiveBefore(p, I) \subseteq before[I]
  BY <1>1 DEF LiveBefore
<1>3. ASSUME NEW I \in Insts(p)
      PROVE  LiveOut(p, I) \subseteq Passed(p, before, I)
  <2>1. CASE IsPhi(p, I)
    BY <1>2, <2>1, Places, FirstPoint DEF Passed, LiveOut
  <2>2. CASE ~IsPhi(p, I)
    BY <1>1, <2>2 DEF Passed, LiveOut
  <2> QED
    BY <2>1, <2>2
<1> QED
  BY <1>2, <1>3

\* What the code computes for I is what is live after it when `in` is right: no phi of a
\* block is erased from the set after it was inserted.
LEMMA LiveAfterIsPassed ==
  ASSUME IsFunction(prog), PhisReadRegisters(prog),
         in \in [Insts(prog) -> SUBSET Insts(prog)], NEW I \in Insts(prog)
  PROVE  LiveAfter(I) = Passed(prog, in, I)
<1>1. CASE IsPhi(prog, I)
  BY <1>1 DEF LiveAfter, Passed
<1>2. CASE ~IsPhi(prog, I) /\ getNextNode(prog, I) # NoValue
  <2>1. getNextNode(prog, I) \in Insts(prog)
    BY <1>2, NextInst
  <2>2. in[getNextNode(prog, I)] \subseteq Insts(prog)
    BY <2>1
  <2> QED
    BY <1>2, <2>2 DEF LiveAfter, Passed, Follows, RedefinedOn, ReadOnEdge
<1>3. CASE ~IsPhi(prog, I) /\ getNextNode(prog, I) = NoValue
  <2> DEFINE b == BlockOf(prog, I)
             first(s) == getFirstNonPHI(prog, s)
  <2>1. /\ b \in Blocks(prog)
        /\ \A s \in Range(prog.succ[b]) :
             /\ s \in Blocks(prog) /\ first(s) \in Insts(prog) /\ BlockOf(prog, first(s)) = s
             /\ in[first(s)] \subseteq Insts(prog)
    BY <1>3, FollowsPoints, FirstPoint DEF Points
  <2>2. ASSUME NEW s \in Range(prog.succ[b])
        PROVE  FlowsInto(b, s) = (in[first(s)] \ Phis(prog, s)) \cup
                 {Incoming(prog, phi, b) : phi \in Phis(prog, s)}
    <3>1. \A phi \in Phis(prog, s) : ~IsPhi(prog, Incoming(prog, phi, b))
      BY <2>1, <2>2, IncomingOperand
    <3>2. \A phi \in Phis(prog, s) : ~ErasedAgain(phi, b, s)
      BY <3>1 DEF ErasedAgain, Phis
    <3> QED
      BY <3>2 DEF FlowsInto
  <2>3. \A s \in Range(prog.succ[b]) : \A phi \in Phis(prog, s) :
          Incoming(prog, phi, b) \in Insts(prog)
    BY <2>1, IncomingOperand
  <2>4. LiveAfter(I) = UNION {FlowsInto(b, s) : s \in Range(prog.succ[b])}
    BY <1>3 DEF LiveAfter
  <2>5. ASSUME NEW v
        PROVE  v \in LiveAfter(I) <=>
          \E s \in Range(prog.succ[b]) :
            \/ v \in in[first(s)] /\ v \notin Phis(prog, s)
            \/ \E phi \in Phis(prog, s) : Incoming(prog, phi, b) = v
    BY <2>2, <2>4
  <2>6. ASSUME NEW v
        PROVE  v \in Passed(prog, in, I) <=>
          /\ v \in Insts(prog)
          /\ \E s \in Range(prog.succ[b]) :
               \/ v \in in[first(s)] /\ v \notin Phis(prog, s)
               \/ \E phi \in Phis(prog, s) : Incoming(prog, phi, b) = v
    BY <1>3, <2>1 DEF Passed, Follows, ReadOnEdge, RedefinedOn
  <2> QED
    BY <2>1, <2>3, <2>5, <2>6
<1> QED
  BY <1>1, <1>2, <1>3

-----------------------------------------------------------------------------
\* Collecting the instructions.

Activations == Blocks(prog) \X (Nat \ {0})

\* Block b is being visited.
Active(b) == \E i \in 1..Len(stack) : stack[i][1] = b

\* The instructions of b are collected and its successors visited.
Finished(b) ==
  Range(prog.body[b]) \subseteq Range(insts) /\ Range(prog.succ[b]) \subseteq bbVisit

\* While the depth-first search runs: what it passed over has been visited, what it has
\* visited it finished or is about to.
Collecting ==
  /\ updated = TRUE
  /\ stack \in Seq(Activations)
  /\ bbVisit \subseteq Blocks(prog) /\ 1 \in bbVisit
  /\ bbNext \in Nat \ {0}
  /\ insts \in Seq(Insts(prog))
  /\ \A i \in 1..Len(stack) : \A j \in 1..Len(prog.succ[stack[i][1]]) :
       j < stack[i][2] => prog.succ[stack[i][1]][j] \in bbVisit
  /\ \A b \in bbVisit : Active(b) \/ Finished(b)
  /\ \A b \in Blocks(prog) :
       b < bbNext => isPotentiallyReachable(prog, b) \/ b \in bbVisit

\* Instruction I satisfies the liveness equations.
Settled(I) ==
  Passed(prog, in, I) \subseteq out[I] /\ out[I] \ {I} \subseteq in[I]

\* While the equations are iterated: the sets hold live values only, and unless this pass
\* changed something, what it went through satisfies the equations.
Solving ==
  /\ insts \in Seq(Insts(prog)) /\ Range(insts) = Insts(prog)
  /\ pos \in Nat \ {0}
  /\ in \in [Insts(prog) -> SUBSET Insts(prog)]
  /\ out \in [Insts(prog) -> SUBSET Insts(prog)]
  /\ \A I \in Insts(prog) :
       Operands(prog, I) \subseteq in[I] /\ out[I] \subseteq LiveOut(prog, I)
  /\ \A I \in Points(prog) : in[I] \subseteq LiveBefore(prog, I)
  /\ ~updated => \A k \in 1..Len(insts) : k < pos => Settled(insts[k])

\* The inductive invariant.
BuildInv ==
  /\ IsFunction(prog) /\ PhisReadRegisters(prog)
  /\ phase \in {"collect", "solve", "built"}
  /\ phase = "collect" => Collecting
  /\ phase \in {"solve", "built"} => Solving
  /\ phase = "built" => /\ ~updated /\ pos > Len(insts)
                         /\ inter_graph = [I \in Regs(prog) |-> Neighbours(I)]

LEMMA BuildStarts == BuildInit => BuildInv
<1> SUFFICES ASSUME BuildInit PROVE BuildInv
  OBVIOUS
<1>1. /\ IsFunction(prog) /\ PhisReadRegisters(prog) /\ phase = "collect"
      /\ stack = <<<<1, 1>>>> /\ bbVisit = {1} /\ bbNext = 1 /\ insts = <<>> /\ updated = TRUE
  BY DEF BuildInit, Fresh
<1>2. 1 \in Blocks(prog) /\ Blocks(prog) = 1..Len(prog.body)
  <2>1. prog.body \in Seq(Seq(Insts(prog))) /\ prog.body # <<>>
    BY <1>1 DEF IsFunction
  <2> QED
    BY <2>1, LenProperties, EmptySeq DEF Blocks
<1>3. <<1, 1>> \in Activations
  BY <1>2 DEF Activations
<1>4. stack \in Seq(Activations) /\ Len(stack) = 1 /\ stack[1] = <<1, 1>>
  BY <1>1, <1>3
<1>5. \A i \in 1..Len(stack) : \A j \in 1..Len(prog.succ[stack[i][1]]) :
        j < stack[i][2] => prog.succ[stack[i][1]][j] \in bbVisit
  BY <1>4
<1>6. \A b \in bbVisit : Active(b)
  BY <1>1, <1>4 DEF Active
<1>7. \A b \in Blocks(prog) : ~(b < bbNext)
  BY <1>1, <1>2
<1>8. Collecting
  BY <1>1, <1>2, <1>4, <1>5, <1>6, <1>7 DEF Collecting
<1> QED
  BY <1>1, <1>8 DEF BuildInv

\* The topmost activation while there is one.
LEMMA TopIsActive ==
  ASSUME IsFunction(prog), Collecting, stack # <<>>
  PROVE  /\ Len(stack) \in Nat \ {0} /\ Top = stack[Len(stack)]
         /\ \A i \in 1..Len(stack) : stack[i] = <<stack[i][1], stack[i][2]>>
         /\ \A i \in 1..Len(stack) : stack[i][1] \in Blocks(prog) /\ stack[i][2] \in Nat \ {0}
         /\ \A b \in Blocks(prog) : /\ prog.succ[b] \in Seq(Blocks(prog))
                                   /\ Len(prog.succ[b]) \in Nat
                                   /\ prog.body[b] \in Seq(Insts(prog))
<1>1. stack \in Seq(Activations) /\ stack # <<>>
  BY DEF Collecting
<1>2. Len(stack) \in Nat \ {0} /\ \A i \in 1..Len(stack) : stack[i] \in Activations
  BY <1>1, EmptySeq, ElementOfSeq
<1>3. \A b \in Blocks(prog) : /\ prog.succ[b] \in Seq(Blocks(prog))
                            /\ prog.body[b] \in Seq(Insts(prog))
  BY DEF IsFunction, Blocks
<1> QED
  BY <1>2, <1>3, LenProperties DEF Activations, Top

\* What Descend does to the stack.
LEMMA DescendShape ==
  ASSUME BuildInv, Descend
  PROVE  \E b, next \in Blocks(prog), k \in Nat \ {0} :
           /\ Len(stack) \in Nat \ {0} /\ stack[Len(stack)] = <<b, k>>
           /\ k <= Len(prog.succ[b]) /\ next = prog.succ[b][k]
           /\ bbVisit' = bbVisit \cup {next}
           /\ stack' \in Seq(Activations)
           /\ Len(stack') = IF next \in bbVisit THEN Len(stack) ELSE Len(stack) + 1
           /\ \A i \in 1..Len(stack') :
                stack'[i] = IF i = Len(stack) THEN <<b, k + 1>>
                            ELSE IF i = Len(stack) + 1 THEN <<next, 1>> ELSE stack[i]
<1> DEFINE n == Len(stack)
           b == Top[1]
           k == Top[2]
           next == prog.succ[b][k]
           advanced == [stack EXCEPT ![n] = <<b, k + 1>>]
<1>1. /\ phase = "collect" /\ stack # <<>> /\ IsFunction(prog) /\ PhisReadRegisters(prog)
      /\ Collecting /\ k <= Len(prog.succ[b])
      /\ UNCHANGED <<prog, phase, bbNext, insts, in, out, pos, updated, inter_graph, inst2num>>
  BY DEF BuildInv, Descend
<1>2. /\ n \in Nat \ {0} /\ b \in Blocks(prog) /\ k \in Nat \ {0} /\ Top = stack[n]
      /\ stack[n] = <<b, k>> /\ prog.succ[b] \in Seq(Blocks(prog))
  BY <1>1, TopIsActive
<1>3. next \in Blocks(prog)
  BY <1>1, <1>2, ElementOfSeq
<1>4. /\ advanced \in Seq(Activations) /\ Len(advanced) = n
      /\ \A i \in 1..n : advanced[i] = IF i = n THEN <<b, k + 1>> ELSE stack[i]
  <2>1. stack \in Seq(Activations) /\ n \in 1..Len(stack) /\ <<b, k + 1>> \in Activations
    BY <1>1, <1>2 DEF Collecting, Activations
  <2> QED
    BY <2>1, ExceptSeq
<1>5. IF next \in bbVisit
      THEN stack' = advanced /\ UNCHANGED bbVisit
      ELSE stack' = Append(advanced, <<next, 1>>) /\ bbVisit' = bbVisit \cup {next}
  <2>1. [<<b, k>> EXCEPT ![2] = k + 1] = <<b, k + 1>>
    OBVIOUS
  <2> HIDE DEF n, b, k
  <2>2. [stack[n] EXCEPT ![2] = @ + 1] = <<b, k + 1>>
    BY <1>2, <2>1
  <2>3. [stack EXCEPT ![n] = [stack[n] EXCEPT ![2] = @ + 1]] = advanced
    BY <2>2
  <2> QED
    BY <2>3 DEF Descend, n, b, k
<1>6. <<next, 1>> \in Activations
  BY <1>3 DEF Activations
<1> HIDE DEF n, b, k, advanced, next
<1> DEFINE m == IF next \in bbVisit THEN n ELSE n + 1
<1>7. /\ stack' \in Seq(Activations) /\ Len(stack') = m
      /\ \A i \in 1..m : stack'[i] = IF i = n THEN <<b, k + 1>>
                                    ELSE IF i = n + 1 THEN <<next, 1>> ELSE stack[i]
  <2>1. CASE next \in bbVisit
    BY <1>2, <1>4, <1>5, <2>1
  <2>2. CASE next \notin bbVisit
    <3>1. /\ Append(advanced, <<next, 1>>) \in Seq(Activations)
          /\ Len(Append(advanced, <<next, 1>>)) = n + 1
          /\ \A i \in 1..n : Append(advanced, <<next, 1>>)[i] = advanced[i]
          /\ Append(advanced, <<next, 1>>)[n + 1] = <<next, 1>>
      BY <1>4, <1>6, AppendProperties
    <3>2. stack' = Append(advanced, <<next, 1>>) /\ m = n + 1 /\ n \in Nat
      BY <1>2, <1>5, <2>2
    <3> HIDE DEF m
    <3>3. stack' \in Seq(Activations) /\ Len(stack') = m
      BY <3>1, <3>2
    <3>4. ASSUME NEW i \in 1..m
          PROVE  stack'[i] = IF i = n THEN <<b, k + 1>>
                             ELSE IF i = n + 1 THEN <<next, 1>> ELSE stack[i]
      <4>1. CASE i = n + 1
        BY <3>1, <3>2, <4>1
      <4>2. CASE i # n + 1
        <5>1. i \in 1..n
          BY <3>2, <4>2
        <5> QED
          BY <1>4, <3>1, <3>2, <4>2, <5>1
      <4> QED
        BY <4>1, <4>2
    <3> QED
      BY <3>3, <3>4
  <2> QED
    BY <2>1, <2>2
<1>8. bbVisit' = bbVisit \cup {next}
  BY <1>5
<1>9. k <= Len(prog.succ[b]) /\ next = prog.succ[b][k]
  BY <1>1 DEF b, k, next
<1>10. /\ Len(stack) \in Nat \ {0} /\ stack[Len(stack)] = <<b, k>>
       /\ Len(stack') = IF next \in bbVisit THEN Len(stack) ELSE Len(stack) + 1
       /\ \A i \in 1..Len(stack') :
            stack'[i] = IF i = Len(stack) THEN <<b, k + 1>>
                        ELSE IF i = Len(stack) + 1 THEN <<next, 1>> ELSE stack[i]
  BY <1>2, <1>7 DEF n
<1> HIDE DEF m
<1> QED
  BY <1>2, <1>3, <1>7, <1>8, <1>9, <1>10

LEMMA DescendKeeps == ASSUME BuildInv, Descend PROVE BuildInv'
<1> DEFINE n == Len(stack)
<1>1. /\ phase = "collect" /\ IsFunction(prog) /\ PhisReadRegisters(prog) /\ Collecting
      /\ UNCHANGED <<prog, phase, bbNext, insts, in, out, pos, updated, inter_graph, inst2num>>
  BY DEF BuildInv, Descend
<1>2. PICK b \in Blocks(prog), next \in Blocks(prog), k \in Nat \ {0} :
        /\ n \in Nat \ {0} /\ stack[n] = <<b, k>>
        /\ k <= Len(prog.succ[b]) /\ next = prog.succ[b][k]
        /\ bbVisit' = bbVisit \cup {next}
        /\ stack' \in Seq(Activations)
        /\ Len(stack') = IF next \in bbVisit THEN n ELSE n + 1
        /\ \A i \in 1..Len(stack') :
             stack'[i] = IF i = n THEN <<b, k + 1>>
                         ELSE IF i = n + 1 THEN <<next, 1>> ELSE stack[i]
  BY DescendShape
<1> HIDE DEF n
<1>3. \A i \in 1..Len(stack') : \A j \in 1..Len(prog.succ[stack'[i][1]]) :
        j < stack'[i][2] => prog.succ[stack'[i][1]][j] \in bbVisit'
  <2> SUFFICES ASSUME NEW i \in 1..Len(stack'), NEW j \in 1..Len(prog.succ[stack'[i][1]]),
                      j < stack'[i][2]
               PROVE  prog.succ[stack'[i][1]][j] \in bbVisit'
    OBVIOUS
  <2>1. \A h \in 1..n : \A l \in 1..Len(prog.succ[stack[h][1]]) :
          l < stack[h][2] => prog.succ[stack[h][1]][l] \in bbVisit
    BY <1>1 DEF Collecting, n
  <2>2. CASE i = n
    <3>1. stack'[i] = <<b, k + 1>> /\ j \in 1..Len(prog.succ[b]) /\ j < k + 1
      BY <1>2, <2>2
    <3>2. CASE j = k
      BY <1>2, <3>1, <3>2
    <3>3. CASE j # k
      <4>1. j < k /\ n \in 1..n /\ stack[n][1] = b /\ stack[n][2] = k
        BY <1>2, <3>1, <3>3
      <4> QED
        BY <1>2, <2>1, <3>1, <4>1
    <3> QED
      BY <3>2, <3>3
  <2>3. CASE i = n + 1
    BY <1>2, <2>3
  <2>4. CASE i # n /\ i # n + 1
    <3>1. i \in 1..n /\ stack'[i] = stack[i]
      BY <1>2, <2>4
    <3> QED
      BY <1>2, <2>1, <3>1
  <2> QED
    BY <2>2, <2>3, <2>4
<1>4. \A c \in bbVisit' : Active(c)' \/ Finished(c)'
  <2> SUFFICES ASSUME NEW c \in bbVisit' PROVE Active(c)' \/ Finished(c)'
    OBVIOUS
  <2>1. CASE c \in bbVisit /\ Active(c)
    <3>1. PICK i \in 1..n : stack[i][1] = c
      BY <2>1 DEF Active, n
    <3>2. i \in 1..Len(stack') /\ stack'[i][1] = c
      BY <1>2, <3>1
    <3> QED
      BY <3>2 DEF Active
  <2>2. CASE c \in bbVisit /\ Finished(c)
    BY <1>1, <1>2, <2>2 DEF Finished
  <2>3. CASE c \notin bbVisit
    <3>1. c = next /\ next \notin bbVisit
      BY <1>2, <2>3
    <3>2. n + 1 \in 1..Len(stack') /\ stack'[n + 1] = <<next, 1>>
      BY <1>2, <3>1
    <3> QED
      BY <3>1, <3>2 DEF Active
  <2> QED
    BY <1>1, <2>1, <2>2, <2>3 DEF Collecting
<1>5. Collecting'
  BY <1>1, <1>2, <1>3, <1>4 DEF Collecting, Activations
<1> QED
  BY <1>1, <1>5 DEF BuildInv

\* Taking the instructions of a block last to first takes them all.
LEMMA ReverseKeepsRange ==
  ASSUME NEW S, NEW s \in Seq(S)
  PROVE  Reverse(s) \in Seq(S) /\ Range(Reverse(s)) = Range(s)
<1>1. /\ Len(s) \in Nat /\ DOMAIN s = 1..Len(s) /\ \A i \in 1..Len(s) : s[i] \in S
      /\ Reverse(s) = [i \in 1..Len(s) |-> s[(Len(s) - i) + 1]]
  BY DEF Reverse
<1>2. \A i \in 1..Len(s) :
        (Len(s) - i) + 1 \in 1..Len(s) /\ (Len(s) - ((Len(s) - i) + 1)) + 1 = i
  BY <1>1
<1>3. Reverse(s) \in [1..Len(s) -> S]
  BY <1>1, <1>2
<1>4. Range(Reverse(s)) = Range(s)
  <2>1. DOMAIN Reverse(s) = 1..Len(s)
        /\ \A i \in 1..Len(s) : Reverse(s)[i] = s[(Len(s) - i) + 1]
    BY <1>1
  <2>2. \A i \in 1..Len(s) : s[i] = Reverse(s)[(Len(s) - i) + 1]
    BY <1>2, <2>1
  <2>3. \A x : x \in Range(Reverse(s)) => x \in Range(s)
    BY <1>1, <1>2, <2>1 DEF Range
  <2>4. ASSUME NEW i \in 1..Len(s) PROVE s[i] \in Range(Reverse(s))
    <3>1. PICK k \in DOMAIN Reverse(s) : s[i] = Reverse(s)[k]
      BY <1>2, <2>1, <2>2
    <3> QED
      BY <3>1 DEF Range
  <2> QED
    BY <1>1, <2>3, <2>4 DEF Range
<1> QED
  BY <1>1, <1>3, <1>4

LEMMA RetreatKeeps == ASSUME BuildInv, Retreat PROVE BuildInv'
<1> DEFINE n == Len(stack)
<1>0. PICK b : b = Top[1]
  OBVIOUS
<1>1. /\ phase = "collect" /\ stack # <<>> /\ IsFunction(prog) /\ PhisReadRegisters(prog)
      /\ Collecting /\ Top[2] > Len(prog.succ[b])
      /\ insts' = insts \o Reverse(prog.body[b]) /\ stack' = SubSeq(stack, 1, n - 1)
      /\ UNCHANGED <<prog, phase, bbVisit, bbNext, in, out, pos, updated,
                     inter_graph, inst2num>>
  BY <1>0 DEF BuildInv, Retreat, Front, BlockInstructions
<1>2. /\ n \in Nat \ {0} /\ b \in Blocks(prog) /\ Top = stack[n]
      /\ prog.succ[b] \in Seq(Blocks(prog)) /\ prog.body[b] \in Seq(Insts(prog))
  BY <1>0, <1>1, TopIsActive
<1>3. /\ stack' \in Seq(Activations) /\ Len(stack') = n - 1
      /\ \A i \in 1..(n - 1) : stack'[i] = stack[i]
  <2>1. \A i \in 1..(n - 1) : stack[i] \in Activations
    BY <1>1, <1>2, ElementOfSeq DEF Collecting
  <2> HIDE DEF n
  <2>2. /\ SubSeq(stack, 1, n - 1) \in Seq(Activations)
        /\ Len(SubSeq(stack, 1, n - 1)) = n - 1
        /\ \A i \in 1..(n - 1) : SubSeq(stack, 1, n - 1)[i] = stack[i]
    <3>1. /\ SubSeq(stack, 1, n - 1) \in Seq(Activations)
          /\ Len(SubSeq(stack, 1, n - 1)) = IF 1 <= n - 1 THEN (n - 1) - 1 + 1 ELSE 0
          /\ \A i \in 1..((n - 1) - 1 + 1) : SubSeq(stack, 1, n - 1)[i] = stack[1 + i - 1]
      BY <1>2, <2>1, SubSeqProperties
    <3> QED
      BY <1>2, <3>1
  <2> QED
    BY <1>1, <2>2 DEF n
<1>4. /\ insts' \in Seq(Insts(prog))
      /\ Range(insts') = Range(insts) \cup Range(prog.body[b])
  BY <1>1, <1>2, ReverseKeepsRange, ConcatProperties, RangeConcatenation DEF Collecting
<1>5. Finished(b)'
  <2>1. \A j \in 1..Len(prog.succ[b]) : prog.succ[b][j] \in bbVisit
    <3>1. \A j \in 1..Len(prog.succ[b]) : j < Top[2]
      BY <1>1, <1>2, TopIsActive
    <3> QED
      BY <1>0, <1>1, <1>2, <3>1 DEF Collecting
  <2>2. Range(prog.succ[b]) \subseteq bbVisit
    BY <1>2, <2>1, RangeEquality
  <2> QED
    BY <1>1, <1>4, <2>2 DEF Finished
<1> HIDE DEF n
<1>6. \A c \in bbVisit' : Active(c)' \/ Finished(c)'
  <2> SUFFICES ASSUME NEW c \in bbVisit, c # b PROVE Active(c)' \/ Finished(c)'
    BY <1>1, <1>5 DEF Active, Finished
  <2>1. CASE Active(c)
    <3>1. PICK i \in 1..n : stack[i][1] = c
      BY <2>1 DEF Active, n
    <3>2. i # n
      BY <1>0, <1>2, <3>1
    <3>3. i \in 1..(n - 1)
      BY <1>2, <3>1, <3>2
    <3> QED
      BY <1>3, <3>1, <3>3 DEF Active
  <2>2. CASE Finished(c)
    BY <1>1, <1>4, <2>2 DEF Finished
  <2> QED
    BY <1>1, <2>1, <2>2 DEF Collecting
<1>7. \A i \in 1..Len(stack') : \A j \in 1..Len(prog.succ[stack'[i][1]]) :
        j < stack'[i][2] => prog.succ[stack'[i][1]][j] \in bbVisit
  <2>1. \A i \in 1..Len(stack') : i \in 1..Len(stack) /\ stack'[i] = stack[i]
    BY <1>2, <1>3 DEF n
  <2> QED
    BY <1>1, <2>1 DEF Collecting
<1>8. Collecting'
  BY <1>1, <1>3, <1>4, <1>6, <1>7 DEF Collecting, Activations
<1> QED
  BY <1>1, <1>8 DEF BuildInv

LEMMA CollectUnreachableKeeps == ASSUME BuildInv, CollectUnreachable PROVE BuildInv'
<1>1. /\ phase = "collect" /\ stack = <<>> /\ IsFunction(prog) /\ PhisReadRegisters(prog)
      /\ Collecting /\ bbNext <= Len(prog.body) /\ bbNext' = bbNext + 1
      /\ UNCHANGED <<prog, phase, insts, in, out, pos, updated, inter_graph, inst2num>>
  BY DEF BuildInv, CollectUnreachable
<1>2. /\ Blocks(prog) = 1..Len(prog.body) /\ Len(prog.body) \in Nat
      /\ bbNext \in Blocks(prog) /\ bbNext + 1 \in Nat \ {0}
      /\ \A c \in Blocks(prog) : c < bbNext + 1 => c < bbNext \/ c = bbNext
  <2>1. Blocks(prog) = 1..Len(prog.body) /\ Len(prog.body) \in Nat
    BY <1>1, LenProperties DEF IsFunction, Blocks
  <2> QED
    BY <1>1, <2>1 DEF Collecting
<1>3. \A c \in bbVisit : Finished(c)
  BY <1>1, EmptySeq DEF Collecting, Active
<1>4. CASE isPotentiallyReachable(prog, bbNext)
  <2>1. UNCHANGED <<stack, bbVisit>>
    BY <1>4 DEF CollectUnreachable
  <2>2. \A c \in Blocks(prog) :
          c < bbNext' => isPotentiallyReachable(prog, c) \/ c \in bbVisit
    BY <1>1, <1>2, <1>4 DEF Collecting
  <2>3. Collecting'
    BY <1>1, <1>2, <2>1, <2>2 DEF Collecting, Activations, Active, Finished
  <2> QED
    BY <1>1, <2>3 DEF BuildInv
<1>5. CASE ~isPotentiallyReachable(prog, bbNext)
  <2>1. stack' = <<<<bbNext, 1>>>> /\ bbVisit' = bbVisit \cup {bbNext}
    BY <1>5 DEF CollectUnreachable
  <2>2. \A c \in Blocks(prog) :
          c < bbNext' => isPotentiallyReachable(prog, c) \/ c \in bbVisit'
    BY <1>1, <1>2, <2>1 DEF Collecting
  <2>3. <<bbNext, 1>> \in Activations
    BY <1>2 DEF Activations
  <2>4. stack' \in Seq(Activations) /\ Len(stack') = 1 /\ stack'[1] = <<bbNext, 1>>
    BY <2>1, <2>3
  <2>5. \A i \in 1..Len(stack') : \A j \in 1..Len(prog.succ[stack'[i][1]]) :
          ~(j < stack'[i][2])
    BY <2>4
  <2>6. \A c \in bbVisit' : Active(c)' \/ Finished(c)'
    <3> SUFFICES ASSUME NEW c \in bbVisit' PROVE Active(c)' \/ Finished(c)'
      OBVIOUS
    <3>1. CASE c = bbNext
      <4>1. 1 \in 1..Len(stack') /\ stack'[1][1] = c
        BY <2>4, <3>1
      <4>2. \E i \in 1..Len(stack') : stack'[i][1] = c
        BY <4>1
      <4> QED
        BY <4>2 DEF Active
    <3>2. CASE c # bbNext
      BY <1>1, <1>3, <2>1, <3>2 DEF Finished
    <3> QED
      BY <3>1, <3>2
  <2>7. Collecting'
    BY <1>1, <1>2, <2>1, <2>2, <2>4, <2>5, <2>6 DEF Collecting, Activations
  <2> QED
    BY <1>1, <2>7 DEF BuildInv
<1> QED
  BY <1>4, <1>5

\* When the search is over, everything has been collected.
LEMMA AllCollected ==
  ASSUME IsFunction(prog), Collecting, stack = <<>>, bbNext > Len(prog.body)
  PROVE  Range(insts) = Insts(prog)
<1>1. Blocks(prog) = 1..Len(prog.body) /\ Len(prog.body) \in Nat
  BY LenProperties DEF IsFunction, Blocks
<1>2. \A c \in bbVisit : Finished(c)
  BY EmptySeq DEF Collecting, Active
<1>3. \A b \in Blocks(prog) : isPotentiallyReachable(prog, b) => b \in bbVisit
  BY <1>2, ReachableWithin DEF Collecting, Finished
<1>4. \A b \in Blocks(prog) : b \in bbVisit
  BY <1>1, <1>3 DEF Collecting
<1>5. ASSUME NEW I \in Insts(prog) PROVE I \in Range(insts)
  <2>1. PICK b \in Blocks(prog) : \E k \in DOMAIN prog.body[b] : prog.body[b][k] = I
    BY DEF IsFunction
  <2> QED
    BY <1>2, <1>4, <2>1 DEF Finished, Range
<1> QED
  BY <1>5, RangeOfSeq DEF Collecting

LEMMA InitialSetsKeeps == ASSUME BuildInv, InitialSets PROVE BuildInv'
<1>1. /\ phase = "collect" /\ stack = <<>> /\ IsFunction(prog) /\ PhisReadRegisters(prog)
      /\ Collecting /\ bbNext > Len(prog.body) /\ phase' = "solve"
      /\ in' = [I \in Range(insts) |-> Operands(prog, I)]
      /\ out' = [I \in Range(insts) |-> {}]
      /\ pos' = Len(insts) + 1
      /\ UNCHANGED <<prog, stack, bbVisit, bbNext, insts, updated, inter_graph, inst2num>>
  BY DEF BuildInv, InitialSets
<1>2. Range(insts) = Insts(prog)
  BY <1>1, AllCollected
<1>3. \A I \in Insts(prog) : Operands(prog, I) \subseteq Insts(prog)
  BY <1>1 DEF IsFunction
<1>4. \A I \in Points(prog) :
        I \in Insts(prog) /\ Operands(prog, I) \subseteq LiveBefore(prog, I)
  BY <1>1, LiveValuesSolve DEF Points
<1>5. /\ in' \in [Insts(prog) -> SUBSET Insts(prog)]
      /\ out' \in [Insts(prog) -> SUBSET Insts(prog)]
      /\ \A I \in Insts(prog) : in'[I] = Operands(prog, I) /\ out'[I] = {}
  BY <1>1, <1>2, <1>3
<1>6. insts \in Seq(Insts(prog)) /\ Len(insts) + 1 \in Nat \ {0} /\ updated = TRUE
  BY <1>1, LenProperties DEF Collecting
<1>7. Solving'
  BY <1>1, <1>2, <1>4, <1>5, <1>6 DEF Solving
<1> QED
  BY <1>1, <1>7 DEF BuildInv

LEMMA VisitKeeps == ASSUME BuildInv, Visit PROVE BuildInv'
<1>1. PICK I : I = insts[pos]
  OBVIOUS
<1> DEFINE o == out[I] \cup LiveAfter(I)
           i == in[I] \cup (o \ {I})
<1>2. /\ phase = "solve" /\ IsFunction(prog) /\ PhisReadRegisters(prog) /\ Solving
      /\ pos <= Len(insts)
      /\ out' = [out EXCEPT ![I] = o] /\ in' = [in EXCEPT ![I] = i]
      /\ updated' = (updated \/ o # out[I] \/ i # in[I]) /\ pos' = pos + 1
      /\ UNCHANGED <<prog, phase, stack, bbVisit, bbNext, insts, inter_graph, inst2num>>
  BY <1>1 DEF BuildInv, Visit, ThroughDefinition
<1>3. /\ insts \in Seq(Insts(prog)) /\ Len(insts) \in Nat /\ pos \in 1..Len(insts)
      /\ I \in Insts(prog)
  BY <1>1, <1>2, LenProperties, ElementOfSeq DEF Solving
<1>4. /\ in \in [Insts(prog) -> SUBSET Insts(prog)]
      /\ out \in [Insts(prog) -> SUBSET Insts(prog)]
      /\ \A J \in Insts(prog) :
           Operands(prog, J) \subseteq in[J] /\ out[J] \subseteq LiveOut(prog, J)
      /\ \A J \in Points(prog) : in[J] \subseteq LiveBefore(prog, J)
  BY <1>2 DEF Solving
<1>5. LiveAfter(I) = Passed(prog, in, I)
  BY <1>2, <1>3, <1>4, LiveAfterIsPassed
<1>6. o \subseteq LiveOut(prog, I)
  BY <1>2, <1>3, <1>4, <1>5, PassedIsLive
<1>7. o \subseteq Insts(prog)
  <2>1. Passed(prog, in, I) \subseteq Insts(prog)
    BY <1>2, <1>3, <1>4, Places, FirstPoint DEF Passed, Points
  <2> QED
    BY <1>3, <1>4, <1>5, <2>1
<1>8. I \in Points(prog) => i \subseteq LiveBefore(prog, I)
  BY <1>2, <1>4, <1>6, LiveValuesSolve
<1> HIDE DEF o, i
<1>9. /\ in' \in [Insts(prog) -> SUBSET Insts(prog)]
      /\ out' \in [Insts(prog) -> SUBSET Insts(prog)]
      /\ \A J \in Insts(prog) : in'[J] = IF J = I THEN i ELSE in[J]
      /\ \A J \in Insts(prog) : out'[J] = IF J = I THEN o ELSE out[J]
  BY <1>2, <1>3, <1>4, <1>7 DEF i
<1>10. /\ \A J \in Insts(prog) :
            Operands(prog, J) \subseteq in'[J] /\ out'[J] \subseteq LiveOut(prog, J)
       /\ \A J \in Points(prog) : in'[J] \subseteq LiveBefore(prog, J)
  BY <1>3, <1>4, <1>6, <1>8, <1>9 DEF i, Points
<1>11. ASSUME ~updated', NEW k \in 1..Len(insts), k < pos + 1
       PROVE  Settled(insts[k])'
  <2>1. ~updated /\ in' = in /\ out' = out /\ o = out[I] /\ i = in[I]
    BY <1>2, <1>3, <1>4, <1>11
  <2>2. Settled(insts[k])
    <3>1. CASE k = pos
      BY <1>1, <1>5, <2>1, <3>1 DEF Settled, o, i
    <3>2. CASE k # pos
      <4>1. \A j \in 1..Len(insts) : j < pos => Settled(insts[j])
        BY <1>2, <2>1 DEF Solving
      <4>2. k < pos
        BY <1>3, <1>11, <3>2
      <4> QED
        BY <4>1, <4>2
    <3> QED
      BY <3>1, <3>2
  <2> QED
    BY <1>2, <2>1, <2>2 DEF Settled
<1>12. Solving'
  <2>1. pos + 1 \in Nat \ {0}
    BY <1>3
  <2> QED
    BY <1>2, <1>9, <1>10, <1>11, <2>1 DEF Solving
<1> QED
  BY <1>2, <1>12 DEF BuildInv

LEMMA NextPassKeeps == ASSUME BuildInv, NextPass PROVE BuildInv'
<1>1. /\ phase = "solve" /\ IsFunction(prog) /\ PhisReadRegisters(prog) /\ Solving
      /\ pos' = 1 /\ updated' = FALSE
      /\ UNCHANGED <<prog, phase, insts, in, out>>
  BY DEF BuildInv, NextPass
<1>2. \A k \in 1..Len(insts') : ~(k < pos')
  BY <1>1, LenProperties DEF Solving
<1>3. Solving'
  <2>1. pos' \in Nat \ {0}
    BY <1>1
  <2> QED
    BY <1>1, <1>2, <2>1 DEF Solving, Settled
<1> QED
  BY <1>1, <1>3 DEF BuildInv

LEMMA ConnectKeeps == ASSUME BuildInv, Connect PROVE BuildInv'
<1>1. /\ phase = "solve" /\ IsFunction(prog) /\ PhisReadRegisters(prog) /\ Solving
      /\ ~updated /\ pos > Len(insts) /\ phase' = "built"
      /\ inter_graph' = [I \in Regs(prog) |-> Neighbours(I)]
      /\ UNCHANGED <<prog, insts, in, out, pos, updated>>
  BY DEF BuildInv, Connect, Again
<1>2. Solving'
  BY <1>1 DEF Solving, Settled
<1>3. inter_graph' = [I \in Regs(prog') |-> Neighbours(I)']
  BY <1>1 DEF Neighbours
<1> QED
  BY <1>1, <1>2, <1>3 DEF BuildInv

LEMMA BuildSteps == BuildInv /\ [BuildNext]_igVars => BuildInv'
<1> SUFFICES ASSUME BuildInv, [BuildNext]_igVars PROVE BuildInv'
  OBVIOUS
<1>1. CASE Descend
  BY <1>1, DescendKeeps
<1>2. CASE Retreat
  BY <1>2, RetreatKeeps
<1>3. CASE CollectUnreachable
  BY <1>3, CollectUnreachableKeeps
<1>4. CASE InitialSets
  BY <1>4, InitialSetsKeeps
<1>5. CASE Visit
  BY <1>5, VisitKeeps
<1>6. CASE NextPass
  BY <1>6, NextPassKeeps
<1>7. CASE Connect
  BY <1>7, ConnectKeeps
<1>8. CASE UNCHANGED igVars
  BY <1>8 DEF igVars, BuildInv, Collecting, Solving, Active, Finished, Activations, Settled,
              Neighbours
<1> QED
  BY <1>1, <1>2, <1>3, <1>4, <1>5, <1>6, <1>7, <1>8 DEF BuildNext

\* BuildInv holds from the depth-first search to the last edge.
THEOREM BuildInvHolds == BuildSpec => []BuildInv
  BY BuildStarts, BuildSteps, PTL DEF BuildSpec

-----------------------------------------------------------------------------
\* A pass that changed nothing leaves sets that solve the equations, and they held live
\* values only.
LEMMA SolvedIsExact == BuildInv => LivenessExact
<1> SUFFICES ASSUME BuildInv, phase = "built"
             PROVE  \A I \in Insts(prog) : /\ out[I] = LiveOut(prog, I)
                                           /\ ~IsPhi(prog, I) => in[I] = LiveBefore(prog, I)
  BY DEF LivenessExact
<1>1. IsFunction(prog) /\ Solving /\ ~updated /\ pos > Len(insts)
  BY DEF BuildInv
<1>2. \A I \in Insts(prog) : Settled(I)
  <2>1. \A k \in 1..Len(insts) : k < pos /\ Settled(insts[k])
    BY <1>1, LenProperties DEF Solving
  <2>2. \A I \in Insts(prog) : \E k \in 1..Len(insts) : insts[k] = I
    BY <1>1, LenProperties, RangeEquality DEF Solving
  <2> QED
    BY <2>1, <2>2
<1>3. /\ \A I \in Points(prog) : LiveBefore(prog, I) \subseteq in[I]
      /\ \A I \in Insts(prog) : LiveOut(prog, I) \subseteq out[I]
  BY <1>1, <1>2, SolutionsHoldLiveValues DEF Solving, Settled
<1>4. /\ \A I \in Points(prog) : in[I] \subseteq LiveBefore(prog, I)
      /\ \A I \in Insts(prog) : out[I] \subseteq LiveOut(prog, I)
  BY <1>1 DEF Solving
<1>5. /\ \A I \in Points(prog) : in[I] = LiveBefore(prog, I)
      /\ \A I \in Insts(prog) : out[I] = LiveOut(prog, I)
  BY <1>3, <1>4
<1> QED
  BY <1>5 DEF Points

\* When the loop `while (updated)` of makeInterferenceGraph is left, in and out are
\* exactly the live values, whatever the function.
THEOREM LiveValuesFound == BuildSpec => []LivenessExact
  BY SolvedIsExact, BuildInvHolds, PTL

-----------------------------------------------------------------------------
\* The graph.

\* A property of points that is handed back from an instruction to the one before it, and
\* that some point of a block has, the first point of the block has.
LEMMA HandedBackInBlock ==
  ASSUME NEW p, IsFunction(p), NEW Bad \in SUBSET Points(p),
         \A I \in Points(p) : getNextNode(p, I) \in Bad => I \in Bad, NEW J \in Bad
  PROVE  getFirstNonPHI(p, BlockOf(p, J)) \in Bad
<1> DEFINE b == BlockOf(p, J)
           code == p.body[b]
           places == {k \in 1..Len(code) : code[k] \in Bad}
           first == getFirstNonPHI(p, b)
<1>0. b \in Blocks(p) /\ IndexOf(p, J) \in 1..Len(code) /\ code[IndexOf(p, J)] = J
  BY Places DEF Points
<1>1. /\ Len(code) \in Nat
      /\ \A k \in 1..Len(code) :
           /\ code[k] \in Insts(p) /\ BlockOf(p, code[k]) = b /\ IndexOf(p, code[k]) = k
           /\ IsPhi(p, code[k]) => \A j \in 1..k : IsPhi(p, code[j])
  BY <1>0, CodeOf
<1>2. /\ first \in Points(p) /\ BlockOf(p, first) = b
      /\ IndexOf(p, first) \in 1..Len(code) /\ code[IndexOf(p, first)] = first
      /\ \A I \in Points(p) : BlockOf(p, I) = b => IndexOf(p, first) <= IndexOf(p, I)
  BY <1>0, FirstPoint, Places DEF Points
<1>3. PICK m \in places : \A k \in places : m <= k
  <2>1. places \in SUBSET Nat /\ places # {}
    BY <1>0
  <2> HIDE DEF places
  <2> QED
    BY <2>1, LeastNatural
<1> HIDE DEF first, b
<1>4. /\ code[m] \in Points(p) /\ code[m] \in Insts(p) /\ code[m] \in Bad
      /\ BlockOf(p, code[m]) = b /\ IndexOf(p, code[m]) = m /\ m \in 1..Len(code)
  BY <1>1, <1>3
<1>5. CASE m = IndexOf(p, first)
  BY <1>2, <1>4, <1>5 DEF first, b
<1>6. CASE m # IndexOf(p, first)
  <2>1. m - 1 \in 1..Len(code) /\ IndexOf(p, first) \in 1..(m - 1)
    BY <1>1, <1>2, <1>4, <1>6
  <2> DEFINE K == code[m - 1]
  <2>2. K \in Insts(p) /\ BlockOf(p, K) = b /\ IndexOf(p, K) = m - 1
    BY <1>1, <2>1
  <2>3. K \in Points(p)
    <3>1. IsPhi(p, K) => IsPhi(p, first)
      BY <1>1, <1>2, <2>1
    <3> QED
      BY <1>2, <2>2, <3>1 DEF Points
  <2>4. getNextNode(p, K) = code[m]
    BY <1>1, <1>4, <2>1, <2>2 DEF getNextNode
  <2>5. m - 1 \in places
    BY <1>4, <2>1, <2>3, <2>4
  <2> QED
    BY <1>3, <1>4, <2>5
<1> QED
  BY <1>5, <1>6

\* The blocks control can come to without leaving block a.
LEMMA ReachedNotThrough ==
  ASSUME NEW p, IsFunction(p), NEW a \in Blocks(p)
  PROVE  LET C == Reached(NotThrough(p, a), {1}) IN
         /\ 1 \in C /\ C \subseteq Blocks(p)
         /\ \A b \in C \ {a} : Range(p.succ[b]) \subseteq C
         /\ \A S \in SUBSET Blocks(p) :
              1 \in S /\ (\A b \in S \ {a} : Range(p.succ[b]) \subseteq S) => C \subseteq S
<1> DEFINE cut == NotThrough(p, a)
           C == Reached(cut, {1})
<1>1. /\ 1 \in Blocks(p) /\ DOMAIN p.succ = Blocks(p) /\ IsFlow(p.succ)
      /\ \A b \in Blocks(p) : Range(p.succ[b]) \subseteq Blocks(p)
  BY BlocksFlow
<1>2. /\ DOMAIN cut = Blocks(p) /\ Range(cut[a]) = {}
      /\ \A b \in Blocks(p) \ {a} : cut[b] = p.succ[b]
  BY DEF NotThrough, Range
<1> HIDE DEF cut
<1>3. IsFlow(cut) /\ {1} \in SUBSET DOMAIN cut
  BY <1>1, <1>2 DEF IsFlow
<1>4. /\ {1} \subseteq C /\ C \subseteq DOMAIN cut
      /\ \A b \in C : Range(cut[b]) \subseteq C
      /\ \A S \in SUBSET DOMAIN cut :
           {1} \subseteq S /\ (\A b \in S : Range(cut[b]) \subseteq S) => C \subseteq S
  BY <1>3, ReachedIsLeast
<1> HIDE DEF C
<1>5. /\ 1 \in C /\ C \subseteq Blocks(p) /\ \A b \in C \ {a} : Range(p.succ[b]) \subseteq C
  BY <1>2, <1>4
<1>6. ASSUME NEW S \in SUBSET Blocks(p), 1 \in S,
             \A b \in S \ {a} : Range(p.succ[b]) \subseteq S
      PROVE  C \subseteq S
  <2>1. \A b \in S : Range(cut[b]) \subseteq S
    BY <1>2, <1>6
  <2> QED
    BY <1>2, <1>4, <1>6, <2>1
<1> QED
  BY <1>5, <1>6 DEF C, cut

\* Some path from the entry comes to point I before it comes to the definition of v.
Ahead(p, v, I) ==
  LET a == BlockOf(p, v) IN
  /\ BlockOf(p, I) \in Reached(NotThrough(p, a), {1})
  /\ BlockOf(p, I) = a => v \in Points(p) /\ IndexOf(p, I) <= IndexOf(p, v)

\* No value is live ahead of its definition: on every path the definition comes before
\* what reads the value.
LEMMA LiveOnlyBehind ==
  ASSUME NEW p, IsFunction(p), WellFormed(p), NEW v \in Insts(p)
  PROVE  /\ Ahead(p, v, getFirstNonPHI(p, 1))
         /\ \A I \in LivePoints(p, v) : ~Ahead(p, v, I)
<1>0. PICK a : a = BlockOf(p, v)
  OBVIOUS
<1> DEFINE C == Reached(NotThrough(p, a), {1})
           Before(I) == /\ BlockOf(p, I) \in C
                        /\ BlockOf(p, I) = a =>
                             v \in Points(p) /\ IndexOf(p, I) <= IndexOf(p, v)
           T == {I \in Points(p) : ~Before(I)}
           E == getFirstNonPHI(p, 1)
<1>1. /\ 1 \in Blocks(p) /\ a \in Blocks(p)
      /\ \A b \in Blocks(p) : /\ p.succ[b] \in Seq(Blocks(p))
                             /\ Range(p.succ[b]) \subseteq Blocks(p)
      /\ IsFlow(p.succ) /\ DOMAIN p.succ = Blocks(p)
  BY <1>0, BlocksFlow, Places
<1>v. /\ IndexOf(p, v) \in 1..Len(p.body[a]) /\ Len(p.body[a]) \in Nat
      /\ p.body[a][IndexOf(p, v)] = v /\ DOMAIN p.body[a] = 1..Len(p.body[a])
      /\ \A I \in Insts(p) : BlockOf(p, I) = a =>
           /\ IndexOf(p, I) \in 1..Len(p.body[a]) /\ p.body[a][IndexOf(p, I)] = I
  BY <1>0, <1>1, Places, CodeOf
<1>4. /\ 1 \in C /\ C \subseteq Blocks(p)
      /\ \A b \in C \ {a} : Range(p.succ[b]) \subseteq C
      /\ \A S \in SUBSET Blocks(p) :
           1 \in S /\ (\A b \in S \ {a} : Range(p.succ[b]) \subseteq S) => C \subseteq S
  BY <1>1, ReachedNotThrough
<1>5. \A b \in C : isPotentiallyReachable(p, b)
  <2> DEFINE S == Reached(p.succ, {1})
  <2>1. 1 \in S /\ S \in SUBSET Blocks(p) /\ \A b \in S : Range(p.succ[b]) \subseteq S
    <3> DEFINE flow == p.succ
    <3>1. IsFlow(flow) /\ {1} \in SUBSET DOMAIN flow /\ DOMAIN flow = Blocks(p)
      BY <1>1
    <3> HIDE DEF flow
    <3>2. {1} \subseteq Reached(flow, {1}) /\ Reached(flow, {1}) \subseteq DOMAIN flow
          /\ \A b \in Reached(flow, {1}) : Range(flow[b]) \subseteq Reached(flow, {1})
      BY <3>1, ReachedIsLeast
    <3> QED
      BY <3>1, <3>2 DEF flow
  <2>2. C \subseteq S
    BY <1>4, <2>1
  <2> QED
    BY <2>2 DEF isPotentiallyReachable, ReachableFrom
<1>6. a = 1 => C = {1}
  BY <1>4, <1>1
<1> HIDE DEF C
<1>7. /\ E \in Points(p) /\ BlockOf(p, E) = 1
      /\ \A s \in Blocks(p) : /\ getFirstNonPHI(p, s) \in Points(p)
                             /\ BlockOf(p, getFirstNonPHI(p, s)) = s
                             /\ \A I \in Points(p) : BlockOf(p, I) = s =>
                                  IndexOf(p, getFirstNonPHI(p, s)) <= IndexOf(p, I)
  BY <1>1, FirstPoint
<1>8. \A s \in Blocks(p) : s = a => (v \in Phis(p, s) <=> v \notin Points(p))
  <2>1. v \in Range(p.body[a])
    BY <1>v DEF Range
  <2> QED
    BY <2>1 DEF Phis, Points
<1>9. Before(E)
  <2>1. a = 1 => v \in Points(p)
    BY <1>1, <1>8 DEF WellFormed
  <2>2. a = 1 => IndexOf(p, E) <= IndexOf(p, v)
    BY <1>0, <1>1, <1>7, <2>1
  <2> QED
    BY <1>4, <1>7, <2>1, <2>2
<1>10. ASSUME NEW I \in Points(p) \ {v}, Before(I), NEW J \in Follows(p, I),
              ~RedefinedOn(p, I, J, v)
       PROVE  Before(J)
  <2>1. I \in Insts(p) /\ IndexOf(p, I) \in Nat /\ IndexOf(p, v) \in Nat
    BY Places DEF Points
  <2>2. CASE getNextNode(p, I) # NoValue
    <3>1. J = getNextNode(p, I) /\ BlockOf(p, J) = BlockOf(p, I) /\ J \in Insts(p)
      BY <2>1, <2>2, NextInst DEF Follows
    <3>2. CASE BlockOf(p, I) = a
      <4>1. IndexOf(p, I) # IndexOf(p, v)
        BY <1>v, <2>1, <3>2
      <4>2. IndexOf(p, J) = IndexOf(p, I) + 1
        <5>1. /\ IndexOf(p, I) + 1 \in 1..Len(p.body[a]) /\ J = p.body[a][IndexOf(p, I) + 1]
          BY <1>v, <2>1, <2>2, <3>1, <3>2 DEF getNextNode
        <5> QED
          BY <1>1, <5>1, CodeOf
      <4> QED
        BY <1>10, <2>1, <3>1, <3>2, <4>1, <4>2
    <3> QED
      BY <1>10, <3>1, <3>2
  <2>3. CASE getNextNode(p, I) = NoValue
    <3>1. PICK s \in Range(p.succ[BlockOf(p, I)]) : J = getFirstNonPHI(p, s)
      BY <2>3 DEF Follows
    <3>2. BlockOf(p, I) # a
      <4>1. SUFFICES ASSUME BlockOf(p, I) = a PROVE FALSE
        OBVIOUS
      <4>2. IndexOf(p, I) = Len(p.body[a])
        BY <2>1, <2>3, <4>1, NoNextInst
      <4>3. IndexOf(p, I) = IndexOf(p, v)
        BY <1>v, <1>10, <4>1, <4>2
      <4> QED
        BY <1>v, <2>1, <4>1, <4>3
    <3>3. s \in C /\ s \in Blocks(p) /\ BlockOf(p, J) = s
      BY <1>4, <1>7, <1>10, <3>1, <3>2
    <3>4. s = a => v \in Points(p)
      BY <1>8, <1>10, <2>3, <3>3 DEF RedefinedOn
    <3>5. s = a => IndexOf(p, J) <= IndexOf(p, v)
      BY <1>0, <1>7, <3>1, <3>3, <3>4
    <3> QED
      BY <3>3, <3>4, <3>5
  <2> QED
    BY <2>2, <2>3
<1>11. ASSUME NEW I \in ReadAt(p, v), Before(I) PROVE FALSE
  <2>1. I \in Points(p) /\ I \in Insts(p) /\ ~IsPhi(p, I) /\ BlockOf(p, I) \in Blocks(p)
        /\ IndexOf(p, I) \in Nat /\ IndexOf(p, v) \in Nat
    BY Places DEF ReadAt, Points
  <2>2. ASSUME Dominates(p, a, BlockOf(p, I)) PROVE BlockOf(p, I) = a
    BY <1>6, <1>11, <2>2 DEF Dominates, C
  <2>3. CASE v \in Operands(p, I)
    <3>1. DefDominates(p, v, I)
      BY <1>5, <1>11, <2>1, <2>3 DEF WellFormed
    <3> QED
      BY <1>0, <1>11, <2>1, <2>2, <3>1 DEF DefDominates
  <2>4. CASE v # I /\ ReadOnEdge(p, I, v)
    <3> DEFINE b == BlockOf(p, I)
    <3>1. PICK s \in Range(p.succ[b]) : \E phi \in Phis(p, s) : Incoming(p, phi, b) = v
      BY <2>4 DEF ReadOnEdge
    <3>2. PICK phi \in Phis(p, s) : Incoming(p, phi, b) = v
      BY <3>1
    <3>3. PICK k \in DOMAIN p.args[phi] : p.args[phi][k] = v /\ p.from[phi][k] = b
      BY <1>1, <2>1, <3>1, <3>2, IncomingPlace
    <3>4. b = a
      <4>1. IsPhi(p, phi) /\ phi \in Insts(p)
        BY <1>1, <2>1, <3>1, <3>2, PhisAreInsts
      <4>2. IsInst(v)
        BY DEF IsFunction
      <4>3. a = b \/ Dominates(p, a, b)
        BY <1>0, <1>5, <1>11, <3>3, <4>1, <4>2 DEF WellFormed
      <4> QED
        BY <2>2, <4>3
    <3>5. getNextNode(p, I) = NoValue
      BY <2>4 DEF ReadOnEdge
    <3>6. IndexOf(p, I) = Len(p.body[a])
      BY <2>1, <3>4, <3>5, NoNextInst
    <3>7. IndexOf(p, I) = IndexOf(p, v)
      BY <1>v, <1>11, <3>4, <3>6
    <3> QED
      BY <1>v, <2>1, <2>4, <3>4, <3>7
  <2> QED
    BY <2>3, <2>4 DEF ReadAt
<1> HIDE DEF Before
<1>12. LivePoints(p, v) \subseteq T
  <2>1. T \in SUBSET Points(p) /\ ReadAt(p, v) \subseteq T
    BY <1>11 DEF ReadAt
  <2>2. \A I \in Points(p) \ {v} : \A J \in Follows(p, I) :
          J \in T /\ ~RedefinedOn(p, I, J, v) => I \in T
    BY <1>10
  <2> HIDE DEF T
  <2> QED
    BY <2>1, <2>2, LivePointsAreLeast
<1>13. \A I : Before(I) <=> Ahead(p, v, I)
  BY <1>0 DEF Before, C, Ahead
<1> QED
  BY <1>9, <1>12, <1>13

\* No value is live where the function starts.
LEMMA NothingLiveAtEntry ==
  ASSUME NEW p, IsFunction(p), WellFormed(p), NEW v \in Insts(p)
  PROVE  getFirstNonPHI(p, 1) \notin LivePoints(p, v)
BY LiveOnlyBehind

\* Where control can come to, the definition of a live value was executed.
LEMMA LiveIsDominated ==
  ASSUME NEW p, IsFunction(p), WellFormed(p), NEW v \in Insts(p),
         NEW I \in LivePoints(p, v), isPotentiallyReachable(p, BlockOf(p, I))
  PROVE  DefDominates(p, v, I)
<1> DEFINE a == BlockOf(p, v)
           C == Reached(NotThrough(p, a), {1})
<1>1. I \in Points(p) /\ I \in Insts(p) /\ a \in Blocks(p) /\ BlockOf(p, I) \in Blocks(p)
  BY LivePointsAreLeast, Places DEF Points
<1>2. ~Ahead(p, v, I)
  BY LiveOnlyBehind
<1>3. CASE BlockOf(p, I) = a
  <2>1. a \in C
    <3> SUFFICES ASSUME a \notin C PROVE FALSE
      OBVIOUS
    <3>1. 1 \in C /\ C \in SUBSET Blocks(p) /\ \A b \in C : Range(p.succ[b]) \subseteq C
      BY <1>1, ReachedNotThrough
    <3> HIDE DEF C
    <3> QED
      BY <1>1, <1>3, <3>1, ReachableWithin
  <2>2. /\ IndexOf(p, I) \in Nat /\ IndexOf(p, v) \in 1..Len(p.body[a])
        /\ p.body[a][IndexOf(p, v)] = v /\ IndexOf(p, I) \in 1..Len(p.body[a])
        /\ p.body[a][IndexOf(p, I)] = I
    BY <1>1, <1>3, Places
  <2>3. v \notin Points(p) => \A j \in 1..IndexOf(p, v) : IsPhi(p, p.body[a][j])
    BY <1>1, <2>2, CodeOf DEF Points
  <2>4. IndexOf(p, v) < IndexOf(p, I)
    BY <1>1, <1>2, <1>3, <2>1, <2>2, <2>3 DEF Ahead, Points
  <2> QED
    BY <1>3, <2>4 DEF DefDominates
<1>4. CASE BlockOf(p, I) # a
  BY <1>2, <1>4 DEF Ahead, DefDominates, Dominates
<1> QED
  BY <1>3, <1>4

\* A value live after an instruction was computed before it, unless both are phis of one
\* block: those are executed together.
LEMMA LiveAfterIsDominated ==
  ASSUME NEW p, IsFunction(p), WellFormed(p), NEW c \in Insts(p),
         isPotentiallyReachable(p, BlockOf(p, c)), NEW u \in LiveOut(p, c), u # c
  PROVE  \/ DefDominates(p, u, c)
         \/ IsPhi(p, c) /\ IsPhi(p, u) /\ BlockOf(p, u) = BlockOf(p, c)
<1> DEFINE first == getFirstNonPHI(p, BlockOf(p, c))
<1>1. CASE ~IsPhi(p, c)
  <2>1. c \in Points(p) /\ u \in LiveBefore(p, c)
    BY <1>1, LiveValuesSolve DEF Points
  <2> QED
    BY <2>1, LiveIsDominated DEF LiveBefore
<1>2. CASE IsPhi(p, c)
  <2>1. u \in Insts(p) /\ first \in LivePoints(p, u)
    BY <1>2 DEF LiveOut, LiveBefore
  <2>2. /\ first \in Points(p) /\ BlockOf(p, first) = BlockOf(p, c)
        /\ \A I \in Points(p) :
             BlockOf(p, I) = BlockOf(p, c) => IndexOf(p, first) <= IndexOf(p, I)
    BY FirstPoint, Places
  <2>3. DefDominates(p, u, first)
    BY <2>1, <2>2, LiveIsDominated
  <2>4. CASE BlockOf(p, u) = BlockOf(p, c)
    <3>1. IndexOf(p, u) < IndexOf(p, first)
      BY <2>2, <2>3, <2>4 DEF DefDominates
    <3>2. IndexOf(p, u) \in Nat /\ IndexOf(p, first) \in Nat
      BY <2>1, <2>2, Places DEF Points
    <3>3. u \notin Points(p)
      BY <2>2, <2>4, <3>1, <3>2
    <3> QED
      BY <1>2, <2>1, <2>4, <3>3 DEF Points
  <2>5. CASE BlockOf(p, u) # BlockOf(p, c)
    BY <2>2, <2>3, <2>5 DEF DefDominates
  <2> QED
    BY <2>4, <2>5
<1> QED
  BY <1>1, <1>2

\* If v is not live after the definition of u, then where control comes to a point at which
\* both are live it does not just come from that definition.
LEMMA NotJustDefined ==
  ASSUME NEW p, IsFunction(p), NEW u \in Insts(p), NEW v \in Insts(p), v \notin LiveOut(p, u),
         NEW K \in Points(p), NEW J \in Follows(p, K), v \in LiveBefore(p, J)
  PROVE  ~RedefinedOn(p, K, J, u) /\ (K = u => RedefinedOn(p, K, J, v))
<1>1. ASSUME RedefinedOn(p, K, J, u) PROVE FALSE
  <2>1. PICK s \in Range(p.succ[BlockOf(p, K)]) : J = getFirstNonPHI(p, s)
    BY <1>1 DEF RedefinedOn, Follows
  <2>2. s \in Blocks(p) /\ BlockOf(p, J) = s
    BY <2>1, FollowsPoints, FirstPoint
  <2>3. u \in Range(p.body[s]) /\ IsPhi(p, u)
    BY <1>1, <2>2 DEF RedefinedOn, Phis
  <2>4. BlockOf(p, u) = s
    BY <2>2, <2>3, CodeOf DEF Range
  <2> QED
    BY <2>1, <2>3, <2>4 DEF LiveOut
<1>2. ASSUME K = u, ~RedefinedOn(p, K, J, v) PROVE FALSE
  BY <1>2 DEF LiveOut, LiveBefore, Points
<1> QED
  BY <1>1, <1>2

\* Values that are live together at a reachable point are live one after the definition of
\* the other.
LEMMA LiveTogether ==
  ASSUME NEW p, IsFunction(p), WellFormed(p), NEW u \in Insts(p), NEW v \in Insts(p),
         NEW I \in Points(p), isPotentiallyReachable(p, BlockOf(p, I)),
         u \in LiveBefore(p, I), v \in LiveBefore(p, I)
  PROVE  v \in LiveOut(p, u) \/ u \in LiveOut(p, v)
<1> SUFFICES ASSUME v \notin LiveOut(p, u), u \notin LiveOut(p, v) PROVE FALSE
  OBVIOUS
<1> DEFINE Bad == {J \in Points(p) : u \in LiveBefore(p, J) /\ v \in LiveBefore(p, J)}
           S == {b \in Blocks(p) : \A J \in Bad : BlockOf(p, J) # b}
<1>1. ASSUME NEW K \in Points(p), NEW J \in Follows(p, K), J \in Bad
      PROVE  K \in Bad
  <2>1. ~RedefinedOn(p, K, J, u) /\ ~RedefinedOn(p, K, J, v) /\ K # u /\ K # v
    BY <1>1, NotJustDefined
  <2>2. K \in LivePoints(p, u) /\ K \in LivePoints(p, v)
    BY <1>1, <2>1, LivePointsAreLeast DEF LiveBefore
  <2> QED
    BY <2>2 DEF LiveBefore
<1>2. getFirstNonPHI(p, 1) \notin Bad
  BY NothingLiveAtEntry DEF LiveBefore
<1>3. \A J \in Bad : getFirstNonPHI(p, BlockOf(p, J)) \in Bad
  <2>1. Bad \in SUBSET Points(p)
    OBVIOUS
  <2>2. \A K \in Points(p) : getNextNode(p, K) \in Bad => K \in Bad
    <3> SUFFICES ASSUME NEW K \in Points(p), getNextNode(p, K) \in Bad PROVE K \in Bad
      OBVIOUS
    <3>1. getNextNode(p, K) # NoValue
      BY DEF Points, IsFunction, IsInst, NoValue
    <3>2. getNextNode(p, K) \in Follows(p, K)
      BY <3>1 DEF Follows
    <3> QED
      BY <1>1, <3>2
  <2> HIDE DEF Bad
  <2> QED
    BY <2>1, <2>2, HandedBackInBlock
<1>4. 1 \in S
  BY <1>2, <1>3, BlocksFlow
<1>5. ASSUME NEW b \in S, NEW s \in Range(p.succ[b]) PROVE s \in S
  <2>1. s \in Blocks(p)
    BY BlocksFlow
  <2>2. SUFFICES ASSUME NEW J \in Bad, BlockOf(p, J) = s PROVE FALSE
    BY <2>1
  <2>3. getFirstNonPHI(p, s) \in Bad
    BY <1>3, <2>2
  <2> DEFINE K == getTerminator(p, b)
  <2>4. K \in Points(p) /\ BlockOf(p, K) = b /\ getNextNode(p, K) = NoValue
    BY LastPoint
  <2>5. getFirstNonPHI(p, s) \in Follows(p, K)
    BY <2>4 DEF Follows
  <2>6. K \in Bad
    BY <1>1, <2>3, <2>4, <2>5
  <2> QED
    BY <2>4, <2>6
<1>6. BlockOf(p, I) \in S
  <2>1. BlockOf(p, I) \in Blocks(p) /\ S \in SUBSET Blocks(p)
    BY FollowsPoints
  <2>2. \A b \in S : Range(p.succ[b]) \subseteq S
    BY <1>5
  <2> HIDE DEF S
  <2> QED
    BY <1>4, <2>1, <2>2, ReachableWithin
<1> QED
  BY <1>6

\* makeInterferenceGraph leaves the function alone.
LEMMA StaysWellFormed == WellFormed(prog) /\ [BuildNext]_igVars => WellFormed(prog)'
  BY DEF BuildNext, Descend, Retreat, CollectUnreachable, InitialSets, Visit, NextPass,
         Connect, igVars

\* Two registers that are live together at some reachable point are adjacent in the graph
\* makeInterferenceGraph builds, although it only looks at what is live after definitions:
\* in a program LLVM's verifier accepts, that is enough.
THEOREM LiveRangesCovered == BuildSpec /\ WellFormed(prog) => []GraphCoversLiveRanges
<1>1. WellFormed(prog) /\ [BuildNext]_igVars => WellFormed(prog)'
  BY StaysWellFormed
<1>2. ASSUME BuildInv, LivenessExact, WellFormed(prog) PROVE GraphCoversLiveRanges
  <2> SUFFICES ASSUME phase = "built", NEW I \in Points(prog),
                      isPotentiallyReachable(prog, BlockOf(prog, I)),
                      NEW u \in LiveBefore(prog, I) \cap Regs(prog),
                      NEW v \in LiveBefore(prog, I) \cap Regs(prog), u # v
               PROVE  v \in inter_graph[u]
    BY DEF GraphCoversLiveRanges
  <2>1. u \in Insts(prog) /\ v \in Insts(prog)
    BY DEF Regs
  <2>2. v \in LiveOut(prog, u) \/ u \in LiveOut(prog, v)
    BY <1>2, <2>1, LiveTogether DEF BuildInv
  <2>3. out[u] = LiveOut(prog, u) /\ out[v] = LiveOut(prog, v)
    BY <1>2, <2>1 DEF LivenessExact
  <2> QED
    BY <1>2, <2>2, <2>3 DEF BuildInv, Neighbours
<1> QED
  BY <1>1, <1>2, BuildInvHolds, LiveValuesFound, PTL DEF BuildSpec

-----------------------------------------------------------------------------
\* The numbers.

Reachable(b) == isPotentiallyReachable(prog, b)

\* The activations from the entry block are a path of the control-flow graph.
OnPath ==
  /\ stack # <<>> /\ stack[1][1] = 1
  /\ \A i \in 1..(Len(stack) - 1) : stack[i + 1][1] \in Range(prog.succ[stack[i][1]])

\* The search from the entry is over; only blocks it did not find are visited now.
Behind ==
  /\ \A b \in Blocks(prog) : Reachable(b) => b \in bbVisit
  /\ \A i \in 1..Len(stack) : ~Reachable(stack[i][1])

\* What is left to collect has not been collected yet.
Distinct ==
  /\ \A i, j \in 1..Len(stack) : i # j => stack[i][1] # stack[j][1]
  /\ \A i \in 1..Len(stack) : stack[i][1] \in bbVisit
  /\ \A k \in 1..Len(insts) : LET b == BlockOf(prog, insts[k]) IN
       b \in bbVisit /\ (Reachable(b) => ~Active(b))

\* What a definition dominates has been collected before it.
CollectedInOrder ==
  \A j, k \in 1..Len(insts) :
    /\ Reachable(BlockOf(prog, insts[j])) /\ Reachable(BlockOf(prog, insts[k]))
    /\ DefDominates(prog, insts[j], insts[k])
    => k < j

NumberInv ==
  /\ BuildInv /\ CollectedInOrder
  /\ phase = "collect" => Distinct /\ (OnPath \/ Behind)
  /\ phase = "built" => inst2num = [I \in Regs(prog) |-> LastNumber(I)]

\* A block that dominates the one being visited is being visited too.
LEMMA DominatorActive ==
  ASSUME IsFunction(prog), stack \in Seq(Activations), OnPath, NEW c \in Blocks(prog),
         Dominates(prog, c, stack[Len(stack)][1])
  PROVE  Active(c)
<1> DEFINE n == Len(stack)
           C == Reached(NotThrough(prog, c), {1})
<1>1. n \in Nat \ {0} /\ \A i \in 1..n : stack[i][1] \in Blocks(prog)
  <2>1. stack \in Seq(Activations) /\ stack # <<>>
    BY DEF OnPath
  <2>2. n \in Nat \ {0} /\ \A i \in 1..n : stack[i] \in Activations
    BY <2>1, EmptySeq, ElementOfSeq
  <2> QED
    BY <2>2 DEF Activations
<1>2. /\ stack[1][1] = 1
      /\ \A i \in 1..(n - 1) : stack[i + 1][1] \in Range(prog.succ[stack[i][1]])
  BY DEF OnPath
<1>3. 1 \in C /\ \A b \in C \ {c} : Range(prog.succ[b]) \subseteq C
  BY ReachedNotThrough
<1>4. SUFFICES ASSUME \A i \in 1..n : stack[i][1] # c PROVE FALSE
  BY DEF Active
<1>5. stack[n][1] \notin C
  <2>1. n \in 1..n /\ 1 \in 1..n
    BY <1>1
  <2>2. c # stack[n][1] /\ c # 1
    BY <1>2, <1>4, <2>1
  <2> QED
    BY <2>2 DEF Dominates
<1> HIDE DEF C, n
<1> DEFINE outside == {i \in 1..n : stack[i][1] \notin C}
<1>6. PICK i \in outside : \A j \in outside : i <= j
  <2>1. outside \in SUBSET Nat /\ outside # {}
    BY <1>1, <1>5
  <2> HIDE DEF outside
  <2> QED
    BY <2>1, LeastNatural
<1>7. i # 1
  BY <1>2, <1>3, <1>6
<1>8. i - 1 \in 1..(n - 1) /\ i - 1 \in 1..n /\ i - 1 \notin outside /\ (i - 1) + 1 = i
  BY <1>1, <1>6, <1>7
<1>9. stack[i - 1][1] \in C \ {c} /\ stack[i][1] \in Range(prog.succ[stack[i - 1][1]])
  BY <1>2, <1>4, <1>8
<1> QED
  BY <1>3, <1>6, <1>9

LEMMA NumberStarts == BuildInit => NumberInv
<1> SUFFICES ASSUME BuildInit PROVE NumberInv
  OBVIOUS
<1>1. /\ phase = "collect" /\ stack = <<<<1, 1>>>> /\ bbVisit = {1} /\ insts = <<>>
  BY DEF BuildInit, Fresh
<1>2. Len(stack) = 1 /\ stack[1][1] = 1 /\ Len(insts) = 0 /\ stack # <<>>
  BY <1>1
<1>3. OnPath /\ Distinct /\ CollectedInOrder
  BY <1>1, <1>2 DEF OnPath, Distinct, CollectedInOrder
<1> QED
  BY <1>1, <1>3, BuildStarts DEF NumberInv

LEMMA DescendKeepsOrder == ASSUME NumberInv, Descend PROVE NumberInv'
<1> DEFINE n == Len(stack)
<1>1. /\ BuildInv /\ phase = "collect" /\ CollectedInOrder /\ Distinct /\ (OnPath \/ Behind)
      /\ UNCHANGED <<prog, phase, insts>>
  BY DEF NumberInv, Descend
<1>2. PICK b \in Blocks(prog), next \in Blocks(prog), k \in Nat \ {0} :
        /\ n \in Nat \ {0} /\ stack[n] = <<b, k>>
        /\ k <= Len(prog.succ[b]) /\ next = prog.succ[b][k]
        /\ bbVisit' = bbVisit \cup {next}
        /\ stack' \in Seq(Activations)
        /\ Len(stack') = IF next \in bbVisit THEN n ELSE n + 1
        /\ \A i \in 1..Len(stack') :
             stack'[i] = IF i = n THEN <<b, k + 1>>
                         ELSE IF i = n + 1 THEN <<next, 1>> ELSE stack[i]
  BY <1>1, DescendShape
<1> HIDE DEF n
\* The blocks on the stack stay, and only a block not visited before is added.
<1>3. /\ Len(stack') \in {n, n + 1} /\ (Len(stack') = n + 1 => next \notin bbVisit)
      /\ \A i \in 1..n : stack'[i][1] = stack[i][1]
      /\ \A i \in 1..Len(stack') : i \in 1..n \/ (i = n + 1 /\ stack'[i][1] = next)
  <2>1. Len(stack') \in {n, n + 1} /\ (Len(stack') = n + 1 => next \notin bbVisit)
    BY <1>2
  <2>2. ASSUME NEW i \in 1..n PROVE stack'[i][1] = stack[i][1]
    <3>1. i \in 1..Len(stack') /\ i # n + 1
      BY <1>2, <2>1
    <3>2. CASE i = n
      BY <1>2, <3>1, <3>2
    <3>3. CASE i # n
      BY <1>2, <3>1, <3>3
    <3> QED
      BY <3>2, <3>3
  <2>3. ASSUME NEW i \in 1..Len(stack'), i \notin 1..n PROVE i = n + 1 /\ stack'[i][1] = next
    <3>1. i = n + 1 /\ i # n
      BY <1>2, <2>1, <2>3
    <3> QED
      BY <1>2, <3>1
  <2> QED
    BY <2>1, <2>2, <2>3
<1>4. next \in Range(prog.succ[b]) /\ stack[n][1] = b
  <2>1. prog.succ[b] \in Seq(Blocks(prog))
    BY <1>1, BlocksFlow DEF BuildInv
  <2>2. k \in 1..Len(prog.succ[b])
    BY <1>2, <2>1, LenProperties
  <2> QED
    BY <1>2, <2>1, <2>2, RangeEquality
<1>5. OnPath => OnPath'
  <2> SUFFICES ASSUME OnPath PROVE OnPath'
    OBVIOUS
  <2>1. /\ stack[1][1] = 1
        /\ \A i \in 1..(n - 1) : stack[i + 1][1] \in Range(prog.succ[stack[i][1]])
    BY DEF OnPath, n
  <2>2. stack' # <<>> /\ stack'[1][1] = 1
    BY <1>2, <1>3, <2>1
  <2>3. ASSUME NEW i \in 1..(Len(stack') - 1)
        PROVE  stack'[i + 1][1] \in Range(prog.succ[stack'[i][1]])
    <3>1. CASE i = n
      <4>1. i + 1 = n + 1 /\ i + 1 \in 1..Len(stack') /\ i + 1 \notin 1..n /\ i \in 1..n
        BY <1>2, <1>3, <3>1
      <4> QED
        BY <1>3, <1>4, <3>1, <4>1
    <3>2. CASE i # n
      <4>1. i \in 1..(n - 1) /\ i \in 1..n /\ i + 1 \in 1..n
        BY <1>2, <1>3, <3>2
      <4> QED
        BY <1>3, <2>1, <4>1
    <3> QED
      BY <3>1, <3>2
  <2> QED
    BY <1>1, <2>2, <2>3 DEF OnPath
<1>6. Behind => Behind'
  BY <1>1, <1>2, <1>3 DEF Behind, Reachable, n
<1>7. Distinct'
  <2>1. ASSUME NEW i \in 1..Len(stack'), NEW j \in 1..Len(stack'), i # j
        PROVE  stack'[i][1] # stack'[j][1]
    <3>1. \A h, l \in 1..n : h # l => stack[h][1] # stack[l][1]
      BY <1>1 DEF Distinct, n
    <3>2. \A h \in 1..n : stack[h][1] \in bbVisit
      BY <1>1 DEF Distinct, n
    <3>3. CASE i \in 1..n /\ j \in 1..n
      BY <1>3, <2>1, <3>1, <3>3
    <3>4. CASE i \in 1..n /\ j \notin 1..n
      <4>1. Len(stack') = n + 1 /\ stack'[j][1] = next
        BY <1>2, <1>3, <3>4
      <4> QED
        BY <1>3, <3>2, <3>4, <4>1
    <3>5. CASE i \notin 1..n /\ j \in 1..n
      <4>1. Len(stack') = n + 1 /\ stack'[i][1] = next
        BY <1>2, <1>3, <3>5
      <4> QED
        BY <1>3, <3>2, <3>5, <4>1
    <3>6. CASE i \notin 1..n /\ j \notin 1..n
      BY <1>3, <2>1, <3>6
    <3> QED
      BY <3>3, <3>4, <3>5, <3>6
  <2>2. \A i \in 1..Len(stack') : stack'[i][1] \in bbVisit'
    BY <1>1, <1>2, <1>3 DEF Distinct, n
  <2>3. ASSUME NEW h \in 1..Len(insts)
        PROVE  /\ BlockOf(prog, insts[h]) \in bbVisit'
               /\ Reachable(BlockOf(prog, insts[h])) =>
                    \A i \in 1..Len(stack') : stack'[i][1] # BlockOf(prog, insts[h])
    <3>1. PICK c : c = BlockOf(prog, insts[h])
      OBVIOUS
    <3>2. c \in bbVisit /\ (Reachable(c) => \A i \in 1..n : stack[i][1] # c)
      BY <1>1, <3>1 DEF Distinct, Active, n
    <3>3. Reachable(c) => \A i \in 1..Len(stack') : stack'[i][1] # c
      <4> SUFFICES ASSUME Reachable(c), NEW i \in 1..Len(stack') PROVE stack'[i][1] # c
        OBVIOUS
      <4>1. CASE i \in 1..n
        BY <1>3, <3>2, <4>1
      <4>2. CASE i \notin 1..n
        <5>1. Len(stack') = n + 1 /\ stack'[i][1] = next
          BY <1>2, <1>3, <4>2
        <5> QED
          BY <1>3, <3>2, <5>1
      <4> QED
        BY <4>1, <4>2
    <3> QED
      BY <1>2, <3>1, <3>2, <3>3
  <2> QED
    BY <1>1, <2>1, <2>2, <2>3 DEF Distinct, Reachable, Active
<1>8. CollectedInOrder'
  BY <1>1 DEF CollectedInOrder, Reachable
<1> QED
  BY <1>1, <1>5, <1>6, <1>7, <1>8, DescendKeeps DEF NumberInv

\* What Retreat does: the block leaves the stack and hands over its instructions, last to
\* first.
LEMMA RetreatShape ==
  ASSUME BuildInv, Retreat
  PROVE  \E b \in Blocks(prog) :
           /\ Len(stack) \in Nat \ {0} /\ stack[Len(stack)][1] = b
           /\ Len(stack') = Len(stack) - 1
           /\ \A i \in 1..(Len(stack) - 1) : stack'[i] = stack[i]
           /\ Len(insts) \in Nat /\ Len(insts') = Len(insts) + Len(prog.body[b])
           /\ \A k \in 1..Len(insts) : insts'[k] = insts[k]
           /\ \A k \in 1..Len(insts') : k > Len(insts) =>
                LET l == (Len(prog.body[b]) - (k - Len(insts))) + 1
                IN  l \in 1..Len(prog.body[b]) /\ insts'[k] = prog.body[b][l]
<1> DEFINE n == Len(stack)
           L == Len(insts)
<1>0. PICK b : b = Top[1]
  OBVIOUS
<1>1. /\ stack # <<>> /\ IsFunction(prog) /\ Collecting
      /\ insts' = insts \o Reverse(prog.body[b]) /\ stack' = SubSeq(stack, 1, n - 1)
  BY <1>0 DEF BuildInv, Retreat, Front, BlockInstructions
<1>2. n \in Nat \ {0} /\ b \in Blocks(prog) /\ stack[n][1] = b
  BY <1>0, <1>1, TopIsActive
<1>3. Len(stack') = n - 1 /\ \A i \in 1..(n - 1) : stack'[i] = stack[i]
  <2>1. \A i \in 1..(n - 1) : stack[i] \in Activations
    BY <1>1, <1>2, ElementOfSeq DEF Collecting
  <2> HIDE DEF n
  <2>2. /\ Len(SubSeq(stack, 1, n - 1)) = IF 1 <= n - 1 THEN (n - 1) - 1 + 1 ELSE 0
        /\ \A i \in 1..((n - 1) - 1 + 1) : SubSeq(stack, 1, n - 1)[i] = stack[1 + i - 1]
    BY <1>2, <2>1, SubSeqProperties
  <2> QED
    BY <1>1, <1>2, <2>2
<1> DEFINE code == prog.body[b]
           M == Len(prog.body[b])
<1>4. code \in Seq(Insts(prog)) /\ M \in Nat
  BY <1>1, <1>2, CodeOf
<1>5. /\ Reverse(code) \in Seq(Insts(prog)) /\ Len(Reverse(code)) = M
      /\ \A i \in 1..M : Reverse(code)[i] = code[(M - i) + 1]
  BY <1>4, ReverseKeepsRange DEF Reverse
<1>6. insts \in Seq(Insts(prog)) /\ L \in Nat
  BY <1>1, LenProperties DEF Collecting
<1>7. /\ Len(insts') = L + M
      /\ \A k \in 1..(L + M) : insts'[k] = IF k <= L THEN insts[k] ELSE Reverse(code)[k - L]
  <2> DEFINE taken == Reverse(code)
  <2> HIDE DEF n, M, code, taken
  <2>1. taken \in Seq(Insts(prog)) /\ Len(taken) = M
    BY <1>5 DEF taken
  <2>2. /\ Len(insts \o taken) = L + Len(taken)
        /\ \A k \in 1..(L + Len(taken)) :
             (insts \o taken)[k] = IF k <= L THEN insts[k] ELSE taken[k - L]
    BY <1>6, <2>1, ConcatProperties
  <2>3. insts' = insts \o taken
    BY <1>1 DEF taken, code
  <2> QED
    BY <2>1, <2>2, <2>3 DEF taken
<1> HIDE DEF n, L, M, code
<1>8. \A k \in 1..L : insts'[k] = insts[k]
  BY <1>4, <1>6, <1>7
<1>9. ASSUME NEW k \in 1..Len(insts'), k > L
      PROVE  (M - (k - L)) + 1 \in 1..M /\ insts'[k] = code[(M - (k - L)) + 1]
  <2>1. k - L \in 1..M /\ ~(k <= L) /\ k \in 1..(L + M)
    BY <1>4, <1>6, <1>7, <1>9
  <2>2. (M - (k - L)) + 1 \in 1..M
    BY <1>4, <2>1
  <2> QED
    BY <1>5, <1>7, <2>1, <2>2
<1> QED
  BY <1>2, <1>3, <1>6, <1>7, <1>8, <1>9 DEF n, L, M, code

LEMMA RetreatKeepsOrder == ASSUME NumberInv, Retreat PROVE NumberInv'
<1> DEFINE n == Len(stack)
           L == Len(insts)
<1>1. /\ BuildInv /\ phase = "collect" /\ CollectedInOrder /\ Distinct /\ (OnPath \/ Behind)
      /\ IsFunction(prog) /\ Collecting
      /\ stack \in Seq(Activations) /\ insts \in Seq(Insts(prog))
      /\ UNCHANGED <<prog, phase, bbVisit>>
  BY DEF NumberInv, Retreat, BuildInv, Collecting
<1>2. PICK b \in Blocks(prog) :
        /\ n \in Nat \ {0} /\ stack[n][1] = b
        /\ Len(stack') = n - 1
        /\ \A i \in 1..(n - 1) : stack'[i] = stack[i]
        /\ L \in Nat /\ Len(insts') = L + Len(prog.body[b])
        /\ \A k \in 1..L : insts'[k] = insts[k]
        /\ \A k \in 1..Len(insts') : k > L =>
             LET l == (Len(prog.body[b]) - (k - L)) + 1
             IN  l \in 1..Len(prog.body[b]) /\ insts'[k] = prog.body[b][l]
  BY <1>1, RetreatShape
<1>3. BuildInv' /\ Collecting'
  BY <1>1, RetreatKeeps DEF BuildInv
\* Where the instructions come from.
<1>4. \A k \in 1..L : insts'[k] = insts[k] /\ insts[k] \in Insts(prog)
  BY <1>1, <1>2, ElementOfSeq
<1>5. /\ Len(prog.body[b]) \in Nat
      /\ \A l \in 1..Len(prog.body[b]) :
           BlockOf(prog, prog.body[b][l]) = b /\ IndexOf(prog, prog.body[b][l]) = l
  BY <1>1, CodeOf
<1> HIDE DEF L, n
<1>6. ASSUME NEW k \in 1..Len(insts'), ~(k \in 1..L)
      PROVE  /\ k > L /\ BlockOf(prog, insts'[k]) = b
             /\ IndexOf(prog, insts'[k]) = (Len(prog.body[b]) - (k - L)) + 1
  <2>1. k > L
    BY <1>2, <1>5, <1>6
  <2>2. PICK l \in 1..Len(prog.body[b]) :
          l = (Len(prog.body[b]) - (k - L)) + 1 /\ insts'[k] = prog.body[b][l]
    BY <1>2, <2>1
  <2> QED
    BY <1>5, <2>1, <2>2
<1>7. Distinct'
  <2>1. \A i \in 1..(n - 1) : i \in 1..n /\ i # n
    BY <1>2
  <2>2. n \in 1..n
    BY <1>2
  <2>3. /\ \A i, j \in 1..n : i # j => stack[i][1] # stack[j][1]
        /\ \A i \in 1..n : stack[i][1] \in bbVisit
        /\ \A k \in 1..L : /\ BlockOf(prog, insts[k]) \in bbVisit
                           /\ Reachable(BlockOf(prog, insts[k])) =>
                                \A i \in 1..n : stack[i][1] # BlockOf(prog, insts[k])
    BY <1>1 DEF Distinct, Active, n, L
  <2>4. /\ \A i, j \in 1..(n - 1) : i # j => stack'[i][1] # stack'[j][1]
        /\ \A i \in 1..(n - 1) : stack'[i][1] \in bbVisit /\ stack'[i][1] # b
    BY <1>2, <2>1, <2>2, <2>3
  <2>5. ASSUME NEW k \in 1..Len(insts')
        PROVE  /\ BlockOf(prog, insts'[k]) \in bbVisit
               /\ Reachable(BlockOf(prog, insts'[k])) =>
                    \A i \in 1..(n - 1) : stack'[i][1] # BlockOf(prog, insts'[k])
    <3>1. CASE k \in 1..L
      BY <1>2, <1>4, <2>1, <2>3, <3>1
    <3>2. CASE ~(k \in 1..L)
      BY <1>2, <1>6, <2>2, <2>3, <2>4, <3>2
    <3> QED
      BY <3>1, <3>2
  <2> QED
    BY <1>1, <1>2, <2>4, <2>5 DEF Distinct, Reachable, Active
<1>8. OnPath' \/ Behind'
  <2>1. CASE Behind
    <3>1. \A i \in 1..(n - 1) : i \in 1..n /\ stack'[i] = stack[i]
      BY <1>2
    <3>2. Behind'
      BY <1>1, <1>2, <2>1, <3>1 DEF Behind, Reachable, n
    <3> QED
      BY <3>2
  <2>2. CASE OnPath /\ n = 1
    <3>1. Len(stack') = 0
      BY <1>2, <2>2
    <3>2. \A c \in bbVisit : Finished(c)'
      BY <1>1, <1>3, <3>1 DEF Collecting, Active
    <3>3. \A c \in bbVisit : Range(prog.succ[c]) \subseteq bbVisit
      BY <1>1, <3>2 DEF Finished
    <3>4. bbVisit \in SUBSET Blocks(prog) /\ 1 \in bbVisit
      BY <1>1 DEF Collecting
    <3>5. \A c \in Blocks(prog) : Reachable(c) => c \in bbVisit
      BY <1>1, <3>3, <3>4, ReachableWithin DEF Reachable
    <3>6. Behind'
      BY <1>1, <3>1, <3>5 DEF Behind, Reachable
    <3> QED
      BY <3>6
  <2>3. CASE OnPath /\ n # 1
    <3>1. Len(stack') \in Nat \ {0} /\ 1 \in 1..(n - 1)
      BY <1>2, <2>3
    <3>2. stack' # <<>> /\ stack'[1][1] = 1
      BY <1>2, <2>3, <3>1 DEF OnPath
    <3>3. ASSUME NEW i \in 1..((n - 1) - 1)
          PROVE  stack'[i + 1][1] \in Range(prog.succ[stack'[i][1]])
      <4>1. i \in 1..(n - 1) /\ i + 1 \in 1..(n - 1)
        BY <1>2
      <4> QED
        BY <1>2, <2>3, <4>1 DEF OnPath, n
    <3>4. OnPath'
      BY <1>1, <1>2, <3>2, <3>3 DEF OnPath
    <3> QED
      BY <3>4
  <2> QED
    BY <1>1, <2>1, <2>2, <2>3
\* No collected definition dominates what is collected now: its block would be active.
<1>9. ASSUME NEW j \in 1..Len(insts'), NEW k \in 1..Len(insts'),
             Reachable(BlockOf(prog, insts'[j])), Reachable(BlockOf(prog, insts'[k])),
             DefDominates(prog, insts'[j], insts'[k])
      PROVE  k < j
  <2>1. CASE j \in 1..L /\ k \in 1..L
    BY <1>1, <1>4, <1>9, <2>1 DEF CollectedInOrder, L
  <2>2. CASE j \in 1..L /\ ~(k \in 1..L)
    <3>1. PICK c : c = BlockOf(prog, insts'[j])
      OBVIOUS
    <3>2. c \in Blocks(prog) /\ BlockOf(prog, insts'[k]) = b
      BY <1>1, <1>4, <1>6, <2>2, <3>1, Places
    <3>3. Reachable(c) /\ ~Active(c)
      BY <1>1, <1>4, <1>9, <2>2, <3>1 DEF Distinct, L
    <3>4. c # b
      <4>1. n \in 1..Len(stack) /\ stack[n][1] = b
        BY <1>2 DEF n
      <4> QED
        BY <3>3, <4>1 DEF Active
    <3>5. Dominates(prog, c, stack[Len(stack)][1])
      BY <1>2, <1>9, <3>1, <3>2, <3>4 DEF DefDominates, n
    <3>6. ~Behind
      <4>1. n \in 1..Len(stack) /\ Reachable(stack[n][1])
        BY <1>2, <1>9, <3>2 DEF n
      <4> QED
        BY <4>1 DEF Behind
    <3>7. Active(c)
      BY <1>1, <3>2, <3>5, <3>6, DominatorActive
    <3> QED
      BY <3>3, <3>7
  <2>3. CASE ~(j \in 1..L) /\ k \in 1..L
    BY <1>2, <1>6, <2>3
  <2>4. CASE ~(j \in 1..L) /\ ~(k \in 1..L)
    <3>1. IndexOf(prog, insts'[j]) < IndexOf(prog, insts'[k])
      BY <1>6, <1>9, <2>4 DEF DefDominates
    <3> QED
      BY <1>2, <1>5, <1>6, <2>4, <3>1
  <2> QED
    BY <2>1, <2>2, <2>3, <2>4
<1>10. CollectedInOrder'
  BY <1>1, <1>9 DEF CollectedInOrder, Reachable
<1> QED
  BY <1>1, <1>3, <1>7, <1>8, <1>10 DEF NumberInv

LEMMA CollectUnreachableKeepsOrder == ASSUME NumberInv, CollectUnreachable PROVE NumberInv'
<1>1. /\ BuildInv /\ phase = "collect" /\ stack = <<>> /\ bbNext <= Len(prog.body)
      /\ CollectedInOrder /\ Distinct /\ Collecting /\ IsFunction(prog)
      /\ UNCHANGED <<prog, phase, insts>>
  BY DEF NumberInv, CollectUnreachable, BuildInv
<1>2. Behind
  BY <1>1 DEF NumberInv, OnPath
<1>3. BuildInv' /\ CollectedInOrder'
  BY <1>1, CollectUnreachableKeeps DEF CollectedInOrder, Reachable
<1>4. CASE isPotentiallyReachable(prog, bbNext)
  <2>1. UNCHANGED <<stack, bbVisit>>
    BY <1>4 DEF CollectUnreachable
  <2>2. Distinct' /\ Behind'
    BY <1>1, <1>2, <2>1 DEF Distinct, Behind, Reachable, Active
  <2> QED
    BY <1>1, <1>3, <2>2 DEF NumberInv
<1>5. CASE ~isPotentiallyReachable(prog, bbNext)
  <2>1. stack' = <<<<bbNext, 1>>>> /\ bbVisit' = bbVisit \cup {bbNext}
    BY <1>5 DEF CollectUnreachable
  <2>2. Len(stack') = 1 /\ stack'[1][1] = bbNext
    BY <2>1
  <2>3. Behind'
    BY <1>1, <1>2, <1>5, <2>1, <2>2 DEF Behind, Reachable
  <2>4. \A k \in 1..Len(insts) :
          /\ BlockOf(prog, insts[k]) \in bbVisit'
          /\ isPotentiallyReachable(prog, BlockOf(prog, insts[k])) =>
               \A i \in 1..1 : stack'[i][1] # BlockOf(prog, insts[k])
    BY <1>1, <1>5, <2>1, <2>2 DEF Distinct, Reachable
  <2>5. Distinct'
    BY <1>1, <2>1, <2>2, <2>4 DEF Distinct, Reachable, Active
  <2> QED
    BY <1>1, <1>3, <2>3, <2>5 DEF NumberInv
<1> QED
  BY <1>4, <1>5

LEMMA NumberSteps == NumberInv /\ [BuildNext]_igVars => NumberInv'
<1> SUFFICES ASSUME NumberInv, [BuildNext]_igVars PROVE NumberInv'
  OBVIOUS
<1>0. BuildInv'
  BY BuildSteps DEF NumberInv
<1>1. CASE Descend
  BY <1>1, DescendKeepsOrder
<1>2. CASE Retreat
  BY <1>2, RetreatKeepsOrder
<1>3. CASE CollectUnreachable
  BY <1>3, CollectUnreachableKeepsOrder
<1>4. ASSUME UNCHANGED <<prog, insts>> PROVE CollectedInOrder'
  BY <1>4 DEF NumberInv, CollectedInOrder, Reachable
<1>5. CASE InitialSets \/ Visit \/ NextPass
  BY <1>0, <1>4, <1>5 DEF InitialSets, Visit, NextPass, NumberInv
<1>6. CASE Connect
  BY <1>0, <1>4, <1>6 DEF Connect, NumberInv, Regs, LastNumber, LastIndex
<1>7. CASE UNCHANGED igVars
  BY <1>0, <1>4, <1>7 DEF igVars, NumberInv, Distinct, OnPath, Behind, Reachable, Active,
                          LastNumber
<1> QED
  BY <1>1, <1>2, <1>3, <1>5, <1>6, <1>7 DEF BuildNext

\* The last place of an instruction that was collected.
LEMMA LastPlace ==
  ASSUME NEW S, NEW s \in Seq(S), NEW x \in Range(s)
  PROVE  LastIndex(s, x) \in 1..Len(s) /\ s[LastIndex(s, x)] = x
<1> DEFINE places == {k \in DOMAIN s : s[k] = x}
           fromEnd == {m \in 0..Len(s) : Len(s) - m \in places}
<1>1. Len(s) \in Nat /\ DOMAIN s = 1..Len(s) /\ \E k \in 1..Len(s) : s[k] = x
  BY LenProperties, RangeEquality
<1>2. fromEnd \in SUBSET Nat /\ fromEnd # {}
  <2>1. PICK k \in 1..Len(s) : s[k] = x
    BY <1>1
  <2>2. Len(s) - k \in 0..Len(s) /\ Len(s) - (Len(s) - k) = k
    BY <1>1
  <2>3. Len(s) - k \in fromEnd
    BY <1>1, <2>1, <2>2
  <2>4. fromEnd \subseteq 0..Len(s)
    OBVIOUS
  <2> HIDE DEF fromEnd
  <2> QED
    BY <2>3, <2>4
<1> HIDE DEF fromEnd
<1>3. PICK m \in fromEnd : \A j \in fromEnd : m <= j
  BY <1>2, LeastNatural
<1>4. Len(s) - m \in places /\ m \in 0..Len(s)
  BY <1>3 DEF fromEnd
<1>5. ASSUME NEW k \in places PROVE Len(s) - m >= k
  <2>1. k \in 1..Len(s) /\ Len(s) - k \in 0..Len(s) /\ Len(s) - (Len(s) - k) = k
    BY <1>1
  <2>2. Len(s) - k \in fromEnd
    BY <2>1 DEF fromEnd
  <2> QED
    BY <1>1, <1>3, <1>4, <2>1, <2>2
<1>6. Max(places) \in places
  BY <1>4, <1>5 DEF Max
<1> QED
  BY <1>1, <1>6 DEF LastIndex

\* A register collected for the last time later has the larger number.
LEMMA LaterHasLargerNumber ==
  ASSUME NEW a \in Regs(prog), NEW b \in Regs(prog), insts \in Seq(Insts(prog)),
         Range(insts) = Insts(prog), LastIndex(insts, b) < LastIndex(insts, a)
  PROVE  LastNumber(b) < LastNumber(a)
<1> DEFINE i == LastIndex(insts, a)
           j == LastIndex(insts, b)
           before(n) == {k \in 1..(n - 1) : isReg(prog, insts[k])}
<1>1. i \in Nat /\ j \in Nat \ {0} /\ insts[j] = b /\ j < i
  BY LastPlace, LenProperties DEF Regs
<1> HIDE DEF i, j
<1>2. isReg(prog, insts[j]) /\ j \in 1..(i - 1) /\ ~(j \in 1..(j - 1))
  BY <1>1 DEF Regs
<1>3. before(j) \subseteq before(i) /\ before(j) # before(i)
  <2>1. before(j) \subseteq before(i)
    BY <1>1
  <2>2. j \in before(i) /\ j \notin before(j)
    BY <1>2
  <2> QED
    BY <2>1, <2>2
<1>4. IsFiniteSet(before(i))
  <2>1. IsFiniteSet(1..(i - 1))
    BY <1>1, FS_Interval
  <2>2. before(i) \in SUBSET (1..(i - 1))
    OBVIOUS
  <2> QED
    BY <2>1, <2>2, FS_Subset
<1> HIDE DEF before
<1>5. /\ IsFiniteSet(before(j)) /\ Cardinality(before(j)) <= Cardinality(before(i))
      /\ Cardinality(before(j)) # Cardinality(before(i))
  BY <1>3, <1>4, FS_Subset
<1>6. Cardinality(before(j)) \in Nat /\ Cardinality(before(i)) \in Nat
  BY <1>4, <1>5, FS_CardinalityType
<1>7. Cardinality(before(j)) < Cardinality(before(i))
  BY <1>5, <1>6
<1> QED
  BY <1>7 DEF before, i, j, LastNumber

\* Where inst2num is known, dominated registers have the smaller numbers.
LEMMA NumberedByDominance == NumberInv => NumberedAfterDominated
<1> SUFFICES ASSUME NumberInv, phase = "built", NEW a \in Regs(prog), NEW b \in Regs(prog),
                    Reachable(BlockOf(prog, a)), Reachable(BlockOf(prog, b)),
                    DefDominates(prog, a, b)
             PROVE  inst2num[b] < inst2num[a]
  BY DEF NumberedAfterDominated, Found, Reachable
<1>1. insts \in Seq(Insts(prog)) /\ Range(insts) = Insts(prog)
  BY DEF NumberInv, BuildInv, Solving
<1>2. inst2num[a] = LastNumber(a) /\ inst2num[b] = LastNumber(b)
  BY DEF NumberInv
<1>3. a \in Range(insts) /\ b \in Range(insts)
  BY <1>1 DEF Regs
<1>4. /\ LastIndex(insts, a) \in 1..Len(insts) /\ insts[LastIndex(insts, a)] = a
      /\ LastIndex(insts, b) \in 1..Len(insts) /\ insts[LastIndex(insts, b)] = b
  BY <1>1, <1>3, LastPlace
<1>5. LastIndex(insts, b) < LastIndex(insts, a)
  BY <1>4 DEF NumberInv, CollectedInOrder
<1> QED
  BY <1>1, <1>5, <1>2, LaterHasLargerNumber

\* makeInterferenceGraph numbers a register after every register it dominates, whatever
\* the shape of the function: the depth-first search leaves the blocks a block dominates
\* before it leaves that block.
THEOREM DominatorsAreNumberedLast == BuildSpec => []NumberedAfterDominated
  BY NumberStarts, NumberSteps, NumberedByDominance, PTL DEF BuildSpec

-----------------------------------------------------------------------------
\* The elimination order.

\* Values that are live after one reachable instruction, which may be one of them, are live
\* one after the definition of the other.
LEMMA LiveAfterTogether ==
  ASSUME NEW p, IsFunction(p), WellFormed(p), NEW c \in Insts(p),
         isPotentiallyReachable(p, BlockOf(p, c)),
         NEW u \in LiveOut(p, c), NEW v \in LiveOut(p, c), IsPhi(p, c) \/ (u # c /\ v # c)
  PROVE  u \in Insts(p) /\ v \in Insts(p) /\ (v \in LiveOut(p, u) \/ u \in LiveOut(p, v))
<1> DEFINE I == IF IsPhi(p, c) THEN getFirstNonPHI(p, BlockOf(p, c)) ELSE c
<1>1. I \in Points(p) /\ BlockOf(p, I) = BlockOf(p, c)
  BY FirstPoint, Places DEF Points
<1>2. u \in LiveBefore(p, I) /\ v \in LiveBefore(p, I)
  <2>1. CASE IsPhi(p, c)
    BY <2>1 DEF LiveOut
  <2>2. CASE ~IsPhi(p, c)
    BY <1>1, <2>2, LiveValuesSolve
  <2> QED
    BY <2>1, <2>2
<1> HIDE DEF I
<1>3. u \in Insts(p) /\ v \in Insts(p)
  BY <1>2 DEF LiveBefore
<1> QED
  BY <1>1, <1>2, <1>3, LiveTogether

\* A phi that is live after some reachable instruction is live where its block starts.
LEMMA LivePhiIsRead ==
  ASSUME NEW p, IsFunction(p), WellFormed(p), NEW c \in Insts(p), IsPhi(p, c),
         NEW u \in Insts(p), isPotentiallyReachable(p, BlockOf(p, u)), c \in LiveOut(p, u),
         u # c
  PROVE  c \in LiveOut(p, c)
  BY LiveAfterTogether

\* The numbers are different natural numbers.
LEMMA NumbersDiffer ==
  ASSUME NumberInv, phase = "built"
  PROVE  /\ \A a \in Regs(prog) : inst2num[a] \in Nat
         /\ \A a, b \in Regs(prog) : a # b => inst2num[a] # inst2num[b]
<1>1. /\ insts \in Seq(Insts(prog)) /\ Range(insts) = Insts(prog)
      /\ \A a \in Regs(prog) : inst2num[a] = LastNumber(a)
  BY DEF NumberInv, BuildInv, Solving
<1>2. ASSUME NEW a \in Regs(prog) PROVE LastNumber(a) \in Nat
  <2> DEFINE n == LastIndex(insts, a) - 1
             before == {k \in 1..n : isReg(prog, insts[k])}
  <2>1. LastIndex(insts, a) \in 1..Len(insts)
    BY <1>1, LastPlace DEF Regs
  <2>2. n \in Nat
    BY <1>1, <2>1, LenProperties
  <2> HIDE DEF n
  <2>3. before \in SUBSET (1..n) /\ IsFiniteSet(1..n)
    BY <2>2, FS_Interval
  <2> HIDE DEF before
  <2>4. Cardinality(before) \in Nat
    BY <2>3, FS_Subset, FS_CardinalityType
  <2> QED
    BY <2>4 DEF LastNumber, before, n
<1>3. ASSUME NEW a \in Regs(prog), NEW b \in Regs(prog), a # b
      PROVE  LastNumber(a) # LastNumber(b)
  <2>1. /\ LastIndex(insts, a) \in 1..Len(insts) /\ insts[LastIndex(insts, a)] = a
        /\ LastIndex(insts, b) \in 1..Len(insts) /\ insts[LastIndex(insts, b)] = b
    BY <1>1, LastPlace DEF Regs
  <2>2. LastIndex(insts, a) < LastIndex(insts, b) \/ LastIndex(insts, b) < LastIndex(insts, a)
    BY <1>3, <2>1
  <2>3. LastNumber(a) < LastNumber(b) \/ LastNumber(b) < LastNumber(a)
    BY <1>1, <2>2, LaterHasLargerNumber
  <2> QED
    BY <1>2, <2>3
<1> QED
  BY <1>1, <1>2, <1>3

\* What the two theorems below follow from.
BuiltInv ==
  NumberInv /\ LivenessExact /\ NumberedAfterDominated /\ WellFormed(prog)

\* Neighbours in the graph, by the live values.
LEMMA NeighboursAreLive ==
  ASSUME BuiltInv, phase = "built", NEW c \in Regs(prog)
  PROVE  /\ c \in Insts(prog) /\ out[c] = LiveOut(prog, c) /\ IsFunction(prog)
         /\ \A u : u \in inter_graph[c] <=>
              u \in Regs(prog) /\ u # c /\ (u \in LiveOut(prog, c) \/ c \in LiveOut(prog, u))
  BY DEF BuiltInv, NumberInv, BuildInv, LivenessExact, Neighbours, Regs

\* Registers live after one reachable definition are adjacent.
LEMMA LiveAfterAdjacent ==
  ASSUME BuiltInv, phase = "built", NEW c \in Found,
         NEW a \in Regs(prog), NEW b \in Regs(prog), a # b, a # c, b # c,
         a \in LiveOut(prog, c), b \in LiveOut(prog, c)
  PROVE  b \in inter_graph[a]
<1>1. c \in Regs(prog) /\ isPotentiallyReachable(prog, BlockOf(prog, c)) /\ WellFormed(prog)
  BY DEF Found, BuiltInv
<1>2. c \in Insts(prog) /\ IsFunction(prog)
  BY <1>1, NeighboursAreLive
<1>3. b \in LiveOut(prog, a) \/ a \in LiveOut(prog, b)
  BY <1>1, <1>2, LiveAfterTogether
<1> QED
  BY <1>3, NeighboursAreLive

\* A neighbour that is eliminated later is live after the definition, or it is a phi beside
\* it that nothing reads.
LEMMA LaterNeighbour ==
  ASSUME BuiltInv, phase = "built", NEW c \in Found, NEW u \in inter_graph[c] \cap Found,
         inst2num[c] < inst2num[u]
  PROVE  \/ u \in LiveOut(prog, c)
         \/ DeadPhi(u) /\ LiveOut(prog, u) = LiveOut(prog, c)
<1>1. /\ c \in Regs(prog) /\ u \in Regs(prog) /\ WellFormed(prog) /\ NumberInv
      /\ isPotentiallyReachable(prog, BlockOf(prog, c))
      /\ isPotentiallyReachable(prog, BlockOf(prog, u))
  BY DEF Found, BuiltInv
<1>2. /\ c \in Insts(prog) /\ u \in Insts(prog) /\ IsFunction(prog) /\ u # c
      /\ out[u] = LiveOut(prog, u)
      /\ u \in LiveOut(prog, c) \/ c \in LiveOut(prog, u)
  BY <1>1, NeighboursAreLive
<1>3. SUFFICES ASSUME c \in LiveOut(prog, u)
               PROVE  \/ u \in LiveOut(prog, c)
                      \/ DeadPhi(u) /\ LiveOut(prog, u) = LiveOut(prog, c)
  BY <1>2
<1>4. ~DefDominates(prog, c, u)
  <2>1. inst2num[c] \in Nat /\ inst2num[u] \in Nat
    BY <1>1, NumbersDiffer
  <2>2. DefDominates(prog, c, u) => inst2num[u] < inst2num[c]
    BY <1>2 DEF BuiltInv, NumberedAfterDominated
  <2> QED
    BY <2>1, <2>2
<1>5. IsPhi(prog, c) /\ IsPhi(prog, u) /\ BlockOf(prog, u) = BlockOf(prog, c)
  BY <1>1, <1>2, <1>3, <1>4, LiveAfterIsDominated
<1>6. LiveOut(prog, u) = LiveOut(prog, c)
  BY <1>5 DEF LiveOut
<1> QED
  BY <1>2, <1>5, <1>6 DEF DeadPhi

LEMMA BuiltInvHolds == BuildSpec /\ WellFormed(prog) => []BuiltInv
<1>1. BuildSpec => []NumberInv
  BY NumberStarts, NumberSteps, PTL DEF BuildSpec
<1> QED
  BY <1>1, StaysWellFormed, LiveValuesFound, DominatorsAreNumberedLast, PTL
     DEF BuildSpec, BuiltInv

LEMMA EliminatedPerfectly == BuiltInv => NumberedPerfectly
<1> SUFFICES ASSUME BuiltInv, phase = "built", NEW c \in Found,
                    NEW a \in inter_graph[c] \cap Found, NEW b \in inter_graph[c] \cap Found,
                    inst2num[c] < inst2num[a], inst2num[c] < inst2num[b],
                    a # b, ~(DeadPhi(a) /\ DeadPhi(b))
             PROVE  b \in inter_graph[a]
  BY DEF NumberedPerfectly
<1>1. /\ a \in Regs(prog) /\ b \in Regs(prog) /\ c \in Regs(prog) /\ a # c /\ b # c
  BY NeighboursAreLive DEF Found
<1>2. CASE a \in LiveOut(prog, c) /\ b \in LiveOut(prog, c)
  BY <1>1, <1>2, LiveAfterAdjacent
<1>3. CASE a \notin LiveOut(prog, c)
  <2>1. DeadPhi(a) /\ LiveOut(prog, a) = LiveOut(prog, c)
    BY <1>3, LaterNeighbour
  <2>2. b \in LiveOut(prog, a)
    BY <2>1, LaterNeighbour
  <2> QED
    BY <1>1, <2>2, NeighboursAreLive
<1>4. CASE b \notin LiveOut(prog, c)
  <2>1. DeadPhi(b) /\ LiveOut(prog, b) = LiveOut(prog, c)
    BY <1>4, LaterNeighbour
  <2>2. a \in LiveOut(prog, b)
    BY <2>1, LaterNeighbour
  <2> QED
    BY <1>1, <2>2, NeighboursAreLive
<1> QED
  BY <1>2, <1>3, <1>4

\* Eliminated by their numbers, the registers are eliminated perfectly, but for phis nothing
\* reads: the neighbours makeInterferenceGraph gives a register that are numbered higher are
\* all live where it is computed, so they are neighbours of one another.
THEOREM NumbersArePerfect == BuildSpec /\ WellFormed(prog) => []NumberedPerfectly
  BY BuiltInvHolds, EliminatedPerfectly, PTL

\* A phi nothing reads is live nowhere: its neighbours are live where its block starts.
LEMMA DeadPhiIsSimplicial ==
  ASSUME BuiltInv, phase = "built", NEW S \in SUBSET Found, NEW c \in S, DeadPhi(c)
  PROVE  c \in Simplicial(inter_graph, S)
<1>1. /\ c \in Regs(prog) /\ c \in Insts(prog) /\ IsFunction(prog) /\ WellFormed(prog)
      /\ IsPhi(prog, c) /\ c \notin LiveOut(prog, c)
  BY NeighboursAreLive DEF Found, BuiltInv, DeadPhi
<1>2. ASSUME NEW u \in inter_graph[c] \cap S
      PROVE  u \in Regs(prog) /\ u # c /\ u \in LiveOut(prog, c)
  <2>1. /\ u \in Regs(prog) /\ u # c /\ (u \in LiveOut(prog, c) \/ c \in LiveOut(prog, u))
        /\ u \in Insts(prog) /\ isPotentiallyReachable(prog, BlockOf(prog, u))
    BY <1>1, NeighboursAreLive DEF Found
  <2>2. c \notin LiveOut(prog, u)
    BY <1>1, <2>1, LivePhiIsRead
  <2> QED
    BY <2>1, <2>2
<1>3. \A a, b \in inter_graph[c] \cap S : a # b => b \in inter_graph[a]
  BY <1>2, LiveAfterAdjacent
<1> QED
  BY <1>3 DEF Simplicial

\* Without them, the register with the least number has neighbours that are all adjacent.
LEMMA LeastIsSimplicial ==
  ASSUME BuiltInv, phase = "built", NEW S \in SUBSET Found, S # {}, \A I \in S : ~DeadPhi(I)
  PROVE  Simplicial(inter_graph, S) # {}
<1> DEFINE numbers == {inst2num[I] : I \in S}
<1>1. S \subseteq Regs(prog) /\ NumberInv
  BY DEF Found, BuiltInv
<1>2. /\ \A I \in S : inst2num[I] \in Nat
      /\ \A a, b \in S : a # b => inst2num[a] # inst2num[b]
  BY <1>1, NumbersDiffer
<1>3. PICK c \in S : \A I \in S : inst2num[c] <= inst2num[I]
  <2>1. numbers \in SUBSET Nat /\ numbers # {}
    BY <1>2
  <2>2. PICK n \in numbers : \A m \in numbers : n <= m
    <3> HIDE DEF numbers
    <3> QED
      BY <2>1, LeastNatural
  <2> QED
    BY <2>2
<1>4. ASSUME NEW u \in inter_graph[c] \cap S PROVE inst2num[c] < inst2num[u]
  <2>1. u # c
    BY <1>1, NeighboursAreLive
  <2> QED
    BY <1>2, <1>3, <2>1
<1>5. \A a, b \in inter_graph[c] \cap S : a # b => b \in inter_graph[a]
  BY <1>4, EliminatedPerfectly DEF NumberedPerfectly
<1> QED
  BY <1>5 DEF Simplicial

\* The interference graph of a function is chordal, as the comments of the code have it,
\* when makeInterferenceGraph has just built it.
THEOREM GraphIsChordal == BuildSpec /\ WellFormed(prog) => []ChordalAsBuilt
<1>1. ASSUME BuiltInv, phase = "built" PROVE IsChordal(inter_graph, Found)
  <2> DEFINE P == Found
             peel == Peeling(inter_graph, P)
             gone == Iterate(peel, {}, Cardinality(P))
  <2>1. IsFiniteSet(P)
    <3>1. IsFiniteSet(Insts(prog))
      BY <1>1 DEF BuiltInv, NumberInv, BuildInv, IsFunction
    <3>2. P \in SUBSET Insts(prog)
      BY DEF Found, Regs
    <3> QED
      BY <3>1, <3>2, FS_Subset
  <2>2. /\ peel \in [SUBSET P -> SUBSET P] /\ \A X \in SUBSET P : X \subseteq peel[X]
        /\ \A X \in SUBSET P : peel[X] = X \cup Simplicial(inter_graph, P \ X)
    BY DEF Peeling, Simplicial
  <2> HIDE DEF P, peel
  <2>3. gone \in SUBSET P /\ peel[gone] = gone
    BY <2>1, <2>2, IterateClosed, Zenon
  <2> HIDE DEF gone
  <2>4. Simplicial(inter_graph, P \ gone) = {}
    <3>1. Simplicial(inter_graph, P \ gone) \subseteq gone
      BY <2>2, <2>3
    <3> QED
      BY <3>1 DEF Simplicial
  <2>5. P \ gone = {}
    <3>1. P \ gone \in SUBSET Found
      BY DEF P
    <3>2. \A I \in P \ gone : ~DeadPhi(I)
      BY <1>1, <2>4, <3>1, DeadPhiIsSimplicial
    <3> QED
      BY <1>1, <2>4, <3>1, <3>2, LeastIsSimplicial
  <2>6. gone = P
    BY <2>3, <2>5
  <2> QED
    BY <2>6 DEF IsChordal, gone, peel, P
<1> QED
  BY <1>1, BuiltInvHolds, PTL DEF ChordalAsBuilt
=============================================================================
