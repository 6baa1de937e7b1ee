------------------------------ MODULE CompareOpt ------------------------------
(***************************************************************************)
(* The passes that use what is known of comparisons and operations:        *)
(* icmp_propagation.cpp replaces a value by one it is known to equal,      *)
(* make_same_operand.cpp computes the same thing once, branch_opt.cpp      *)
(* turns the branches of loop headers around.                              *)
(***************************************************************************)
EXTENDS LoopInfo

\* The condition of the branch that ends b, if it is a comparison.
ConditionOf(p, b) ==
  LET t == getTerminator(p, b)
  IN  IF p.kind[t] = "br" /\ p.args[t] # <<>> /\ IsInst(p.args[t][1]) /\ p.kind[p.args[t][1]] = "icmp"
      THEN p.args[t][1] ELSE NoValue

\* <<what is replaced, by what>>: constants win, then arguments by their number, then
\* the one that is defined first.
NoPair == <<NoValue, NoValue>>

decideWhoWillBeChanged(p, I) ==
  LET v == p.args[I][1]   w == p.args[I][2]
      before == IsInst(v) => DefDominates(p, v, w)
      argument(u) == IF isArgument(u) THEN Payload(u) ELSE 1000
  IN  CASE ~(TypeOf(p, v) \in {"i1", "i8", "i16", "i32", "i64"})   -> NoPair
        [] isConstantInt(v) /\ isConstantInt(w) -> NoPair
        [] isConstantInt(v)                     -> <<w, v>>
        [] isConstantInt(w)                     -> <<v, w>>
        [] argument(v) = argument(w)            -> IF ~IsInst(w) THEN NoPair
                                                   ELSE IF before THEN <<w, v>> ELSE <<v, w>>
        [] OTHER -> IF argument(v) < argument(w) THEN <<w, v>> ELSE <<v, w>>

\* The successor where the operands of comparison I are equal.
EqualSide(p, I, b) ==
  CASE p.info[I] = "eq" -> p.succ[b][1]
    [] p.info[I] = "ne" -> p.succ[b][2]
    [] OTHER            -> NoBlock

PropagateAlongEdge(p, b) ==
  LET I == ConditionOf(p, b)
      next == EqualSide(p, I, b)
      pair == decideWhoWillBeChanged(p, I)
  IN  IF I = NoValue \/ EqualSide(p, I, b) = NoBlock THEN p
      ELSE IF pair = NoPair THEN p
      ELSE replaceUsesWhere(p, pair[1], pair[2], LAMBDA J, k : EdgeDominatesUse(p, b, next, J, k))

-----------------------------------------------------------------------------
\* The comparisons all predecessors of b branch on, none if one of them does not.
getPredICmpInsts(p, b) ==
  LET conditions == {<<c, ConditionOf(p, c)>> : c \in Preds(p, b)}
  IN  IF \A e \in conditions : e[2] # NoValue /\ p.info[e[2]] \in {"eq", "ne"} THEN conditions ELSE {}

compareValues(v, w) == v = w \/ (isConstantInt(v) /\ isConstantInt(w) /\ getZExtValue(v) = getZExtValue(w))

isSameOperand(p, I, J) ==
  LET v == p.args[I]   w == p.args[J]
  IN  \/ compareValues(v[1], w[1]) /\ compareValues(v[2], w[2])
      \/ compareValues(v[2], w[1]) /\ compareValues(v[1], w[2])

\* Uses in b, and those b dominates.
PropagateIntoBlock(p, b) ==
  LET compared == getPredICmpInsts(p, b)
      ref == (CHOOSE e \in compared : \A f \in compared : e[1] >= f[1])[2]
      pair == decideWhoWillBeChanged(p, ref)
  IN  IF Cardinality(PredEdges(p, b)) < 2 \/ compared = {} THEN p
      ELSE IF (\E e \in compared : ~isSameOperand(p, ref, e[2]) \/ EqualSide(p, e[2], e[1]) # b)
              \/ pair = NoPair THEN p
      ELSE replaceUsesWhere(p, pair[1], pair[2],
             LAMBDA J, k : BlockOf(p, J) = b \/ Dominates(p, b, UseBlock(p, J, k)))

ICMPPropagation(p) ==
  LET blocks == [b \in Blocks(p) |-> b]
  IN  FoldLeft(PropagateIntoBlock, FoldLeft(PropagateAlongEdge, p, blocks), blocks)

-----------------------------------------------------------------------------
Commutative == {"add", "mul", "and", "or", "xor"}

isIdenticalOperation(p, I, J) ==
  /\ p.kind[I] = p.kind[J]
  /\ IF p.kind[I] \in Commutative THEN Range(p.args[I]) = Range(p.args[J])
     ELSE p.args[I] = p.args[J] /\ p.info[I] = p.info[J] /\ p.type[I] = p.type[J]

isCannotBeEliminated(p, I) ==
  p.kind[I] \in {"load", "store", "call", "phi", "getelementptr", "sext", "alloca"} \cup MoveOps \cup Terminators

moveBefore(p, I, J) ==
  IF I = J THEN p
  ELSE LET q == [p EXCEPT !.body[BlockOf(p, I)] = Remove(@, I)]
       IN  [q EXCEPT !.body[BlockOf(q, J)] = InsertAt(@, IndexOf(q, J), I)]

\* I is moved to where both it and J were always computed before, or might be.
CombineInPlace(p, I, J) ==
  IF I \notin Insts(p) \/ J \notin Insts(p) THEN p
  ELSE IF ~isIdenticalOperation(p, I, J) THEN p
  ELSE eraseInsts(replaceAllUsesWith(p, J, I), {J})

Combine(p, I, J) ==
  IF I \notin Insts(p) \/ J \notin Insts(p) THEN p
  ELSE IF ~isIdenticalOperation(p, I, J) THEN p
  ELSE eraseInsts(replaceAllUsesWith(moveBefore(p, I, findNearestCommonDominator(p, I, J)), J, I), {J})

MakeSameOperand(p) ==
  LET work == SelectSeq(InstSeq(p), LAMBDA I : ~isCannotBeEliminated(p, I))
      with(q, k) == FoldLeft(LAMBDA r, J : Combine(r, work[k], J), q, SubSeq(work, k + 1, Len(work)))
  IN  FoldLeft(with, p, [k \in DOMAIN work |-> k])

-----------------------------------------------------------------------------
\* Headers of outermost loops that branch on a comparison.  Which of them are turned
\* around depends on LLVM's branch probabilities.
Invertible(p) == {h \in TopLoops(p) : ConditionOf(p, h) # NoValue}

InversePredicate == [eq |-> "ne", ne |-> "eq", ugt |-> "ule", ule |-> "ugt", uge |-> "ult", ult |-> "uge",
            sgt |-> "sle", sle |-> "sgt", sge |-> "slt", slt |-> "sge"]

\* The comparison itself is changed, whoever else uses it.
InvertBranch(p, h) ==
  [p EXCEPT !.info[ConditionOf(p, h)] = InversePredicate[@], !.succ[h] = <<@[2], @[1]>>]

BranchOptimization(p, headers) == FoldLeft(InvertBranch, p, SetToSeq(headers))
=============================================================================
