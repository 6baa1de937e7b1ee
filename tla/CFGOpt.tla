-------------------------------- MODULE CFGOpt --------------------------------
(***************************************************************************)
(* cfg_opt.cpp: blocks are merged with their predecessors, also into both  *)
(* sides of a branch when what is then executed for nothing is cheap.      *)
(* A block that is erased stays as one nobody jumps to, with an            *)
(* unreachable as its only instruction.                                    *)
(***************************************************************************)
EXTENDS LoopInfo

InstCost ==
  [op \in IntOps \cup {"icmp", "select"} |->
     CASE op \in {"add", "sub"}                                -> 5
       [] op \in {"shl", "lshr", "ashr", "and", "or", "xor"}   -> 4
       [] OTHER                                                -> 1]

\* Only loads get here: a block with stores or calls is not asked for its cost.
getInstCost(p, I) ==
  CASE p.kind[I] \in DOMAIN InstCost -> InstCost[p.kind[I]]
    [] p.kind[I] = "load"            -> IF p.kind[p.args[I][1]] = "alloca" THEN 30 ELSE 50
    [] OTHER                         -> 0

\* What lets the cost loop of a block return early.
RefusingEffects == {"store", "call"}

Refusing == {"store", "udiv", "sdiv", "urem", "srem", "call"}

Counted(p, b) ==
  LET body == SelectSeq(Front(p.body[b]), LAMBDA I : ~IsPhi(p, I))
      stop == {k \in DOMAIN body : p.kind[body[k]] \in Refusing}
  IN  IF stop = {} THEN body ELSE SubSeq(body, 1, Min(stop) - 1)

\* dyn_cast<Instruction> of the pointer is used without a look at it: no pointer that
\* is an argument, a global or a constant may be loaded from.
NullDereference(p) ==
  \E b \in {c \in Blocks(p) : isReachableFromEntry(p, c)} :
    \E I \in Range(Counted(p, b)) : p.kind[I] = "load" /\ ~IsInst(p.args[I][1])

-----------------------------------------------------------------------------
\* The blocks that fulfil a condition, in the order of a search with a stack.
DFSWithCondition(p, Condition(_)) ==
  LET visit(s, k) ==
        IF s.stack = <<>> THEN s
        ELSE LET b == Last(s.stack)   rest == Front(s.stack)
                 seen == s.visited \cup {b}
             IN  IF b \in s.visited THEN [s EXCEPT !.stack = rest]
                 ELSE [stack   |-> rest \o SelectSeq(p.succ[b], LAMBDA c : c \notin seen),
                       visited |-> seen,
                       found   |-> IF Condition(b) THEN Append(s.found, b) ELSE s.found]
      pushed == 1 + FoldLeft(LAMBDA n, s : n + Len(s), 0, p.succ)
  IN  FoldLeft(visit, [stack |-> <<1>>, visited |-> {}, found |-> <<>>], [k \in 1..pushed |-> k]).found

isConditional(p, b) == p.kind[getTerminator(p, b)] = "br" /\ p.args[getTerminator(p, b)] # <<>>

Unconditional(p, b, target) ==
  [p EXCEPT !.args[getTerminator(p, b)] = <<>>, !.succ[b] = <<target>>]

replaceSameConditionalBranchesWithUnconditional(p) ==
  LET same == {b \in Blocks(p) : isConditional(p, b) /\ p.succ[b][1] = p.succ[b][2]}
  IN  FoldLeft(LAMBDA q, b : Unconditional(q, b, p.succ[b][1]), p, SetToSeq(same))

isUniqueSuccAndHasUniquePred(p, b) ==
  LET pred == getUniquePredecessor(p, b)
  IN  pred # NoBlock /\ getUniqueSuccessor(p, pred) # NoBlock

willMergeWithPredHadConditionalBranch(p, b) ==
  /\ Cardinality(PredEdges(p, b)) = 1
  /\ getUniqueSuccessor(p, b) # NoBlock
  /\ isConditional(p, getUniquePredecessor(p, b))
  /\ \A I \in Range(p.body[b]) : p.kind[I] \notin Refusing
  /\ FoldLeft(LAMBDA cost, I : cost + getInstCost(p, I), 0, Counted(p, b)) <= 30

-----------------------------------------------------------------------------
erasePhi(p, phi, v) == eraseInsts(replaceAllUsesWith(p, phi, v), {phi})

FoldSingleEntryPHINodes(p, b) ==
  FoldLeft(LAMBDA q, phi : erasePhi(q, phi, q.args[phi][1]), p, PhiSeq(p, b))

\* What came from b now comes from its predecessor, and nobody jumps to b.
EraseBlock(p, b, pred) ==
  LET I == FreshInst(p)
      q == [p EXCEPT !.from = [J \in Insts(p) |-> ReplaceAll(@[J], b, pred)], !.succ[b] = <<>>]
      r == eraseInsts(q, ToSet(q.body[b]))
  IN  [r EXCEPT !.body[b] = <<I>>,
                !.kind = @ @@ (I :> "unreachable"), !.type = @ @@ (I :> "void"),
                !.args = @ @@ (I :> <<>>), !.from = @ @@ (I :> <<>>), !.info = @ @@ (I :> "")]

\* LLVM's own (external): b is all that follows its predecessor.
MergeBlockIntoPredecessor(p, b) ==
  LET pred == getUniquePredecessor(p, b)
  IN  IF pred \in {NoBlock, b} \/ getUniqueSuccessor(p, pred) # b THEN p
      ELSE LET q == eraseInsts(FoldSingleEntryPHINodes(p, b), {getTerminator(p, pred)})
               r == [q EXCEPT !.body[pred] = @ \o q.body[b], !.succ[pred] = q.succ[b], !.body[b] = <<>>]
           IN  EraseBlock(r, b, pred)

\* A phi of the common successor that has values from both becomes a select.
SelectIncoming(p, phi, b, pred, cond, path) ==
  LET mine  == Incoming(p, phi, b)
      other == Incoming(p, phi, pred)
      sel   == FreshInst(p)
      q == Insert(p, getTerminator(p, pred), "select", p.type[phi],
                  IF path = 1 THEN <<cond, mine, other>> ELSE <<cond, other, mine>>, "")
      k == Min({i \in DOMAIN p.from[phi] : p.from[phi][i] = b})
      values == RemoveAt([i \in DOMAIN p.args[phi] |->
                            IF p.from[phi][i] = pred THEN sel ELSE p.args[phi][i]], k)
      r == [q EXCEPT !.args[phi] = values, !.from[phi] = RemoveAt(@, k)]
  IN  IF Len(values) = 1 THEN erasePhi(r, phi, sel) ELSE r

MergeBlockIntoPredecessorCustom(p, b) ==
  LET pred == getUniquePredecessor(p, b)
      next == getUniqueSuccessor(p, b)
      path == IF p.succ[pred][1] = b THEN 1 ELSE 2
      q == FoldSingleEntryPHINodes(p, b)
      cond == q.args[getTerminator(q, pred)][1]
      r == [q EXCEPT !.succ[pred][path] = next,
                     !.body[pred] = Front(@) \o Front(q.body[b]) \o <<Last(@)>>,
                     !.body[b] = <<Last(@)>>]
      both == {phi \in Phis(r, next) : {b, pred} \subseteq Range(r.from[phi])}
      s == IF r.succ[pred][1] # r.succ[pred][2] THEN r
           ELSE FoldLeft(LAMBDA t, phi : SelectIncoming(t, phi, b, pred, cond, path),
                         Unconditional(r, pred, next), SelectSeq(PhiSeq(r, next), LAMBDA phi : phi \in both))
  IN  IF pred = b THEN p ELSE EraseBlock(s, b, pred)

-----------------------------------------------------------------------------
\* The lists are made before the first merge, and worked off from the end.
MergeChains(p) ==
  FoldRight(LAMBDA b, q : MergeBlockIntoPredecessor(q, b),
            DFSWithCondition(p, LAMBDA b : isUniqueSuccAndHasUniquePred(p, b)), p)

MergeBranches(p) ==
  LET sameLoop(q, b) == getLoopFor(p, b) = getLoopFor(p, getUniquePredecessor(q, b))
  IN  FoldRight(LAMBDA b, q : IF sameLoop(q, b) THEN MergeBlockIntoPredecessorCustom(q, b) ELSE q,
                DFSWithCondition(p, LAMBDA b : willMergeWithPredHadConditionalBranch(p, b)), p)

CFGOptPass(p) ==
  MergeChains(MergeBranches(MergeChains(replaceSameConditionalBranchesWithUnconditional(p))))
=============================================================================
