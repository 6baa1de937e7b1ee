------------------------------- MODULE LoopInfo -------------------------------
(***************************************************************************)
(* What LLVM's analyses tell the optimizer (external): predecessors,       *)
(* natural loops, dominance of edges and of uses, post-dominance.          *)
(***************************************************************************)
EXTENDS IRValues

Preds(p, b)     == {c \in Blocks(p) : b \in Range(p.succ[c])}
PredEdges(p, b) == {e \in UNION {{c} \X DOMAIN p.succ[c] : c \in Blocks(p)} : p.succ[e[1]][e[2]] = b}

NoBlock == 0
Unique(S) == IF Cardinality(S) = 1 THEN CHOOSE x \in S : TRUE ELSE NoBlock
getUniquePredecessor(p, b) == Unique(Preds(p, b))
getUniqueSuccessor(p, b)   == Unique(Range(p.succ[b]))

isReachableFromEntry(p, b) == isPotentiallyReachable(p, b)

-----------------------------------------------------------------------------
\* Loops are known by their headers.
Latches(p, h) == {c \in Preds(p, h) : isReachableFromEntry(p, c) /\ Dominates(p, h, c)}
Headers(p)    == {h \in Blocks(p) : Latches(p, h) # {}}

LoopBlocks(p, h) ==
  {h} \cup {b \in Blocks(p) : /\ isReachableFromEntry(p, b) /\ Dominates(p, h, b)
                              /\ Latches(p, h) \cap Reached(NotThrough(p, h), {b}) # {}}

\* The innermost loop around b.
getLoopFor(p, b) ==
  LET around == {h \in Headers(p) : b \in LoopBlocks(p, h)}
  IN  IF around = {} THEN NoBlock
      ELSE CHOOSE h \in around : \A g \in around : LoopBlocks(p, h) \subseteq LoopBlocks(p, g)

TopLoops(p) == {h \in Headers(p) : \A g \in Headers(p) \ {h} : h \notin LoopBlocks(p, g)}

\* The one block that enters the loop, if it goes nowhere else.
getLoopPreheader(p, h) ==
  LET b == Unique(Preds(p, h) \ LoopBlocks(p, h))
  IN  IF b # NoBlock /\ Len(p.succ[b]) = 1 THEN b ELSE NoBlock

-----------------------------------------------------------------------------
\* Every path to `b' takes the edge from c to d.
EdgeDominates(p, c, d, b) ==
  /\ Dominates(p, d, b)
  /\ Cardinality({e \in PredEdges(p, d) : e[1] = c}) = 1
  /\ \A x \in Preds(p, d) \ {c} : Dominates(p, d, x)

\* The block in which operand k of I is used: for a phi, where it comes from.
UseBlock(p, I, k) == IF IsPhi(p, I) THEN p.from[I][k] ELSE BlockOf(p, I)

EdgeDominatesUse(p, c, d, I, k) ==
  \/ IsPhi(p, I) /\ BlockOf(p, I) = d /\ p.from[I][k] = c
  \/ EdgeDominates(p, c, d, UseBlock(p, I, k))

\* replaceDominatedUsesWith, Use(I, k) telling which uses those are.
replaceUsesWhere(p, old, new, Use(_, _)) ==
  [p EXCEPT !.args = [I \in Insts(p) |-> [k \in DOMAIN @[I] |->
                        IF @[I][k] = old /\ Use(I, k) THEN new ELSE @[I][k]]]]

\* DominatorTree::findNearestCommonDominator of two instructions.
findNearestCommonDominator(p, I, J) ==
  LET b == BlockOf(p, I)   c == BlockOf(p, J)
      common == {d \in Blocks(p) : isReachableFromEntry(p, d) /\ Dominates(p, d, b) /\ Dominates(p, d, c)}
      nearest == CHOOSE d \in common : \A e \in common : Dominates(p, e, d)
  IN  CASE b = c                        -> IF IndexOf(p, I) < IndexOf(p, J) THEN I ELSE J
        [] ~isReachableFromEntry(p, c)  -> I
        [] ~isReachableFromEntry(p, b)  -> J
        [] nearest = b                  -> I
        [] nearest = c                  -> J
        [] OTHER                        -> getTerminator(p, nearest)

\* Every path from b to an exit comes through a.
PostDominates(p, a, b) ==
  \/ a = b
  \/ \A x \in Reached(NotThrough(p, a), {b}) : p.succ[x] = <<>> => x = a

InstPostDominates(p, I, J) ==
  IF BlockOf(p, I) = BlockOf(p, J) THEN IndexOf(p, J) < IndexOf(p, I)
                                   ELSE PostDominates(p, BlockOf(p, I), BlockOf(p, J))
=============================================================================
