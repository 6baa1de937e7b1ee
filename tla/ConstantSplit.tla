---------------------------- MODULE ConstantSplit ---------------------------
(***************************************************************************)
(* const_split.cpp: every constant operand of every instruction becomes    *)
(* the instruction that materialises it.  PrepareFunction has the loop.    *)
(***************************************************************************)
EXTENDS ConstMap

IsConstant(v) == v < 0

\* I.replaceUsesOfWith(operand i, CI): every operand equal to operand i.
ReplaceConstants(p, I, c, v) ==
  [p EXCEPT !.args[I] = [k \in DOMAIN @ |-> IF IsConstant(@[k]) THEN v ELSE @[k]]]

ReplaceUses(p, I, c, v) ==
  [p EXCEPT !.args[I] = [k \in DOMAIN @ |-> IF @[k] = c THEN v ELSE @[k]]]

ReplaceOperand(p, I, i) ==
  LET c == p.args[I][i]
      q == resolve_constant(p, c, I)
  IN  IF IsConstant(c) THEN ReplaceUses(q, I, c, q.cmap[c]) ELSE p

\* The operands of calls of const_i64 stay literals.
Skipped(p, I) == p.kind[I] = "const"

SplitInstruction(p, I) ==
  LET split[i \in 0..Len(p.args[I])] == IF i = 0 THEN p ELSE ReplaceOperand(split[i - 1], I, i)
  IN  IF Skipped(p, I) THEN p ELSE split[Len(p.args[I])]

\* The whole pass at once, for the modules that start from its result.
SplitConstants(p) == FoldLeft(LAMBDA q, I : SplitInstruction(q, I), p, FlattenSeq(p.body))
=============================================================================
