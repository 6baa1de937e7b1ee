---------------------------- MODULE WidthLowering ----------------------------
(***************************************************************************)
(* The small back-end passes: freeze_eliminate.cpp, const_expr_eliminate   *)
(* .cpp, trunc_adjust.cpp and sext_eliminate.cpp.  Each operator gives the *)
(* function after one iteration of a pass.                                 *)
(***************************************************************************)
EXTENDS IRValues

\* FreezeEliminatePass: a freeze is its operand.
EliminateFreeze(p, I) == eraseInsts(replaceAllUsesWith(p, I, p.args[I][1]), {I})

\* ConstExprEliminatePass: the constant expressions among the operands of I become
\* instructions in front of I; their own operands are left to later iterations.
ConstExprOperands(p, I) ==
  SelectSeq([k \in DOMAIN p.args[I] |-> k], LAMBDA k : isConstantExpr(p.args[I][k]))

EliminateConstExprs(p, I) ==
  FoldLeft(LAMBDA q, k :
      LET e == p.ces[Payload(p.args[I][k])]
      IN  setOperand(Insert(q, I, e.kind, e.type, e.args, e.info), I, k, FreshInst(q)),
    p, ConstExprOperands(p, I))

\* TruncateAdjustPass: in a register a trunc is its operand, high bits included; the
\* multiplication by one behind it, at the narrow width, drops them for all users.
InsertAfter(p, t, kind, type, args) ==
  Insert(p, getNextNode(p, t), kind, type, args, "")

TruncIsFree(p, I) == p

AdjustTrunc(p, I) ==
  LET mov == FreshInst(p)
      q   == InsertAfter(p, I, "mul", p.type[I], <<I, Const(p.type[I], 1)>>)
  IN  [replaceAllUsesWith(q, I, mov) EXCEPT !.args[mov] = <<I, Const(p.type[I], 1)>>]

\* SignExtendEliminatePass: zext, then shift up and arithmetically down.
EliminateSExt(p, I) ==
  LET shift == Const(p.type[I], Bits(p.type[I]) - Bits(TypeOf(p, p.args[I][1])))
      ext   == FreshInst(p)
      q1    == Insert(p, I, "zext", p.type[I], p.args[I], "")
      q2    == Insert(q1, I, "shl", p.type[I], <<ext, shift>>, "")
      q3    == Insert(q2, I, "ashr", p.type[I], <<ext + 1, shift>>, "")
  IN  eraseInsts(replaceAllUsesWith(q3, I, ext + 2), {I})
=============================================================================
