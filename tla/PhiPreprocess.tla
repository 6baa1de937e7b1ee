---------------------------- MODULE PhiPreprocess ---------------------------
(***************************************************************************)
(* phi_preprocess.cpp: three passes over the phis of a function, each of   *)
(* which copies some incoming values (a multiplication by 1 before the     *)
(* terminator of the incoming block), so that coalescing phis with their   *)
(* operands can be sound.  PrepareFunction has the loops.                  *)
(***************************************************************************)
EXTENDS SSAProgram

\* The operands of the phis in the order of the nested loops.
PhiOperands(p) ==
  LET code == FlattenSeq(p.body)
  IN  FlattenSeq([n \in 1..Len(code) |->
        IF IsPhi(p, code[n]) THEN [i \in 1..Len(p.args[code[n]]) |-> <<code[n], i>>] ELSE <<>>])

\* <<the function, value v>>, from that with one more instruction before t that is applied to
\* v. A multiplication has the constant 1 as its other operand.
Applied(c, t, kind, type) ==
  LET I == FreshInst(c[1])
      args == IF kind = "op" THEN <<c[2], One(type)>> ELSE <<c[2]>>
  IN  <<InsertBefore(c[1], t, I, kind, args, type), I>>

\* <<the function, a copy of v made before t>>. Pointers are multiplied as i64, vectors twice.
StaysInteger(p, t, v, type) ==
  IF type = "ptr" THEN Applied(Applied(<<p, v>>, t, "move", "i64"), t, "op", "i64")
                  ELSE Applied(<<p, v>>, t, "op", type)
CopyOf(p, t, v, type) ==
  LET times1 == Applied(<<p, v>>, t, "op", type)
      wide   == Applied(<<p, v>>, t, "move", "i64")
  IN  CASE type = "ptr"                -> Applied(Applied(wide, t, "op", "i64"), t, "move", "ptr")
        [] type \in {"v4i64", "v8i32"} -> Applied(times1, t, "op", type)
        [] OTHER                       -> times1

\* phi->setIncomingValue(i, a copy of it); <<the function, the copy>>
CopyBelow(p, phi, i) ==
  LET q == CopyOf(p, getFirstNonPHI(p, BlockOf(p, phi)), p.args[phi][i], p.type[phi])
  IN  <<setIncomingValue(q[1], phi, i, q[2]), q[2]>>
CopyIncoming(p, phi, i) ==
  LET q == CopyOf(p, getTerminator(p, p.from[phi][i]), p.args[phi][i], p.type[phi])
  IN  <<setIncomingValue(q[1], phi, i, q[2]), q[2]>>

\* Does the pass replace operand v?
DirectPhi(n, p, v, seen) == CASE n = 1 -> ~isReg(p, v)
                             [] n = 2 -> Root(p, v) \in seen
                             [] n = 3 -> IsInst(v) /\ IsPhi(p, v)
NeedsCopy(n, p, v, seen) ==
  CASE n = 1 -> ~isReg(p, v)
    [] n = 2 -> Root(p, v) \in seen
    [] n = 3 -> IsInst(Root(p, v)) /\ IsPhi(p, Root(p, v))

\* One iteration of the inner loop of pass n: the function and visit after it.
Prepare(n, p, seen, phi, i) ==
  LET v == p.args[phi][i]
      copied == CopyIncoming(p, phi, i)
  IN  IF NeedsCopy(n, p, v, seen)
      THEN <<copied[1], IF n = 2 THEN seen \cup {copied[2]} ELSE seen>>
      ELSE <<p, IF n = 2 THEN seen \cup {Root(p, v)} ELSE seen>>

\* All three passes at once, for the modules that start from their result.
PHIPreprocess(p) ==
  LET run(n, s) == FoldLeft(LAMBDA q, o : Prepare(n, q[1], q[2], o[1], o[2]), s, PhiOperands(s[1]))
  IN  run(3, run(2, run(1, <<p, {}>>)))[1]
=============================================================================
