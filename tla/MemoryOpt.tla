------------------------------- MODULE MemoryOpt ------------------------------
(***************************************************************************)
(* The passes about memory and calls: GVoptPass.cpp takes loads of globals *)
(* out of loops, rcall_opt.cpp marks recursive calls, free_opt.cpp leaves  *)
(* out the frees after the last malloc, vectorization_opt.cpp makes vector *)
(* operations of runs of scalar ones.                                      *)
(***************************************************************************)
EXTENDS LoopInfo

isGlobal(v) == v < 0 /\ Tag(v) = GVTag

LoopInsts(p, h) == UNION {Range(p.body[b]) : b \in LoopBlocks(p, h)}

isGVStoredInLoop(p, h, v) == \E I \in Users(p, v) \cap LoopInsts(p, h) : p.kind[I] = "store"

Hoistable(p, h, I) ==
  /\ p.kind[I] = "load" /\ isGlobal(p.args[I][1])
  /\ ~isGVStoredInLoop(p, h, p.args[I][1])

\* One load of each global in the preheader serves all loads in the loop.
HoistFrom(p, h) ==
  LET pre == getLoopPreheader(p, h)
      loads == SelectSeq(InstSeq(p), LAMBDA I : I \in LoopInsts(p, h) /\ Hoistable(p, h, I))
      globals == {p.args[I][1] : I \in Range(loads)}
      first(v) == SelectSeq(loads, LAMBDA I : p.args[I][1] = v)[1]
      hoist(q, v) ==
        LET new == FreshInst(q)
            r == Insert(q, getTerminator(q, pre), "load", q.type[first(v)], <<v>>, "")
        IN  FoldLeft(LAMBDA t, I : replaceAllUsesWith(t, I, new), r, SelectSeq(loads, LAMBDA I : p.args[I][1] = v))
  IN  IF pre = NoBlock THEN p ELSE eraseInsts(FoldLeft(hoist, p, SetToSeq(globals)), Range(loads))

GVopt(p) == FoldLeft(HoistFrom, p, SetToSeq(TopLoops(p)))

-----------------------------------------------------------------------------
\* Every call of the function itself is marked as a tail call.
RCallOptimization(p) ==
  [p EXCEPT !.tail = @ \cup {I \in Insts(p) : p.kind[I] = "call" /\ p.info[I] = p.name}]

-----------------------------------------------------------------------------
isMallocCall(p, I) == p.kind[I] = "call" /\ p.info[I] = "malloc"
isFreeCall(p, I)   == p.kind[I] = "call" /\ p.info[I] = "free"

isInSameLoop(p, I, J) ==
  LET h == getLoopFor(p, BlockOf(p, I)) IN h # NoBlock /\ h = getLoopFor(p, BlockOf(p, J))

\* Frees of any pointer, after the malloc that comes last in the text.
FreesToDelete(p) ==
  LET insts == InstSeq(p)
      mallocs == {k \in DOMAIN insts : isMallocCall(p, insts[k])}
      m == insts[Max(mallocs)]
  IN  IF mallocs = {} THEN {}
      ELSE {I \in Range(SubSeq(insts, Max(mallocs) + 1, Len(insts))) :
              /\ isFreeCall(p, I)
              /\ DefDominates(p, m, I) /\ InstPostDominates(p, I, m)
              /\ ~isInSameLoop(p, m, I)}

FreeOpt(p) == eraseInsts(p, FreesToDelete(p))

-----------------------------------------------------------------------------
\* Vectorization works on the loads, stores, getelementptrs and binary operations of a
\* block, whatever lies between them.
ScalarOps(p, b) ==
  SelectSeq(p.body[b], LAMBDA I : p.kind[I] \in IntOps \cup {"load", "store", "getelementptr"})

Window(ops, i) == SubSeq(ops, i, i + 6)

MayWrite(p, I) == p.kind[I] = "store"
MayRead(p, I)  == p.kind[I] = "load"

\* Compares first operands: for a store that is the value, not the address.
checkDependencies(p, pattern) ==
  \A i, j \in DOMAIN pattern :
    i < j /\ p.args[pattern[i]][1] = p.args[pattern[j]][1] =>
      /\ ~(MayWrite(p, pattern[i]) /\ (MayWrite(p, pattern[j]) \/ MayRead(p, pattern[j])))
      /\ ~(MayRead(p, pattern[i]) /\ MayWrite(p, pattern[j]))

\* c[.] = a[.] op b[.], going by the opcodes only.
isVectorizablePattern(p, pattern, ops) ==
  LET kind == [k \in DOMAIN pattern |-> p.kind[pattern[k]]]
  IN  /\ Len(pattern) = 7
      /\ \A k \in {1, 3, 6} : kind[k] = "getelementptr"
      /\ \A k \in {2, 4} : kind[k] = "load"
      /\ kind[5] \in ops /\ kind[7] = "store"

\* How often the pattern at i is repeated.
RepeatCount(p, ops, i) ==
  LET op == {p.kind[ops[i + 4]]}
      fits(n) == \A k \in 0..n - 1 : isVectorizablePattern(p, Window(ops, i + 7 * k), op)
  IN  Max({n \in 1..Len(ops) \div 7 : i + 7 * n - 1 <= Len(ops) /\ fits(n)})

VectorType(n) == CASE n = 2 -> "v2i64" [] n = 3 -> "v3i64" [] n = 4 -> "v4i64"

\* The vectors are loaded from and stored to where the arrays begin.
Vectorized(p, ops, i, n) ==
  LET I == FreshInst(p)
      at == ops[i]
      base(k) == p.args[ops[i + k]][1]
      q == Insert(p, at, "load", VectorType(n), <<base(0)>>, "")
      r == Insert(q, at, "load", VectorType(n), <<base(2)>>, "")
      s == Insert(r, at, p.kind[ops[i + 4]], VectorType(n), <<I, I + 1>>, "")
      t == Insert(s, at, "store", "void", <<I + 2, base(5)>>, "")
  IN  eraseInsts(t, Range(SubSeq(ops, i, i + 7 * n - 1)))

\* The windows go on inside the last of the patterns that were erased.
NextWindow(i, n) == i + 7 * (n - 1) + 1

VectorizeBlock(p, b) ==
  LET ops == ScalarOps(p, b)
      visit(s, i) ==
        LET pattern == Window(ops, i)
            n == RepeatCount(s.p, ops, i)
        IN  IF i < s.next \/ s.error THEN s
            ELSE IF ~(Range(pattern) \subseteq Insts(s.p)) THEN [s EXCEPT !.error = TRUE]
            ELSE IF checkDependencies(s.p, pattern) /\ isVectorizablePattern(s.p, pattern, IntOps) /\ n > 1
            THEN [s EXCEPT !.p = Vectorized(s.p, ops, i, n), !.next = NextWindow(i, n)]
            ELSE s
  IN  FoldLeft(visit, [p |-> p, next |-> 1, error |-> FALSE], [i \in 1..Len(ops) - 6 |-> i])

\* The function, and whether instructions were looked at that are gone.
Vectorization(p) ==
  LET block(s, b) ==
        LET t == VectorizeBlock(s.p, b)
        IN  IF s.error THEN s ELSE [p |-> t.p, error |-> t.error]
  IN  FoldLeft(block, [p |-> p, error |-> FALSE], [b \in Blocks(p) |-> b])
=============================================================================
