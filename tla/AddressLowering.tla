--------------------------- MODULE AddressLowering ---------------------------
(***************************************************************************)
(* The back-end passes that turn what has an address into arithmetic on    *)
(* i64s: gep_eliminate.cpp, gv_eliminate.cpp and alloca_eliminate.cpp.     *)
(* Each operator gives the function after one iteration of a pass.         *)
(***************************************************************************)
EXTENDS IRValues

i64(n) == Const("i64", n)

\* llvm::CastInst::CreateBitOrPointerCast
BitOrPointerCast(from, to) ==
  CASE from = to     -> "bitcast"
    [] from = "ptr"  -> "ptrtoint"
    [] to = "ptr"    -> "inttoptr"
    [] OTHER         -> "bitcast"

InsertCast(p, t, v, type) ==
  Insert(p, t, BitOrPointerCast(TypeOf(p, v), type), type, <<v>>, "")

-----------------------------------------------------------------------------
\* GEPEliminatePass: index by index, base + zext(index) * size, in front of I.

EliminateGEP(p, I) ==
  LET indices == Tail(p.args[I])
      ty      == p.info[I]
      elem(k) == [ty EXCEPT !.dims = SubSeq(@, k, Len(@))]
      addIndex(q, k) ==
        LET base == FreshInst(q) - 1
            v    == indices[k]
            op   == FreshInst(q)
            q1   == Insert(q, I, IF TypeOf(q, v) = "i64" THEN "bitcast" ELSE "zext", "i64", <<v>>, "")
            q2   == Insert(q1, I, "mul", "i64", <<op, i64(tryCalculateSize(elem(k)))>>, "")
        IN  Insert(q2, I, "add", "i64", <<base, op + 1>>, "")
      sum == FoldLeft(addIndex, InsertCast(p, I, p.args[I][1], "i64"), [k \in DOMAIN indices |-> k])
      q   == InsertCast(sum, I, FreshInst(sum) - 1, "ptr")
  IN  eraseInsts(replaceAllUsesWith(q, I, FreshInst(sum)), {I})

-----------------------------------------------------------------------------
\* GVEliminatePass for the n-th global, whose address is START_ADDRESS + acc.  Every
\* use by an instruction gets a cast of its own; a ptrtoint is the number itself.

GVUses(p, n) == {use \in Insts(p) \X (1..3) :
                   use[2] \in DOMAIN p.args[use[1]] /\ p.args[use[1]][use[2]] = GV(n)}

AtBlockEnd(p, I) == getTerminator(p, BlockOf(p, I))
CastPoint(p, I)  == I

EliminateGV(p, n, acc) ==
  LET address == START_ADDRESS + acc
      casts   == {use[1] : use \in {u \in GVUses(p, n) : p.kind[u[1]] = "ptrtoint"}}
      folded  == eraseInsts(
                   FoldSeq(LAMBDA I, q : replaceAllUsesWith(q, I, Const(q.type[I], address)),
                           p, SetToSeq(casts)), casts)
      useCast(q, use) ==
        setOperand(InsertCast(q, CastPoint(q, use[1]), i64(address), "ptr"), use[1], use[2], FreshInst(q))
  IN  FoldLeft(useCast, folded, SetToSeq(GVUses(folded, n)))

\* At the end, the memory of all of them is allocated when main starts.
InsertMalloc(p, acc) ==
  Insert(p, getFirstNonPHI(p, 1), "call", "ptr", <<i64(acc)>>, "malloc")

-----------------------------------------------------------------------------
\* AllocaEliminatePass.  First the frame: the allocas of the function with their
\* array sizes.  Then every alloca becomes an offset from the stack pointer; the
\* offsets advance by the size of one element.

Allocas(p) == SelectSeq(InstSeq(p), LAMBDA I : p.kind[I] = "alloca")

isStaticAlloca(p, I) == BlockOf(p, I) = 1 /\ isConstantInt(p.args[I][1])

PackedSize(p) ==
  FoldLeft(LAMBDA acc, I : acc + tryCalculateSize(p.info[I]) * getZExtValue(p.args[I][1]), 0, Allocas(p))

FrameSize(p) ==
  FoldLeft(LAMBDA acc, I :
      acc + alignUp(tryCalculateSize(p.info[I]) * getZExtValue(p.args[I][1])), 0, Allocas(p))

EliminateAllocas(p) ==
  LET CI  == FreshInst(p)
      p1  == Insert(p, getFirstNonPHI(p, 1), "call", "i64", <<i64(FrameSize(p))>>, "$decr_sp")
      one(s, I) ==
        LET add == FreshInst(s.p)
            q1  == Insert(s.p, I, "add", "i64", <<CI, i64(s.acc)>>, "")
            q2  == InsertCast(q1, I, add, "ptr")
        IN  [p   |-> replaceAllUsesWith(q2, I, add + 1),
             acc |-> s.acc + alignUp(tryCalculateSize(p.info[I]))]
  IN  IF FrameSize(p) = 0 THEN p
      ELSE eraseInsts(FoldLeft(one, [p |-> p1, acc |-> 0], Allocas(p)).p, ToSet(Allocas(p)))

\* Then rounds over all inttoptr: one without uses goes, and a ptrtoint of one is the
\* integer it was made of.
IntToPtrs(p) == SelectSeq(InstSeq(p), LAMBDA I : p.kind[I] = "inttoptr")
PtrToIntsOf(p, I) == {J \in Users(p, I) : p.kind[J] = "ptrtoint"}

RemoveCasts(p) ==
  LET round(s, I) ==
        IF Users(s.p, I) = {} THEN [s EXCEPT !.trashBin = @ \cup {I}]
        ELSE [p |-> FoldSeq(LAMBDA J, q : replaceAllUsesWith(q, J, q.args[I][1]),
                            s.p, SetToSeq(PtrToIntsOf(s.p, I))),
              trashBin |-> s.trashBin \cup PtrToIntsOf(s.p, I)]
      end == FoldLeft(round, [p |-> p, trashBin |-> {}], IntToPtrs(p))
  IN  eraseInsts(end.p, end.trashBin)
=============================================================================
