----------------------------- MODULE LowerModule -----------------------------
(***************************************************************************)
(* The first stage of emitAssembly (backend.cpp) on a module with one      *)
(* function: eight passes that leave only operations the machine has.      *)
(* Pass by pass, one action per iteration of the pass's loop; a pass that  *)
(* throws ends compilation.                                                *)
(***************************************************************************)
EXTENDS AddressLowering, WidthLowering, ConstCombine

CONSTANTS
  Inputs,            \* the arguments functions are compared for
  MaxBlocks          \* and the blocks executed of each

VARIABLES
  original, prog,    \* the function before and during lowering
  pass,              \* the running pass, or the one that runs next
  todo,              \* what its loop still has to visit; Idle between passes
  updated,           \* the flag of the loops that repeat
  acc, offset,       \* GVEliminate: bytes of the globals so far, and where each begins
  error,             \* what was thrown, "" for nothing
  rounds,            \* how often the loop of the running pass was repeated
  mallocLost         \* has DCE removed the malloc of GVEliminate?

vars == <<original, prog, pass, todo, updated, acc, offset, error, rounds, mallocLost>>

GEPsFirst == <<"Freeze", "GEP", "ConstExpr", "GV", "Alloca", "RemoveCasts", "GEPConstCombine",
               "TruncateAdjust", "SignExtend", "done">>

Passes == <<"Freeze", "ConstExpr", "GEP", "GV", "Alloca", "RemoveCasts", "GEPConstCombine",
            "TruncateAdjust", "SignExtend", "done">>

Idle == <<-1>>

AfterPass(name) == Passes[1 + CHOOSE k \in DOMAIN Passes : Passes[k] = name]

Init(Programs) ==
  /\ original \in Programs /\ prog = original
  /\ pass = Passes[1] /\ todo = Idle /\ updated = FALSE /\ acc = 0 /\ offset = <<>> /\ error = ""
  /\ rounds = 0 /\ mallocLost = FALSE

Visiting(name) == pass = name /\ error = "" /\ todo \notin {Idle, <<>>}

\* A pass visits the instructions it finds, those it inserts in front of them not.
StartPass ==
  /\ pass # "done" /\ error = "" /\ todo = Idle
  /\ todo' = CASE pass = "GV"     -> [n \in DOMAIN prog.gvs |-> n]
               [] pass = "Alloca" -> Allocas(prog)
               [] pass = "RemoveCasts" -> <<>>
               [] OTHER           -> InstSeq(prog)
  /\ updated' = FALSE /\ rounds' = 0
  /\ UNCHANGED <<original, prog, pass, acc, offset, error, mallocLost>>

EndPass ==
  /\ pass \notin {"GV", "Alloca", "RemoveCasts", "GEPConstCombine"} /\ error = "" /\ todo = <<>>
  /\ pass' = AfterPass(pass) /\ todo' = Idle
  /\ UNCHANGED <<original, prog, updated, acc, offset, error, rounds, mallocLost>>

\* Visit the next instruction: rewrite it if it is one the pass looks for.
Visit(name, Applies(_), Rewritten(_)) ==
  /\ Visiting(name)
  /\ todo' = Tail(todo)
  /\ prog' = IF Applies(Head(todo)) THEN Rewritten(Head(todo)) ELSE prog
  /\ UNCHANGED <<original, pass, updated, acc, offset, error, rounds, mallocLost>>

VisitFreeze == Visit("Freeze", LAMBDA I : prog.kind[I] = "freeze",
                               LAMBDA I : EliminateFreeze(prog, I))

\* This pass walks backwards, so it comes to what it inserted.
VisitConstExpr ==
  /\ Visiting("ConstExpr")
  /\ LET I == Last(todo)   q == EliminateConstExprs(prog, I) IN
     /\ prog' = q
     /\ todo' = Front(todo) \o [k \in 1..Len(ConstExprOperands(prog, I)) |-> FreshInst(prog) + k - 1]
  /\ UNCHANGED <<original, pass, updated, acc, offset, error, rounds, mallocLost>>

VisitGEP ==
  /\ Visiting("GEP")
  /\ LET I == Head(todo) IN
     IF prog.kind[I] = "getelementptr" /\ ~hasSize(prog.info[I])
     THEN error' = "UnknownSizeTypeError" /\ UNCHANGED <<prog, todo>>
     ELSE /\ todo' = Tail(todo) /\ UNCHANGED error
          /\ prog' = IF prog.kind[I] = "getelementptr" THEN EliminateGEP(prog, I) ELSE prog
  /\ UNCHANGED <<original, pass, updated, acc, offset, rounds, mallocLost>>

VisitGV ==
  /\ Visiting("GV")
  /\ LET n == Head(todo) IN
     IF ~hasSize(prog.gvs[n])
     THEN error' = "UnknownSizeTypeError" /\ UNCHANGED <<prog, todo, acc, offset>>
     ELSE /\ prog' = EliminateGV(prog, n, acc)
          /\ acc' = acc + alignUp(tryCalculateSize(prog.gvs[n]))
          /\ offset' = Append(offset, acc)
          /\ todo' = Tail(todo) /\ UNCHANGED error
  /\ UNCHANGED <<original, pass, updated, rounds, mallocLost>>

EndGV ==
  /\ pass = "GV" /\ error = "" /\ todo = <<>>
  /\ IF acc > 0 /\ prog.name # "main"
     THEN error' = "NoMainError" /\ UNCHANGED <<prog, pass, todo>>
     ELSE /\ prog' = [IF acc > 0 THEN InsertMalloc(prog, acc) ELSE prog EXCEPT !.gvs = <<>>]
          /\ pass' = AfterPass(pass) /\ todo' = Idle /\ UNCHANGED error
  /\ UNCHANGED <<original, updated, acc, offset, rounds, mallocLost>>

\* The first loop over the allocas adds up the frame and throws; the second rewrites.
VisitAlloca ==
  /\ Visiting("Alloca")
  /\ LET I == Head(todo) IN
     CASE ~isStaticAlloca(prog, I)    -> error' = "NonStaticAllocaError" /\ UNCHANGED todo
       [] ~hasSize(prog.info[I])      -> error' = "UnknownSizeTypeError" /\ UNCHANGED todo
       [] OTHER                       -> todo' = Tail(todo) /\ UNCHANGED error
  /\ UNCHANGED <<original, prog, pass, updated, acc, offset, rounds, mallocLost>>

EndAlloca ==
  /\ pass = "Alloca" /\ error = "" /\ todo = <<>>
  /\ prog' = EliminateAllocas(prog)
  /\ pass' = AfterPass(pass) /\ todo' = Idle
  /\ UNCHANGED <<original, updated, acc, offset, error, rounds, mallocLost>>

\* The end of AllocaEliminatePass: rounds until one changes nothing.
RemoveCastsRound ==
  /\ pass = "RemoveCasts" /\ error = "" /\ todo = <<>>
  /\ prog' = RemoveCasts(prog)
  /\ IF prog' = prog THEN pass' = AfterPass(pass) /\ todo' = Idle ELSE UNCHANGED <<pass, todo>>
  /\ rounds' = rounds + 1
  /\ UNCHANGED <<original, updated, acc, offset, error, mallocLost>>

VisitBinaryOperator ==
  /\ Visiting("GEPConstCombine")
  /\ LET I == Head(todo)   matched == MatchingRules(prog, I) # {} IN
     /\ prog' = IF matched THEN Combine(prog, I) ELSE prog
     /\ updated' = (updated \/ matched)
  /\ todo' = Tail(todo)
  /\ UNCHANGED <<original, pass, acc, offset, error, rounds, mallocLost>>

\* DCEPass ends a round; another follows if a rule has matched in this one.
EndRound ==
  /\ pass = "GEPConstCombine" /\ error = "" /\ todo = <<>>
  /\ prog' = DCE(prog)
  /\ todo' = IF updated THEN InstSeq(prog') ELSE Idle
  /\ updated' = FALSE
  /\ pass' = IF updated THEN pass ELSE AfterPass(pass)
  /\ rounds' = rounds + 1
  /\ mallocLost' = (mallocLost \/ \E I \in Insts(prog) \ Insts(prog') : prog.info[I] = "malloc")
  /\ UNCHANGED <<original, acc, offset, error>>

VisitTrunc == Visit("TruncateAdjust", LAMBDA I : prog.kind[I] = "trunc",
                                      LAMBDA I : AdjustTrunc(prog, I))

VisitSExt == Visit("SignExtend", LAMBDA I : prog.kind[I] = "sext",
                                 LAMBDA I : EliminateSExt(prog, I))

Next ==
  \/ StartPass \/ EndPass
  \/ VisitFreeze \/ VisitConstExpr \/ VisitGEP
  \/ VisitGV \/ EndGV \/ VisitAlloca \/ EndAlloca \/ RemoveCastsRound
  \/ VisitBinaryOperator \/ EndRound \/ VisitTrunc \/ VisitSExt

Spec(Programs) == Init(Programs) /\ [][Next]_vars

-----------------------------------------------------------------------------
AtRest == todo = Idle /\ error = ""

\* Whatever the passes insert, move and remove, definitions dominate their uses and
\* phis head their blocks, with a value for every edge: the IR stays legal after every
\* single rewriting.
StaysLegal == WellFormed(prog) /\ OneEntryPerEdge(prog)

\* After each pass the function computes what it computed before the first, for all
\* inputs: variables keep apart and inside the memory reserved for them, no constant
\* is lost to wrap-around, no rule changes a value.  (A malloc that DCE takes for dead
\* is not repeated here, see GlobalsKeepTheirMemory.)
KeepsBehaviour ==
  AtRest /\ ~mallocLost => Refines(prog, original, Inputs, FALSE, MaxBlocks)

\* The emitter writes no code for conversions, so the lowered function is executed with
\* their operands' registers unchanged.  Multiplications by one and shifts make that
\* agree with what conversions mean, whoever reads a trunc.
MovesNeedNoCode ==
  pass = "done" /\ ~mallocLost => Refines(prog, original, Inputs, TRUE, MaxBlocks)

\* At the end nothing is left that only an earlier pass could have lowered: a later
\* pass never brings back what an earlier one eliminated.
Eliminated == {"freeze", "sext", "alloca", "getelementptr"}

OnlyMachineOperations ==
  pass = "done" =>
    /\ \A I \in Insts(prog) : prog.kind[I] \notin Eliminated
    /\ \A I \in Insts(prog) : \A v \in Range(prog.args[I]) :
         ~isConstantExpr(v) /\ ~(v < 0 /\ Tag(v) = GVTag)

\* The globals are laid out as AddressLayout says, so by its theorem disjoint, aligned
\* and inside what InsertMalloc allocates.
SizesOf(gvs) == [n \in DOMAIN gvs |-> IF hasSize(gvs[n]) THEN tryCalculateSize(gvs[n]) ELSE 0]

Layout == INSTANCE AddressLayout WITH sizes <- SizesOf(original.gvs)

PlacesGlobals == Layout!Spec

\* The loops that repeat until nothing is updated end, after fewer rounds than the
\* function had instructions: no two rules undo each other's work.
RoundsBounded == rounds <= Cardinality(Insts(original)) + 1

\* "the backend will emit the correct assembly as long as you feed it an appropriate
\* LLVM IR program" (backend.h:13): also for functions with global variables.
GlobalsKeepTheirMemory == pass = "done" => Refines(prog, original, Inputs, TRUE, MaxBlocks)
=============================================================================
