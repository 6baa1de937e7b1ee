------------------------------- MODULE Optimizer ------------------------------
(***************************************************************************)
(* opt.cpp: the passes that are run on a function before it is lowered, in *)
(* their order.  Loop unrolling and mem2reg are LLVM's and left out, and   *)
(* so are ReassociationPass and InstructionCombinePass, which do nothing.  *)
(***************************************************************************)
EXTENDS CFGOpt, ArithOpt, CompareOpt, MemoryOpt

CONSTANTS Inputs, MaxBlocks    \* what behaviours are compared for, and how far

VARIABLES
  program,      \* the function, with `tail', its calls that are tail calls
  original,     \* as it was given to the optimizer
  pass,         \* the number of the pass that runs next
  error         \* has the compiler looked at memory it must not look at?

vars == <<program, original, pass, error>>

Pipeline == <<"CFGOpt", "GVopt", "ArithOpt", "Branch", "RCall", "Free", "Vectorization",
              "ICMPPropagation", "MakeSameOperand">>

Init(Programs) ==
  /\ program \in Programs /\ original = program
  /\ pass = 1 /\ error = FALSE

Done == pass > Len(Pipeline)

Turn(name) == ~error /\ ~Done /\ Pipeline[pass] = name

RunPass(name, result) ==
  /\ Turn(name) /\ program' = result /\ pass' = pass + 1
  /\ UNCHANGED <<original, error>>

\* Ends in a null dereference when the cost of a load through a pointer that is no
\* instruction is asked for.
RunCFGOpt ==
  /\ Turn("CFGOpt")
  /\ IF NullDereference(MergeChains(replaceSameConditionalBranchesWithUnconditional(program)))
     THEN error' = TRUE /\ UNCHANGED <<program, pass>>
     ELSE program' = CFGOptPass(program) /\ pass' = pass + 1 /\ UNCHANGED error
  /\ UNCHANGED original

RunGVopt == RunPass("GVopt", GVopt(program))

\* Sweeps, until one changes nothing.
RunArithOpt ==
  LET swept == ArithSweep(program)
  IN  /\ Turn("ArithOpt")
      /\ program' = swept /\ pass' = (IF swept = program THEN pass + 1 ELSE pass)
      /\ UNCHANGED <<original, error>>

RunBranchOptimization ==
  \E headers \in SUBSET Invertible(program) : RunPass("Branch", BranchOptimization(program, headers))

RunRCallOptimization == RunPass("RCall", RCallOptimization(program))
RunFreeOpt           == RunPass("Free", FreeOpt(program))

RunVectorization ==
  LET result == Vectorization(program)
  IN  /\ Turn("Vectorization")
      /\ program' = result.p /\ error' = result.error /\ pass' = pass + 1
      /\ UNCHANGED original

RunICMPPropagation == RunPass("ICMPPropagation", ICMPPropagation(program))
RunMakeSameOperand == RunPass("MakeSameOperand", MakeSameOperand(program))

Next ==
  \/ RunCFGOpt \/ RunGVopt \/ RunArithOpt \/ RunBranchOptimization \/ RunRCallOptimization
  \/ RunFreeOpt \/ RunVectorization \/ RunICMPPropagation \/ RunMakeSameOperand

Spec(Programs) == Init(Programs) /\ [][Next]_vars

-----------------------------------------------------------------------------
\* Merged blocks, hoisted loads and moved operations leave a function LLVM's verifier
\* accepts: definitions dominate their uses and phis agree with their predecessors,
\* edge by edge.
StaysLegal == WellFormed(program) /\ OneEntryPerEdge(program)

\* After every pass the function does what it did before the first one: merging,
\* speculating, turning branches around, propagating equalities and combining equal
\* operations change neither results nor the calls and stores that are made.
KeepsBehaviour == error \/ Refines(program, original, Inputs, FALSE, MaxBlocks)
=============================================================================
