-------------------------- MODULE MCAllocatedProgram ------------------------
(***************************************************************************)
(* Functions as PHIPreprocess and ConstantSplit hand them to the register  *)
(* allocator.  One specification per question; the cfg files pick one.     *)
(***************************************************************************)
EXTENDS AllocatedProgram, MCPrograms

Prepare == INSTANCE PhiPreprocess
Split   == INSTANCE ConstantSplit

Prepared(P) == {Split!SplitConstants(Prepare!PHIPreprocess(p)) : p \in P}

StartsIn(P) == \E p \in Prepared(P) : Start(p)

Scalars == TypePairs \ {<<"v4i64", "v8i32">>}

\* Every shape of control flow, with operands chosen so that phi operands interfere
\* with their phis and with each other's.
Various ==
  Loops({0, 1}, {1, 4}, {1, 2, 4, 5}, {5}, {1, 4, 5})
  \cup Ifs({0, 1}, {0, 1}, {1, 6}, {1})
  \cup Diamonds({1, 2}, {1, 2, 4})
  \cup Swaps({4, 5, 6}, {4, 5, 6}, {4, 5}, {4, 5, 6})
  \cup Nests({5, 6, 1, 3}, {3, 5, 6, 1}, {1, 3, 5, 6})
  \cup Typed({1, 3, 0}, {2, 0}, {5, 7}, {5, 7}, {6, 8, 2}, Scalars, {6})
  \cup Typed({1}, {2}, {5}, {7}, {6}, TypePairs \ Scalars, {6})
  \cup Mixed({0, 1, 2}, {2, 3}, {2, 3, 4})
  \cup Branches({0, 1, 2, 3}, {0, 1, 2, 3}, {1, 2, 3}, {0, 1, 2, 3})

\* With three registers these functions have to spill, some of them the phi; with
\* two vector registers also vectors. The last one has stack variables of its own.
Crowded ==
  Pressure({2, 4}, {4}, {1, 3}, {7}, {4})
  \cup Lanes({1, 2, 3}, {3}, {"v4i64", "v8i32"}) \cup Frames({2})

VariousSpec == StartsIn(Various) /\ [][Next]_apVars
CrowdedSpec == StartsIn(Crowded) /\ [][Next]_apVars

\* A function that shows where the allocator falls short of what it promises.
LostCopySpec == StartsIn(Loops({0}, {4}, {5}, {5}, {4})) /\ [][Next]_apVars
=============================================================================
