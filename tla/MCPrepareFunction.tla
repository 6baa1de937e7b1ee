-------------------------- MODULE MCPrepareFunction -------------------------
EXTENDS PrepareFunction, MCPrograms

\* Straight-line functions that use two constants twice, of every type, in the
\* entry block and after it, and a literal argument of $decr_sp.
Straight(A, B, D, Cond) ==
  {Function(<<<<1, 2, 3>>, <<4, 5, 6>>, <<7>>>>, <<<<2, 3>>, <<3>>, <<>>>>,
     <<<<"sp", <<-5>>, <<>>>>, Op(<<a, b>>), Term(<<cond>>),
       Op(<<b, d>>), Noreg(<<d, a>>), Term(<<>>), Term(<<b>>)>>, i64s) :
     a \in A, b \in B, d \in D, cond \in Cond}

Programs ==
  Straight({0, -1, -2, -3}, {-1, -4, -5, -6}, {2, -2, -3, -6}, {0, 2, -1})
  \cup Loops({0, -1}, {4, -1}, {1, 2, 4, 5, 0, -1}, {5}, {4})
  \cup Ifs({0}, {0, 1, -1}, {1}, {1})
  \cup Nests({5, 6, 1, 3, -1}, {3, 5, 6, 0}, {6})
  \cup Swaps({4, 5, 6}, {4, 5, 6}, {4, 5}, {4})
  \cup Typed({1, 3, 0}, {2, 0}, {5, 7}, {5, 7}, {6, 8, 2}, TypePairs, {6})
  \cup Typed({1, -1}, {-1}, {5, 7}, {7}, {8}, TypePairs \ {<<"ptr", "i64">>, <<"i64", "ptr">>}, {6})

ASSUME ProgramsArePreparable == \A p \in Programs : Preparable(p)

MCInit == \E p \in Programs : Start(p)
MCSpec == MCInit /\ [][StageNext]_stageVars
=============================================================================
