------------------------ MODULE MCInterferenceGraph -------------------------
EXTENDS InterferenceGraph, MCPrograms

\* The functions the graph is built for, and of these the ones PHIPreprocess
\* hands on: the equations rely on no phi being an operand of a phi (the set temp
\* erases a later phi of the block after an earlier one has inserted it).
Shapes ==
  Loops({0, 1}, {1, 2, 4}, {1, 2, 4, 5}, {2, 4, 5}, {1, 2, 4, 5})
  \cup Ifs({0, 1, 2}, {0, 1, 2}, {1, 2, 6}, {1, 2})
  \cup Diamonds({1, 2}, {1, 2, 4})
  \cup Swaps({4, 5, 6}, {4, 5, 6}, {4, 5}, {4, 5, 6, 2})
  \cup Unread({5, 6, 7})
  \cup Nests({5, 6, 1, 3}, {3, 5, 6, 1}, {1, 3, 5, 6})
  \cup Mixed({0, 1, 2}, {2, 3}, {2, 3, 4})

Programs == {p \in Shapes : IncomingInRegisters(p) /\ NoPhiFeedsPhi(p)}

ASSUME ProgramsWellFormed ==
  \A p \in Programs : WellFormed(p) /\ IsFunction(p) /\ PhisReadRegisters(p)

Init == \E p \in Programs : Fresh(p)

Spec == Init /\ [][BuildNext]_igVars /\ WF_igVars(BuildNext)
=============================================================================
