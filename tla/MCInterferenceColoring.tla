----------------------- MODULE MCInterferenceColoring -----------------------
(***************************************************************************)
(* Every graph on five vertices of one bank; every graph on four vertices  *)
(* with every assignment of banks; and every graph on four vertices with   *)
(* every way of merging some of them.  Graphs range over relabellings, so  *)
(* one numbering of the vertices stands for all.                           *)
(***************************************************************************)
EXTENDS InterferenceColoring

Graphs(D) ==
  {[I \in D |-> {J \in D : {I, J} \in E}] :
     E \in SUBSET {e \in SUBSET D : Cardinality(e) = 2}}

Merges(D) == UNION {[M -> D \ M] : M \in SUBSET D \ {{}}}

Small == 1..4

Banks(S) == {b \in [Inst -> S] : b[5] = "general"}

MCInit ==
  \E g \in Graphs(Inst) \cup Graphs(Small) :
  \E m \in {<<>>} \cup IF DOMAIN g = Small THEN Merges(Small) ELSE {} :
  \E banks \in Banks(IF DOMAIN g = Small /\ m = <<>> THEN {"general", "vector", "none"}
                                                     ELSE {"general"}) :
    StartGraph(g, m, [I \in Inst |-> I], banks)

MCSpec == MCInit /\ [][ColoringNext]_icVars /\ WF_icVars(ColoringNext)

-----------------------------------------------------------------------------

\* std::min_element(first, last, comp) of libstdc++ with the code's lambda:
\*   result = first; while (++first != last) if (comp(first, result)) result = first;
\* where comp compares nothing but looks at its second argument, the current
\* result, and lowers the captured min.  State: <<result, min>>.
INT32_MAX == 2147483647

MinElementLoop(nodes) ==
  LET compare(s, I) ==
        IF s[1] \notin visit /\ s[2] >= C[s[1]]
        THEN <<s[1], C[s[1]]>> ELSE <<I, s[2]>>
  IN  FoldLeft(LAMBDA s, I : compare(s, I), <<Head(nodes), INT32_MAX>>, Tail(nodes))[1]

\* Wherever the algorithm calls std::min_element, the loop above returns what the
\* specification says it does.
MinElementIsTheLoop ==
  phase = "order" /\ Q = <<>> /\ rest = {} /\ ~Ordered =>
    MinElement = MinElementLoop(SetToSortSeq(Vertices, LAMBDA I, J : inst2num[I] < inst2num[J]))
=============================================================================
