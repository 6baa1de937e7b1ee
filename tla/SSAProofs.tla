------------------------------ MODULE SSAProofs -----------------------------
(***************************************************************************)
(* What the passes on functions in SSA form rest on: fixed points reached  *)
(* by iteration, the places of instructions, the roots of chains of moves, *)
(* and that a function stays in SSA form when an instruction is inserted   *)
(* that reads what can be read there, or when something that can be read   *)
(* there takes the place of an operand.                                    *)
(***************************************************************************)
EXTENDS SSAProgram, TLAPS, FiniteSetTheorems, SequenceTheorems, WellFoundedInduction

\* A non-empty set of naturals has a least element.
LEMMA LeastNatural ==
  ASSUME NEW S \in SUBSET Nat, S # {}
  PROVE  \E n \in S : \A m \in S : n <= m
<1> DEFINE below == OpToRel(<, Nat)
<1>1. \A m, n \in Nat : m < n => <<m, n>> \in below
  BY DEF OpToRel
<1>2. IsWellFoundedOn(below, Nat)
  BY NatLessThanWellFounded
<1> HIDE DEF below
<1>3. PICK n \in S : \A m \in S : ~ (<<m, n>> \in below)
  BY <1>2, WFMin
<1>4. ASSUME NEW m \in S
      PROVE  n <= m
  <2>1. m \in Nat /\ n \in Nat
    OBVIOUS
  <2>2. ~(m < n)
    BY <1>1, <1>3, <2>1, Zenon
  <2> QED
    BY <2>1, <2>2
<1> QED
  BY <1>4

-----------------------------------------------------------------------------
\* Iteration.

\* f lists what h makes of x, applied up to n times.
Iterates(h, x, n, f) == f = [k \in 0..n |-> IF k = 0 THEN x ELSE h[f[k - 1]]]

\* The iterates of a function on a set exist.
LEMMA IterationExists ==
  ASSUME NEW S, NEW h \in [S -> S], NEW x \in S, NEW n \in Nat
  PROVE  \E f \in [0..n -> S] : Iterates(h, x, n, f)
<1> USE DEF Iterates
<1> DEFINE Listed(m, f) == Iterates(h, x, m, f)
           missing == {m \in Nat : ~ \E f \in [0..m -> S] : Listed(m, f)}
<1>1. SUFFICES missing = {}
  OBVIOUS
<1>2. SUFFICES ASSUME missing # {} PROVE FALSE
  OBVIOUS
<1>3. PICK m \in missing : \A j \in missing : m <= j
  <2>1. missing \in SUBSET Nat
    OBVIOUS
  <2> HIDE DEF missing
  <2> QED
    BY <1>2, <2>1, LeastNatural
<1>4. CASE m = 0
  <2> DEFINE f == [k \in 0..0 |-> x]
  <2>1. f \in [0..0 -> S] /\ Listed(0, f)
    OBVIOUS
  <2> QED
    BY <1>3, <1>4, <2>1
<1>5. CASE m # 0
  <2>1. m - 1 \in Nat /\ m - 1 \notin missing
    BY <1>3, <1>5
  <2>2. PICK f \in [0..(m - 1) -> S] : Listed(m - 1, f)
    BY <2>1
  <2> DEFINE g == [k \in 0..m |-> IF k = m THEN h[f[m - 1]] ELSE f[k]]
  <2>3. g \in [0..m -> S]
    BY <2>1
  <2>4. ASSUME NEW k \in 0..m
        PROVE  g[k] = IF k = 0 THEN x ELSE h[g[k - 1]]
    <3>1. CASE k = m
      BY <1>5, <2>1, <3>1
    <3>2. CASE k # m
      <4>1. k \in 0..(m - 1) /\ (k # 0 => k - 1 \in 0..(m - 1) /\ k - 1 # m)
        BY <2>1, <3>2
      <4>2. f[k] = IF k = 0 THEN x ELSE h[f[k - 1]]
        BY <2>2, <4>1
      <4> QED
        BY <3>2, <4>1, <4>2
    <3> QED
      BY <3>1, <3>2
  <2>5. Listed(m, g)
    <3> HIDE DEF g
    <3> QED
      BY <2>3, <2>4
  <2> QED
    BY <1>3, <2>3, <2>5
<1> QED
  BY <1>4, <1>5

\* The iterates of h on x exist in S, and Iterate returns the last of them.
Computed(S, h, x, n) ==
  \E f \in [0..n -> S] : Iterates(h, x, n, f) /\ Iterate(h, x, n) = f[n]

\* What Iterate returns: the last of the iterates.
LEMMA IterateSteps ==
  ASSUME NEW S, NEW h \in [S -> S], NEW x \in S, NEW n \in Nat
  PROVE  Computed(S, h, x, n)
<1> DEFINE it == CHOOSE f : Iterates(h, x, n, f)
<1>1. PICK f \in [0..n -> S] : Iterates(h, x, n, f)
  BY IterationExists
<1>2. Iterates(h, x, n, it)
  BY <1>1
<1>3. Iterate(h, x, n) = it[n]
  BY DEF Iterate, Iterates
<1> HIDE DEF it
<1>4. ASSUME NEW k \in 0..n
      PROVE  it[k] = f[k]
  <2> DEFINE differ == {j \in 0..n : it[j] # f[j]}
  <2>1. SUFFICES ASSUME differ # {} PROVE FALSE
    BY <1>4
  <2>2. PICK j \in differ : \A i \in differ : j <= i
    <3>1. differ \in SUBSET Nat
      OBVIOUS
    <3> HIDE DEF differ
    <3> QED
      BY <2>1, <3>1, LeastNatural
  <2>3. /\ it[j] = IF j = 0 THEN x ELSE h[it[j - 1]]
        /\ f[j] = IF j = 0 THEN x ELSE h[f[j - 1]]
    BY <1>1, <1>2 DEF Iterates
  <2>4. CASE j = 0
    BY <2>2, <2>3, <2>4
  <2>5. CASE j # 0
    <3>1. j - 1 \in 0..n /\ ~(j <= j - 1)
      BY <2>5
    <3>2. it[j - 1] = f[j - 1]
      BY <2>2, <3>1
    <3> QED
      BY <2>2, <2>3, <2>5, <3>2
  <2> QED
    BY <2>4, <2>5
<1> QED
  BY <1>1, <1>3, <1>4 DEF Computed

\* What holds of the start and is kept by the function holds of the result.
LEMMA IterateWithin ==
  ASSUME NEW P, NEW h \in [SUBSET P -> SUBSET P], NEW R \in SUBSET P, NEW n \in Nat,
         NEW T \in SUBSET P, R \subseteq T, \A X \in SUBSET T : h[X] \subseteq T
  PROVE  Iterate(h, R, n) \subseteq T
<1>1. PICK f \in [0..n -> SUBSET P] :
        /\ f[0] = R /\ \A k \in 1..n : f[k] = h[f[k - 1]]
        /\ Iterate(h, R, n) = f[n]
  <2> DEFINE S == SUBSET P
  <2>1. h \in [S -> S] /\ R \in S
    OBVIOUS
  <2> HIDE DEF S
  <2>2. Computed(S, h, R, n)
    BY <2>1, IterateSteps
  <2>3. PICK f \in [0..n -> S] : Iterates(h, R, n, f) /\ Iterate(h, R, n) = f[n]
    BY <2>2 DEF Computed
  <2> QED
    BY <2>3 DEF S, Iterates
<1> DEFINE outside == {k \in 0..n : ~(f[k] \subseteq T)}
<1>2. ASSUME outside # {} PROVE FALSE
  <2>1. PICK k \in outside : \A j \in outside : k <= j
    <3>1. outside \in SUBSET Nat
      OBVIOUS
    <3> HIDE DEF outside
    <3> QED
      BY <1>2, <3>1, LeastNatural
  <2>2. k # 0
    BY <1>1, <2>1
  <2>3. k - 1 \in 0..n /\ k - 1 \notin outside
    BY <2>1, <2>2
  <2>4. f[k - 1] \in SUBSET T
    BY <2>3
  <2>5. f[k] = h[f[k - 1]] /\ k \in 1..n
    BY <1>1, <2>1, <2>2
  <2> QED
    BY <2>1, <2>4, <2>5
<1> QED
  BY <1>1, <1>2

\* On subsets of a finite set, a function that only adds is iterated to a fixed point.
LEMMA IterateClosed ==
  ASSUME NEW P, IsFiniteSet(P), NEW h \in [SUBSET P -> SUBSET P],
         \A X \in SUBSET P : X \subseteq h[X], NEW R \in SUBSET P
  PROVE  /\ Iterate(h, R, Cardinality(P)) \in SUBSET P
         /\ R \subseteq Iterate(h, R, Cardinality(P))
         /\ h[Iterate(h, R, Cardinality(P))] = Iterate(h, R, Cardinality(P))
<1> DEFINE n == Cardinality(P)
<1>n. n \in Nat
  BY FS_CardinalityType
<1> HIDE DEF n
<1>1. PICK f \in [0..n -> SUBSET P] :
        /\ f[0] = R /\ \A k \in 1..n : f[k] = h[f[k - 1]]
        /\ Iterate(h, R, n) = f[n]
  <2> DEFINE S == SUBSET P
  <2>1. h \in [S -> S] /\ R \in S
    OBVIOUS
  <2> HIDE DEF S
  <2>2. Computed(S, h, R, n)
    BY <1>n, <2>1, IterateSteps
  <2>3. PICK f \in [0..n -> S] : Iterates(h, R, n, f) /\ Iterate(h, R, n) = f[n]
    BY <2>2 DEF Computed
  <2> QED
    BY <1>n, <2>3 DEF S, Iterates
<1>2. \A k \in 1..n : f[k - 1] \subseteq f[k]
  <2> TAKE k \in 1..n
  <2>1. k - 1 \in 0..n
    BY <1>n
  <2> QED
    BY <1>1, <2>1
<1>3. R \subseteq f[n]
  <2> DEFINE without == {k \in 0..n : ~(R \subseteq f[k])}
  <2>1. SUFFICES ASSUME without # {} PROVE FALSE
    BY <1>n
  <2>2. PICK k \in without : \A j \in without : k <= j
    <3>1. without \in SUBSET Nat
      OBVIOUS
    <3> HIDE DEF without
    <3> QED
      BY <2>1, <3>1, LeastNatural
  <2>3. k # 0
    BY <1>1, <2>2
  <2>4. k - 1 \in 0..n /\ k - 1 \notin without /\ k \in 1..n
    BY <1>n, <2>2, <2>3
  <2> QED
    BY <1>2, <2>2, <2>4
<1>4. ASSUME h[f[n]] # f[n] PROVE FALSE
  <2> DEFINE fixed == {k \in 0..n : h[f[k]] = f[k]}
             small == {k \in 0..n : Cardinality(f[k]) < k}
  <2>1. ASSUME NEW k \in 1..n, k - 1 \in fixed PROVE k \in fixed
    BY <1>1, <2>1
  <2>2. fixed = {}
    <3>1. SUFFICES ASSUME fixed # {} PROVE FALSE
      OBVIOUS
    <3> DEFINE back == {j \in 0..n : n - j \in fixed}
    <3>2. back # {}
      <4>1. PICK k \in fixed : TRUE
        BY <3>1
      <4>2. n - k \in 0..n /\ n - (n - k) = k
        BY <1>n, <4>1
      <4> HIDE DEF fixed
      <4> QED
        BY <4>2
    <3>3. PICK j \in back : \A i \in back : j <= i
      <4>1. back \in SUBSET Nat
        OBVIOUS
      <4> HIDE DEF back
      <4> QED
        BY <3>2, <4>1, LeastNatural
    <3>4. CASE j = 0
      BY <1>4, <1>n, <3>3, <3>4
    <3>5. CASE j # 0
      <4>1. j - 1 \in 0..n /\ j - 1 \notin back
        BY <1>n, <3>3, <3>5
      <4>2. n - (j - 1) \in 1..n /\ (n - (j - 1)) - 1 = n - j
        BY <1>n, <3>3, <3>5
      <4>3. n - j \in fixed /\ n - (j - 1) \notin fixed
        BY <3>3, <4>1
      <4> HIDE DEF fixed
      <4> QED
        BY <2>1, <4>2, <4>3
    <3> QED
      BY <3>4, <3>5
  <2>3. \A k \in 0..n : IsFiniteSet(f[k]) /\ Cardinality(f[k]) \in Nat
    BY FS_Subset, FS_CardinalityType
  <2>4. small = {}
    <3>1. SUFFICES ASSUME small # {} PROVE FALSE
      OBVIOUS
    <3>2. PICK k \in small : \A j \in small : k <= j
      <4>1. small \in SUBSET Nat
        OBVIOUS
      <4> HIDE DEF small
      <4> QED
        BY <3>1, <4>1, LeastNatural
    <3>3. k # 0
      BY <2>3, <3>2
    <3>4. k - 1 \in 0..n /\ k \in 1..n /\ k - 1 \notin small
      BY <1>n, <3>2, <3>3
    <3>5. Cardinality(f[k - 1]) >= k - 1
      BY <2>3, <3>4
    <3>6. f[k - 1] \subseteq f[k] /\ f[k - 1] # f[k]
      BY <1>1, <1>2, <2>2, <3>4
    <3>7. Cardinality(f[k - 1]) <= Cardinality(f[k])
          /\ Cardinality(f[k - 1]) # Cardinality(f[k])
      BY <2>3, <3>4, <3>6, FS_Subset
    <3> QED
      BY <2>3, <3>2, <3>4, <3>5, <3>7
  <2>5. Cardinality(f[n]) >= n
    BY <1>n, <2>3, <2>4
  <2>6. f[n] = P
    <3>1. f[n] \in SUBSET P /\ Cardinality(f[n]) <= Cardinality(P)
      BY <1>n, FS_Subset
    <3>2. Cardinality(f[n]) = Cardinality(P)
      BY <1>n, <2>3, <2>5, <3>1 DEF n
    <3> QED
      BY <3>1, <3>2, FS_Subset
  <2>7. h[P] \in SUBSET P /\ P \subseteq h[P]
    OBVIOUS
  <2> QED
    BY <1>4, <2>6, <2>7
<1>5. f[n] \in SUBSET P
  BY <1>n
<1> QED
  BY <1>1, <1>3, <1>4, <1>5 DEF n

-----------------------------------------------------------------------------
\* Functions.

\* Every instruction has one place, the place BlockOf and IndexOf find.
LEMMA Places ==
  ASSUME NEW p, IsFunction(p), NEW I \in Insts(p)
  PROVE  /\ BlockOf(p, I) \in Blocks(p)
         /\ IndexOf(p, I) \in 1..Len(p.body[BlockOf(p, I)])
         /\ p.body[BlockOf(p, I)][IndexOf(p, I)] = I
         /\ \A b \in Blocks(p) : \A k \in 1..Len(p.body[b]) :
              p.body[b][k] = I => b = BlockOf(p, I) /\ k = IndexOf(p, I)
<1>1. \A b \in Blocks(p) : p.body[b] \in Seq(Insts(p)) /\ DOMAIN p.body[b] = 1..Len(p.body[b])
  <2> SUFFICES ASSUME NEW b \in Blocks(p)
               PROVE  p.body[b] \in Seq(Insts(p))
    BY LenProperties
  <2> QED
    BY DEF IsFunction, Blocks
<1>2. \A b, c \in Blocks(p) : \A j \in DOMAIN p.body[b], k \in DOMAIN p.body[c] :
        p.body[b][j] = p.body[c][k] => b = c /\ j = k
  BY DEF IsFunction
<1>3. PICK b \in Blocks(p) : \E k \in DOMAIN p.body[b] : p.body[b][k] = I
  BY DEF IsFunction
<1>4. \A c \in Blocks(p) : Contains(p.body[c], I) <=> c = b
  BY <1>1, <1>2, <1>3 DEF Contains
<1>5. BlockOf(p, I) = b
  BY <1>3, <1>4 DEF BlockOf
<1>6. PICK k \in DOMAIN p.body[b] : p.body[b][k] = I
  BY <1>3
<1>7. \A j \in DOMAIN p.body[b] : p.body[b][j] = I <=> j = k
  BY <1>2, <1>6
<1>8. IndexOf(p, I) = k
  BY <1>5, <1>6, <1>7 DEF IndexOf
<1> QED
  BY <1>1, <1>2, <1>5, <1>6, <1>8

\* The instructions of a block.
LEMMA CodeOf ==
  ASSUME NEW p, IsFunction(p), NEW b \in Blocks(p)
  PROVE  /\ p.body[b] \in Seq(Insts(p)) /\ DOMAIN p.body[b] = 1..Len(p.body[b])
         /\ Len(p.body[b]) \in Nat \ {0} /\ ~IsPhi(p, getTerminator(p, b))
         /\ \A k \in 1..Len(p.body[b]) :
              /\ p.body[b][k] \in Insts(p)
              /\ BlockOf(p, p.body[b][k]) = b /\ IndexOf(p, p.body[b][k]) = k
              /\ IsPhi(p, p.body[b][k]) => \A j \in 1..k : IsPhi(p, p.body[b][j])
<1>1. /\ p.body[b] \in Seq(Insts(p)) /\ p.body[b] # <<>> /\ ~IsPhi(p, getTerminator(p, b))
      /\ \A k \in DOMAIN p.body[b] : IsPhi(p, p.body[b][k]) =>
           \A j \in 1..k : IsPhi(p, p.body[b][j])
  BY DEF IsFunction, Blocks
<1>2. Len(p.body[b]) \in Nat \ {0} /\ DOMAIN p.body[b] = 1..Len(p.body[b])
  BY <1>1, EmptySeq, LenProperties
<1>3. \A k \in 1..Len(p.body[b]) : p.body[b][k] \in Insts(p)
  BY <1>1, ElementOfSeq
<1>4. \A k \in 1..Len(p.body[b]) :
        BlockOf(p, p.body[b][k]) = b /\ IndexOf(p, p.body[b][k]) = k
  BY <1>3, Places
<1> QED
  BY <1>1, <1>2, <1>3, <1>4

\* The phis of a block.
LEMMA PhisAreInsts ==
  ASSUME NEW p, IsFunction(p), NEW s \in Blocks(p), NEW phi \in Phis(p, s)
  PROVE  phi \in Insts(p) /\ IsPhi(p, phi)
<1>1. p.body[s] \in Seq(Insts(p))
  BY DEF IsFunction, Blocks
<1> QED
  BY <1>1, RangeOfSeq DEF Phis

\* The edges of a control-flow graph lead from blocks to blocks.
IsFlow(succ) ==
  IsFiniteSet(DOMAIN succ) /\ \A b \in DOMAIN succ : Range(succ[b]) \subseteq DOMAIN succ

\* What is reached from R is the least set that holds R and that no edge leaves.
LEMMA ReachedIsLeast ==
  ASSUME NEW succ, IsFlow(succ), NEW R \in SUBSET DOMAIN succ
  PROVE  /\ R \subseteq Reached(succ, R) /\ Reached(succ, R) \subseteq DOMAIN succ
         /\ \A b \in Reached(succ, R) : Range(succ[b]) \subseteq Reached(succ, R)
         /\ \A S \in SUBSET DOMAIN succ :
              R \subseteq S /\ (\A b \in S : Range(succ[b]) \subseteq S) =>
                Reached(succ, R) \subseteq S
<1> DEFINE B == DOMAIN succ
           ahead == Forward(succ)
<1>1. IsFiniteSet(B) /\ Cardinality(B) \in Nat
  BY FS_CardinalityType DEF IsFlow
<1>2. /\ ahead \in [SUBSET B -> SUBSET B] /\ \A X \in SUBSET B : X \subseteq ahead[X]
      /\ \A X \in SUBSET B : ahead[X] = X \cup UNION {Range(succ[b]) : b \in X}
  BY DEF IsFlow, Forward
<1> HIDE DEF B, ahead
<1> DEFINE L == Iterate(ahead, R, Cardinality(B))
<1>3. R \in SUBSET B
  BY DEF B
<1>4. L \in SUBSET B /\ R \subseteq L /\ ahead[L] = L
  BY <1>1, <1>2, <1>3, IterateClosed, Zenon
<1>5. ASSUME NEW S \in SUBSET B, R \subseteq S, \A b \in S : Range(succ[b]) \subseteq S
      PROVE  L \subseteq S
  <2>1. ASSUME NEW X \in SUBSET S PROVE ahead[X] \subseteq S
    BY <1>2, <1>5
  <2>2. /\ ahead \in [SUBSET B -> SUBSET B] /\ R \subseteq S
        /\ \A X \in SUBSET S : ahead[X] \subseteq S
    BY <1>2, <1>5, <2>1
  <2> QED
    BY <1>1, <1>3, <2>2, IterateWithin, ZenonT(60)
<1>6. \A b \in L : Range(succ[b]) \subseteq L
  BY <1>2, <1>4
<1>7. L = Reached(succ, R)
  BY DEF Reached, B, ahead
<1> HIDE DEF L
<1> QED
  BY <1>4, <1>5, <1>6, <1>7 DEF B

\* The blocks of a function.
LEMMA BlocksFlow ==
  ASSUME NEW p, IsFunction(p)
  PROVE  /\ Blocks(p) = 1..Len(p.body) /\ Len(p.body) \in Nat /\ 1 \in Blocks(p)
         /\ IsFlow(p.succ) /\ DOMAIN p.succ = Blocks(p)
         /\ \A b \in Blocks(p) : /\ p.succ[b] \in Seq(Blocks(p))
                                /\ Range(p.succ[b]) \subseteq Blocks(p)
<1>1. /\ p.body \in Seq(Seq(Insts(p))) /\ p.body # <<>>
      /\ p.succ \in [Blocks(p) -> Seq(Blocks(p))]
  BY DEF IsFunction
<1>2. Blocks(p) = 1..Len(p.body) /\ Len(p.body) \in Nat \ {0}
  BY <1>1, LenProperties, EmptySeq DEF Blocks
<1>3. IsFiniteSet(1..Len(p.body)) /\ 1 \in 1..Len(p.body)
  BY <1>2, FS_Interval
<1>4. \A b \in Blocks(p) : p.succ[b] \in Seq(Blocks(p)) /\ Range(p.succ[b]) \subseteq Blocks(p)
  BY <1>1, RangeOfSeq
<1> QED
  BY <1>1, <1>2, <1>3, <1>4 DEF IsFlow

\* The reachable blocks are within every set of blocks that holds the entry and that no
\* edge leaves.
LEMMA ReachableWithin ==
  ASSUME NEW p, IsFunction(p), NEW S \in SUBSET Blocks(p), 1 \in S,
         \A b \in S : Range(p.succ[b]) \subseteq S, NEW b \in Blocks(p),
         isPotentiallyReachable(p, b)
  PROVE  b \in S
<1>1. {1} \in SUBSET DOMAIN p.succ /\ S \in SUBSET DOMAIN p.succ /\ IsFlow(p.succ)
  BY BlocksFlow
<1>2. Reached(p.succ, {1}) \subseteq S
  BY <1>1, ReachedIsLeast
<1> QED
  BY <1>2 DEF isPotentiallyReachable, ReachableFrom

-----------------------------------------------------------------------------
\* Moves and their roots.

\* What a chain of moves begins with: the induction along chains of moves.
LEMMA MovesReachAll ==
  ASSUME NEW p, IsFunction(p), MovesEnd(p), NEW T \in SUBSET Insts(p),
         \A I \in Insts(p) : ~isMoveInst(p, I) => I \in T,
         \A I \in Insts(p) : isMoveInst(p, I) /\ p.args[I][1] \notin Insts(p) \ T => I \in T
  PROVE  T = Insts(p)
<1> DEFINE P == Insts(p)
           R == {I \in Insts(p) : ~isMoveInst(p, I)}
           h == CopiesOf(p)
           n == Cardinality(Insts(p))
<1>1. n \in Nat
  BY FS_CardinalityType DEF IsFunction
<1>2. h \in [SUBSET P -> SUBSET P] /\ R \in SUBSET P /\ T \in SUBSET P /\ R \subseteq T
  BY DEF CopiesOf
<1>3. \A X \in SUBSET T : h[X] \subseteq T
  BY DEF CopiesOf
<1>4. Iterate(h, R, n) = P
  <2>1. MovesEnd(p) => Iterate(CopiesOf(p), {I \in Insts(p) : ~isMoveInst(p, I)}, n) = Insts(p)
    BY DEF MovesEnd
  <2> QED
    BY <2>1
<1> HIDE DEF P, R, h, n
<1>5. Iterate(h, R, n) \subseteq T
  BY <1>1, <1>2, <1>3, IterateWithin
<1>6. P = T
  BY ONLY <1>2, <1>4, <1>5
<1> QED
  BY <1>6 DEF P

\* The function that Root's definition recurs on.
LEMMA RootsExist ==
  ASSUME NEW p, IsFunction(p), MovesEnd(p)
  PROVE  \E root : root = [w \in Int |-> IF isMoveInst(p, w) THEN root[p.args[w][1]] ELSE w]
<1> DEFINE P == Insts(p)
           R == {I \in Insts(p) : ~isMoveInst(p, I)}
           h == CopiesOf(p)
           n == Cardinality(Insts(p))
           Copied1(w) == p.args[w][1]
           Good(X, F) ==
             /\ F \in [P -> Int]
             /\ \A w \in X : isMoveInst(p, w) => Copied1(w) \notin P \ X
             /\ \A w \in X : F[w] = IF isMoveInst(p, w)
                                    THEN IF Copied1(w) \in P THEN F[Copied1(w)] ELSE Copied1(w)
                                    ELSE w
<1>1. n \in Nat /\ \A w \in P : w \in Int
  BY FS_CardinalityType DEF IsFunction
<1>2. \A w \in P : isMoveInst(p, w) => Copied1(w) \in Int
  BY DEF MovesEnd
<1>3. h \in [SUBSET P -> SUBSET P] /\ R \in SUBSET P
  BY DEF CopiesOf
<1>4. \A X \in SUBSET P : h[X] = X \cup {w \in P : isMoveInst(p, w) /\ Copied1(w) \notin P \ X}
  BY DEF CopiesOf
<1>5. Iterate(h, R, n) = P
  BY DEF MovesEnd
<1>6. \A w \in P : w \in R <=> ~isMoveInst(p, w)
  OBVIOUS
<1> HIDE DEF R, h, n
<1>7. PICK f \in [0..n -> SUBSET P] :
        /\ f[0] = R /\ \A k \in 1..n : f[k] = h[f[k - 1]]
        /\ f[n] = P
  <2> DEFINE S == SUBSET P
  <2>1. h \in [S -> S] /\ R \in S
    BY <1>3
  <2> HIDE DEF S
  <2>2. Computed(S, h, R, n)
    BY <1>1, <2>1, IterateSteps
  <2>3. PICK f \in [0..n -> S] : Iterates(h, R, n, f) /\ Iterate(h, R, n) = f[n]
    BY <2>2 DEF Computed
  <2> QED
    BY <1>1, <1>5, <2>3 DEF S, Iterates
<1>8. \E F : Good(P, F)
  <2> DEFINE bad == {k \in 0..n : ~ \E F : Good(f[k], F)}
  <2>1. SUFFICES ASSUME bad # {} PROVE FALSE
    <3>1. n \in 0..n
      BY <1>1
    <3> QED
      BY <1>7, <2>1, <3>1
  <2>2. PICK k \in bad : \A j \in bad : k <= j
    <3>1. bad \in SUBSET Nat
      OBVIOUS
    <3> HIDE DEF bad
    <3> QED
      BY <2>1, <3>1, LeastNatural
  <2>3. CASE k = 0
    <3> DEFINE F == [w \in P |-> w]
    <3>1. Good(R, F)
      BY <1>1, <1>3, <1>6
    <3> HIDE DEF F, Good
    <3> QED
      BY <1>7, <2>2, <2>3, <3>1
  <2>4. CASE k # 0
    <3>1. k \in 1..n /\ k - 1 \in 0..n /\ k - 1 \notin bad
      <4>1. k \in 0..n
        OBVIOUS
      <4>2. k \in 1..n /\ k - 1 \in 0..n /\ ~(k <= k - 1)
        BY <1>1, <2>4, <4>1
      <4> HIDE DEF bad
      <4> QED
        BY <2>2, <4>2
    <3>2. PICK F : Good(f[k - 1], F)
      BY <3>1
    <3> DEFINE X == f[k - 1]
               G == [w \in P |-> IF w \in X THEN F[w]
                                 ELSE IF isMoveInst(p, w)
                                 THEN IF Copied1(w) \in P THEN F[Copied1(w)] ELSE Copied1(w)
                                 ELSE w]
    <3>3. X \in SUBSET P
      BY <1>7, <3>1
    <3>4. f[k] = X \cup {w \in P : isMoveInst(p, w) /\ Copied1(w) \notin P \ X}
      BY <1>4, <1>7, <3>1, <3>3
    <3>5. Good(X, F)
      BY <3>2
    <3> HIDE DEF X
    <3>6. G \in [P -> Int]
      BY <1>1, <1>2, <3>5
    <3>7. \A w \in X : G[w] = F[w]
      BY <3>3
    <3>8. ASSUME NEW w \in f[k]
          PROVE  /\ isMoveInst(p, w) => Copied1(w) \notin P \ f[k] /\ Copied1(w) \notin P \ X
                 /\ G[w] = IF isMoveInst(p, w)
                           THEN IF Copied1(w) \in P THEN G[Copied1(w)] ELSE Copied1(w)
                           ELSE w
      <4>1. isMoveInst(p, w) => Copied1(w) \notin P \ X
        BY <3>4, <3>5
      <4>2. isMoveInst(p, w) => Copied1(w) \notin P \ f[k]
        BY <3>4, <4>1
      <4>3. F[w] = G[w] \/ w \notin X
        BY <3>7
      <4>4. w \in P
        BY <3>3, <3>4
      <4>5. CASE w \in X
        BY <3>5, <3>7, <4>1, <4>2, <4>5
      <4>6. CASE w \notin X
        BY <3>4, <3>7, <4>1, <4>2, <4>4, <4>6
      <4> QED
        BY <4>5, <4>6
    <3>9. Good(f[k], G)
      <4> HIDE DEF G
      <4> QED
        BY <3>6, <3>8
    <3> HIDE DEF Good, G
    <3> QED
      BY <2>2, <3>9
  <2> QED
    BY <2>3, <2>4
<1>9. PICK F : Good(P, F)
  BY <1>8
<1> DEFINE root == [w \in Int |-> IF w \in P THEN F[w] ELSE w]
<1>10. \A w \in Int : root[w] = IF isMoveInst(p, w) THEN root[Copied1(w)] ELSE w
  BY <1>1, <1>2, <1>9 DEF isMoveInst
<1>11. root = [w \in Int |-> IF isMoveInst(p, w) THEN root[Copied1(w)] ELSE w]
  <2>1. root = [w \in Int |-> root[w]]
    OBVIOUS
  <2> HIDE DEF root
  <2> QED
    BY <1>10, <2>1
<1> QED
  BY <1>11

\* The loop that follows a chain of moves: what it does, and that it ends with no move.
LEMMA RootSteps ==
  ASSUME NEW p, IsFunction(p), MovesEnd(p)
  PROVE  \A v \in Int : Root(p, v) = IF isMoveInst(p, v) THEN Root(p, p.args[v][1]) ELSE v
<1> DEFINE Loop(f) == f = [w \in Int |-> IF isMoveInst(p, w) THEN f[p.args[w][1]] ELSE w]
           root == CHOOSE f : Loop(f)
<1>1. Loop(root)
  BY RootsExist
<1>2. \A v : Root(p, v) = root[v]
  BY DEF Root
<1> HIDE DEF root
<1>3. \A v \in Int : root[v] = IF isMoveInst(p, v) THEN root[p.args[v][1]] ELSE v
  BY <1>1
<1> QED
  BY <1>2, <1>3

\* The root of a value is no move, and its own root.
LEMMA Roots ==
  ASSUME NEW p, IsFunction(p), MovesEnd(p), NEW v \in Int
  PROVE  Root(p, v) \in Int /\ ~isMoveInst(p, Root(p, v)) /\ Root(p, Root(p, v)) = Root(p, v)
<1> DEFINE T == {I \in Insts(p) : Root(p, I) \in Int /\ ~isMoveInst(p, Root(p, I))}
<1>1. \A w \in Int : Root(p, w) = IF isMoveInst(p, w) THEN Root(p, p.args[w][1]) ELSE w
  BY RootSteps
<1>2. \A I \in Insts(p) : I \in Int
  BY DEF IsFunction
<1>3. \A I \in Insts(p) : isMoveInst(p, I) => p.args[I][1] \in Int
  BY DEF MovesEnd
<1>4. \A I \in Insts(p) : ~isMoveInst(p, I) => I \in T
  BY <1>1, <1>2
<1>5. \A w \in Int : w \notin Insts(p) => ~isMoveInst(p, w)
  BY DEF isMoveInst
<1>6. ASSUME NEW I \in Insts(p), isMoveInst(p, I), p.args[I][1] \notin Insts(p) \ T PROVE I \in T
  <2>1. Root(p, I) = Root(p, p.args[I][1]) /\ p.args[I][1] \in Int
    BY <1>1, <1>2, <1>3, <1>6
  <2>2. CASE p.args[I][1] \in T
    BY <2>1, <2>2
  <2>3. CASE p.args[I][1] \notin Insts(p)
    BY <1>1, <1>5, <2>1, <2>3
  <2> QED
    BY <1>6, <2>2, <2>3
<1>7. T = Insts(p)
  <2>1. T \in SUBSET Insts(p)
    OBVIOUS
  <2> HIDE DEF T
  <2> QED
    BY <1>4, <1>6, <2>1, MovesReachAll
<1>8. Root(p, v) \in Int /\ ~isMoveInst(p, Root(p, v))
  BY <1>1, <1>5, <1>7
<1> QED
  BY <1>1, <1>8

\* A finite set of naturals that is not empty has a greatest element, which Max finds.
LEMMA GreatestNatural ==
  ASSUME NEW S \in SUBSET Nat, S # {}, IsFiniteSet(S)
  PROVE  Max(S) \in S /\ \A n \in S : n <= Max(S)
<1> DEFINE Bounded(T) == \E m \in T : \A n \in T : m >= n
           bad == {c \in Nat : \E T \in SUBSET Nat :
                     T # {} /\ IsFiniteSet(T) /\ Cardinality(T) = c /\ ~Bounded(T)}
<1>1. ASSUME bad # {} PROVE FALSE
  <2>1. PICK c \in bad : \A d \in bad : c <= d
    <3>1. bad \in SUBSET Nat
      OBVIOUS
    <3> HIDE DEF bad
    <3> QED
      BY <1>1, <3>1, LeastNatural
  <2>2. PICK T \in SUBSET Nat : T # {} /\ IsFiniteSet(T) /\ Cardinality(T) = c /\ ~Bounded(T)
    BY <2>1
  <2>3. PICK x \in T : TRUE
    BY <2>2
  <2>4. /\ IsFiniteSet(T \ {x}) /\ Cardinality(T \ {x}) = c - 1
        /\ c \in Nat /\ c - 1 \in Nat
    <3>1. IsFiniteSet(T \ {x}) /\ Cardinality(T \ {x}) = Cardinality(T) - 1
      BY <2>2, <2>3, FS_RemoveElement
    <3>2. Cardinality(T) \in Nat /\ Cardinality(T \ {x}) \in Nat
      BY <2>2, <3>1, FS_CardinalityType
    <3> QED
      BY <2>2, <3>1, <3>2
  <2>5. c - 1 \notin bad
    <3> HIDE DEF bad
    <3> QED
      BY <2>1, <2>4
  <2>6. T \ {x} = {} \/ Bounded(T \ {x})
    BY <2>4, <2>5
  <2>7. CASE T \ {x} = {}
    <3>1. \A n \in T : x >= n
      BY <2>3, <2>7
    <3> QED
      BY <2>2, <2>3, <3>1
  <2>8. CASE Bounded(T \ {x})
    <3>1. PICK m \in T \ {x} : \A n \in T \ {x} : m >= n
      BY <2>8
    <3>2. CASE m >= x
      <4>1. \A n \in T : m >= n
        BY <3>1, <3>2
      <4> QED
        BY <2>2, <3>1, <4>1
    <3>3. CASE ~(m >= x)
      <4>1. \A n \in T : x >= n
        BY <3>1, <3>3
      <4> QED
        BY <2>2, <2>3, <4>1
    <3> QED
      BY <3>2, <3>3
  <2> QED
    BY <2>6, <2>7, <2>8
<1>2. Cardinality(S) \in Nat
  BY FS_CardinalityType
<1>3. Bounded(S)
  BY <1>1, <1>2
<1>4. Max(S) \in S /\ \A n \in S : Max(S) >= n
  BY <1>3 DEF Max
<1> QED
  BY <1>4

\* A fresh instruction is none of those there are.
LEMMA FreshIsNew ==
  ASSUME NEW p, IsFunction(p)
  PROVE  /\ FreshInst(p) \in Nat /\ IsInst(FreshInst(p)) /\ FreshInst(p) \notin Insts(p)
         /\ Newest(p) \in Insts(p)
<1>1. Insts(p) \in SUBSET Nat /\ IsFiniteSet(Insts(p)) /\ \A I \in Insts(p) : I > 0
  BY DEF IsFunction, IsInst
<1>2. Insts(p) # {}
  <2>1. 1 \in Blocks(p)
    BY EmptySeq, LenProperties DEF IsFunction, Blocks
  <2> QED
    BY <2>1, CodeOf
<1>3. Max(Insts(p)) \in Insts(p) /\ \A n \in Insts(p) : n <= Max(Insts(p))
  BY <1>1, <1>2, GreatestNatural
<1>4. FreshInst(p) = Max(Insts(p)) + 1 /\ Newest(p) = Max(Insts(p))
  BY DEF FreshInst, Newest
<1> QED
  BY <1>1, <1>3, <1>4 DEF IsInst

\* What InsertAt makes of a sequence.
LEMMA InsertedAt ==
  ASSUME NEW T, NEW s \in Seq(T), NEW n \in 1..Len(s), NEW x \in T
  PROVE  /\ InsertAt(s, n, x) \in Seq(T) /\ Len(InsertAt(s, n, x)) = Len(s) + 1
         /\ \A k \in 1..(Len(s) + 1) : InsertAt(s, n, x)[k] =
              IF k < n THEN s[k] ELSE IF k = n THEN x ELSE s[k - 1]
<1> DEFINE a == SubSeq(s, 1, n - 1)
           c == SubSeq(s, n, Len(s))
<1>1. Len(s) \in Nat /\ n \in Nat /\ \A i \in 1..Len(s) : s[i] \in T
  BY LenProperties, ElementOfSeq
<1>2. a \in Seq(T) /\ Len(a) = n - 1 /\ \A i \in 1..(n - 1) : a[i] = s[i]
  <2>1. \A i \in 1..(n - 1) : s[i] \in T
    BY <1>1
  <2>2. n - 1 \in Int /\ 1 \in Int
    BY <1>1
  <2> QED
    BY <1>1, <2>1, <2>2, SubSeqProperties
<1>3. c \in Seq(T) /\ Len(c) = Len(s) - n + 1 /\ \A i \in 1..(Len(s) - n + 1) : c[i] = s[n + i - 1]
  <2>1. \A i \in n..Len(s) : s[i] \in T
    BY <1>1
  <2> QED
    BY <1>1, <2>1, SubSeqProperties
<1>4. <<x>> \in Seq(T) /\ Len(<<x>>) = 1 /\ <<x>>[1] = x
  OBVIOUS
<1> HIDE DEF a, c
<1>5. /\ a \o <<x>> \in Seq(T) /\ Len(a \o <<x>>) = n
      /\ \A i \in 1..n : (a \o <<x>>)[i] = IF i <= n - 1 THEN a[i] ELSE <<x>>[i - (n - 1)]
  BY <1>1, <1>2, <1>4, ConcatProperties
<1> DEFINE d == a \o <<x>>
<1>6. d \in Seq(T) /\ Len(d) = n /\ \A i \in 1..n : d[i] = IF i <= n - 1 THEN a[i] ELSE x
  <2>1. \A i \in 1..n : i <= n - 1 \/ i - (n - 1) = 1
    BY <1>1
  <2> QED
    BY <1>4, <1>5, <2>1
<1> HIDE DEF d
<1> DEFINE e == d \o c
<1>9. /\ e \in Seq(T) /\ Len(e) = Len(d) + Len(c)
      /\ \A i \in 1..(Len(d) + Len(c)) : e[i] = IF i <= Len(d) THEN d[i] ELSE c[i - Len(d)]
  BY <1>3, <1>6, ConcatProperties
<1> HIDE DEF e
<1>10. Len(d) + Len(c) = Len(s) + 1
  BY <1>1, <1>3, <1>6
<1>7. InsertAt(s, n, x) = e
  BY DEF InsertAt, a, c, d, e
<1>8. ASSUME NEW k \in 1..(Len(s) + 1)
      PROVE  e[k] = IF k < n THEN s[k] ELSE IF k = n THEN x ELSE s[k - 1]
  <2>1. e[k] = IF k <= n THEN d[k] ELSE c[k - n]
    BY <1>6, <1>9, <1>10
  <2>2. CASE k <= n
    <3>1. k \in 1..n
      BY <1>1, <2>2
    <3>2. k # n => k < n /\ k \in 1..(n - 1)
      BY <1>1, <3>1
    <3> QED
      BY <1>2, <1>6, <2>1, <2>2, <3>1, <3>2
  <2>3. CASE k > n
    <3>1. k - n \in 1..(Len(s) - n + 1) /\ n + (k - n) - 1 = k - 1 /\ ~(k <= n)
      BY <1>1, <2>3
    <3> QED
      BY <1>1, <1>3, <2>1, <2>3, <3>1
  <2> QED
    BY <1>1, <2>2, <2>3
<1> QED
  BY <1>7, <1>8, <1>9, <1>10

-----------------------------------------------------------------------------
\* Inserting an instruction.

\* q is p with a fresh instruction J in front of t.
InsertedInto(p, q, t, J) ==
  /\ J = FreshInst(p)
  /\ DOMAIN q = DOMAIN p /\ q.succ = p.succ
  /\ q.body = [p.body EXCEPT ![BlockOf(p, t)] = InsertAt(@, IndexOf(p, t), J)]
  /\ Insts(q) = Insts(p) \cup {J}
  /\ DOMAIN q.args = Insts(q) /\ DOMAIN q.type = Insts(q) /\ DOMAIN q.from = Insts(q)
  /\ \A I \in Insts(p) : /\ q.kind[I] = p.kind[I] /\ q.args[I] = p.args[I]
                         /\ q.type[I] = p.type[I] /\ q.from[I] = p.from[I]

\* InsertBefore does that.
LEMMA InsertBeforeInserts ==
  ASSUME NEW p, IsFunction(p), HasFields(p), NEW t, NEW J, J = FreshInst(p),
         NEW kind, NEW args, NEW type
  PROVE  LET q == InsertBefore(p, t, J, kind, args, type) IN
         /\ InsertedInto(p, q, t, J)
         /\ q.kind[J] = kind /\ q.args[J] = args /\ q.type[J] = type
         /\ \A f \in DOMAIN p \ {"body", "kind", "args", "type", "from"} : q[f] = p[f]
<1> DEFINE q == InsertBefore(p, t, J, kind, args, type)
<1>1. J \notin Insts(p)
  BY FreshIsNew
<1>2. /\ DOMAIN q = DOMAIN p
      /\ q.body = [p.body EXCEPT ![BlockOf(p, t)] = InsertAt(@, IndexOf(p, t), J)]
      /\ q.kind = Extended(p.kind, J, kind) /\ q.args = Extended(p.args, J, args)
      /\ q.type = Extended(p.type, J, type) /\ q.from = Extended(p.from, J, <<>>)
      /\ \A f \in DOMAIN p \ {"body", "kind", "args", "type", "from"} : q[f] = p[f]
  BY DEF InsertBefore, HasFields
<1> HIDE DEF q
<1>4. /\ DOMAIN p.args = Insts(p) /\ DOMAIN p.from = Insts(p) /\ DOMAIN p.type = Insts(p)
      /\ Insts(p) = DOMAIN p.kind /\ "succ" \in DOMAIN p
  BY DEF HasFields, Insts
<1>5. /\ DOMAIN q.kind = Insts(p) \cup {J} /\ q.kind[J] = kind
      /\ \A I \in Insts(p) : q.kind[I] = p.kind[I]
  BY <1>1, <1>2, <1>4 DEF Extended
<1>6. /\ DOMAIN q.args = Insts(p) \cup {J} /\ q.args[J] = args
      /\ \A I \in Insts(p) : q.args[I] = p.args[I]
  BY <1>1, <1>2, <1>4 DEF Extended
<1>7. /\ DOMAIN q.type = Insts(p) \cup {J} /\ q.type[J] = type
      /\ \A I \in Insts(p) : q.type[I] = p.type[I]
  BY <1>1, <1>2, <1>4 DEF Extended
<1>8. /\ DOMAIN q.from = Insts(p) \cup {J}
      /\ \A I \in Insts(p) : q.from[I] = p.from[I]
  BY <1>1, <1>2, <1>4 DEF Extended
<1>9. InsertedInto(p, q, t, J)
  BY <1>2, <1>4, <1>5, <1>6, <1>7, <1>8 DEF InsertedInto, Insts
<1> QED
  BY <1>2, <1>5, <1>6, <1>7, <1>9 DEF q

\* Where the instructions stand after an insertion.
LEMMA PlacesAfterInsertion ==
  ASSUME NEW p, IsFunction(p), NEW t \in Insts(p), NEW J, NEW q, InsertedInto(p, q, t, J)
  PROVE  LET shift(I) == IF BlockOf(p, I) = BlockOf(p, t) /\ IndexOf(p, I) >= IndexOf(p, t)
                         THEN IndexOf(p, I) + 1 ELSE IndexOf(p, I)
         IN
         /\ Blocks(q) = Blocks(p) /\ J \notin Insts(p) /\ q.body \in Seq(Seq(Insts(q)))
         /\ \A b \in Blocks(p) :
              /\ Len(q.body[b]) = IF b = BlockOf(p, t) THEN Len(p.body[b]) + 1 ELSE Len(p.body[b])
              /\ DOMAIN q.body[b] = 1..Len(q.body[b])
              /\ \A k \in 1..Len(q.body[b]) :
                   \/ q.body[b][k] = J /\ b = BlockOf(p, t) /\ k = IndexOf(p, t)
                   \/ /\ q.body[b][k] \in Insts(p) /\ b = BlockOf(p, q.body[b][k])
                      /\ k = shift(q.body[b][k])
              /\ Last(q.body[b]) = Last(p.body[b])
         /\ q.body[BlockOf(p, t)][IndexOf(p, t)] = J
         /\ \A I \in Insts(p) : /\ shift(I) \in 1..Len(q.body[BlockOf(p, I)])
                                /\ q.body[BlockOf(p, I)][shift(I)] = I
<1> DEFINE bt == BlockOf(p, t)
           n  == IndexOf(p, t)
           s  == p.body[bt]
           S  == Insts(p)
<1>1. bt \in Blocks(p) /\ n \in 1..Len(s) /\ s[n] = t
  BY Places
<1>2. J \notin S /\ Insts(q) = S \cup {J}
  BY FreshIsNew DEF InsertedInto
<1>3. /\ \A b \in Blocks(p) :
           /\ p.body[b] \in Seq(S) /\ Len(p.body[b]) \in Nat \ {0}
           /\ DOMAIN p.body[b] = 1..Len(p.body[b])
      /\ p.body \in Seq(Seq(S)) /\ Blocks(p) = 1..Len(p.body)
  BY CodeOf, LenProperties DEF IsFunction, Blocks
<1> DEFINE r == InsertAt(s, n, J)
<1>4. /\ r \in Seq(Insts(q)) /\ Len(r) = Len(s) + 1
      /\ \A k \in 1..(Len(s) + 1) :
              r[k] = IF k < n THEN s[k] ELSE IF k = n THEN J ELSE s[k - 1]
  <2> DEFINE T == Insts(q)
  <2>1. s \in Seq(T) /\ J \in T
    BY <1>1, <1>2, <1>3, SeqMonotonic
  <2> HIDE DEF s, n, T
  <2>2. r \in Seq(T) /\ Len(r) = Len(s) + 1
        /\ \A k \in 1..(Len(s) + 1) :
              r[k] = IF k < n THEN s[k] ELSE IF k = n THEN J ELSE s[k - 1]
    BY <1>1, <2>1, InsertedAt
  <2> QED
    BY <2>2 DEF T
<1>5. q.body = [p.body EXCEPT ![bt] = r]
  BY DEF InsertedInto
<1> HIDE DEF r, S
<1>6. /\ Blocks(q) = Blocks(p) /\ q.body[bt] = r
      /\ \A b \in Blocks(p) : b # bt => q.body[b] = p.body[b]
  BY <1>1, <1>5 DEF Blocks
<1>7. q.body \in Seq(Seq(Insts(q)))
  <2>1. Seq(S) \subseteq Seq(Insts(q))
    BY <1>2, SeqMonotonic
  <2>2. p.body \in Seq(Seq(Insts(q)))
    BY <1>3, <2>1, SeqMonotonic
  <2> QED
    BY <1>1, <1>3, <1>4, <1>5, <2>2, ExceptSeq
<1>8. \A I \in S : /\ BlockOf(p, I) \in Blocks(p)
                   /\ IndexOf(p, I) \in 1..Len(p.body[BlockOf(p, I)])
                   /\ p.body[BlockOf(p, I)][IndexOf(p, I)] = I
  BY Places DEF S
<1>9. \A b \in Blocks(p) : \A k \in 1..Len(p.body[b]) :
        /\ p.body[b][k] \in S
        /\ BlockOf(p, p.body[b][k]) = b /\ IndexOf(p, p.body[b][k]) = k
  BY CodeOf DEF S
<1> DEFINE shift(I) == IF BlockOf(p, I) = bt /\ IndexOf(p, I) >= n
                       THEN IndexOf(p, I) + 1 ELSE IndexOf(p, I)
<1>10. Len(r) \in Nat /\ DOMAIN r = 1..Len(r) /\ Len(s) \in Nat \ {0} /\ n \in Nat
  BY <1>1, <1>3, <1>4, LenProperties
<1>11. ASSUME NEW b \in Blocks(p)
       PROVE  /\ Len(q.body[b]) = IF b = bt THEN Len(p.body[b]) + 1 ELSE Len(p.body[b])
              /\ DOMAIN q.body[b] = 1..Len(q.body[b])
  BY <1>3, <1>4, <1>6, <1>10
<1>12. ASSUME NEW b \in Blocks(p), NEW k \in 1..Len(q.body[b])
       PROVE  \/ q.body[b][k] = J /\ b = bt /\ k = n
              \/ q.body[b][k] \in S /\ b = BlockOf(p, q.body[b][k]) /\ k = shift(q.body[b][k])
  <2>1. CASE b # bt
    BY <1>6, <1>9, <2>1
  <2>2. CASE b = bt /\ k < n
    <3>1. k \in 1..Len(s) /\ q.body[b][k] = s[k]
      BY <1>1, <1>4, <1>6, <1>10, <2>2
    <3>2. s[k] \in S /\ BlockOf(p, s[k]) = bt /\ IndexOf(p, s[k]) = k /\ ~(k >= n)
      BY <1>1, <1>9, <1>10, <2>2, <3>1
    <3> QED
      BY <2>2, <3>1, <3>2
  <2>3. CASE b = bt /\ k = n
    BY <1>4, <1>6, <1>10, <2>3
  <2>4. CASE b = bt /\ k > n
    <3>1. k - 1 \in 1..Len(s) /\ q.body[b][k] = s[k - 1]
      BY <1>1, <1>4, <1>6, <1>10, <2>4
    <3>2. s[k - 1] \in S /\ BlockOf(p, s[k - 1]) = bt /\ IndexOf(p, s[k - 1]) = k - 1
      BY <1>1, <1>9, <3>1
    <3>3. k - 1 >= n /\ (k - 1) + 1 = k
      BY <1>4, <1>6, <1>10, <2>4
    <3> QED
      BY <2>4, <3>1, <3>2, <3>3
  <2>5. k \in Int /\ n \in Int
    BY <1>10
  <2> QED
    BY <2>1, <2>2, <2>3, <2>4, <2>5
<1>13. ASSUME NEW b \in Blocks(p)
       PROVE  Last(q.body[b]) = Last(p.body[b])
  <2>1. CASE b # bt
    BY <1>6, <2>1
  <2>2. CASE b = bt
    <3>1. r[Len(s) + 1] = s[(Len(s) + 1) - 1]
      BY <1>1, <1>4, <1>10
    <3>2. (Len(s) + 1) - 1 = Len(s)
      BY <1>10
    <3> QED
      BY <1>4, <1>6, <2>2, <3>1, <3>2 DEF Last
  <2> QED
    BY <2>1, <2>2
<1>14. ASSUME NEW I \in S
       PROVE  shift(I) \in 1..Len(q.body[BlockOf(p, I)]) /\ q.body[BlockOf(p, I)][shift(I)] = I
  <2>1. CASE BlockOf(p, I) # bt
    BY <1>6, <1>8, <2>1
  <2>2. CASE BlockOf(p, I) = bt
    <3> DEFINE k == IndexOf(p, I)
    <3>1. k \in 1..Len(s) /\ s[k] = I
      BY <1>8, <2>2
    <3> HIDE DEF k
    <3>2. CASE k >= n
      <4>1. k + 1 \in 1..(Len(s) + 1) /\ ~(k + 1 < n) /\ k + 1 # n /\ (k + 1) - 1 = k
        BY <1>10, <3>1, <3>2
      <4>2. r[k + 1] = s[k]
        BY <1>4, <4>1
      <4>3. shift(I) = k + 1
        BY <2>2, <3>2 DEF k
      <4> QED
        BY <1>4, <1>6, <2>2, <3>1, <4>1, <4>2, <4>3
    <3>3. CASE ~(k >= n)
      <4>1. k \in 1..(Len(s) + 1) /\ k < n
        BY <1>10, <3>1, <3>3
      <4>2. r[k] = s[k]
        BY <1>4, <4>1
      <4>3. shift(I) = k
        BY <2>2, <3>3 DEF k
      <4> QED
        BY <1>4, <1>6, <2>2, <3>1, <4>1, <4>2, <4>3
    <3> QED
      BY <3>2, <3>3
  <2> QED
    BY <2>1, <2>2
<1>15. q.body[bt][n] = J
  BY <1>1, <1>4, <1>6, <1>10
<1> QED
  BY <1>2, <1>6, <1>7, <1>11, <1>12, <1>13, <1>14, <1>15 DEF S

\* With an instruction more, that is no phi and stands in front of none, a function is one.
LEMMA InsertionIsFunction ==
  ASSUME NEW p, IsFunction(p), NEW t \in Insts(p), ~IsPhi(p, t),
         NEW J, NEW q, InsertedInto(p, q, t, J), ~IsPhi(q, J), Operands(q, J) \subseteq Insts(p)
  PROVE  IsFunction(q)
<1> DEFINE bt == BlockOf(p, t)
           n  == IndexOf(p, t)
           shift(I) == IF BlockOf(p, I) = bt /\ IndexOf(p, I) >= n
                       THEN IndexOf(p, I) + 1 ELSE IndexOf(p, I)
<1>1. /\ Insts(q) = Insts(p) \cup {J} /\ J \in Nat /\ IsInst(J) /\ J \notin Insts(p)
      /\ \A I \in Insts(p) : /\ q.kind[I] = p.kind[I] /\ q.args[I] = p.args[I]
                             /\ q.from[I] = p.from[I]
      /\ q.succ = p.succ
  BY FreshIsNew DEF InsertedInto
<1>2. bt \in Blocks(p) /\ n \in 1..Len(p.body[bt]) /\ p.body[bt][n] = t
  BY Places
<1>3. \A b \in Blocks(p) : \A k \in 1..Len(p.body[b]) :
        /\ p.body[b][k] \in Insts(p)
        /\ BlockOf(p, p.body[b][k]) = b /\ IndexOf(p, p.body[b][k]) = k
        /\ IsPhi(p, p.body[b][k]) => \A j \in 1..k : IsPhi(p, p.body[b][j])
  BY CodeOf
<1>4. \A b \in Blocks(p) : /\ Len(p.body[b]) \in Nat \ {0} /\ ~IsPhi(p, getTerminator(p, b))
                           /\ getTerminator(p, b) \in Insts(p)
  <2> TAKE b \in Blocks(p)
  <2>1. Len(p.body[b]) \in Nat \ {0} /\ ~IsPhi(p, getTerminator(p, b))
    BY CodeOf
  <2> QED
    BY <1>3, <2>1 DEF getTerminator, Last
<1>5. Blocks(q) = Blocks(p) /\ q.body \in Seq(Seq(Insts(q)))
  BY PlacesAfterInsertion
<1>6. \A b \in Blocks(p) :
        /\ Len(q.body[b]) = IF b = bt THEN Len(p.body[b]) + 1 ELSE Len(p.body[b])
        /\ DOMAIN q.body[b] = 1..Len(q.body[b])
        /\ getTerminator(q, b) = getTerminator(p, b)
  BY PlacesAfterInsertion DEF getTerminator
<1>7. \A b \in Blocks(p) : \A k \in 1..Len(q.body[b]) :
        \/ q.body[b][k] = J /\ b = bt /\ k = n
        \/ q.body[b][k] \in Insts(p) /\ b = BlockOf(p, q.body[b][k]) /\ k = shift(q.body[b][k])
  BY PlacesAfterInsertion
<1>8. q.body[bt][n] = J
  BY PlacesAfterInsertion
<1>9. \A I \in Insts(p) : /\ BlockOf(p, I) \in Blocks(p)
                          /\ shift(I) \in 1..Len(q.body[BlockOf(p, I)])
                          /\ q.body[BlockOf(p, I)][shift(I)] = I
                          /\ IndexOf(p, I) \in 1..Len(p.body[BlockOf(p, I)])
                          /\ p.body[BlockOf(p, I)][IndexOf(p, I)] = I
  BY PlacesAfterInsertion, Places
<1> HIDE DEF bt, n
<1>10. IsFiniteSet(Insts(q)) /\ \A I \in Insts(q) : I \in Nat /\ IsInst(I)
  <2>1. IsFiniteSet(Insts(p)) /\ \A I \in Insts(p) : I \in Nat /\ IsInst(I)
    BY DEF IsFunction
  <2>2. IsFiniteSet(Insts(p) \cup {J})
    BY <2>1, FS_AddElement, Zenon
  <2> QED
    BY <1>1, <2>1, <2>2
<1>11. q.body # <<>>
  BY <1>2, <1>5, EmptySeq DEF Blocks
<1>12. q.succ \in [Blocks(q) -> Seq(Blocks(q))]
  BY <1>1, <1>5 DEF IsFunction
<1>13. ASSUME NEW I \in Insts(q)
       PROVE  \E b \in Blocks(q) : \E k \in DOMAIN q.body[b] : q.body[b][k] = I
  <2>1. CASE I = J
    <3>1. n \in 1..Len(q.body[bt])
      BY <1>2, <1>4, <1>6
    <3> QED
      BY <1>2, <1>5, <1>6, <1>8, <2>1, <3>1
  <2>2. CASE I \in Insts(p)
    BY <1>5, <1>6, <1>9, <2>2
  <2> QED
    BY <1>1, <2>1, <2>2
<1>14. ASSUME NEW b \in Blocks(q), NEW c \in Blocks(q),
              NEW j \in DOMAIN q.body[b], NEW k \in DOMAIN q.body[c], q.body[b][j] = q.body[c][k]
       PROVE  b = c /\ j = k
  <2> DEFINE I == q.body[b][j]
  <2>1. j \in 1..Len(q.body[b]) /\ k \in 1..Len(q.body[c]) /\ q.body[c][k] = I
    BY <1>5, <1>6, <1>14
  <2>2. \/ I = J /\ b = bt /\ j = n
        \/ I \in Insts(p) /\ b = BlockOf(p, I) /\ j = shift(I)
    BY <1>5, <1>7, <2>1
  <2>3. \/ I = J /\ c = bt /\ k = n
        \/ I \in Insts(p) /\ c = BlockOf(p, I) /\ k = shift(I)
    BY <1>5, <1>7, <2>1
  <2> HIDE DEF I, shift
  <2> QED
    BY <1>1, <2>2, <2>3
<1>15. ASSUME NEW b \in Blocks(q)
       PROVE  /\ q.body[b] # <<>> /\ ~IsPhi(q, getTerminator(q, b))
              /\ \A k \in DOMAIN q.body[b] : IsPhi(q, q.body[b][k]) =>
                   \A j \in 1..k : IsPhi(q, q.body[b][j])
  <2>1. q.body[b] # <<>>
    <3>1. b \in Blocks(p) /\ Len(p.body[b]) \in Nat \ {0}
      BY <1>4, <1>5
    <3>2. Len(q.body[b]) = Len(p.body[b]) \/ Len(q.body[b]) = Len(p.body[b]) + 1
      BY <1>6, <3>1
    <3>3. Len(q.body[b]) # 0
      BY <3>1, <3>2
    <3> QED
      BY <3>3, EmptySeq
  <2>2. ~IsPhi(q, getTerminator(q, b))
    BY <1>1, <1>4, <1>5, <1>6 DEF IsPhi
  <2>3. ASSUME NEW k \in DOMAIN q.body[b], IsPhi(q, q.body[b][k]), NEW j \in 1..k
        PROVE  IsPhi(q, q.body[b][j])
    <3> DEFINE I == q.body[b][k]
    <3>1. b \in Blocks(p) /\ k \in 1..Len(q.body[b]) /\ j \in 1..Len(q.body[b]) /\ k \in Nat
      BY <1>4, <1>5, <1>6
    <3>2. I \in Insts(p) /\ b = BlockOf(p, I) /\ k = shift(I) /\ IsPhi(p, I)
      BY <1>1, <1>7, <2>3, <3>1 DEF IsPhi
    <3> DEFINE m == IndexOf(p, I)
    <3>3. m \in 1..Len(p.body[b]) /\ p.body[b][m] = I
      BY <1>9, <3>2
    <3>4. \A i \in 1..m : IsPhi(p, p.body[b][i])
      BY <1>3, <3>1, <3>2, <3>3
    <3>5. k = m /\ (b = bt => m < n)
      <4>1. b = bt => ~(n \in 1..m)
        BY <1>2, <3>4
      <4>2. m \in Nat /\ n \in Nat /\ n >= 1
        BY <1>2, <1>4, <3>1, <3>3
      <4> HIDE DEF m
      <4>3. b = bt => m < n
        BY <4>1, <4>2
      <4> QED
        BY <3>2, <4>2, <4>3 DEF m
    <3> HIDE DEF m, I
    <3> DEFINE A == q.body[b][j]
    <3>6. A \in Insts(p) /\ b = BlockOf(p, A) /\ j = shift(A)
      <4>1. \/ A = J /\ b = bt /\ j = n
            \/ A \in Insts(p) /\ b = BlockOf(p, A) /\ j = shift(A)
        BY <1>7, <3>1
      <4>2. ~(b = bt /\ j = n)
        BY <1>2, <1>4, <3>1, <3>5
      <4> QED
        BY <4>1, <4>2
    <3>7. IndexOf(p, A) \in 1..m
      <4>1. IndexOf(p, A) \in 1..Len(p.body[b])
        BY <1>9, <3>6
      <4>2. Len(p.body[b]) \in Nat
        BY <1>4, <3>1
      <4> HIDE DEF A
      <4> QED
        BY <3>1, <3>5, <3>6, <4>1, <4>2
    <3>8. p.body[b][IndexOf(p, A)] = A
      BY <1>9, <3>6
    <3>9. IsPhi(p, A)
      BY <3>4, <3>7, <3>8
    <3> QED
      BY <1>1, <3>6, <3>9 DEF IsPhi
  <2> QED
    BY <2>1, <2>2, <2>3
<1>16. ASSUME NEW I \in Insts(q)
       PROVE  Operands(q, I) \subseteq Insts(q)
  <2>1. CASE I \in Insts(p)
    <3>1. Operands(p, I) \subseteq Insts(p)
      BY <2>1 DEF IsFunction
    <3> QED
      BY <1>1, <2>1, <3>1 DEF Operands
  <2> QED
    BY <1>1, <2>1
<1>17. ASSUME NEW b \in Blocks(q), NEW phi \in Phis(q, b)
       PROVE  /\ q.from[phi] \in Seq(Blocks(q)) /\ DOMAIN q.args[phi] = DOMAIN q.from[phi]
              /\ \A c \in Blocks(q) : b \in Range(q.succ[c]) => c \in Range(q.from[phi])
  <2>1. PICK k \in 1..Len(q.body[b]) : q.body[b][k] = phi
    BY <1>5, <1>6 DEF Phis, Range
  <2>2. phi \in Insts(p) /\ b = BlockOf(p, phi) /\ IsPhi(p, phi)
    BY <1>1, <1>5, <1>7, <2>1 DEF Phis, IsPhi
  <2>3. phi \in Phis(p, b)
    <3>1. DOMAIN p.body[b] = 1..Len(p.body[b])
      BY <1>5, CodeOf
    <3> QED
      BY <1>5, <1>9, <2>2, <3>1 DEF Phis, Range
  <2>4. /\ p.from[phi] \in Seq(Blocks(p)) /\ DOMAIN p.args[phi] = DOMAIN p.from[phi]
        /\ \A c \in Blocks(p) : b \in Range(p.succ[c]) => c \in Range(p.from[phi])
    BY <1>5, <2>3 DEF IsFunction
  <2> QED
    BY <1>1, <1>5, <2>2, <2>4
<1> QED
  BY <1>5, <1>10, <1>11, <1>12, <1>13, <1>14, <1>15, <1>16, <1>17 DEF IsFunction

\* The instructions there were keep their blocks and their order, the new one comes
\* right before t, and the blocks are as they were.
LEMMA OrderAfterInsertion ==
  ASSUME NEW p, IsFunction(p), NEW t \in Insts(p), NEW J, NEW q, InsertedInto(p, q, t, J),
         IsFunction(q)
  PROVE  /\ J \in Insts(q) /\ BlockOf(q, J) = BlockOf(p, t)
         /\ \A I \in Insts(p) : BlockOf(q, I) = BlockOf(p, I)
         /\ \A u, v \in Insts(p) : DefDominates(q, u, v) <=> DefDominates(p, u, v)
         /\ \A v \in Insts(p) : DefDominates(p, v, t) => DefDominates(q, v, J)
         /\ DefDominates(q, J, t)
         /\ \A b : isPotentiallyReachable(q, b) <=> isPotentiallyReachable(p, b)
         /\ \A a, b : Dominates(q, a, b) <=> Dominates(p, a, b)
         /\ \A b \in Blocks(p) : getTerminator(q, b) = getTerminator(p, b) /\ Phis(q, b) \subseteq Insts(q)
<1> DEFINE bt == BlockOf(p, t)
           n  == IndexOf(p, t)
           shift(I) == IF BlockOf(p, I) = bt /\ IndexOf(p, I) >= n
                       THEN IndexOf(p, I) + 1 ELSE IndexOf(p, I)
<1>1. Blocks(q) = Blocks(p) /\ Insts(q) = Insts(p) \cup {J} /\ J \notin Insts(p) /\ q.succ = p.succ
  <2>1. Blocks(q) = Blocks(p) /\ J \notin Insts(p)
    BY PlacesAfterInsertion
  <2> QED
    BY <2>1 DEF InsertedInto
<1>2. \A I \in Insts(p) : BlockOf(p, I) \in Blocks(p) /\ IndexOf(p, I) \in Nat
  <2> TAKE I \in Insts(p)
  <2>1. BlockOf(p, I) \in Blocks(p) /\ IndexOf(p, I) \in 1..Len(p.body[BlockOf(p, I)])
    BY Places
  <2> QED
    BY <2>1
<1>3. /\ \A b \in Blocks(p) :
           Len(q.body[b]) = IF b = bt THEN Len(p.body[b]) + 1 ELSE Len(p.body[b])
      /\ \A I \in Insts(p) : /\ shift(I) \in 1..Len(q.body[BlockOf(p, I)])
                             /\ q.body[BlockOf(p, I)][shift(I)] = I
      /\ q.body[bt][n] = J
  BY PlacesAfterInsertion
<1>4. n \in 1..Len(q.body[bt])
  <2>1. bt \in Blocks(p) /\ n \in 1..Len(p.body[bt]) /\ Len(p.body[bt]) \in Nat
    BY Places, CodeOf
  <2> QED
    BY <1>3, <2>1
<1>5. \A I \in Insts(p) : BlockOf(q, I) = BlockOf(p, I) /\ IndexOf(q, I) = shift(I)
  <2> TAKE I \in Insts(p)
  <2>1. \A b \in Blocks(q) : \A k \in 1..Len(q.body[b]) :
          q.body[b][k] = I => b = BlockOf(q, I) /\ k = IndexOf(q, I)
    BY <1>1, Places
  <2> QED
    BY <1>1, <1>2, <1>3, <2>1
<1>6. BlockOf(q, J) = bt /\ IndexOf(q, J) = n
  <2>1. \A b \in Blocks(q) : \A k \in 1..Len(q.body[b]) :
          q.body[b][k] = J => b = BlockOf(q, J) /\ k = IndexOf(q, J)
    BY <1>1, Places
  <2> QED
    BY <1>1, <1>2, <1>3, <1>4, <2>1
<1>7. /\ \A b : isPotentiallyReachable(q, b) <=> isPotentiallyReachable(p, b)
      /\ \A a, b : Dominates(q, a, b) <=> Dominates(p, a, b)
  BY <1>1 DEF isPotentiallyReachable, ReachableFrom, Dominates, NotThrough
<1>8. \A u, v \in Insts(p) : DefDominates(q, u, v) <=> DefDominates(p, u, v)
  <2> TAKE u, v \in Insts(p)
  <2>1. BlockOf(p, u) = BlockOf(p, v) => (shift(u) < shift(v) <=> IndexOf(p, u) < IndexOf(p, v))
    BY <1>2
  <2> QED
    BY <1>5, <1>7, <2>1 DEF DefDominates
<1>9. \A v \in Insts(p) : DefDominates(p, v, t) => DefDominates(q, v, J)
  <2> TAKE v \in Insts(p)
  <2>1. BlockOf(p, v) = bt /\ IndexOf(p, v) < n => shift(v) < n
    BY <1>2
  <2> QED
    BY <1>5, <1>6, <1>7, <2>1 DEF DefDominates
<1>10. DefDominates(q, J, t)
  <2>1. n < shift(t)
    BY <1>2
  <2> QED
    BY <1>5, <1>6, <2>1 DEF DefDominates
<1>11. \A b \in Blocks(p) : getTerminator(q, b) = getTerminator(p, b)
  BY PlacesAfterInsertion DEF getTerminator
<1>12. \A b \in Blocks(p) : Phis(q, b) \subseteq Insts(q)
  <2> TAKE b \in Blocks(p)
  <2>1. /\ DOMAIN q.body[b] = 1..Len(q.body[b])
        /\ \A k \in 1..Len(q.body[b]) : q.body[b][k] \in Insts(q)
    BY <1>1, CodeOf
  <2> QED
    BY <2>1 DEF Phis, Range
<1> QED
  BY <1>1, <1>5, <1>6, <1>7, <1>8, <1>9, <1>10, <1>11, <1>12

-----------------------------------------------------------------------------
\* Chains of moves.

\* When no set but that of all instructions holds all that are no moves and all copies of
\* what is in it, chains of moves end.
LEMMA MovesEndIf ==
  ASSUME NEW p, IsFiniteSet(Insts(p)),
         \A I \in Insts(p) : isMoveInst(p, I) => p.args[I] # <<>> /\ p.args[I][1] \in Int,
         \A T \in SUBSET Insts(p) :
           /\ \A I \in Insts(p) : ~isMoveInst(p, I) => I \in T
           /\ \A I \in Insts(p) : isMoveInst(p, I) /\ p.args[I][1] \notin Insts(p) \ T => I \in T
           => T = Insts(p)
  PROVE  MovesEnd(p)
<1> DEFINE P == Insts(p)
           R == {I \in Insts(p) : ~isMoveInst(p, I)}
           h == CopiesOf(p)
           T == Iterate(h, R, Cardinality(P))
<1>1. /\ IsFiniteSet(P) /\ h \in [SUBSET P -> SUBSET P] /\ R \in SUBSET P
      /\ \A X \in SUBSET P : X \subseteq h[X]
  BY DEF CopiesOf
<1>2. \A X \in SUBSET P : \A I \in P :
        isMoveInst(p, I) /\ p.args[I][1] \notin P \ X => I \in h[X]
  BY DEF CopiesOf
<1>3. \A I \in P : ~isMoveInst(p, I) => I \in R
  OBVIOUS
<1> HIDE DEF R, h, P
<1>4. T \in SUBSET P /\ R \subseteq T /\ h[T] = T
  BY <1>1, IterateClosed
<1> HIDE DEF T
<1>5. \A I \in P : isMoveInst(p, I) /\ p.args[I][1] \notin P \ T => I \in T
  BY <1>2, <1>4
<1>6. T = Insts(p)
  BY <1>3, <1>4, <1>5 DEF P
<1> QED
  BY <1>6 DEF MovesEnd, T, P, R, h

\* The operand of a move is an instruction of the function, or none.
LEMMA MoveOperand ==
  ASSUME NEW p, IsFunction(p), MovesEnd(p), HasFields(p), NEW I \in Insts(p), isMoveInst(p, I)
  PROVE  /\ p.args[I] # <<>> /\ 1 \in DOMAIN p.args[I] /\ p.args[I][1] \in Int
         /\ p.args[I][1] \in Insts(p) \/ ~IsInst(p.args[I][1])
<1>1. p.args[I] # <<>> /\ p.args[I][1] \in Int /\ p.args[I] \in Seq(Int)
  BY DEF MovesEnd, HasFields
<1>2. 1 \in DOMAIN p.args[I]
  BY <1>1, EmptySeq, LenProperties
<1>3. Operands(p, I) \subseteq Insts(p)
  BY DEF IsFunction
<1> QED
  BY <1>1, <1>2, <1>3 DEF Operands, Range

\* q has the instructions of p, moves what they were, and new moves copy what p had.
SameMoves(p, q) ==
  /\ Insts(p) \subseteq Insts(q)
  /\ \A I \in Insts(p) : /\ isMoveInst(q, I) <=> isMoveInst(p, I)
                         /\ isMoveInst(p, I) => q.args[I] = p.args[I]
  /\ \A I \in Insts(q) \ Insts(p) : isMoveInst(q, I) =>
       /\ q.args[I] # <<>> /\ q.args[I][1] \in Int
       /\ q.args[I][1] \in Insts(p) \/ ~IsInst(q.args[I][1])

\* Chains of moves still end where the moves stay what they were.
LEMMA MovesStillEnd ==
  ASSUME NEW p, IsFunction(p), MovesEnd(p), HasFields(p), NEW q, IsFunction(q), SameMoves(p, q)
  PROVE  MovesEnd(q)
<1>1. \A I \in Insts(p) : isMoveInst(p, I) =>
        /\ p.args[I] # <<>> /\ p.args[I][1] \in Int
        /\ p.args[I][1] \in Insts(p) \/ ~IsInst(p.args[I][1])
  BY MoveOperand
<1>2. \A I \in Insts(q) : IsInst(I)
  BY DEF IsFunction
<1>3. ASSUME NEW T \in SUBSET Insts(q),
             \A I \in Insts(q) : ~isMoveInst(q, I) => I \in T,
             \A I \in Insts(q) : isMoveInst(q, I) /\ q.args[I][1] \notin Insts(q) \ T => I \in T
      PROVE  T = Insts(q)
  <2> DEFINE U == T \cap Insts(p)
  <2>1. \A I \in Insts(p) : ~isMoveInst(p, I) => I \in U
    BY <1>3 DEF SameMoves
  <2>2. \A I \in Insts(p) : isMoveInst(p, I) /\ p.args[I][1] \notin Insts(p) \ U => I \in U
    BY <1>1, <1>2, <1>3 DEF SameMoves
  <2>3. U = Insts(p)
    <3>1. U \in SUBSET Insts(p)
      OBVIOUS
    <3> HIDE DEF U
    <3> QED
      BY <2>1, <2>2, <3>1, MovesReachAll
  <2>4. \A I \in Insts(q) \ Insts(p) : I \in T
    BY <1>2, <1>3, <2>3 DEF SameMoves
  <2> QED
    BY <2>3, <2>4
<1>4. \A I \in Insts(q) : isMoveInst(q, I) => q.args[I] # <<>> /\ q.args[I][1] \in Int
  BY <1>1 DEF SameMoves
<1>5. IsFiniteSet(Insts(q))
  BY DEF IsFunction
<1> QED
  BY <1>3, <1>4, <1>5, MovesEndIf

\* There the roots stay what they were as well.
LEMMA RootsStay ==
  ASSUME NEW p, IsFunction(p), MovesEnd(p), HasFields(p), NEW q, IsFunction(q), SameMoves(p, q)
  PROVE  /\ \A v \in Insts(p) : Root(q, v) = Root(p, v)
         /\ \A v \in Int : ~IsInst(v) => Root(q, v) = v /\ Root(p, v) = v
<1>1. MovesEnd(q)
  BY MovesStillEnd
<1>2. /\ \A v \in Int : Root(p, v) = IF isMoveInst(p, v) THEN Root(p, p.args[v][1]) ELSE v
      /\ \A v \in Int : Root(q, v) = IF isMoveInst(q, v) THEN Root(q, q.args[v][1]) ELSE v
  BY <1>1, RootSteps
<1>3. /\ \A I \in Insts(p) : IsInst(I) /\ I \in Int
      /\ \A I \in Insts(q) : IsInst(I)
  BY DEF IsFunction
<1>4. \A v \in Int : ~IsInst(v) => Root(q, v) = v /\ Root(p, v) = v
  BY <1>2, <1>3 DEF isMoveInst
<1>5. \A I \in Insts(p) : isMoveInst(p, I) =>
        p.args[I][1] \in Int /\ (p.args[I][1] \in Insts(p) \/ ~IsInst(p.args[I][1]))
  BY MoveOperand
<1> DEFINE T == {v \in Insts(p) : Root(q, v) = Root(p, v)}
<1>6. \A I \in Insts(p) : ~isMoveInst(p, I) => I \in T
  BY <1>2, <1>3 DEF SameMoves
<1>7. \A I \in Insts(p) : isMoveInst(p, I) /\ p.args[I][1] \notin Insts(p) \ T => I \in T
  <2> SUFFICES ASSUME NEW I \in Insts(p), isMoveInst(p, I), p.args[I][1] \notin Insts(p) \ T
               PROVE  I \in T
    OBVIOUS
  <2> DEFINE w == p.args[I][1]
  <2>1. isMoveInst(q, I) /\ q.args[I][1] = w
    BY DEF SameMoves
  <2>2. Root(p, I) = Root(p, w) /\ Root(q, I) = Root(q, w)
    BY <1>2, <1>3, <2>1
  <2>3. Root(q, w) = Root(p, w)
    BY <1>4, <1>5
  <2> QED
    BY <2>2, <2>3
<1>8. T = Insts(p)
  <2>1. T \in SUBSET Insts(p)
    OBVIOUS
  <2> HIDE DEF T
  <2> QED
    BY <1>6, <1>7, <2>1, MovesReachAll
<1> QED
  BY <1>4, <1>8

\* So the registers stay registers.
LEMMA RegsStay ==
  ASSUME NEW p, IsFunction(p), MovesEnd(p), HasFields(p), NEW q, IsFunction(q), SameMoves(p, q),
         \A I \in Insts(p) : q.kind[I] = p.kind[I]
  PROVE  /\ \A v \in Insts(p) : isReg(q, v) <=> isReg(p, v)
         /\ \A v \in Int : ~IsInst(v) => ~isReg(p, v)
         /\ \A v \in Insts(p) : Root(p, v) \in Insts(p) \/ ~IsInst(Root(p, v))
<1>1. /\ \A v \in Insts(p) : Root(q, v) = Root(p, v)
      /\ \A v \in Int : ~IsInst(v) => Root(q, v) = v /\ Root(p, v) = v
  BY RootsStay
<1>2. /\ \A I \in Insts(p) : IsInst(I) /\ I \in Int
      /\ \A I \in Insts(q) : IsInst(I)
  BY DEF IsFunction
<1>3. \A I \in Insts(p) : isMoveInst(p, I) =>
        p.args[I][1] \in Int /\ (p.args[I][1] \in Insts(p) \/ ~IsInst(p.args[I][1]))
  BY MoveOperand
<1>4. \A v \in Int : Root(p, v) = IF isMoveInst(p, v) THEN Root(p, p.args[v][1]) ELSE v
  BY RootSteps
<1> DEFINE T == {v \in Insts(p) : Root(p, v) \in Insts(p) \/ ~IsInst(Root(p, v))}
<1>5. T = Insts(p)
  <2>1. \A I \in Insts(p) : ~isMoveInst(p, I) => I \in T
    BY <1>2, <1>4
  <2>2. \A I \in Insts(p) : isMoveInst(p, I) /\ p.args[I][1] \notin Insts(p) \ T => I \in T
    BY <1>1, <1>2, <1>3, <1>4
  <2>3. T \in SUBSET Insts(p)
    OBVIOUS
  <2> HIDE DEF T
  <2> QED
    BY <2>1, <2>2, <2>3, MovesReachAll
<1>6. \A v \in Insts(p) : Root(p, v) \in Insts(q) => Root(p, v) \in Insts(p)
  BY <1>2, <1>5
<1> QED
  BY <1>1, <1>2, <1>5, <1>6 DEF isReg, SameMoves

-----------------------------------------------------------------------------
\* What the edits of a function keep.

\* q has all of p, at its place and meaning what it did, but for what operands read.
Grown(p, q) ==
  /\ Insts(p) \subseteq Insts(q) /\ Blocks(q) = Blocks(p)
  /\ \A I \in Insts(p) :
       /\ q.kind[I] = p.kind[I] /\ q.type[I] = p.type[I]
       /\ BlockOf(q, I) = BlockOf(p, I)
       /\ Root(q, I) = Root(p, I) /\ isReg(q, I) = isReg(p, I)
  /\ \A u, v \in Insts(p) : DefDominates(q, u, v) <=> DefDominates(p, u, v)
  /\ \A b : isPotentiallyReachable(q, b) <=> isPotentiallyReachable(p, b)
  /\ \A b \in Blocks(p) : getTerminator(q, b) = getTerminator(p, b)

\* v can be read by an instruction in front of t.
Available(p, v, t) ==
  v \in Insts(p) /\ (DefDominates(p, v, t) \/ ~isPotentiallyReachable(p, BlockOf(p, t)))

\* What has grown twice has grown.
LEMMA GrownTransitive ==
  ASSUME NEW p, NEW q, NEW r, Grown(p, q), Grown(q, r) PROVE Grown(p, r)
<1>1. \A I \in Insts(p) : I \in Insts(q)
  BY DEF Grown
<1>2. Insts(p) \subseteq Insts(r) /\ Blocks(r) = Blocks(p)
  BY DEF Grown
<1>3. \A I \in Insts(p) :
       /\ r.kind[I] = p.kind[I] /\ r.type[I] = p.type[I]
       /\ BlockOf(r, I) = BlockOf(p, I)
       /\ Root(r, I) = Root(p, I) /\ isReg(r, I) = isReg(p, I)
  BY <1>1 DEF Grown
<1>4. \A u, v \in Insts(p) : DefDominates(r, u, v) <=> DefDominates(p, u, v)
  BY <1>1 DEF Grown
<1>5. \A b : isPotentiallyReachable(r, b) <=> isPotentiallyReachable(p, b)
  BY DEF Grown
<1>6. \A b \in Blocks(p) : getTerminator(r, b) = getTerminator(p, b)
  BY DEF Grown
<1> QED
  BY <1>2, <1>3, <1>4, <1>5, <1>6 DEF Grown

\* What could be read somewhere still can when the function has grown.
LEMMA GrownKeepsAvailable ==
  ASSUME NEW p, NEW q, Grown(p, q), NEW t \in Insts(p), NEW v, Available(p, v, t)
  PROVE  Available(q, v, t)
  BY DEF Grown, Available

\* The phis of a block are those that stand in it.
LEMMA PhisOfBlock ==
  ASSUME NEW p, IsFunction(p), NEW b \in Blocks(p)
  PROVE  \A I : I \in Phis(p, b) <=> I \in Insts(p) /\ IsPhi(p, I) /\ BlockOf(p, I) = b
<1>1. DOMAIN p.body[b] = 1..Len(p.body[b]) /\ \A k \in 1..Len(p.body[b]) :
        p.body[b][k] \in Insts(p) /\ BlockOf(p, p.body[b][k]) = b
  BY CodeOf
<1>2. \A I \in Insts(p) : /\ IndexOf(p, I) \in 1..Len(p.body[BlockOf(p, I)])
                          /\ p.body[BlockOf(p, I)][IndexOf(p, I)] = I
  BY Places
<1> QED
  BY <1>1, <1>2 DEF Phis, Range

\* A function in SSA form with an instruction more, whose operands can be read where it stands,
\* is one, and has grown.
LEMMA InsertionKeepsMoves ==
  ASSUME NEW p, Sound(p), NEW t \in Insts(p), ~IsPhi(p, t), NEW J, NEW q,
         InsertedInto(p, q, t, J), q.kind[J] \in {"op", "const", "move", "noreg", "sp"},
         q.args[J] \in Seq(Int), \A v \in Operands(q, J) : Available(p, v, t),
         q.kind[J] = "move" => q.args[J] # <<>>
  PROVE  IsFunction(q) /\ SameMoves(p, q)
<1>1. IsFunction(p) /\ MovesEnd(p) /\ HasFields(p)
  BY DEF Sound
<1>2. Operands(q, J) \subseteq Insts(p)
  BY DEF Available
<1>3. IsFunction(q)
  BY <1>1, <1>2, InsertionIsFunction DEF IsPhi
<1>4. J \notin Insts(p)
  BY <1>1, FreshIsNew DEF InsertedInto
<1>5. ASSUME q.kind[J] = "move"
      PROVE  q.args[J][1] \in Int /\ (q.args[J][1] \in Insts(p) \/ ~IsInst(q.args[J][1]))
  <2>1. q.args[J] # <<>> /\ DOMAIN q.args[J] = 1..Len(q.args[J]) /\ Len(q.args[J]) \in Nat \ {0}
    BY <1>5, EmptySeq, LenProperties
  <2>2. 1 \in 1..Len(q.args[J])
    BY <2>1
  <2>3. q.args[J][1] \in Int
    BY <2>2, ElementOfSeq
  <2> QED
    BY <1>2, <2>1, <2>2, <2>3 DEF Operands, Range
<1>6. /\ Insts(q) = Insts(p) \cup {J}
      /\ \A I \in Insts(p) : q.kind[I] = p.kind[I] /\ q.args[I] = p.args[I]
  BY DEF InsertedInto
<1> QED
  BY <1>3, <1>4, <1>5, <1>6 DEF SameMoves, isMoveInst

\* An instruction whose operands can be read where it stands keeps SSA form.
LEMMA InsertionKeepsWellFormed ==
  ASSUME NEW p, Sound(p), NEW t \in Insts(p), ~IsPhi(p, t), NEW J, NEW q,
         InsertedInto(p, q, t, J), q.kind[J] \in {"op", "const", "move", "noreg", "sp"},
         \A v \in Operands(q, J) : Available(p, v, t), IsFunction(q)
  PROVE  WellFormed(q)
<1>1. IsFunction(p) /\ WellFormed(p)
  BY DEF Sound
<1>2. /\ Insts(q) = Insts(p) \cup {J} /\ q.succ = p.succ
      /\ \A I \in Insts(p) : /\ q.kind[I] = p.kind[I] /\ q.args[I] = p.args[I]
                             /\ q.from[I] = p.from[I]
  BY DEF InsertedInto
<1>3. Blocks(q) = Blocks(p) /\ J \notin Insts(p)
  BY <1>1, PlacesAfterInsertion
<1>4. /\ BlockOf(q, J) = BlockOf(p, t)
      /\ \A I \in Insts(p) : BlockOf(q, I) = BlockOf(p, I)
      /\ \A u, v \in Insts(p) : DefDominates(q, u, v) <=> DefDominates(p, u, v)
      /\ \A v \in Insts(p) : DefDominates(p, v, t) => DefDominates(q, v, J)
      /\ \A b : isPotentiallyReachable(q, b) <=> isPotentiallyReachable(p, b)
      /\ \A a, b : Dominates(q, a, b) <=> Dominates(p, a, b)
      /\ \A b \in Blocks(p) : getTerminator(q, b) = getTerminator(p, b)
  BY <1>1, OrderAfterInsertion
<1>5. ~IsPhi(q, J) /\ \A I \in Insts(p) : IsPhi(q, I) <=> IsPhi(p, I)
  BY <1>2 DEF IsPhi
<1>6. \A b \in Blocks(p) : Phis(q, b) = Phis(p, b)
  <2> TAKE b \in Blocks(p)
  <2>1. \A I : I \in Phis(p, b) <=> I \in Insts(p) /\ IsPhi(p, I) /\ BlockOf(p, I) = b
    BY <1>1, PhisOfBlock
  <2>2. \A I : I \in Phis(q, b) <=> I \in Insts(q) /\ IsPhi(q, I) /\ BlockOf(q, I) = b
    BY <1>3, PhisOfBlock
  <2> QED
    BY <1>2, <1>4, <1>5, <2>1, <2>2
<1>7. \A b \in Blocks(p) : getTerminator(p, b) \in Insts(p)
  <2> TAKE b \in Blocks(p)
  <2>1. Len(p.body[b]) \in Nat \ {0} /\ \A k \in 1..Len(p.body[b]) : p.body[b][k] \in Insts(p)
    BY <1>1, CodeOf
  <2> QED
    BY <2>1 DEF getTerminator, Last
<1>8. Phis(q, 1) = {} /\ \A b \in Blocks(q) : 1 \notin Range(q.succ[b])
  <2>1. 1 \in Blocks(p)
    BY <1>1, EmptySeq, LenProperties DEF IsFunction, Blocks
  <2> QED
    BY <1>1, <1>2, <1>3, <1>6, <2>1 DEF WellFormed
<1>9. ASSUME NEW b \in Blocks(q)
      PROVE  /\ q.kind[getTerminator(q, b)] \in Terminators
             /\ \A k \in 1..(Len(q.body[b]) - 1) : q.kind[q.body[b][k]] \notin Terminators
             /\ \A k \in DOMAIN q.body[b] : IsPhi(q, q.body[b][k]) =>
                  \A j \in 1..k : IsPhi(q, q.body[b][j])
             /\ \A phi \in Phis(q, b) :
                  Range(q.from[phi]) = {c \in Blocks(q) : b \in Range(q.succ[c])}
  <2>1. q.kind[getTerminator(q, b)] \in Terminators
    BY <1>1, <1>2, <1>3, <1>4, <1>7 DEF WellFormed
  <2>2. \A k \in DOMAIN q.body[b] : IsPhi(q, q.body[b][k]) =>
                  \A j \in 1..k : IsPhi(q, q.body[b][j])
    BY DEF IsFunction
  <2>3. ASSUME NEW phi \in Phis(q, b)
        PROVE  Range(q.from[phi]) = {c \in Blocks(q) : b \in Range(q.succ[c])}
    <3>1. phi \in Phis(p, b) /\ b \in Blocks(p)
      BY <1>3, <1>6
    <3>2. phi \in Insts(p)
      BY <1>1, <3>1, PhisOfBlock
    <3>3. Range(p.from[phi]) = {c \in Blocks(p) : b \in Range(p.succ[c])}
      BY <1>1, <3>1 DEF WellFormed
    <3> QED
      BY <1>2, <1>3, <3>2, <3>3
  <2>4. ASSUME NEW k \in 1..(Len(q.body[b]) - 1)
        PROVE  q.kind[q.body[b][k]] \notin Terminators
    <3> DEFINE I == q.body[b][k]
    <3>1. /\ Len(q.body[b]) \in Nat \ {0}
          /\ \A j \in 1..Len(q.body[b]) : /\ q.body[b][j] \in Insts(q)
                                          /\ BlockOf(q, q.body[b][j]) = b
                                          /\ IndexOf(q, q.body[b][j]) = j
      BY CodeOf
    <3>2. I \in Insts(q) /\ BlockOf(q, I) = b /\ IndexOf(q, I) = k /\ k # Len(q.body[b])
      BY <3>1
    <3>3. I # getTerminator(q, b)
      BY <3>1, <3>2 DEF getTerminator, Last
    <3> HIDE DEF I
    <3>4. CASE I \in Insts(p)
      <4>1. BlockOf(p, I) = b /\ b \in Blocks(p) /\ I # getTerminator(p, b)
        BY <1>3, <1>4, <3>2, <3>3, <3>4
      <4>2. /\ IndexOf(p, I) \in 1..Len(p.body[b]) /\ p.body[b][IndexOf(p, I)] = I
            /\ Len(p.body[b]) \in Nat
        BY <1>1, <3>4, <4>1, Places, CodeOf
      <4>3. IndexOf(p, I) # Len(p.body[b])
        BY <4>1, <4>2 DEF getTerminator, Last
      <4>4. IndexOf(p, I) \in 1..(Len(p.body[b]) - 1)
        BY <4>2, <4>3
      <4>5. p.kind[I] \notin Terminators
        BY <1>1, <4>1, <4>2, <4>4 DEF WellFormed
      <4> QED
        BY <1>2, <3>4, <4>5 DEF I
    <3>5. CASE I = J
      BY <3>5 DEF I, Terminators
    <3> QED
      BY <1>2, <3>2, <3>4, <3>5
  <2> QED
    BY <2>1, <2>2, <2>3, <2>4
<1> DEFINE Ordered1(r, I) ==
             IF IsPhi(r, I)
             THEN \A k \in DOMAIN r.args[I] :
                    LET v == r.args[I][k] IN
                    \/ ~IsInst(v)
                    \/ ~isPotentiallyReachable(r, r.from[I][k])
                    \/ BlockOf(r, v) = r.from[I][k]
                    \/ Dominates(r, BlockOf(r, v), r.from[I][k])
             ELSE \A v \in Operands(r, I) :
                    DefDominates(r, v, I) \/ ~isPotentiallyReachable(r, BlockOf(r, I))
<1>10. ASSUME NEW I \in Insts(p)
       PROVE  Ordered1(q, I)
  <2>1. Ordered1(p, I)
    BY <1>1 DEF WellFormed
  <2>2. Operands(p, I) \subseteq Insts(p) /\ Operands(q, I) = Operands(p, I)
    BY <1>1, <1>2 DEF IsFunction, Operands
  <2>3. CASE IsPhi(p, I)
    <3>1. SUFFICES ASSUME NEW k \in DOMAIN q.args[I], IsInst(q.args[I][k])
                   PROVE  LET v == q.args[I][k] IN
                          \/ ~isPotentiallyReachable(q, q.from[I][k])
                          \/ BlockOf(q, v) = q.from[I][k]
                          \/ Dominates(q, BlockOf(q, v), q.from[I][k])
      BY <1>5, <2>3
    <3>2. k \in DOMAIN p.args[I] /\ q.args[I][k] = p.args[I][k] /\ q.args[I][k] \in Operands(p, I)
      BY <1>2, <3>1 DEF Operands, Range
    <3> QED
      BY <1>2, <1>4, <2>1, <2>2, <2>3, <3>1, <3>2
  <2>4. CASE ~IsPhi(p, I)
    BY <1>4, <1>5, <2>1, <2>2, <2>4
  <2> QED
    BY <2>3, <2>4
<1>11. Ordered1(q, J)
  BY <1>4, <1>5 DEF Available
<1>12. \A I \in Insts(q) : Ordered1(q, I)
  BY <1>2, <1>10, <1>11
<1> QED
  BY <1>8, <1>9, <1>12 DEF WellFormed

\* It can be read itself from there on, and the function stays sound.
LEMMA InsertionIsSound ==
  ASSUME NEW p, Sound(p), NEW t \in Insts(p), ~IsPhi(p, t), NEW J, NEW q,
         InsertedInto(p, q, t, J), q.kind[J] \in {"op", "const", "move", "noreg", "sp"},
         q.args[J] \in Seq(Int), \A v \in Operands(q, J) : Available(p, v, t),
         q.kind[J] = "move" => q.args[J] # <<>>,
         q.kind[J] \in {"op", "const", "move"} => q.type[J] \in ValueTypes
  PROVE  /\ Sound(q) /\ Grown(p, q) /\ Available(q, J, t) /\ ~IsPhi(q, J)
         /\ q.kind[J] \in {"op", "const"} => isReg(q, J) /\ Root(q, J) = J
         /\ q.kind[J] = "move" => Root(q, J) = Root(q, q.args[J][1])
<1>1. IsFunction(p) /\ WellFormed(p) /\ MovesEnd(p) /\ HasFields(p)
  BY DEF Sound
<1>2. IsFunction(q) /\ SameMoves(p, q)
  BY InsertionKeepsMoves
<1>3. MovesEnd(q)
  BY <1>1, <1>2, MovesStillEnd
<1>4. WellFormed(q)
  BY <1>2, InsertionKeepsWellFormed
<1>5. /\ Insts(q) = Insts(p) \cup {J} /\ DOMAIN q = DOMAIN p /\ J = FreshInst(p)
      /\ DOMAIN q.args = Insts(q) /\ DOMAIN q.type = Insts(q) /\ DOMAIN q.from = Insts(q)
      /\ \A I \in Insts(p) : /\ q.kind[I] = p.kind[I] /\ q.args[I] = p.args[I]
                             /\ q.from[I] = p.from[I] /\ q.type[I] = p.type[I]
  BY DEF InsertedInto
<1>6. J \notin Insts(p) /\ J \in Int /\ Blocks(q) = Blocks(p)
  BY <1>1, <1>5, FreshIsNew, PlacesAfterInsertion
<1>7. \A v \in Insts(p) : Root(q, v) = Root(p, v)
  BY <1>1, <1>2, RootsStay
<1>8. \A v \in Insts(p) : isReg(q, v) <=> isReg(p, v)
  BY <1>1, <1>2, <1>5, RegsStay
<1>9. Grown(p, q)
  <2>1. /\ \A I \in Insts(p) : BlockOf(q, I) = BlockOf(p, I)
        /\ \A u, v \in Insts(p) : DefDominates(q, u, v) <=> DefDominates(p, u, v)
        /\ \A b : isPotentiallyReachable(q, b) <=> isPotentiallyReachable(p, b)
        /\ \A b \in Blocks(p) : getTerminator(q, b) = getTerminator(p, b)
    BY <1>1, <1>2, OrderAfterInsertion
  <2>2. \A v \in Insts(p) : isReg(q, v) = isReg(p, v)
    BY <1>8 DEF isReg
  <2> QED
    BY <1>5, <1>6, <1>7, <2>1, <2>2 DEF Grown
<1>10. Available(q, J, t)
  <2>1. DefDominates(q, J, t)
    BY <1>1, <1>2, OrderAfterInsertion
  <2> QED
    BY <1>5, <2>1 DEF Available
<1>11. \A v \in Int : Root(q, v) = IF isMoveInst(q, v) THEN Root(q, q.args[v][1]) ELSE v
  BY <1>2, <1>3, RootSteps
<1>12. /\ q.kind[J] = "move" => Root(q, J) = Root(q, q.args[J][1])
       /\ q.kind[J] # "move" => Root(q, J) = J
  BY <1>5, <1>6, <1>11 DEF isMoveInst
<1>13. /\ q.kind[J] \in {"op", "const"} => isReg(q, J)
       /\ isReg(q, J) => q.kind[J] \in {"op", "const", "move"}
  BY <1>5, <1>12 DEF isReg
<1>14. HasFields(q)
  <2>1. \A I \in Insts(q) : q.args[I] \in Seq(Int)
    BY <1>1, <1>5 DEF HasFields
  <2>2. \A I \in Regs(q) : q.type[I] \in ValueTypes
    BY <1>1, <1>5, <1>8, <1>13 DEF HasFields, Regs
  <2> QED
    BY <1>1, <1>5, <2>1, <2>2 DEF HasFields
<1>15. ~IsPhi(q, J)
  BY <1>5 DEF IsPhi
<1> QED
  BY <1>2, <1>3, <1>4, <1>9, <1>10, <1>12, <1>13, <1>14, <1>15 DEF Sound

\* q has grown from p by instructions that are no phis, and nothing of p reads anything else.
Lengthened(p, q) ==
  /\ Grown(p, q) /\ AllPhis(q) = AllPhis(p)
  /\ \A I \in Insts(p) : q.args[I] = p.args[I] /\ q.from[I] = p.from[I]

\* What is lengthened twice is lengthened.
LEMMA LengthenedTransitive ==
  ASSUME NEW p, NEW q, NEW r, Lengthened(p, q), Lengthened(q, r) PROVE Lengthened(p, r)
<1>1. Grown(p, r)
  BY GrownTransitive DEF Lengthened
<1>2. Insts(p) \subseteq Insts(q)
  BY DEF Lengthened, Grown
<1> QED
  BY <1>1, <1>2 DEF Lengthened

\* The next fresh instruction.
LEMMA FreshAfterInsertion ==
  ASSUME NEW p, IsFunction(p), NEW t, NEW J, NEW q, InsertedInto(p, q, t, J)
  PROVE  FreshInst(q) = J + 1 /\ Newest(q) = J /\ J \in Nat /\ J \notin Insts(p) /\ J \in Insts(q)
<1>1. J = FreshInst(p) /\ Insts(q) = Insts(p) \cup {J}
  BY DEF InsertedInto
<1>2. IsFiniteSet(Insts(p)) /\ Insts(p) \in SUBSET Nat
  BY DEF IsFunction
<1>3. Insts(p) # {} /\ J \in Nat /\ J \notin Insts(p)
  BY <1>1, FreshIsNew
<1>4. Max(Insts(p)) \in Insts(p) /\ \A n \in Insts(p) : n <= Max(Insts(p))
  BY <1>2, <1>3, GreatestNatural
<1>5. J = Max(Insts(p)) + 1
  BY <1>1 DEF FreshInst
<1>6. \A n \in Insts(q) : n <= J /\ n \in Nat
  BY <1>1, <1>2, <1>3, <1>4, <1>5
<1>7. IsFiniteSet(Insts(q))
  BY <1>1, <1>2, FS_AddElement
<1>8. Max(Insts(q)) \in Insts(q) /\ \A n \in Insts(q) : n <= Max(Insts(q))
  <2>1. Insts(q) \in SUBSET Nat /\ Insts(q) # {}
    BY <1>1, <1>6
  <2> QED
    BY <1>7, <2>1, GreatestNatural
<1>9. Max(Insts(q)) = J
  BY <1>1, <1>3, <1>6, <1>8
<1> QED
  BY <1>1, <1>3, <1>9 DEF FreshInst, Newest

\* The block a terminator ends, and that it can be told from registers.
LEMMA TerminatorPlace ==
  ASSUME NEW p, IsFunction(p), WellFormed(p), NEW b \in Blocks(p)
  PROVE  /\ getTerminator(p, b) \in Insts(p) /\ ~IsPhi(p, getTerminator(p, b))
         /\ BlockOf(p, getTerminator(p, b)) = b
         /\ p.kind[getTerminator(p, b)] \in Terminators
         /\ \A I \in Insts(p) : BlockOf(p, I) = b /\ I # getTerminator(p, b) =>
              DefDominates(p, I, getTerminator(p, b))
<1> DEFINE n == Len(p.body[b])
<1>1. /\ n \in Nat \ {0} /\ ~IsPhi(p, getTerminator(p, b))
      /\ \A k \in 1..n : /\ p.body[b][k] \in Insts(p)
                         /\ BlockOf(p, p.body[b][k]) = b /\ IndexOf(p, p.body[b][k]) = k
  BY CodeOf
<1>2. getTerminator(p, b) = p.body[b][n]
  BY DEF getTerminator, Last
<1>3. /\ getTerminator(p, b) \in Insts(p) /\ BlockOf(p, getTerminator(p, b)) = b
      /\ IndexOf(p, getTerminator(p, b)) = n
  BY <1>1, <1>2
<1>4. ASSUME NEW I \in Insts(p), BlockOf(p, I) = b, I # getTerminator(p, b)
      PROVE  DefDominates(p, I, getTerminator(p, b))
  <2>1. IndexOf(p, I) \in 1..n /\ p.body[b][IndexOf(p, I)] = I
    BY <1>4, Places
  <2>2. IndexOf(p, I) # n
    BY <1>2, <1>4, <2>1
  <2>3. IndexOf(p, I) < n
    BY <1>1, <2>1, <2>2
  <2> QED
    BY <1>3, <1>4, <2>3 DEF DefDominates
<1>5. p.kind[getTerminator(p, b)] \in Terminators
  BY DEF WellFormed
<1> QED
  BY <1>1, <1>3, <1>4, <1>5

-----------------------------------------------------------------------------
\* Taking the place of operands.

\* q is p with w for the operands K of u.
Rewired(p, q, u, K, w) ==
  /\ DOMAIN q = DOMAIN p /\ q.body = p.body /\ q.succ = p.succ /\ q.kind = p.kind
  /\ q.type = p.type /\ q.from = p.from
  /\ q.args = [p.args EXCEPT ![u] = [k \in DOMAIN @ |-> IF k \in K THEN w ELSE @[k]]]

\* w can be operand k of u.
Fits(p, u, k, w) ==
  IF IsPhi(p, u)
  THEN \/ ~isPotentiallyReachable(p, p.from[u][k])
       \/ BlockOf(p, w) = p.from[u][k]
       \/ Dominates(p, BlockOf(p, w), p.from[u][k])
  ELSE Available(p, w, u)

\* Nothing moves.
LEMMA RewiredPlaces ==
  ASSUME NEW p, NEW u, NEW K, NEW w, NEW q, Rewired(p, q, u, K, w)
  PROVE  /\ Insts(q) = Insts(p) /\ Blocks(q) = Blocks(p)
         /\ \A I : (IsPhi(q, I) <=> IsPhi(p, I)) /\ (isMoveInst(q, I) <=> isMoveInst(p, I))
         /\ AllPhis(q) = AllPhis(p) /\ \A b : Phis(q, b) = Phis(p, b)
         /\ \A I : BlockOf(q, I) = BlockOf(p, I) /\ IndexOf(q, I) = IndexOf(p, I)
         /\ \A x, y : DefDominates(q, x, y) <=> DefDominates(p, x, y)
         /\ \A b : isPotentiallyReachable(q, b) <=> isPotentiallyReachable(p, b)
         /\ \A a, b : Dominates(q, a, b) <=> Dominates(p, a, b)
         /\ \A b : getTerminator(q, b) = getTerminator(p, b)
<1>1. q.body = p.body /\ q.succ = p.succ /\ q.kind = p.kind
  BY DEF Rewired
<1>2. /\ Insts(q) = Insts(p) /\ Blocks(q) = Blocks(p)
      /\ \A I : (IsPhi(q, I) <=> IsPhi(p, I)) /\ (isMoveInst(q, I) <=> isMoveInst(p, I))
      /\ AllPhis(q) = AllPhis(p)
  BY <1>1 DEF Insts, Blocks, IsPhi, isMoveInst, AllPhis
<1>3. /\ \A b : Phis(q, b) = Phis(p, b)
      /\ \A b : getTerminator(q, b) = getTerminator(p, b)
  BY <1>1 DEF Phis, getTerminator, IsPhi
<1>4. \A I : BlockOf(q, I) = BlockOf(p, I)
  BY <1>1 DEF BlockOf, Blocks
<1>5. \A I : IndexOf(q, I) = IndexOf(p, I)
  BY <1>1, <1>4 DEF IndexOf
<1>6. /\ \A b : isPotentiallyReachable(q, b) <=> isPotentiallyReachable(p, b)
      /\ \A a, b : Dominates(q, a, b) <=> Dominates(p, a, b)
  BY <1>1 DEF isPotentiallyReachable, ReachableFrom, Dominates, NotThrough, Blocks
<1>7. \A x, y : DefDominates(q, x, y) <=> DefDominates(p, x, y)
  BY <1>4, <1>5, <1>6 DEF DefDominates
<1> QED
  BY <1>2, <1>3, <1>4, <1>5, <1>6, <1>7

\* What the instructions of q read, when it is p with w read for the operands K of u.
Reread(p, q, u, K, w) ==
  /\ DOMAIN q.args = Insts(p) /\ \A I \in Insts(p) : q.args[I] \in Seq(Int)
  /\ DOMAIN q.args[u] = DOMAIN p.args[u]
  /\ \A k \in DOMAIN p.args[u] : q.args[u][k] = IF k \in K THEN w ELSE p.args[u][k]
  /\ \A I \in Insts(p) \ {u} : q.args[I] = p.args[I]

\* What is read, and that the function stays one.
LEMMA RewiredIsFunction ==
  ASSUME NEW p, IsFunction(p), HasFields(p), NEW u \in Insts(p),
         NEW K \in SUBSET DOMAIN p.args[u], NEW w \in Insts(p), NEW q, Rewired(p, q, u, K, w)
  PROVE  IsFunction(q) /\ Reread(p, q, u, K, w)
<1>1. /\ Insts(q) = Insts(p) /\ Blocks(q) = Blocks(p) /\ \A I : IsPhi(q, I) <=> IsPhi(p, I)
      /\ \A b : Phis(q, b) = Phis(p, b)
  BY RewiredPlaces
<1>2. DOMAIN p.args = Insts(p) /\ \A I \in Insts(p) : p.args[I] \in Seq(Int)
  BY DEF HasFields
<1>3. w \in Int
  BY DEF IsFunction
<1>4. /\ DOMAIN q.args = Insts(p)
      /\ \A I \in Insts(p) \ {u} : q.args[I] = p.args[I]
      /\ q.args[u] = [k \in DOMAIN p.args[u] |-> IF k \in K THEN w ELSE p.args[u][k]]
  BY <1>2 DEF Rewired
<1>5. /\ DOMAIN q.args[u] = DOMAIN p.args[u]
      /\ \A k \in DOMAIN p.args[u] : q.args[u][k] = IF k \in K THEN w ELSE p.args[u][k]
  BY <1>4
<1>6. \A I \in Insts(p) : q.args[I] \in Seq(Int)
  <2>1. q.args[u] \in Seq(Int)
    <3> DEFINE s == p.args[u]
    <3>1. s \in Seq(Int) /\ DOMAIN s = 1..Len(s) /\ Len(s) \in Nat
      BY <1>2, LenProperties
    <3>2. q.args[u] = [k \in 1..Len(s) |-> IF k \in K THEN w ELSE s[k]]
      BY <1>4, <3>1
    <3>3. \A k \in 1..Len(s) : s[k] \in Int
      BY <3>1, ElementOfSeq
    <3> HIDE DEF s
    <3>4. [k \in 1..Len(s) |-> IF k \in K THEN w ELSE s[k]] \in [1..Len(s) -> Int]
      BY <1>3, <3>3
    <3>5. [1..Len(s) -> Int] \subseteq Seq(Int)
      BY <3>1, SeqDef
    <3> QED
      BY <3>2, <3>4, <3>5
  <2> QED
    BY <1>2, <1>4, <2>1
<1>7. IsFunction(q)
  <2>1. \A I \in Insts(q) : Operands(q, I) \subseteq Insts(q)
    <3> TAKE I \in Insts(q)
    <3>1. Operands(p, I) \subseteq Insts(p)
      BY <1>1 DEF IsFunction
    <3>2. CASE I # u
      BY <1>1, <1>4, <3>1, <3>2 DEF Operands
    <3>3. CASE I = u
      BY <1>1, <1>5, <3>1, <3>3 DEF Operands, Range
    <3> QED
      BY <3>2, <3>3
  <2>2. \A I \in Insts(p) : DOMAIN q.args[I] = DOMAIN p.args[I]
    BY <1>4, <1>5
  <2>3. ASSUME NEW b \in Blocks(q), NEW phi \in Phis(q, b)
        PROVE  /\ q.from[phi] \in Seq(Blocks(q)) /\ DOMAIN q.args[phi] = DOMAIN q.from[phi]
               /\ \A c \in Blocks(q) : b \in Range(q.succ[c]) => c \in Range(q.from[phi])
    <3>1. phi \in Phis(p, b) /\ b \in Blocks(p) /\ phi \in Insts(p)
      BY <1>1, PhisAreInsts
    <3>2. /\ p.from[phi] \in Seq(Blocks(p)) /\ DOMAIN p.args[phi] = DOMAIN p.from[phi]
          /\ \A c \in Blocks(p) : b \in Range(p.succ[c]) => c \in Range(p.from[phi])
      BY <3>1 DEF IsFunction
    <3> QED
      BY <1>1, <2>2, <3>1, <3>2 DEF Rewired
  <2>4. /\ IsFiniteSet(Insts(q)) /\ \A I \in Insts(q) : I \in Nat /\ IsInst(I)
    <3>1. IsFiniteSet(Insts(p)) /\ \A I \in Insts(p) : I \in Nat /\ IsInst(I)
      BY DEF IsFunction
    <3> QED
      BY <1>1, <3>1
  <2>5. /\ q.body \in Seq(Seq(Insts(q))) /\ q.body # <<>>
        /\ q.succ \in [Blocks(q) -> Seq(Blocks(q))]
    BY <1>1 DEF IsFunction, Rewired
  <2>6. /\ \A I \in Insts(q) : \E b \in Blocks(q) : \E j \in DOMAIN q.body[b] : q.body[b][j] = I
        /\ \A b, c \in Blocks(q) : \A i \in DOMAIN q.body[b], j \in DOMAIN q.body[c] :
             q.body[b][i] = q.body[c][j] => b = c /\ i = j
    <3>1. \A I \in Insts(p) : \E b \in Blocks(p) : \E j \in DOMAIN p.body[b] : p.body[b][j] = I
      BY DEF IsFunction
    <3>2. \A b, c \in Blocks(p) : \A i \in DOMAIN p.body[b], j \in DOMAIN p.body[c] :
            p.body[b][i] = p.body[c][j] => b = c /\ i = j
      BY DEF IsFunction
    <3>3. q.body = p.body
      BY DEF Rewired
    <3> QED
      BY <1>1, <3>1, <3>2, <3>3
  <2>7. \A b \in Blocks(q) :
          /\ q.body[b] # <<>> /\ ~IsPhi(q, getTerminator(q, b))
          /\ \A i \in DOMAIN q.body[b] : IsPhi(q, q.body[b][i]) =>
               \A j \in 1..i : IsPhi(q, q.body[b][j])
    <3>1. \A b \in Blocks(p) :
            /\ p.body[b] # <<>> /\ ~IsPhi(p, getTerminator(p, b))
            /\ \A i \in DOMAIN p.body[b] : IsPhi(p, p.body[b][i]) =>
                 \A j \in 1..i : IsPhi(p, p.body[b][j])
      BY DEF IsFunction
    <3>2. q.body = p.body /\ \A b : getTerminator(q, b) = getTerminator(p, b)
      BY DEF Rewired, getTerminator
    <3> QED
      BY <1>1, <3>1, <3>2
  <2> QED
    BY <2>1, <2>3, <2>4, <2>5, <2>6, <2>7 DEF IsFunction
<1> QED
  BY <1>4, <1>5, <1>6, <1>7 DEF Reread

\* Where w can be read it can be an operand.
LEMMA RewiringKeepsWellFormed ==
  ASSUME NEW p, IsFunction(p), WellFormed(p), HasFields(p), NEW u \in Insts(p),
         NEW K \in SUBSET DOMAIN p.args[u],
         NEW w \in Insts(p), \A k \in K : Fits(p, u, k, w), NEW q, Rewired(p, q, u, K, w)
  PROVE  WellFormed(q)
<1>1. /\ Insts(q) = Insts(p) /\ Blocks(q) = Blocks(p) /\ \A I : IsPhi(q, I) <=> IsPhi(p, I)
      /\ \A b : Phis(q, b) = Phis(p, b)
      /\ \A I : BlockOf(q, I) = BlockOf(p, I)
      /\ \A x, y : DefDominates(q, x, y) <=> DefDominates(p, x, y)
      /\ \A b : isPotentiallyReachable(q, b) <=> isPotentiallyReachable(p, b)
      /\ \A a, b : Dominates(q, a, b) <=> Dominates(p, a, b)
      /\ \A b : getTerminator(q, b) = getTerminator(p, b)
  BY RewiredPlaces
<1>2. /\ DOMAIN q.args[u] = DOMAIN p.args[u]
      /\ \A k \in DOMAIN p.args[u] : q.args[u][k] = IF k \in K THEN w ELSE p.args[u][k]
      /\ \A I \in Insts(p) \ {u} : q.args[I] = p.args[I]
  <2>1. Reread(p, q, u, K, w)
    BY RewiredIsFunction
  <2> QED
    BY <2>1 DEF Reread
<1>3. Phis(q, 1) = {} /\ \A b \in Blocks(q) : 1 \notin Range(q.succ[b])
  BY <1>1 DEF WellFormed, Rewired
<1>4. ASSUME NEW b \in Blocks(q)
      PROVE  /\ q.kind[getTerminator(q, b)] \in Terminators
             /\ \A i \in 1..(Len(q.body[b]) - 1) : q.kind[q.body[b][i]] \notin Terminators
             /\ \A i \in DOMAIN q.body[b] : IsPhi(q, q.body[b][i]) =>
                  \A j \in 1..i : IsPhi(q, q.body[b][j])
             /\ \A phi \in Phis(q, b) :
                  Range(q.from[phi]) = {c \in Blocks(q) : b \in Range(q.succ[c])}
  BY <1>1 DEF WellFormed, Rewired
<1>5. ASSUME NEW I \in Insts(q), IsPhi(q, I), NEW i \in DOMAIN q.args[I]
      PROVE  LET v == q.args[I][i] IN
             \/ ~IsInst(v)
             \/ ~isPotentiallyReachable(q, q.from[I][i])
             \/ BlockOf(q, v) = q.from[I][i]
             \/ Dominates(q, BlockOf(q, v), q.from[I][i])
  <2>1. I \in Insts(p) /\ IsPhi(p, I) /\ q.from[I] = p.from[I] /\ i \in DOMAIN p.args[I]
    BY <1>1, <1>2, <1>5 DEF Rewired
  <2>2. LET v == p.args[I][i] IN
        \/ ~IsInst(v)
        \/ ~isPotentiallyReachable(p, p.from[I][i])
        \/ BlockOf(p, v) = p.from[I][i]
        \/ Dominates(p, BlockOf(p, v), p.from[I][i])
    BY <2>1 DEF WellFormed
  <2>3. CASE I = u /\ i \in K
    <3>1. q.args[I][i] = w
      BY <1>2, <2>3
    <3> QED
      BY <1>1, <2>1, <2>3, <3>1 DEF Fits
  <2>4. CASE ~(I = u /\ i \in K)
    <3>1. q.args[I][i] = p.args[I][i]
      BY <1>2, <2>1, <2>4
    <3> QED
      BY <1>1, <2>1, <2>2, <3>1
  <2> QED
    BY <2>3, <2>4
<1>6. ASSUME NEW I \in Insts(q), ~IsPhi(q, I), NEW v \in Operands(q, I)
      PROVE  DefDominates(q, v, I) \/ ~isPotentiallyReachable(q, BlockOf(q, I))
  <2>1. I \in Insts(p) /\ ~IsPhi(p, I)
    BY <1>1, <1>6
  <2>2. \/ I = u /\ v = w /\ \E k \in K : TRUE
        \/ v \in Operands(p, I)
    BY <1>2, <1>6, <2>1 DEF Operands, Range
  <2>3. CASE I = u /\ v = w /\ \E k \in K : TRUE
    BY <1>1, <2>1, <2>3 DEF Fits, Available
  <2>4. CASE v \in Operands(p, I)
    <3>1. DefDominates(p, v, I) \/ ~isPotentiallyReachable(p, BlockOf(p, I))
      BY <2>1, <2>4 DEF WellFormed
    <3> QED
      BY <1>1, <3>1
  <2> QED
    BY <2>2, <2>3, <2>4
<1> QED
  BY <1>3, <1>4, <1>5, <1>6 DEF WellFormed

\* An operand of an instruction that is no move can become any value that can be read there.
LEMMA RewiringIsSound ==
  ASSUME NEW p, Sound(p), NEW u \in Insts(p), p.kind[u] # "move",
         NEW K \in SUBSET DOMAIN p.args[u],
         NEW w \in Insts(p), \A k \in K : Fits(p, u, k, w), NEW q, Rewired(p, q, u, K, w)
  PROVE  Sound(q) /\ Grown(p, q)
<1>1. IsFunction(p) /\ WellFormed(p) /\ MovesEnd(p) /\ HasFields(p)
  BY DEF Sound
<1>2. /\ Insts(q) = Insts(p) /\ Blocks(q) = Blocks(p)
      /\ \A I : isMoveInst(q, I) <=> isMoveInst(p, I)
      /\ \A I : BlockOf(q, I) = BlockOf(p, I)
      /\ \A x, y : DefDominates(q, x, y) <=> DefDominates(p, x, y)
      /\ \A b : isPotentiallyReachable(q, b) <=> isPotentiallyReachable(p, b)
      /\ \A b : getTerminator(q, b) = getTerminator(p, b)
  BY RewiredPlaces
<1>3. /\ IsFunction(q)
      /\ DOMAIN q.args = Insts(p) /\ \A I \in Insts(p) : q.args[I] \in Seq(Int)
      /\ \A I \in Insts(p) \ {u} : q.args[I] = p.args[I]
  <2>1. IsFunction(p) /\ HasFields(p)
    BY <1>1
  <2>2. IsFunction(q) /\ Reread(p, q, u, K, w)
    BY <2>1, RewiredIsFunction
  <2> QED
    BY <2>2 DEF Reread
<1>4. WellFormed(q)
  BY <1>1, RewiringKeepsWellFormed
<1>5. SameMoves(p, q)
  BY <1>2, <1>3 DEF SameMoves, isMoveInst
<1>6. MovesEnd(q)
  BY <1>1, <1>3, <1>5, MovesStillEnd
<1>7. \A v \in Insts(p) : Root(q, v) = Root(p, v)
  BY <1>1, <1>3, <1>5, RootsStay
<1>8. q.kind = p.kind /\ q.type = p.type /\ DOMAIN q = DOMAIN p /\ q.from = p.from
  BY DEF Rewired
<1>9. \A v \in Insts(p) : isReg(q, v) = isReg(p, v)
  BY <1>2, <1>7, <1>8 DEF isReg
<1>10. HasFields(q)
  <2>1. \A I \in Regs(q) : q.type[I] \in ValueTypes
    BY <1>1, <1>2, <1>8, <1>9 DEF HasFields, Regs
  <2> QED
    BY <1>1, <1>2, <1>3, <1>8, <2>1 DEF HasFields
<1> QED
  BY <1>2, <1>3, <1>4, <1>6, <1>7, <1>8, <1>9, <1>10 DEF Sound, Grown

\* w takes the place of operands K of u that are no instructions; it fits there, and the moves of w
\* itself end at once: the cached constant put where a use of it was.
Retargets(p, q, u, K, w) ==
  /\ Sound(p)
  /\ \A I \in Insts(p) : isMoveInst(p, I) => p.type[I] \in ValueTypes
  /\ u \in Insts(p) /\ K \in SUBSET DOMAIN p.args[u]
  /\ \A k \in K : ~IsInst(p.args[u][k])
  /\ w \in Insts(p) /\ w # u
  /\ \A k \in K : Fits(p, u, k, w)
  /\ isMoveInst(p, w) => p.args[w][1] \in Insts(p) /\ ~isMoveInst(p, p.args[w][1])
  /\ Rewired(p, q, u, K, w)

\* What one program finds in a register through moves, the other finds there too.
KeepsRoots(p, q) == \A x \in Insts(p) : IsInst(Root(p, x)) => Root(q, x) = Root(p, x)

\* When a value takes the place of operands that are no instructions, what was in a register stays in it,
\* be it through moves; and chains of moves still end.
LEMMA RewiringMoves ==
  ASSUME NEW p, NEW q, NEW u, NEW K, NEW w, Retargets(p, q, u, K, w)
  PROVE  Sound(q) /\ KeepsRoots(p, q)
<1>r. /\ Sound(p) /\ Rewired(p, q, u, K, w)
      /\ \A I \in Insts(p) : isMoveInst(p, I) => p.type[I] \in ValueTypes
      /\ u \in Insts(p) /\ K \in SUBSET DOMAIN p.args[u] /\ w \in Insts(p) /\ w # u
      /\ \A k \in K : ~IsInst(p.args[u][k])
      /\ \A k \in K : Fits(p, u, k, w)
      /\ isMoveInst(p, w) => p.args[w][1] \in Insts(p) /\ ~isMoveInst(p, p.args[w][1])
  BY DEF Retargets
<1> USE <1>r
<1>1. IsFunction(p) /\ WellFormed(p) /\ MovesEnd(p) /\ HasFields(p)
  BY <1>r DEF Sound
<1>2. Insts(q) = Insts(p) /\ \A I : isMoveInst(q, I) <=> isMoveInst(p, I)
  BY RewiredPlaces
<1>3. IsFunction(q) /\ Reread(p, q, u, K, w)
  BY <1>1, RewiredIsFunction
<1>4. DOMAIN q.args = Insts(p)
  BY <1>3 DEF Reread
<1>5. \A I \in Insts(p) : q.args[I] \in Seq(Int)
  BY <1>3 DEF Reread
<1>6. \A I \in Insts(p) \ {u} : q.args[I] = p.args[I]
  BY <1>3 DEF Reread
<1>7. DOMAIN q.args[u] = DOMAIN p.args[u]
  BY <1>3 DEF Reread
<1>8. \A k \in DOMAIN p.args[u] : q.args[u][k] = IF k \in K THEN w ELSE p.args[u][k]
  BY <1>3 DEF Reread
<1>9. WellFormed(q)
  BY <1>1, RewiringKeepsWellFormed
<1>10. IsFiniteSet(Insts(p)) /\ \A I \in Insts(p) : I \in Int /\ IsInst(I)
  BY <1>1 DEF IsFunction
<1>11. \A I \in Insts(p) : isMoveInst(p, I) =>
          /\ p.args[I] # <<>> /\ 1 \in DOMAIN p.args[I] /\ p.args[I][1] \in Int
          /\ p.args[I][1] \in Insts(p) \/ ~IsInst(p.args[I][1])
  BY <1>1, MoveOperand
<1>12. \A I \in Insts(p) : isMoveInst(p, I) =>
          \/ q.args[I][1] = p.args[I][1]
          \/ I = u /\ q.args[I][1] = w /\ ~IsInst(p.args[I][1])
  BY <1>6, <1>8, <1>11
<1>13. \A I \in Insts(q) : isMoveInst(q, I) => q.args[I] # <<>> /\ q.args[I][1] \in Int
  <2> SUFFICES ASSUME NEW I \in Insts(p), isMoveInst(p, I)
               PROVE  q.args[I] # <<>> /\ q.args[I][1] \in Int
    BY <1>2
  <2>1. 1 \in DOMAIN q.args[I]
    BY <1>6, <1>7, <1>11
  <2>2. q.args[I][1] \in Int
    BY <1>10, <1>11, <1>12
  <2> QED
    BY <2>1, <2>2
<1>14. ASSUME NEW T \in SUBSET Insts(q),
              \A I \in Insts(q) : ~isMoveInst(q, I) => I \in T,
              \A I \in Insts(q) : isMoveInst(q, I) /\ q.args[I][1] \notin Insts(q) \ T => I \in T
       PROVE  T = Insts(q)
  <2>1. T \in SUBSET Insts(p) /\ \A I \in Insts(p) : ~isMoveInst(p, I) => I \in T
    BY <1>2, <1>14
  <2>2. w \in T
    <3>1. CASE ~isMoveInst(p, w)
      BY <2>1, <3>1
    <3>2. CASE isMoveInst(p, w)
      <4>1. p.args[w][1] \in T
        BY <2>1, <3>2
      <4>2. q.args[w][1] = p.args[w][1]
        BY <1>6
      <4> QED
        BY <1>2, <1>14, <3>2, <4>1, <4>2
    <3> QED
      BY <3>1, <3>2
  <2>3. \A I \in Insts(p) : isMoveInst(p, I) /\ p.args[I][1] \notin Insts(p) \ T => I \in T
    BY <1>2, <1>12, <1>14, <2>2
  <2>4. T = Insts(p)
    BY <1>1, <2>1, <2>3, MovesReachAll
  <2> QED
    BY <1>2, <2>4
<1>15. MovesEnd(q)
  <2>1. IsFiniteSet(Insts(q))
    BY <1>2, <1>10
  <2> QED
    BY <1>13, <1>14, <2>1, MovesEndIf
<1>16. \A x \in Insts(p) : IsInst(Root(p, x)) => Root(q, x) = Root(p, x)
  <2> DEFINE T == {I \in Insts(p) : IsInst(Root(p, I)) => Root(q, I) = Root(p, I)}
  <2>1. \A v \in Int : Root(p, v) = IF isMoveInst(p, v) THEN Root(p, p.args[v][1]) ELSE v
    BY <1>1, RootSteps
  <2>2. \A v \in Int : Root(q, v) = IF isMoveInst(q, v) THEN Root(q, q.args[v][1]) ELSE v
    BY <1>3, <1>15, RootSteps
  <2>3. \A I \in Insts(p) : ~isMoveInst(p, I) => I \in T
    BY <1>2, <1>10, <2>1, <2>2
  <2>4. ASSUME NEW I \in Insts(p), isMoveInst(p, I), p.args[I][1] \notin Insts(p) \ T PROVE I \in T
    <3>1. Root(p, I) = Root(p, p.args[I][1])
      BY <1>10, <2>1, <2>4
    <3>2. CASE ~IsInst(p.args[I][1])
      <4>1. ~isMoveInst(p, p.args[I][1])
        BY <1>10, <3>2 DEF isMoveInst
      <4>2. Root(p, I) = p.args[I][1]
        BY <1>11, <2>1, <2>4, <3>1, <4>1
      <4> QED
        BY <3>2, <4>2
    <3>3. CASE IsInst(p.args[I][1])
      <4>1. p.args[I][1] \in T
        BY <1>11, <2>4, <3>3
      <4>2. q.args[I][1] = p.args[I][1]
        BY <1>12, <2>4, <3>3
      <4>3. Root(q, I) = Root(q, p.args[I][1])
        BY <1>2, <1>10, <2>2, <2>4, <4>2
      <4> QED
        BY <3>1, <4>1, <4>3
    <3> QED
      BY <3>2, <3>3
  <2>5. T \in SUBSET Insts(p)
    OBVIOUS
  <2> HIDE DEF T
  <2>6. T = Insts(p)
    BY <1>1, <2>3, <2>4, <2>5, MovesReachAll
  <2> QED
    BY <2>6 DEF T
<1>17. HasFields(q)
  <2>1. q.kind = p.kind /\ q.type = p.type /\ DOMAIN q = DOMAIN p /\ q.from = p.from
    BY DEF Rewired
  <2>2. ASSUME NEW I \in Regs(q) PROVE q.type[I] \in ValueTypes
    <3>1. I \in Insts(p) /\ isReg(q, I)
      BY <1>2, <2>2 DEF Regs
    <3>2. CASE isMoveInst(p, I)
      BY <2>1, <3>1, <3>2
    <3>3. CASE ~isMoveInst(p, I)
      <4>1. \A v \in Int : Root(q, v) = IF isMoveInst(q, v) THEN Root(q, q.args[v][1]) ELSE v
        BY <1>3, <1>15, RootSteps
      <4>2. \A v \in Int : Root(p, v) = IF isMoveInst(p, v) THEN Root(p, p.args[v][1]) ELSE v
        BY <1>1, RootSteps
      <4>3. Root(q, I) = I /\ Root(p, I) = I
        BY <1>2, <1>10, <3>1, <3>3, <4>1, <4>2
      <4>4. isReg(p, I)
        BY <1>2, <2>1, <3>1, <4>3 DEF isReg
      <4> QED
        BY <1>1, <2>1, <3>1, <4>4 DEF HasFields, Regs
    <3> QED
      BY <3>2, <3>3
  <2>3. {"body", "succ", "kind", "args", "from", "type", "cmap"} \subseteq DOMAIN q
    BY <1>1, <2>1 DEF HasFields
  <2>4. DOMAIN q.args = Insts(q) /\ DOMAIN q.from = Insts(q) /\ DOMAIN q.type = Insts(q)
    BY <1>1, <1>2, <1>4, <2>1 DEF HasFields
  <2> QED
    BY <1>2, <1>5, <2>2, <2>3, <2>4 DEF HasFields
<1> QED
  BY <1>3, <1>9, <1>15, <1>16, <1>17 DEF Sound, KeepsRoots
=============================================================================
