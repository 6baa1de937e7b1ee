------------------------ MODULE PrepareFunctionProofs ------------------------
(***************************************************************************)
(* That the stage keeps all that is asked of it, for every function it may *)
(* be called with, and ends with a function registers can be allocated     *)
(* for.  The argument follows the passes: PHIPreprocess keeps PhiInv, in   *)
(* which the operands dealt with so far have what the current pass gives   *)
(* them; what the first function ConstantSplit meets needs follows from    *)
(* PhiInv; and ConstantSplit keeps SplitInv, in which the cache stands in  *)
(* front of what has still to be visited.                                  *)
(***************************************************************************)
EXTENDS PrepareFunction, SSAProofs

-----------------------------------------------------------------------------
\* The order in which the loops of a pass come to instructions.

\* f lists what FlattenSeq makes of the first elements of s.
Joined(a, b) == a \o b
Flattens(s, n, f) == f = [i \in 1..n |-> IF i = 1 THEN s[i] ELSE Joined(f[i - 1], s[i])]

\* The elements of the one sequence, then those of the other.
LEMMA JoinedElements ==
  ASSUME NEW T, NEW a \in Seq(T), NEW b \in Seq(T)
  PROVE  /\ Joined(a, b) \in Seq(T) /\ Len(a) \in Nat /\ Len(b) \in Nat
         /\ Len(Joined(a, b)) = Len(a) + Len(b)
         /\ \A k \in 1..(Len(a) + Len(b)) :
              Joined(a, b)[k] = IF k <= Len(a) THEN a[k] ELSE b[k - Len(a)]
BY ConcatProperties, LenProperties DEF Joined

\* It exists.
LEMMA FlatteningExists ==
  ASSUME NEW T, NEW s \in Seq(Seq(T)), NEW n \in 1..Len(s)
  PROVE  \E f \in [1..n -> Seq(T)] : Flattens(s, n, f)
<1> DEFINE Bad == {m \in 1..Len(s) : ~ \E f \in [1..m -> Seq(T)] : Flattens(s, m, f)}
<1>1. SUFFICES ASSUME Bad # {} PROVE FALSE
  OBVIOUS
<1>2. Len(s) \in Nat /\ \A i \in 1..Len(s) : s[i] \in Seq(T)
  BY ElementOfSeq, LenProperties
<1>3. Bad \in SUBSET Nat
  BY <1>2
<1>4. PICK m \in Bad : \A k \in Bad : m <= k
  <2> HIDE DEF Bad
  <2> QED
    BY <1>1, <1>3, LeastNatural
<1>5. m \in 1..Len(s) /\ m \in Nat
  BY <1>2
<1>6. CASE m = 1
  <2> DEFINE f == [i \in 1..m |-> s[i]]
  <2>1. f \in [1..m -> Seq(T)]
    BY <1>2, <1>5
  <2>2. f = [i \in 1..m |-> IF i = 1 THEN s[i] ELSE Joined(f[i - 1], s[i])]
    BY <1>6
  <2> QED
    BY <2>1, <2>2 DEF Flattens
<1>7. CASE m # 1
  <2>1. m - 1 \in 1..Len(s) /\ m - 1 \notin Bad
    <3>1. m - 1 \in 1..Len(s) /\ ~(m <= m - 1)
      BY <1>5, <1>7, <1>2
    <3> HIDE DEF Bad
    <3> QED
      BY <1>4, <3>1
  <2>2. PICK g \in [1..(m - 1) -> Seq(T)] : Flattens(s, m - 1, g)
    BY <2>1
  <2> DEFINE f == [i \in 1..m |-> IF i = m THEN Joined(g[m - 1], s[m]) ELSE g[i]]
  <2>3. g[m - 1] \in Seq(T) /\ s[m] \in Seq(T)
    BY <1>2, <1>5, <1>7
  <2>4. Joined(g[m - 1], s[m]) \in Seq(T)
    BY <2>3, JoinedElements
  <2>5. f \in [1..m -> Seq(T)]
    <3>1. \A i \in 1..m : i # m => i \in 1..(m - 1)
      BY <1>5
    <3> QED
      BY <2>4, <3>1
  <2>6. \A i \in 1..m : f[i] = IF i = 1 THEN s[i] ELSE Joined(f[i - 1], s[i])
    <3> TAKE i \in 1..m
    <3>1. CASE i = m
      BY <1>5, <1>7, <3>1
    <3>2. CASE i # m
      <4>1. i \in 1..(m - 1)
        BY <1>5, <3>2
      <4>2. g[i] = IF i = 1 THEN s[i] ELSE Joined(g[i - 1], s[i])
        BY <2>2, <4>1 DEF Flattens
      <4>3. i # 1 => i - 1 \in 1..m /\ i - 1 # m
        BY <1>5, <4>1
      <4> QED
        BY <3>2, <4>2, <4>3
    <3> QED
      BY <3>1, <3>2
  <2>7. f = [i \in 1..m |-> IF i = 1 THEN s[i] ELSE Joined(f[i - 1], s[i])]
    <3>1. f = [i \in 1..m |-> f[i]]
      OBVIOUS
    <3> HIDE DEF f
    <3> QED
      BY <2>6, <3>1
  <2> HIDE DEF f
  <2>8. Flattens(s, m, f)
    BY <2>7 DEF Flattens
  <2> QED
    BY <2>5, <2>8
<1> QED
  BY <1>6, <1>7

\* What FlattenSeq returns, as the last element of a list.
LEMMA FlattenSteps ==
  ASSUME NEW T, NEW s \in Seq(Seq(T)), s # <<>>
  PROVE  \E f \in [1..Len(s) -> Seq(T)] :
           /\ FlattenSeq(s) = f[Len(s)] /\ f[1] = s[1]
           /\ \A i \in 2..Len(s) : f[i] = Joined(f[i - 1], s[i])
<1>1. Len(s) \in Nat /\ Len(s) # 0
  BY EmptySeq, LenProperties
<1> DEFINE g == CHOOSE f : f = [i \in 1..Len(s) |-> IF i = 1 THEN s[i] ELSE f[i - 1] \o s[i]]
<1>2. PICK f \in [1..Len(s) -> Seq(T)] : Flattens(s, Len(s), f)
  <2>1. Len(s) \in 1..Len(s)
    BY <1>1
  <2> QED
    BY <2>1, FlatteningExists
<1>3. Flattens(s, Len(s), g)
  BY <1>2, Zenon DEF Flattens, Joined
<1>4. FlattenSeq(s) = g[Len(s)]
  BY <1>1 DEF FlattenSeq
<1> HIDE DEF g
<1>5. DOMAIN g = 1..Len(s)
  BY <1>3 DEF Flattens
<1>6. \A i \in 1..Len(s) : g[i] = IF i = 1 THEN s[i] ELSE Joined(g[i - 1], s[i])
  BY <1>3 DEF Flattens
<1>7. g[1] = s[1]
  BY <1>1, <1>6
<1>8. \A i \in 2..Len(s) : g[i] = Joined(g[i - 1], s[i])
  <2> TAKE i \in 2..Len(s)
  <2>1. i \in 1..Len(s) /\ i # 1
    BY <1>1
  <2> QED
    BY <1>6, <2>1
<1>9. \A i \in 1..Len(s) : g[i] \in Seq(T)
  <2> DEFINE Bad == {m \in 1..Len(s) : g[m] \notin Seq(T)}
  <2>1. SUFFICES ASSUME Bad # {} PROVE FALSE
    OBVIOUS
  <2>2. PICK m \in Bad : \A k \in Bad : m <= k
    <3>1. Bad \in SUBSET Nat
      BY <1>1
    <3> HIDE DEF Bad
    <3> QED
      BY <2>1, <3>1, LeastNatural
  <2>3. \A i \in 1..Len(s) : s[i] \in Seq(T)
    BY ElementOfSeq
  <2>4. m \in 1..Len(s) /\ m # 1 /\ g[m] \notin Seq(T)
    BY <1>1, <1>7, <2>3
  <2>5. m - 1 \in 1..Len(s) /\ m \in 2..Len(s) /\ ~(m <= m - 1)
    BY <1>1, <2>4
  <2>6. g[m - 1] \in Seq(T)
    BY <2>2, <2>5
  <2> HIDE DEF Bad
  <2>7. Joined(g[m - 1], s[m]) \in Seq(T)
    BY <2>3, <2>4, <2>6, JoinedElements
  <2> QED
    BY <1>8, <2>4, <2>5, <2>7
<1>10. g \in [1..Len(s) -> Seq(T)]
  <2>1. g = [i \in 1..Len(s) |-> g[i]]
    BY <1>3 DEF Flattens
  <2> QED
    BY <1>9, <2>1
<1> QED
  BY <1>4, <1>7, <1>8, <1>10

\* y stands after x in the sequences s.
After(s, x, y) ==
  \E b, c \in 1..Len(s) : \E j \in 1..Len(s[b]), k \in 1..Len(s[c]) :
    s[b][j] = x /\ s[c][k] = y /\ (b < c \/ (b = c /\ j < k))

\* The elements of the sequences one after the other.
LEMMA Flattened ==
  ASSUME NEW T, NEW s \in Seq(Seq(T))
  PROVE  /\ FlattenSeq(s) \in Seq(T)
         /\ \A m \in 1..Len(FlattenSeq(s)) :
              \E b \in 1..Len(s) : \E k \in 1..Len(s[b]) : s[b][k] = FlattenSeq(s)[m]
         /\ \A b \in 1..Len(s) : \A k \in 1..Len(s[b]) :
              \E m \in 1..Len(FlattenSeq(s)) : FlattenSeq(s)[m] = s[b][k]
         /\ \A m, n \in 1..Len(FlattenSeq(s)) : m < n => After(s, FlattenSeq(s)[m], FlattenSeq(s)[n])
<1>1. Len(s) \in Nat /\ \A i \in 1..Len(s) : s[i] \in Seq(T) /\ Len(s[i]) \in Nat
  BY ElementOfSeq, LenProperties
<1>2. CASE s = <<>>
  <2>1. Len(s) = 0
    BY <1>2
  <2>2. FlattenSeq(s) = <<>>
    BY <1>2, <2>1 DEF FlattenSeq
  <2>3. 1..Len(FlattenSeq(s)) = {} /\ 1..Len(s) = {} /\ <<>> \in Seq(T)
    BY <2>1, <2>2
  <2> QED
    BY <2>2, <2>3
<1>3. CASE s # <<>>
  <2>1. PICK f \in [1..Len(s) -> Seq(T)] :
           /\ FlattenSeq(s) = f[Len(s)] /\ f[1] = s[1]
           /\ \A i \in 2..Len(s) : f[i] = Joined(f[i - 1], s[i])
    BY <1>3, FlattenSteps
  <2>2. \A i \in 1..Len(s) : f[i] \in Seq(T) /\ Len(f[i]) \in Nat
    BY LenProperties
  <2>20. \A a, b \in Seq(T) : /\ Len(a) \in Nat /\ Len(b) \in Nat
                               /\ Len(Joined(a, b)) = Len(a) + Len(b)
                               /\ \A k \in 1..(Len(a) + Len(b)) : Joined(a, b)[k] =
                                    IF k <= Len(a) THEN a[k] ELSE b[k - Len(a)]
    BY JoinedElements
  <2> DEFINE Comes(i) == \A m \in 1..Len(f[i]) :
                           \E b \in 1..i : \E k \in 1..Len(s[b]) : s[b][k] = f[i][m]
             Stands(i) == \A b \in 1..i : \A k \in 1..Len(s[b]) :
                            \E m \in 1..Len(f[i]) : f[i][m] = s[b][k]
             Ordered(i) == \A m, n \in 1..Len(f[i]) : m < n =>
                             \E b, c \in 1..i : \E j \in 1..Len(s[b]), k \in 1..Len(s[c]) :
                               /\ s[b][j] = f[i][m] /\ s[c][k] = f[i][n]
                               /\ b < c \/ (b = c /\ j < k)
             Good(i) == Comes(i) /\ Stands(i) /\ Ordered(i)
             Bad == {i \in 1..Len(s) : ~Good(i)}
  <2>3. Len(s) \in 1..Len(s)
    BY <1>1, <1>3, EmptySeq
  <2>4. SUFFICES ASSUME Bad # {} PROVE FALSE
    <3>1. Comes(Len(s)) /\ Stands(Len(s)) /\ Ordered(Len(s))
      <4> HIDE DEF Comes, Stands, Ordered
      <4> QED
        BY <2>3, <2>4
    <3> HIDE DEF Comes, Stands, Ordered
    <3>2. FlattenSeq(s) = f[Len(s)] /\ f[Len(s)] \in Seq(T)
      BY <2>1, <2>2, <2>3
    <3>3. \A m \in 1..Len(f[Len(s)]) :
            \E b \in 1..Len(s) : \E k \in 1..Len(s[b]) : s[b][k] = f[Len(s)][m]
      BY <3>1 DEF Comes
    <3>4. \A b \in 1..Len(s) : \A k \in 1..Len(s[b]) :
            \E m \in 1..Len(f[Len(s)]) : f[Len(s)][m] = s[b][k]
      BY <3>1 DEF Stands
    <3>5. \A m, n \in 1..Len(f[Len(s)]) : m < n => After(s, f[Len(s)][m], f[Len(s)][n])
      BY <3>1 DEF Ordered, After
    <3> QED
      BY <3>2, <3>3, <3>4, <3>5
  <2>5. PICK i \in Bad : \A k \in Bad : i <= k
    <3>1. Bad \in SUBSET Nat
      BY <1>1
    <3> HIDE DEF Bad
    <3> QED
      BY <2>4, <3>1, LeastNatural
  <2>6. i \in 1..Len(s) /\ i \in Nat /\ ~(Comes(i) /\ Stands(i) /\ Ordered(i))
    <3> HIDE DEF Comes, Stands, Ordered
    <3> QED
      BY <1>1
  <2>7. CASE i = 1
    <3>1. f[1] = s[1] /\ 1 \in 1..1
      BY <2>1
    <3>2. Comes(1)
      BY <3>1
    <3>3. Stands(1)
      BY <3>1
    <3>4. Ordered(1)
      BY <3>1
    <3> HIDE DEF Comes, Stands, Ordered
    <3> QED
      BY <2>6, <2>7, <3>2, <3>3, <3>4
  <2>8. CASE i # 1
    <3> DEFINE h == i - 1
    <3>1. h \in 1..Len(s) /\ ~(i <= h) /\ i \in 2..Len(s) /\ i = h + 1 /\ h \in Nat
      BY <1>1, <2>6, <2>8
    <3> HIDE DEF h
    <3>2. Comes(h) /\ Stands(h) /\ Ordered(h)
      <4> HIDE DEF Comes, Stands, Ordered
      <4> QED
        BY <2>5, <3>1
    <3>3. f[i] = Joined(f[h], s[i])
      BY <2>1, <3>1 DEF h
    <3>4. f[h] \in Seq(T) /\ s[i] \in Seq(T)
      BY <1>1, <2>2, <2>6, <3>1
    <3> DEFINE L == Len(f[h])
               N == Len(s[i])
    <3>5. /\ L \in Nat /\ N \in Nat /\ Len(f[i]) = L + N
          /\ \A k \in 1..(L + N) : f[i][k] = IF k <= L THEN f[h][k] ELSE s[i][k - L]
      <4> HIDE DEF Comes, Stands, Ordered, Bad
      <4>1. L \in Nat /\ N \in Nat /\ Len(Joined(f[h], s[i])) = L + N
        BY <3>4, <2>20
      <4>2. \A k \in 1..(L + N) : Joined(f[h], s[i])[k] = IF k <= L THEN f[h][k] ELSE s[i][k - L]
        BY <3>4, <2>20
      <4> HIDE DEF L, N
      <4> QED
        BY <3>3, <4>1, <4>2
    <3> HIDE DEF L, N
    <3>6. /\ \A m \in 1..Len(f[i]) : \/ m \in 1..L /\ f[i][m] = f[h][m]
                                     \/ /\ m > L /\ m - L \in 1..N
                                        /\ f[i][m] = s[i][m - L]
          /\ \A m \in 1..L : m \in 1..Len(f[i]) /\ f[i][m] = f[h][m]
          /\ \A k \in 1..N : L + k \in 1..Len(f[i]) /\ f[i][L + k] = s[i][k]
      <4>1. ASSUME NEW k \in 1..N PROVE L + k \in 1..Len(f[i]) /\ f[i][L + k] = s[i][k]
        <5>1. L + k \in 1..(L + N) /\ ~(L + k <= L) /\ (L + k) - L = k
          BY <3>5
        <5> QED
          BY <3>5, <5>1
      <4>2. ASSUME NEW m \in 1..Len(f[i])
            PROVE  \/ m \in 1..L /\ f[i][m] = f[h][m]
                   \/ m > L /\ m - L \in 1..N /\ f[i][m] = s[i][m - L]
        BY <3>5
      <4>3. \A m \in 1..L : m \in 1..Len(f[i]) /\ f[i][m] = f[h][m]
        BY <3>5
      <4> QED
        BY <4>1, <4>2, <4>3
    <3>7. Comes(i)
      <4> SUFFICES ASSUME NEW m \in 1..Len(f[i])
                   PROVE  \E b \in 1..i : \E k \in 1..Len(s[b]) : s[b][k] = f[i][m]
        OBVIOUS
      <4>1. CASE m \in 1..L /\ f[i][m] = f[h][m]
        <5>1. PICK b \in 1..h : \E k \in 1..Len(s[b]) : s[b][k] = f[h][m]
          BY <3>2, <4>1 DEF L
        <5>2. b \in 1..i
          BY <3>1, <5>1
        <5> QED
          BY <4>1, <5>1, <5>2
      <4>2. CASE m - L \in 1..N /\ f[i][m] = s[i][m - L]
        <5>1. i \in 1..i
          BY <2>6
        <5> QED
          BY <4>2, <5>1 DEF N
      <4> QED
        BY <3>6, <4>1, <4>2
    <3>8. Stands(i)
      <4> SUFFICES ASSUME NEW b \in 1..i, NEW k \in 1..Len(s[b])
                   PROVE  \E m \in 1..Len(f[i]) : f[i][m] = s[b][k]
        OBVIOUS
      <4>1. CASE b \in 1..h
        <5>1. PICK m \in 1..L : f[h][m] = s[b][k]
          BY <3>2, <4>1 DEF L
        <5> QED
          BY <3>6, <5>1
      <4>2. CASE b = i
        BY <3>6, <4>2 DEF N
      <4>3. b \in 1..h \/ b = i
        BY <3>1
      <4> QED
        BY <4>1, <4>2, <4>3
    <3>9. Ordered(i)
      <4> SUFFICES ASSUME NEW m \in 1..Len(f[i]), NEW n \in 1..Len(f[i]), m < n
                   PROVE  \E b, c \in 1..i : \E j \in 1..Len(s[b]), k \in 1..Len(s[c]) :
                            /\ s[b][j] = f[i][m] /\ s[c][k] = f[i][n]
                            /\ b < c \/ (b = c /\ j < k)
        OBVIOUS
      <4>0. i \in 1..i /\ \A b \in 1..h : b \in 1..i /\ b < i
        BY <2>6, <3>1
      <4>1. CASE n \in 1..L
        <5>1. m \in 1..L /\ f[i][m] = f[h][m] /\ f[i][n] = f[h][n]
          BY <3>5, <3>6, <4>1
        <5>2. PICK b \in 1..h, c \in 1..h : \E j \in 1..Len(s[b]), k \in 1..Len(s[c]) :
                            /\ s[b][j] = f[h][m] /\ s[c][k] = f[h][n]
                            /\ b < c \/ (b = c /\ j < k)
          BY <3>2, <4>1, <5>1 DEF L
        <5> QED
          BY <4>0, <5>1, <5>2
      <4>2. CASE m \in 1..L /\ n \notin 1..L
        <5>1. n - L \in 1..N /\ f[i][n] = s[i][n - L] /\ f[i][m] = f[h][m]
          BY <3>6, <4>2
        <5>2. PICK b \in 1..h : \E j \in 1..Len(s[b]) : s[b][j] = f[h][m]
          BY <3>2, <4>2 DEF L
        <5> QED
          BY <4>0, <5>1, <5>2 DEF N
      <4>3. CASE m \notin 1..L
        <5>1. /\ m - L \in 1..N /\ f[i][m] = s[i][m - L]
              /\ n - L \in 1..N /\ f[i][n] = s[i][n - L] /\ m - L < n - L
          BY <3>5, <3>6, <4>3
        <5> DEFINE j == m - L
                   k == n - L
        <5>2. j \in 1..Len(s[i]) /\ k \in 1..Len(s[i]) /\ s[i][j] = f[i][m] /\ s[i][k] = f[i][n] /\ j < k
          BY <5>1 DEF N
        <5> HIDE DEF j, k
        <5> QED
          BY <4>0, <5>2
      <4> QED
        BY <4>1, <4>2, <4>3
    <3> HIDE DEF Comes, Stands, Ordered
    <3> QED
      BY <2>6, <3>7, <3>8, <3>9
  <2> QED
    BY <2>7, <2>8
<1> QED
  BY <1>2, <1>3

\* The instructions as the loops over the blocks of a function come to them: each once, and those of the
\* entry block first, from its first to its last.
LEMMA CodeInOrder ==
  ASSUME NEW p, IsFunction(p)
  PROVE  LET code == FlattenSeq(p.body) IN
         /\ code \in Seq(Insts(p))
         /\ \A I \in Insts(p) : \E m \in 1..Len(code) : code[m] = I
         /\ \A m, n \in 1..Len(code) : m < n =>
              /\ code[m] # code[n]
              /\ BlockOf(p, code[n]) = 1 =>
                   BlockOf(p, code[m]) = 1 /\ DefDominates(p, code[m], code[n])
<1> DEFINE code == FlattenSeq(p.body)
<1>1. p.body \in Seq(Seq(Insts(p))) /\ Blocks(p) = 1..Len(p.body) /\ Len(p.body) \in Nat
  BY BlocksFlow DEF IsFunction
<1>2. code \in Seq(Insts(p))
  BY <1>1, Flattened
<1>3. \A b \in 1..Len(p.body) : \A k \in 1..Len(p.body[b]) :
        \E m \in 1..Len(code) : code[m] = p.body[b][k]
  BY <1>1, Flattened
<1>4. \A m, n \in 1..Len(code) : m < n => After(p.body, code[m], code[n])
  BY <1>1, Flattened
<1> HIDE DEF code
<1>5. ASSUME NEW I \in Insts(p) PROVE \E m \in 1..Len(code) : code[m] = I
  <2>1. /\ BlockOf(p, I) \in 1..Len(p.body)
        /\ IndexOf(p, I) \in 1..Len(p.body[BlockOf(p, I)])
        /\ p.body[BlockOf(p, I)][IndexOf(p, I)] = I
    BY <1>1, Places
  <2> QED
    BY <1>3, <2>1
<1>6. ASSUME NEW m \in 1..Len(code), NEW n \in 1..Len(code), m < n
      PROVE  /\ code[m] # code[n]
             /\ BlockOf(p, code[n]) = 1 =>
                  BlockOf(p, code[m]) = 1 /\ DefDominates(p, code[m], code[n])
  <2>0. \E b, c \in 1..Len(p.body) : \E j \in 1..Len(p.body[b]), k \in 1..Len(p.body[c]) :
          /\ p.body[b][j] = code[m] /\ p.body[c][k] = code[n]
          /\ b < c \/ (b = c /\ j < k)
    BY <1>4, <1>6 DEF After
  <2>1. PICK b \in Blocks(p), c \in Blocks(p) :
               \E j \in 1..Len(p.body[b]), k \in 1..Len(p.body[c]) :
                 /\ p.body[b][j] = code[m] /\ p.body[c][k] = code[n]
                 /\ b < c \/ (b = c /\ j < k)
    BY <1>1, <2>0
  <2>2. PICK j \in 1..Len(p.body[b]), k \in 1..Len(p.body[c]) :
                 /\ p.body[b][j] = code[m] /\ p.body[c][k] = code[n]
                 /\ b < c \/ (b = c /\ j < k)
    BY <2>1
  <2>3. BlockOf(p, code[m]) = b /\ IndexOf(p, code[m]) = j
    BY <2>2, CodeOf
  <2>4. BlockOf(p, code[n]) = c /\ IndexOf(p, code[n]) = k
    BY <2>2, CodeOf
  <2>5. b \in Nat /\ c \in Nat /\ b >= 1 /\ c >= 1 /\ j \in Int /\ k \in Int
    BY <1>1
  <2>6. code[m] # code[n]
    BY <2>2, <2>3, <2>4, <2>5
  <2>7. c = 1 => b = 1 /\ j < k
    BY <2>2, <2>5
  <2> QED
    BY <2>3, <2>4, <2>6, <2>7 DEF DefDominates
<1> QED
  BY <1>2, <1>5, <1>6 DEF code

-----------------------------------------------------------------------------
\* The operands of phis, as pairs of the phi and the number of the operand, and what one reads.
Sources(p) == UNION {{<<phi, i>> : i \in DOMAIN p.args[phi]} : phi \in AllPhis(p)}
Read(p, o) == p.args[o[1]][o[2]]

\* The loops over the phis come to all of them.
LEMMA PhiOperandsAreSources ==
  ASSUME NEW p, IsFunction(p), HasFields(p)
  PROVE  /\ PhiOperands(p) \in Seq(Sources(p))
         /\ \A o \in Sources(p) : \E m \in 1..Len(PhiOperands(p)) : PhiOperands(p)[m] = o
<1> DEFINE code == FlattenSeq(p.body)
           T == Sources(p)
           ops(I) == [i \in 1..Len(p.args[I]) |-> <<I, i>>]
           s == [n \in 1..Len(code) |-> IF IsPhi(p, code[n]) THEN ops(code[n]) ELSE <<>>]
<1>1. code \in Seq(Insts(p)) /\ \A I \in Insts(p) : \E m \in 1..Len(code) : code[m] = I
  BY CodeInOrder
<1>2. PhiOperands(p) = FlattenSeq(s)
  BY DEF PhiOperands
<1> HIDE DEF code
<1>3. \A I \in Insts(p) : p.args[I] \in Seq(Int) /\ DOMAIN p.args[I] = 1..Len(p.args[I]) /\ Len(p.args[I]) \in Nat
  BY LenProperties DEF HasFields
<1>4. Len(code) \in Nat /\ \A n \in 1..Len(code) : code[n] \in Insts(p)
  BY <1>1, ElementOfSeq, LenProperties
<1>5. ASSUME NEW I \in AllPhis(p) PROVE ops(I) \in Seq(T) /\ Len(ops(I)) = Len(p.args[I])
  <2>1. I \in Insts(p)
    BY DEF AllPhis
  <2>2. \A i \in 1..Len(p.args[I]) : <<I, i>> \in T
    BY <1>3, <2>1 DEF Sources
  <2> HIDE DEF T
  <2> QED
    BY <1>3, <2>1, <2>2
<1> HIDE DEF T
<1>6. s \in Seq(Seq(T))
  <2>1. \A n \in 1..Len(code) : s[n] \in Seq(T)
    <3> TAKE n \in 1..Len(code)
    <3>1. CASE IsPhi(p, code[n])
      <4>1. code[n] \in AllPhis(p)
        BY <1>4, <3>1 DEF AllPhis
      <4>2. s[n] = ops(code[n])
        BY <3>1
      <4> HIDE DEF s, ops
      <4> QED
        BY <1>5, <4>1, <4>2
    <3>2. CASE ~IsPhi(p, code[n])
      <4>1. s[n] = <<>>
        BY <3>2
      <4> HIDE DEF s
      <4> QED
        BY <4>1
    <3> QED
      BY <3>1, <3>2
  <2>2. s = [n \in 1..Len(code) |-> s[n]]
    OBVIOUS
  <2> HIDE DEF s
  <2> QED
    BY <1>4, <2>1, <2>2
<1>7. Len(s) = Len(code)
  BY <1>4
<1>8. FlattenSeq(s) \in Seq(T)
  <2> HIDE DEF s
  <2> QED
    BY <1>6, Flattened
<1>9. ASSUME NEW o \in T PROVE \E m \in 1..Len(FlattenSeq(s)) : FlattenSeq(s)[m] = o
  <2>1. PICK phi \in AllPhis(p) : \E i \in DOMAIN p.args[phi] : o = <<phi, i>>
    BY DEF T, Sources
  <2>2. PICK i \in DOMAIN p.args[phi] : o = <<phi, i>>
    BY <2>1
  <2>3. phi \in Insts(p) /\ IsPhi(p, phi)
    BY DEF AllPhis
  <2>4. PICK n \in 1..Len(code) : code[n] = phi
    BY <1>1, <2>3
  <2>5. s[n] = ops(phi)
    BY <2>3, <2>4
  <2>6. Len(ops(phi)) = Len(p.args[phi])
    BY <1>5
  <2>7. i \in 1..Len(p.args[phi]) /\ ops(phi)[i] = o
    BY <1>3, <2>2, <2>3
  <2> HIDE DEF s, ops
  <2>8. n \in 1..Len(s) /\ i \in 1..Len(s[n]) /\ s[n][i] = o
    BY <1>7, <2>4, <2>5, <2>6, <2>7
  <2>9. \A b \in 1..Len(s) : \A k \in 1..Len(s[b]) :
          \E m \in 1..Len(FlattenSeq(s)) : FlattenSeq(s)[m] = s[b][k]
    BY <1>6, Flattened
  <2> QED
    BY <2>8, <2>9
<1> QED
  BY <1>2, <1>8, <1>9 DEF T

-----------------------------------------------------------------------------
\* Copies.

\* What the stage may meet and leaves: what it may be called with, but for the cache.
HasTypes(p) ==
  \A I \in Insts(p) : p.kind[I] \in {"phi", "move", "op", "const"} => p.type[I] \in ValueTypes

IsValue(p, v) == IF IsInst(v) THEN p.kind[v] \notin Terminators ELSE v = NoValue \/ v \in Constants

ReadsValues(p) == \A I \in Insts(p) : \A k \in DOMAIN p.args[I] : IsValue(p, p.args[I][k])

Legal(p) == Sound(p) /\ HasTypes(p) /\ ReadsValues(p)

\* The pool of constants.
LEMMA Pooled ==
  /\ DOMAIN Pool = 1..6 /\ Constants = {-1, -2, -3, -4, -5, -6}
  /\ Pool[1] = [type |-> "i64", value |-> 1] /\ Pool[2] = [type |-> "i32", value |-> 1]
  /\ Pool[3] = [type |-> "v4i64", value |-> 1] /\ Pool[4] = [type |-> "v8i32", value |-> 1]
  /\ Pool[5] = [type |-> "i64", value |-> 16] /\ Pool[6] = [type |-> "i32", value |-> 16]
<1>1. DOMAIN Pool = 1..6
  BY DEF Pool
<1>2. 1..6 = {1, 2, 3, 4, 5, 6}
  OBVIOUS
<1>3. Constants = {-1, -2, -3, -4, -5, -6}
  <2>1. Constants = {-k : k \in {1, 2, 3, 4, 5, 6}}
    BY <1>1, <1>2 DEF Constants
  <2> QED
    BY <2>1
<1> QED
  BY <1>1, <1>3 DEF Pool

\* It has the number 1 of every type but pointers.
LEMMA OnesArePooled ==
  ASSUME NEW type \in ValueTypes \ {"ptr"}
  PROVE  One(type) \in Constants
<1>1. \E k \in DOMAIN Pool : Pool[k] = [type |-> type, value |-> 1]
  BY Pooled DEF ValueTypes
<1> QED
  BY <1>1 DEF One, Constants

\* Constants are no instructions.
LEMMA ConstantsAreNegative == \A c \in Constants : c \in Int /\ c < 0 /\ ~IsInst(c) /\ c # NoValue
BY Pooled DEF IsInst, NoValue

\* v can be read, as a value, by an instruction in front of t.
ReadableAt(p, v, t) ==
  \/ Available(p, v, t) /\ p.kind[v] \notin Terminators
  \/ v = NoValue \/ v \in Constants

\* r is p with instructions more in front of t, each applied to v or another of them; J is the last.
Linked(p, r, t, v, J) ==
  /\ Legal(r) /\ Lengthened(p, r) /\ r.cmap = p.cmap
  /\ J \in Insts(r) /\ J \notin Insts(p) /\ Available(r, J, t) /\ r.kind[J] \in {"op", "move"}
  /\ \A w \in Insts(r) : w \notin Insts(p) =>
       /\ 1 \in DOMAIN r.args[w] /\ r.args[w][1] \in Int /\ r.args[w][1] < w
       /\ r.args[w][1] = v \/ (r.args[w][1] \in Insts(r) /\ r.args[w][1] \notin Insts(p))

\* A fresh instruction is greater than all there are.
LEMMA FreshIsGreatest ==
  ASSUME NEW p, IsFunction(p)
  PROVE  \A I \in Insts(p) : I < FreshInst(p)
<1>1. /\ IsFiniteSet(Insts(p)) /\ Insts(p) \in SUBSET Nat
      /\ FreshInst(p) \in Nat /\ Newest(p) \in Insts(p)
  BY FreshIsNew DEF IsFunction
<1>2. \A I \in Insts(p) : I <= Max(Insts(p))
  BY <1>1, GreatestNatural
<1>3. Max(Insts(p)) \in Nat
  BY <1>1 DEF Newest
<1> QED
  BY <1>1, <1>2, <1>3 DEF FreshInst

\* One link.
LEMMA AppliedLinks ==
  ASSUME NEW p, Legal(p), NEW t \in Insts(p), p.kind[t] \in Terminators,
         NEW v, ReadableAt(p, v, t), NEW kind \in {"op", "move"}, NEW type \in ValueTypes,
         kind = "op" => type # "ptr",
         NEW q, NEW J, <<q, J>> = Applied(<<p, v>>, t, kind, type)
  PROVE  /\ Linked(p, q, t, v, J) /\ q.kind[J] = kind /\ q.type[J] = type
         /\ kind = "op" => isReg(q, J) /\ Root(q, J) = J
         /\ kind = "move" => Root(q, J) = Root(q, v)
<1> DEFINE args == IF kind = "op" THEN <<v, One(type)>> ELSE <<v>>
<1>1. Sound(p) /\ IsFunction(p) /\ HasFields(p)
  BY DEF Legal, Sound
<1>2. J = FreshInst(p) /\ q = InsertBefore(p, t, J, kind, args, type)
  BY DEF Applied
<1>3. v \in Int /\ (IsInst(v) => v \in Insts(p) /\ p.kind[v] \notin Terminators /\ Available(p, v, t))
  <2>1. CASE Available(p, v, t) /\ p.kind[v] \notin Terminators
    BY <1>1, <2>1 DEF Available, IsFunction
  <2>2. CASE v = NoValue
    BY <2>2 DEF NoValue, IsInst
  <2>3. CASE v \in Constants
    BY <2>3, ConstantsAreNegative
  <2> QED
    BY <2>1, <2>2, <2>3 DEF ReadableAt
<1>4. /\ args \in Seq(Int) /\ 1 \in DOMAIN args /\ args[1] = v /\ args # <<>>
      /\ \A k \in DOMAIN args : args[k] = v \/ args[k] \in Constants
  <2>1. CASE kind = "op"
    <3>1. One(type) \in Constants
      BY <2>1, OnesArePooled
    <3>2. One(type) \in Int
      BY <3>1, ConstantsAreNegative
    <3> QED
      BY <1>3, <2>1, <3>1, <3>2
  <2>2. CASE kind = "move"
    BY <1>3, <2>2
  <2> QED
    BY <2>1, <2>2
<1> HIDE DEF args
<1>5. /\ InsertedInto(p, q, t, J) /\ q.kind[J] = kind /\ q.args[J] = args /\ q.type[J] = type
      /\ \A f \in DOMAIN p \ {"body", "kind", "args", "type", "from"} : q[f] = p[f]
  BY <1>1, <1>2, InsertBeforeInserts
<1>6. ~IsPhi(p, t)
  BY DEF IsPhi, Terminators
<1>7. \A u \in Operands(q, J) : u = v /\ IsInst(v)
  BY <1>4, <1>5, ConstantsAreNegative DEF Operands, Range
<1>8. \A u \in Operands(q, J) : Available(p, u, t)
  BY <1>3, <1>7
<1>9. /\ Sound(q) /\ Grown(p, q) /\ Available(q, J, t) /\ ~IsPhi(q, J)
      /\ q.kind[J] \in {"op", "const"} => isReg(q, J) /\ Root(q, J) = J
      /\ q.kind[J] = "move" => Root(q, J) = Root(q, q.args[J][1])
  BY <1>1, <1>4, <1>5, <1>6, <1>8, InsertionIsSound
<1>10. /\ \A I : I \in Insts(q) <=> I \in Insts(p) \/ I = J
       /\ \A I \in Insts(p) : /\ q.kind[I] = p.kind[I] /\ q.args[I] = p.args[I]
                              /\ q.type[I] = p.type[I] /\ q.from[I] = p.from[I]
  BY <1>5 DEF InsertedInto
<1>11. J \notin Insts(p) /\ \A I \in Insts(p) : I < J /\ IsInst(I)
  BY <1>1, <1>2, FreshIsNew, FreshIsGreatest DEF IsFunction
<1>12. HasTypes(q)
  BY <1>5, <1>10 DEF Legal, HasTypes
<1>13. ReadsValues(q)
  <2> SUFFICES ASSUME NEW I \in Insts(q), NEW k \in DOMAIN q.args[I] PROVE IsValue(q, q.args[I][k])
    BY DEF ReadsValues
  <2>1. CASE I \in Insts(p)
    <3>1. q.args[I] = p.args[I] /\ IsValue(p, p.args[I][k])
      BY <1>10, <2>1 DEF Legal, ReadsValues
    <3>2. IsInst(p.args[I][k]) => p.args[I][k] \in Insts(p)
      BY <1>1, <1>10, <2>1 DEF IsFunction, Operands, Range
    <3> QED
      BY <1>10, <3>1, <3>2 DEF IsValue
  <2>2. CASE I = J
    <3>1. q.args[I][k] = v \/ q.args[I][k] \in Constants
      BY <1>4, <1>5, <2>2
    <3>2. CASE q.args[I][k] \in Constants
      BY <3>2, ConstantsAreNegative DEF IsValue
    <3>3. CASE q.args[I][k] = v /\ IsInst(v)
      BY <1>3, <1>10, <3>3 DEF IsValue
    <3>4. CASE q.args[I][k] = v /\ ~IsInst(v)
      <4>1. v = NoValue \/ v \in Constants
        BY <1>1, <3>4 DEF ReadableAt, Available, IsFunction
      <4> QED
        BY <3>4, <4>1 DEF IsValue
    <3> QED
      BY <3>1, <3>2, <3>3, <3>4
  <2> QED
    BY <1>10, <2>1, <2>2
<1>14. Lengthened(p, q)
  <2>1. AllPhis(q) = AllPhis(p)
    BY <1>9, <1>10 DEF AllPhis, IsPhi
  <2> QED
    BY <1>9, <1>10, <2>1 DEF Lengthened
<1>15. q.cmap = p.cmap
  BY <1>1, <1>5 DEF HasFields
<1>16. v < J
  <2>1. J \in Nat /\ J > 0
    BY <1>1, <1>2, FreshIsNew DEF IsInst
  <2>2. CASE IsInst(v)
    BY <1>3, <1>11, <2>2
  <2>3. CASE ~IsInst(v)
    BY <1>3, <2>1, <2>3 DEF IsInst
  <2> QED
    BY <2>2, <2>3
<1>17. \A w \in Insts(q) : w \notin Insts(p) =>
       /\ 1 \in DOMAIN q.args[w] /\ q.args[w][1] \in Int /\ q.args[w][1] < w
       /\ q.args[w][1] = v \/ (q.args[w][1] \in Insts(q) /\ q.args[w][1] \notin Insts(p))
  BY <1>3, <1>4, <1>5, <1>10, <1>16
<1>18. q.args[J][1] = v
  BY <1>4, <1>5
<1> QED
  BY <1>5, <1>9, <1>10, <1>11, <1>12, <1>13, <1>14, <1>15, <1>17, <1>18 DEF Linked, Legal

\* Two chains, one after the other.
LEMMA LinkedTransitive ==
  ASSUME NEW p, NEW q, NEW r, NEW t, NEW v, NEW J, NEW K,
         Linked(p, q, t, v, J), Linked(q, r, t, J, K)
  PROVE  Linked(p, r, t, v, K)
<1>1. Lengthened(p, r)
  BY LengthenedTransitive DEF Linked
<1>2. Insts(p) \subseteq Insts(q) /\ Insts(q) \subseteq Insts(r)
  BY DEF Linked, Lengthened, Grown
<1>3. \A w \in Insts(q) : r.args[w] = q.args[w]
  BY DEF Linked, Lengthened
<1>4. ASSUME NEW w \in Insts(r), w \notin Insts(p)
      PROVE  /\ 1 \in DOMAIN r.args[w] /\ r.args[w][1] \in Int /\ r.args[w][1] < w
             /\ r.args[w][1] = v \/ (r.args[w][1] \in Insts(r) /\ r.args[w][1] \notin Insts(p))
  <2>1. CASE w \in Insts(q)
    BY <1>2, <1>3, <1>4, <2>1 DEF Linked
  <2>2. CASE w \notin Insts(q)
    BY <1>2, <1>4, <2>2 DEF Linked
  <2> QED
    BY <2>1, <2>2
<1> QED
  BY <1>1, <1>2, <1>4 DEF Linked

\* A copy: a chain that ends in a register no value had before, at the type of what is copied.
LEMMA CopyLinks ==
  ASSUME NEW p, Legal(p), NEW t \in Insts(p), p.kind[t] \in Terminators,
         NEW v, ReadableAt(p, v, t), NEW type \in ValueTypes,
         NEW q, NEW J, <<q, J>> = CopyOf(p, t, v, type)
  PROVE  /\ Linked(p, q, t, v, J) /\ q.type[J] = type /\ isReg(q, J)
         /\ Root(q, J) \in Insts(q) /\ Root(q, J) \notin Insts(p) /\ ~IsPhi(q, Root(q, J))
<1>1. \A x, k, y : \E r, K : Applied(x, t, k, y) = <<r, K>>
  BY DEF Applied
<1>2. ASSUME NEW x, NEW r, NEW K, Linked(p, r, t, x, K)
      PROVE  /\ Legal(r) /\ t \in Insts(r) /\ r.kind[t] \in Terminators /\ ReadableAt(r, K, t)
  <2>1. r.kind[K] \notin Terminators
    BY <1>2 DEF Linked, Terminators
  <2> QED
    BY <1>2, <2>1 DEF Linked, Lengthened, Grown, ReadableAt
<1>3. ASSUME NEW r, NEW K, Linked(p, r, t, v, K), r.kind[K] = "op", Root(r, K) = K, isReg(r, K)
      PROVE  /\ Root(r, K) \in Insts(r) /\ Root(r, K) \notin Insts(p) /\ ~IsPhi(r, Root(r, K))
  BY <1>3 DEF Linked, IsPhi
<1>4. CASE type = "ptr"
  <2>1. PICK q1, J1 : Applied(<<p, v>>, t, "move", "i64") = <<q1, J1>>
    BY <1>1
  <2>2. Linked(p, q1, t, v, J1)
    BY <2>1, AppliedLinks DEF ValueTypes
  <2>3. PICK q2, J2 : Applied(<<q1, J1>>, t, "op", "i64") = <<q2, J2>>
    BY <1>1
  <2>4. Linked(q1, q2, t, J1, J2) /\ q2.kind[J2] = "op" /\ isReg(q2, J2) /\ Root(q2, J2) = J2
    <3>1. Legal(q1) /\ t \in Insts(q1) /\ q1.kind[t] \in Terminators /\ ReadableAt(q1, J1, t)
      BY <1>2, <2>2
    <3>2. "i64" \in ValueTypes /\ "i64" # "ptr" /\ "op" \in {"op", "move"}
      BY DEF ValueTypes
    <3> QED
      BY <2>3, <3>1, <3>2, AppliedLinks
  <2>5. Linked(p, q2, t, v, J2)
    BY <2>2, <2>4, LinkedTransitive
  <2>6. <<q, J>> = Applied(<<q2, J2>>, t, "move", "ptr")
    BY <1>4, <2>1, <2>3 DEF CopyOf
  <2>7. Linked(q2, q, t, J2, J) /\ q.type[J] = "ptr" /\ Root(q, J) = Root(q, J2)
    <3>1. Legal(q2) /\ t \in Insts(q2) /\ q2.kind[t] \in Terminators /\ ReadableAt(q2, J2, t)
      BY <1>2, <2>5
    <3>2. "ptr" \in ValueTypes /\ "move" # "op" /\ "move" \in {"op", "move"}
      BY DEF ValueTypes
    <3> QED
      BY <2>6, <3>1, <3>2, AppliedLinks
  <2>8. Linked(p, q, t, v, J)
    BY <2>5, <2>7, LinkedTransitive
  <2>9. Root(q, J2) = J2 /\ J2 \in Insts(q) /\ q.kind[J2] = "op" /\ J2 \notin Insts(p)
    BY <2>4, <2>5, <2>7 DEF Linked, Lengthened, Grown
  <2>10. isReg(q, J) /\ ~IsPhi(q, J2)
    BY <2>7, <2>9 DEF isReg, IsPhi
  <2> QED
    BY <1>4, <2>7, <2>8, <2>9, <2>10
<1>5. CASE type # "ptr"
  <2>1. PICK q1, J1 : Applied(<<p, v>>, t, "op", type) = <<q1, J1>>
    BY <1>1
  <2>2. /\ Linked(p, q1, t, v, J1) /\ q1.kind[J1] = "op" /\ q1.type[J1] = type
        /\ isReg(q1, J1) /\ Root(q1, J1) = J1
    BY <1>5, <2>1, AppliedLinks
  <2>3. CASE type \in {"v4i64", "v8i32"}
    <3>1. <<q, J>> = Applied(<<q1, J1>>, t, "op", type)
      BY <2>1, <2>3 DEF CopyOf
    <3>2. Legal(q1) /\ t \in Insts(q1) /\ q1.kind[t] \in Terminators /\ ReadableAt(q1, J1, t)
      BY <1>2, <2>2
    <3>3. /\ Linked(q1, q, t, J1, J) /\ q.kind[J] = "op" /\ q.type[J] = type
          /\ isReg(q, J) /\ Root(q, J) = J
      BY <1>5, <3>1, <3>2, AppliedLinks
    <3>4. Linked(p, q, t, v, J)
      BY <2>2, <3>3, LinkedTransitive
    <3> QED
      BY <1>3, <3>3, <3>4
  <2>4. CASE type \notin {"v4i64", "v8i32"}
    <3>1. <<q, J>> = Applied(<<p, v>>, t, "op", type)
      BY <1>5, <2>4 DEF CopyOf
    <3>2. q = q1 /\ J = J1
      BY <2>1, <3>1
    <3> QED
      BY <1>3, <2>2, <3>2
  <2> QED
    BY <2>3, <2>4
<1> QED
  BY <1>4, <1>5

\* What is in a register is an instruction.
LEMMA RegistersAreInsts ==
  ASSUME NEW p, Sound(p), NEW I \in Insts(p), NEW k \in DOMAIN p.args[I]
  PROVE  /\ p.args[I][k] \in Int
         /\ IsInst(p.args[I][k]) => p.args[I][k] \in Insts(p)
         /\ isReg(p, p.args[I][k]) => p.args[I][k] \in Insts(p)
<1>1. IsFunction(p) /\ MovesEnd(p) /\ HasFields(p)
  BY DEF Sound
<1>2. p.args[I] \in Seq(Int)
  BY <1>1 DEF HasFields
<1>3. p.args[I][k] \in Int
  BY <1>2, ElementOfSeq
<1>4. IsInst(p.args[I][k]) => p.args[I][k] \in Insts(p)
  BY <1>1 DEF IsFunction, Operands, Range
<1>5. SameMoves(p, p)
  BY DEF SameMoves
<1>6. \A v \in Int : ~IsInst(v) => ~isReg(p, v)
  BY <1>1, <1>5, RegsStay
<1> QED
  BY <1>3, <1>4, <1>6

\* Operand i of phi comes from a block, and what it reads can be read at the end of that block.
LEMMA IncomingPlace ==
  ASSUME NEW p, Legal(p), NEW phi \in AllPhis(p), NEW i \in DOMAIN p.args[phi]
  PROVE  LET t == getTerminator(p, p.from[phi][i]) IN
         /\ phi \in Insts(p) /\ p.from[phi][i] \in Blocks(p)
         /\ t \in Insts(p) /\ p.kind[t] \in Terminators /\ BlockOf(p, t) = p.from[phi][i]
         /\ ReadableAt(p, p.args[phi][i], t)
<1> DEFINE t == getTerminator(p, p.from[phi][i])
           v == p.args[phi][i]
           c == p.from[phi][i]
<1>1. Sound(p) /\ IsFunction(p) /\ WellFormed(p) /\ HasFields(p)
  BY DEF Legal, Sound
<1>2. phi \in Insts(p) /\ IsPhi(p, phi)
  BY DEF AllPhis
<1>3. c \in Blocks(p)
  <2>1. phi \in Phis(p, BlockOf(p, phi)) /\ BlockOf(p, phi) \in Blocks(p)
    BY <1>1, <1>2, Places, PhisOfBlock
  <2>2. p.from[phi] \in Seq(Blocks(p)) /\ DOMAIN p.args[phi] = DOMAIN p.from[phi]
    BY <1>1, <2>1 DEF IsFunction
  <2> QED
    BY <2>2, ElementOfSeq
<1>4. /\ t \in Insts(p) /\ BlockOf(p, t) = c /\ p.kind[t] \in Terminators
      /\ \A I \in Insts(p) : BlockOf(p, I) = c /\ I # t => DefDominates(p, I, t)
  BY <1>1, <1>3, TerminatorPlace
<1>5. ReadableAt(p, v, t)
  <2>1. IsValue(p, v)
    BY <1>2 DEF Legal, ReadsValues
  <2>2. CASE IsInst(v)
    <3>1. v \in Insts(p) /\ p.kind[v] \notin Terminators
      BY <1>1, <1>2, <2>1, <2>2, RegistersAreInsts DEF IsValue
    <3>2. \/ ~isPotentiallyReachable(p, c) \/ BlockOf(p, v) = c \/ Dominates(p, BlockOf(p, v), c)
      BY <1>1, <1>2, <2>2 DEF WellFormed
    <3>3. v # t
      BY <1>4, <3>1
    <3> HIDE DEF v, t, c
    <3>4. DefDominates(p, v, t) \/ ~isPotentiallyReachable(p, BlockOf(p, t))
      <4>1. CASE BlockOf(p, v) = c
        BY <1>4, <3>1, <3>3, <4>1
      <4>2. CASE BlockOf(p, v) # c
        BY <1>4, <3>2, <4>2 DEF DefDominates
      <4> QED
        BY <4>1, <4>2
    <3> QED
      BY <3>1, <3>4 DEF ReadableAt, Available
  <2>3. CASE ~IsInst(v)
    BY <2>1, <2>3 DEF IsValue, ReadableAt
  <2> QED
    BY <2>2, <2>3
<1> QED
  BY <1>2, <1>3, <1>4, <1>5

\* r is p with a copy J, of the value operand i of phi read, for that operand.
Recopied(p, r, phi, i, J) ==
  /\ Legal(r) /\ Insts(p) \subseteq Insts(r) /\ AllPhis(r) = AllPhis(p) /\ r.cmap = p.cmap
  /\ \A I \in Insts(p) :
       /\ r.kind[I] = p.kind[I] /\ r.type[I] = p.type[I]
       /\ Root(r, I) = Root(p, I) /\ isReg(r, I) = isReg(p, I)
       /\ DOMAIN r.args[I] = DOMAIN p.args[I]
       /\ \A k \in DOMAIN p.args[I] : I # phi \/ k # i => r.args[I][k] = p.args[I][k]
  /\ r.args[phi][i] = J /\ J \in Insts(r) /\ J \notin Insts(p)
  /\ r.type[J] = p.type[phi] /\ isReg(r, J)
  /\ Root(r, J) \in Insts(r) /\ Root(r, J) \notin Insts(p) /\ ~IsPhi(r, Root(r, J))
  /\ \A w \in Insts(r) : w \notin Insts(p) =>
       /\ 1 \in DOMAIN r.args[w] /\ r.args[w][1] \in Int /\ r.args[w][1] < w
       /\ \/ r.args[w][1] = p.args[phi][i]
          \/ r.args[w][1] \in Insts(r) /\ r.args[w][1] \notin Insts(p)

\* That is what CopyIncoming makes.
LEMMA CopyRecopies ==
  ASSUME NEW p, Legal(p), NEW phi \in AllPhis(p), NEW i \in DOMAIN p.args[phi],
         NEW r, NEW J, <<r, J>> = CopyIncoming(p, phi, i)
  PROVE  Recopied(p, r, phi, i, J)
<1> DEFINE t == getTerminator(p, p.from[phi][i])
           v == p.args[phi][i]
           type == p.type[phi]
<1>1. /\ phi \in Insts(p) /\ p.from[phi][i] \in Blocks(p)
      /\ t \in Insts(p) /\ p.kind[t] \in Terminators /\ BlockOf(p, t) = p.from[phi][i]
      /\ ReadableAt(p, v, t)
  BY IncomingPlace
<1>2. type \in ValueTypes
  BY <1>1 DEF Legal, HasTypes, AllPhis, IsPhi
<1>3. PICK q, K : CopyOf(p, t, v, type) = <<q, K>>
  <2>1. \A x, k, y : \E a, b : Applied(x, t, k, y) = <<a, b>>
    BY DEF Applied
  <2> QED
    BY <2>1 DEF CopyOf
<1>4. J = K /\ r = setIncomingValue(q, phi, i, J)
  BY <1>3 DEF CopyIncoming
<1>5. /\ Linked(p, q, t, v, J) /\ q.type[J] = type /\ isReg(q, J)
      /\ Root(q, J) \in Insts(q) /\ Root(q, J) \notin Insts(p) /\ ~IsPhi(q, Root(q, J))
  BY <1>1, <1>2, <1>3, <1>4, CopyLinks
<1> HIDE DEF t, v, type
<1>6. /\ Legal(q) /\ Lengthened(p, q) /\ q.cmap = p.cmap /\ J \in Insts(q) /\ J \notin Insts(p)
      /\ Available(q, J, t) /\ q.kind[J] \in {"op", "move"}
  BY <1>5 DEF Linked
<1>7. Sound(q) /\ HasTypes(q) /\ ReadsValues(q) /\ HasFields(q)
  BY <1>6 DEF Legal, Sound
<1>8. /\ phi \in Insts(q) /\ IsPhi(q, phi) /\ AllPhis(q) = AllPhis(p)
      /\ q.args[phi] = p.args[phi] /\ q.from[phi] = p.from[phi] /\ i \in DOMAIN q.args[phi]
  <2>1. AllPhis(q) = AllPhis(p) /\ q.args[phi] = p.args[phi] /\ q.from[phi] = p.from[phi]
    BY <1>1, <1>6 DEF Lengthened
  <2> QED
    BY <2>1 DEF AllPhis
<1>9. Rewired(q, r, phi, {i}, J)
  <2>1. /\ DOMAIN r = DOMAIN q /\ r.body = q.body /\ r.succ = q.succ /\ r.kind = q.kind
        /\ r.type = q.type /\ r.from = q.from /\ r.cmap = q.cmap
        /\ r.args = [q.args EXCEPT ![phi] = [@ EXCEPT ![i] = J]]
    BY <1>4, <1>7 DEF setIncomingValue, HasFields
  <2>2. [q.args[phi] EXCEPT ![i] = J] =
          [k \in DOMAIN q.args[phi] |-> IF k \in {i} THEN J ELSE q.args[phi][k]]
    <3>1. q.args[phi] \in Seq(Int)
      BY <1>7, <1>8 DEF HasFields
    <3> QED
      BY <3>1
  <2>3. DOMAIN q.args = Insts(q)
    BY <1>7 DEF HasFields
  <2> QED
    BY <1>8, <2>1, <2>2, <2>3 DEF Rewired
<1>10. Fits(q, phi, i, J)
  <2>1. BlockOf(q, t) = q.from[phi][i]
    BY <1>1, <1>6, <1>8 DEF Lengthened, Grown
  <2>2. \/ DefDominates(q, J, t) \/ ~isPotentiallyReachable(q, BlockOf(q, t))
    BY <1>6 DEF Available
  <2> QED
    BY <1>8, <2>1, <2>2 DEF Fits, DefDominates
<1>11. Sound(r) /\ Grown(q, r)
  <2>1. q.kind[phi] # "move" /\ {i} \in SUBSET DOMAIN q.args[phi]
    BY <1>8 DEF IsPhi
  <2>2. \A k \in {i} : Fits(q, phi, k, J)
    BY <1>10
  <2> QED
    BY <1>6, <1>7, <1>8, <1>9, <2>1, <2>2, RewiringIsSound
<1>12. Insts(r) = Insts(q) /\ AllPhis(r) = AllPhis(q)
  BY <1>9, RewiredPlaces
<1>13. r.kind = q.kind /\ r.type = q.type
  BY <1>9 DEF Rewired
<1>14. /\ \A I \in Insts(q) : I # phi => r.args[I] = q.args[I]
       /\ DOMAIN r.args[phi] = DOMAIN q.args[phi] /\ r.args[phi][i] = J
       /\ \A k \in DOMAIN q.args[phi] : k # i => r.args[phi][k] = q.args[phi][k]
  BY <1>7, <1>8, <1>9 DEF HasFields, Rewired
<1>15. Legal(r)
  <2>1. HasTypes(r)
    BY <1>7, <1>12, <1>13 DEF HasTypes
  <2>3. \A x : IsValue(r, x) <=> IsValue(q, x)
    BY <1>13 DEF IsValue
  <2>4. IsValue(q, J)
    <3>1. IsInst(J)
      BY <1>6, <1>7 DEF Sound, IsFunction
    <3> QED
      BY <1>6, <3>1 DEF IsValue, Terminators
  <2>2. ASSUME NEW I \in Insts(r), NEW k \in DOMAIN r.args[I] PROVE IsValue(r, r.args[I][k])
    <3>1. CASE I = phi /\ k = i
      BY <1>14, <2>3, <2>4, <3>1
    <3>2. CASE ~(I = phi /\ k = i)
      <4>1. k \in DOMAIN q.args[I] /\ r.args[I][k] = q.args[I][k] /\ I \in Insts(q)
        BY <1>12, <1>14, <2>2, <3>2
      <4>2. IsValue(q, q.args[I][k])
        BY <1>7, <4>1 DEF ReadsValues
      <4> QED
        BY <2>3, <4>1, <4>2
    <3> QED
      BY <3>1, <3>2
  <2> QED
    BY <1>11, <2>1, <2>2 DEF Legal, ReadsValues
<1>16. \A I \in Insts(p) : /\ I \in Insts(q) /\ I # J /\ q.args[I] = p.args[I]
                           /\ q.kind[I] = p.kind[I] /\ q.type[I] = p.type[I]
                           /\ Root(q, I) = Root(p, I) /\ isReg(q, I) = isReg(p, I)
  BY <1>6 DEF Lengthened, Grown
<1>17. \A I \in Insts(q) : Root(r, I) = Root(q, I) /\ isReg(r, I) = isReg(q, I)
  BY <1>11 DEF Grown
<1>18. r.cmap = p.cmap
  <2>1. r.cmap = q.cmap
    BY <1>4, <1>7 DEF setIncomingValue, HasFields
  <2> QED
    BY <1>6, <2>1
<1>19. \A w \in Insts(r) : w \notin Insts(p) =>
         /\ 1 \in DOMAIN r.args[w] /\ r.args[w][1] \in Int /\ r.args[w][1] < w
         /\ r.args[w][1] = v \/ (r.args[w][1] \in Insts(r) /\ r.args[w][1] \notin Insts(p))
  BY <1>1, <1>5, <1>12, <1>14 DEF Linked
<1>20. /\ r.type[J] = p.type[phi] /\ isReg(r, J) /\ Root(r, J) = Root(q, J)
       /\ ~IsPhi(r, Root(r, J))
  BY <1>5, <1>6, <1>13, <1>17 DEF type, IsPhi
<1>21. \A I \in Insts(p) :
         /\ r.kind[I] = p.kind[I] /\ r.type[I] = p.type[I]
         /\ Root(r, I) = Root(p, I) /\ isReg(r, I) = isReg(p, I)
  BY <1>13, <1>16, <1>17
<1>22. \A I \in Insts(p) :
         /\ DOMAIN r.args[I] = DOMAIN p.args[I]
         /\ \A k \in DOMAIN p.args[I] : I # phi \/ k # i => r.args[I][k] = p.args[I][k]
  BY <1>8, <1>14, <1>16
<1> QED
  BY <1>5, <1>6, <1>8, <1>12, <1>14, <1>15, <1>16, <1>18, <1>19, <1>20, <1>21, <1>22 DEF Recopied, v

-----------------------------------------------------------------------------
\* PHIPreprocess.

\* What is in a list is its first element or in the rest.
LEMMA HeadOrTail ==
  ASSUME NEW T, NEW s \in Seq(T), s # <<>>
  PROVE  /\ s[1] \in T /\ Tail(s) \in Seq(T)
         /\ \A o : o \in Range(s) <=> o = s[1] \/ o \in Range(Tail(s))
<1>1. Len(s) \in Nat \ {0} /\ DOMAIN s = 1..Len(s)
  OBVIOUS
<1>2. Tail(s) \in Seq(T) /\ Len(Tail(s)) = Len(s) - 1
      /\ DOMAIN Tail(s) = 1..(Len(s) - 1) /\ \A k \in 1..(Len(s) - 1) : Tail(s)[k] = s[k + 1]
  OBVIOUS
<1>3. ASSUME NEW o PROVE o \in Range(Tail(s)) => o \in Range(s)
  BY <1>1, <1>2 DEF Range
<1>4. ASSUME NEW o \in Range(s), o # s[1] PROVE o \in Range(Tail(s))
  <2>1. PICK k \in 1..Len(s) : s[k] = o
    BY <1>1 DEF Range
  <2>2. k - 1 \in 1..(Len(s) - 1) /\ Tail(s)[k - 1] = o
    BY <1>1, <1>2, <1>4, <2>1
  <2> QED
    BY <1>2, <2>2 DEF Range
<1>5. s[1] \in T /\ s[1] \in Range(s)
  BY <1>1 DEF Range
<1> QED
  BY <1>2, <1>3, <1>4, <1>5

\* q has the instructions of p, and no more phis or operands of phis.
Grows(p, q) ==
  /\ Insts(p) \subseteq Insts(q) /\ AllPhis(q) = AllPhis(p)
  /\ \A phi \in AllPhis(p) : DOMAIN q.args[phi] = DOMAIN p.args[phi] /\ q.type[phi] = p.type[phi]

\* The operands the current pass has dealt with are in registers once the first pass is over them,
\* share none once the second is, and are no phis once the third is.
Done == Sources(prog) \ Range(operands)

Registered == \A o \in Sources(prog) : pass > 1 \/ o \in Done => isReg(prog, Read(prog, o))

Separated ==
  pass = 2 =>
    \A o, x \in Sources(prog) :
      o # x /\ o \in Done /\ Root(prog, Read(prog, o)) = Root(prog, Read(prog, x)) =>
        x \notin Done /\ Root(prog, Read(prog, o)) \in visit

Unshared ==
  pass > 2 => \A o, x \in Sources(prog) :
                Root(prog, Read(prog, o)) = Root(prog, Read(prog, x)) => o = x

NoneIsPhi == pass > 2 => \A o \in Done : ~IsPhi(prog, Root(prog, Read(prog, o)))

\* What Original's strip is: the value under the copies in p that g does not have.
IsStrip(g, p, f) == f = [w \in Int |-> IF w \in Insts(p) \ Insts(g) THEN f[p.args[w][1]] ELSE w]

\* Copies are made of values there were before them.
Strips(g, p) ==
  \A w \in Insts(p) : w \notin Insts(g) =>
    1 \in DOMAIN p.args[w] /\ p.args[w][1] \in Int /\ p.args[w][1] < w

\* Under the copies the phis of p read what those of g do.
KeepsUnder(g, p, f) ==
  \A phi \in AllPhis(g) : \A i \in DOMAIN g.args[phi] :
    /\ f[p.args[phi][i]] = g.args[phi][i]
    /\ IsInst(p.args[phi][i]) /\ p.args[phi][i] \notin Insts(g) =>
         p.type[p.args[phi][i]] = g.type[phi]

KeepsValues(g, p) == Strips(g, p) /\ \E f : IsStrip(g, p, f) /\ KeepsUnder(g, p, f)

\* While PHIPreprocess runs: legal SSA with an empty cache, what the passes have done so far,
\* and what the phis receive.
PhiInv ==
  /\ Legal(prog) /\ DOMAIN prog.cmap = {} /\ Grows(given, prog)
  /\ pass \in 1..4 /\ operands \in Seq(Sources(prog)) /\ (pass = 4 => operands = <<>>)
  /\ visit \subseteq Insts(prog)
  /\ Registered /\ Separated /\ Unshared /\ NoneIsPhi
  /\ KeepsValues(given, prog)

\* There is one strip.
LEMMA StripIsUnique ==
  ASSUME NEW g, NEW p, IsFunction(p), Strips(g, p), NEW e, IsStrip(g, p, e), NEW f, IsStrip(g, p, f)
  PROVE  \A w \in Int : e[w] = f[w]
<1> DEFINE S == {w \in Insts(p) : w \notin Insts(g) /\ e[w] # f[w]}
<1>1. \A w \in Int : /\ w \in Insts(p) \ Insts(g) => e[w] = e[p.args[w][1]] /\ f[w] = f[p.args[w][1]]
                     /\ w \notin Insts(p) \ Insts(g) => e[w] = w /\ f[w] = w
  BY DEF IsStrip
<1>2. S = {}
  <2> SUFFICES ASSUME S # {} PROVE FALSE
    OBVIOUS
  <2>1. S \in SUBSET Nat
    BY DEF IsFunction
  <2> HIDE DEF S
  <2>2. PICK w \in S : \A m \in S : w <= m
    BY <2>1, LeastNatural
  <2> USE DEF S
  <2>3. w \in Int /\ w \in Insts(p) \ Insts(g) /\ e[w] # f[w]
    BY <2>1
  <2>4. p.args[w][1] \in Int /\ p.args[w][1] < w
    BY <2>3 DEF Strips
  <2>5. p.args[w][1] \notin S
    BY <2>2, <2>3, <2>4
  <2>6. e[p.args[w][1]] = f[p.args[w][1]]
    BY <1>1, <2>4, <2>5
  <2> QED
    BY <1>1, <2>3, <2>6
<1> QED
  BY <1>1, <1>2

\* So it is what Original computes.
LEMMA OriginalStrips ==
  ASSUME IsFunction(prog), Strips(given, prog), NEW f, IsStrip(given, prog, f)
  PROVE  \A v \in Int : Original(v) = f[v]
<1> DEFINE strip == CHOOSE h : IsStrip(given, prog, h)
<1>1. IsStrip(given, prog, strip)
  OBVIOUS
<1>2. \A v : Original(v) = strip[v]
  BY DEF Original, IsStrip
<1> HIDE DEF strip
<1> QED
  BY <1>1, <1>2, StripIsUnique

\* The operands of phis.
LEMMA SourceParts ==
  ASSUME NEW p, NEW o
  PROVE  o \in Sources(p) <=> \E phi \in AllPhis(p) : \E i \in DOMAIN p.args[phi] : o = <<phi, i>>
BY DEF Sources

\* What phis read after a copy of one operand.
LEMMA RecopiedReads ==
  ASSUME NEW p, Legal(p), NEW phi \in AllPhis(p), NEW i \in DOMAIN p.args[phi], NEW r, NEW J,
         Recopied(p, r, phi, i, J)
  PROVE  /\ \A o : o \in Sources(r) <=> o \in Sources(p)
         /\ <<phi, i>> \in Sources(p) /\ Read(r, <<phi, i>>) = J
         /\ \A o \in Sources(p) : o # <<phi, i>> =>
              /\ Read(r, o) = Read(p, o)
              /\ isReg(p, Read(p, o)) =>
                   /\ isReg(r, Read(r, o)) /\ Root(r, Read(r, o)) = Root(p, Read(p, o))
                   /\ Root(p, Read(p, o)) \in Insts(p)
                   /\ IsPhi(r, Root(p, Read(p, o))) <=> IsPhi(p, Root(p, Read(p, o)))
<1>1. AllPhis(r) = AllPhis(p)
  BY DEF Recopied
<1>2. \A psi \in AllPhis(p) : psi \in Insts(p)
  BY DEF AllPhis
<1>3. \A psi \in AllPhis(p) : DOMAIN r.args[psi] = DOMAIN p.args[psi]
  BY <1>2 DEF Recopied
<1>4. \A o : o \in Sources(r) <=> o \in Sources(p)
  BY <1>1, <1>3, SourceParts
<1>5. <<phi, i>> \in Sources(p) /\ Read(r, <<phi, i>>) = J
  BY SourceParts DEF Recopied, Read
<1>6. ASSUME NEW o \in Sources(p), o # <<phi, i>>
      PROVE  /\ Read(r, o) = Read(p, o)
             /\ isReg(p, Read(p, o)) =>
                   /\ isReg(r, Read(r, o)) /\ Root(r, Read(r, o)) = Root(p, Read(p, o))
                   /\ Root(p, Read(p, o)) \in Insts(p)
                   /\ IsPhi(r, Root(p, Read(p, o))) <=> IsPhi(p, Root(p, Read(p, o)))
  <2>1. PICK psi \in AllPhis(p) : \E j \in DOMAIN p.args[psi] : o = <<psi, j>>
    BY SourceParts
  <2>2. PICK j \in DOMAIN p.args[psi] : o = <<psi, j>>
    BY <2>1
  <2>3. psi \in Insts(p) /\ (psi # phi \/ j # i)
    BY <1>2, <1>6, <2>2
  <2>4. Read(r, o) = Read(p, o)
    BY <2>2, <2>3 DEF Recopied, Read
  <2>5. ASSUME isReg(p, Read(p, o))
        PROVE  /\ isReg(r, Read(r, o)) /\ Root(r, Read(r, o)) = Root(p, Read(p, o))
               /\ Root(p, Read(p, o)) \in Insts(p)
               /\ IsPhi(r, Root(p, Read(p, o))) <=> IsPhi(p, Root(p, Read(p, o)))
    <3>1. Read(p, o) = p.args[psi][j]
      BY <2>2 DEF Read
    <3>2. Read(p, o) \in Insts(p)
      BY <2>3, <2>5, <3>1, RegistersAreInsts DEF Legal
    <3>3. Root(r, Read(r, o)) = Root(p, Read(p, o)) /\ isReg(r, Read(r, o))
      BY <2>4, <2>5, <3>2 DEF Recopied
    <3>4. Root(p, Read(p, o)) \in Insts(p)
      BY <2>5 DEF isReg
    <3> QED
      BY <3>3, <3>4 DEF Recopied, IsPhi
  <2> QED
    BY <2>4, <2>5
<1> QED
  BY <1>4, <1>5, <1>6

\* Copies are copies.
LEMMA StripsGrow ==
  ASSUME NEW g, NEW p, Legal(p), Insts(g) \subseteq Insts(p), NEW phi \in AllPhis(p), phi \in Insts(g),
         NEW i \in DOMAIN p.args[phi],
         NEW r, NEW J, Recopied(p, r, phi, i, J),
         Strips(g, p), NEW f, IsStrip(g, p, f)
  PROVE  Strips(g, r) /\ \E e : /\ IsStrip(g, r, e)
                                /\ \A w \in Int : w \notin Insts(r) \ Insts(p) => e[w] = f[w]
                                /\ e[J] = f[p.args[phi][i]]
<1> DEFINE v == p.args[phi][i]
           e == [w \in Int |-> IF w \in Insts(r) \ Insts(p) THEN f[v] ELSE f[w]]
<1>1. /\ Sound(p) /\ Legal(r) /\ Sound(r) /\ Insts(p) \subseteq Insts(r) /\ J \in Insts(r) \ Insts(p)
      /\ phi \in Insts(p)
  BY DEF Legal, Recopied, AllPhis
<1>2. /\ \A w \in Insts(p) : w \in Int
      /\ \A w \in Insts(r) : w \in Int /\ IsInst(w)
  BY <1>1 DEF Sound, IsFunction
<1>3. /\ v \in Int /\ v \notin Insts(r) \ Insts(p)
  BY <1>1, <1>2, RegistersAreInsts
<1>4. /\ \A w \in Insts(p) \ Insts(g) : w # phi /\ r.args[w] = p.args[w]
  <2>1. ASSUME NEW w \in Insts(p) \ Insts(g) PROVE w # phi /\ r.args[w] = p.args[w]
    <3>1. w # phi /\ w \in Insts(p)
      BY <2>1
    <3>2. DOMAIN r.args[w] = DOMAIN p.args[w] /\ \A k \in DOMAIN p.args[w] : r.args[w][k] = p.args[w][k]
      BY <3>1 DEF Recopied
    <3>3. r.args[w] \in Seq(Int) /\ p.args[w] \in Seq(Int)
      BY <1>1, <3>1 DEF Sound, HasFields
    <3> QED
      BY <3>1, <3>2, <3>3
  <2> QED
    BY <2>1
<1>5. ASSUME NEW w \in Insts(r), w \notin Insts(p)
      PROVE  /\ 1 \in DOMAIN r.args[w] /\ r.args[w][1] \in Int /\ r.args[w][1] < w
             /\ r.args[w][1] = v \/ r.args[w][1] \in Insts(r) \ Insts(p)
  BY <1>5 DEF Recopied
<1>6. Strips(g, r)
  <2> SUFFICES ASSUME NEW w \in Insts(r), w \notin Insts(g)
               PROVE  1 \in DOMAIN r.args[w] /\ r.args[w][1] \in Int /\ r.args[w][1] < w
    BY DEF Strips
  <2>1. CASE w \in Insts(p)
    BY <1>4, <2>1 DEF Strips
  <2>2. CASE w \notin Insts(p)
    BY <1>5, <2>2
  <2> QED
    BY <2>1, <2>2
<1>7. \A w \in Int : f[w] = IF w \in Insts(p) \ Insts(g) THEN f[p.args[w][1]] ELSE w
  BY DEF IsStrip
<1>8. \A w \in Int : /\ w \in Insts(r) \ Insts(p) => e[w] = f[v]
                     /\ w \notin Insts(r) \ Insts(p) => e[w] = f[w]
  OBVIOUS
<1>9. e[J] = f[v]
  BY <1>1, <1>2, <1>8
<1> HIDE DEF v
<1>10. ASSUME NEW w \in Int
       PROVE  e[w] = IF w \in Insts(r) \ Insts(g) THEN e[r.args[w][1]] ELSE w
  <2>1. CASE w \in Insts(r) \ Insts(p)
    <3>1. e[w] = f[v] /\ w \in Insts(r) \ Insts(g)
      BY <1>8, <2>1
    <3>2. r.args[w][1] \in Int /\ (r.args[w][1] = v \/ r.args[w][1] \in Insts(r) \ Insts(p))
      BY <1>5, <2>1
    <3>3. e[r.args[w][1]] = f[v]
      BY <1>3, <1>8, <3>2
    <3> QED
      BY <3>1, <3>3
  <2>2. CASE w \in Insts(p) \ Insts(g)
    <3>1. e[w] = f[p.args[w][1]] /\ r.args[w][1] = p.args[w][1]
      BY <1>4, <1>7, <1>8, <2>2
    <3>2. p.args[w][1] \in Int /\ p.args[w][1] \notin Insts(r) \ Insts(p)
      <4>1. 1 \in DOMAIN p.args[w]
        BY <2>2 DEF Strips
      <4>2. p.args[w][1] \in Int /\ (IsInst(p.args[w][1]) => p.args[w][1] \in Insts(p))
        BY <1>1, <2>2, <4>1, RegistersAreInsts
      <4> QED
        BY <1>2, <4>2
    <3>3. e[p.args[w][1]] = f[p.args[w][1]]
      BY <1>8, <3>2
    <3> QED
      BY <1>1, <2>2, <3>1, <3>3
  <2>3. CASE w \notin Insts(r) \ Insts(g)
    BY <1>1, <1>7, <1>8, <2>3
  <2> QED
    BY <2>1, <2>2, <2>3
<1>11. IsStrip(g, r, e)
  <2> DEFINE e2 == [w \in Int |-> IF w \in Insts(r) \ Insts(g) THEN e[r.args[w][1]] ELSE w]
  <2>1. e = [w \in Int |-> e[w]]
    OBVIOUS
  <2> HIDE DEF e
  <2>2. e = e2
    BY <1>10, <2>1
  <2> QED
    BY <2>2 DEF IsStrip
<1> QED
  BY <1>6, <1>8, <1>9, <1>11 DEF v

\* With a copy more, phis read what they did, under the copies.
LEMMA CopyKeepsValues ==
  ASSUME NEW g, NEW p, Legal(p), Grows(g, p), KeepsValues(g, p),
         NEW phi \in AllPhis(p), NEW i \in DOMAIN p.args[phi],
         NEW r, NEW J, Recopied(p, r, phi, i, J)
  PROVE  KeepsValues(g, r)
<1>1. PICK f : IsStrip(g, p, f) /\ KeepsUnder(g, p, f)
  BY DEF KeepsValues
<1>2. /\ Insts(g) \subseteq Insts(p) /\ AllPhis(p) = AllPhis(g) /\ Strips(g, p)
      /\ \A psi \in AllPhis(g) : /\ psi \in Insts(g) /\ psi \in Insts(p)
                                 /\ DOMAIN p.args[psi] = DOMAIN g.args[psi]
                                 /\ p.type[psi] = g.type[psi]
  BY DEF Grows, KeepsValues, AllPhis
<1>3. Strips(g, r)
  BY <1>1, <1>2, StripsGrow
<1>4. PICK e : /\ IsStrip(g, r, e)
               /\ \A w \in Int : w \notin Insts(r) \ Insts(p) => e[w] = f[w]
               /\ e[J] = f[p.args[phi][i]]
  BY <1>1, <1>2, StripsGrow
<1>5. KeepsUnder(g, r, e)
  <2> SUFFICES ASSUME NEW psi \in AllPhis(g), NEW j \in DOMAIN g.args[psi]
               PROVE  /\ e[r.args[psi][j]] = g.args[psi][j]
                      /\ IsInst(r.args[psi][j]) /\ r.args[psi][j] \notin Insts(g) =>
                           r.type[r.args[psi][j]] = g.type[psi]
    BY DEF KeepsUnder
  <2>1. /\ psi \in Insts(p) /\ j \in DOMAIN p.args[psi]
        /\ f[p.args[psi][j]] = g.args[psi][j]
        /\ IsInst(p.args[psi][j]) /\ p.args[psi][j] \notin Insts(g) =>
                           p.type[p.args[psi][j]] = g.type[psi]
    BY <1>1, <1>2 DEF KeepsUnder
  <2>2. CASE psi = phi /\ j = i
    BY <1>2, <1>4, <2>1, <2>2 DEF Recopied
  <2>3. CASE psi # phi \/ j # i
    <3>1. r.args[psi][j] = p.args[psi][j]
      BY <2>1, <2>3 DEF Recopied
    <3>2. p.args[psi][j] \in Int /\ (IsInst(p.args[psi][j]) => p.args[psi][j] \in Insts(p))
      BY <2>1, RegistersAreInsts DEF Legal
    <3>3. \A w \in Insts(r) : IsInst(w)
      BY DEF Recopied, Legal, Sound, IsFunction
    <3>4. e[p.args[psi][j]] = f[p.args[psi][j]]
      BY <1>4, <3>2, <3>3
    <3>5. IsInst(p.args[psi][j]) => r.type[p.args[psi][j]] = p.type[p.args[psi][j]]
      BY <3>2 DEF Recopied
    <3> QED
      BY <2>1, <3>1, <3>4, <3>5
  <2> QED
    BY <2>2, <2>3
<1> QED
  BY <1>3, <1>4, <1>5 DEF KeepsValues

\* The passes begin with nothing done.
LEMMA PassesBegin ==
  ASSUME Preparable(given), Start(given)
  PROVE  PhiInv
<1>1. Legal(prog) /\ DOMAIN prog.cmap = {}
  BY DEF Start, Preparable, Legal, HasTypes, ReadsValues, IsValue
<1>2. IsFunction(prog) /\ HasFields(prog)
  BY <1>1 DEF Legal, Sound
<1>3. PhiOperands(prog) \in Seq(Sources(prog)) /\ Done = {}
  <2>1. operands = PhiOperands(prog)
    BY DEF Start
  <2>2. PhiOperands(prog) \in Seq(Sources(prog))
    BY <1>2, PhiOperandsAreSources
  <2>3. \A o \in Sources(prog) : \E m \in 1..Len(PhiOperands(prog)) : PhiOperands(prog)[m] = o
    BY <1>2, PhiOperandsAreSources
  <2> QED
    BY <2>1, <2>2, <2>3 DEF Done, Range
<1>4. Grows(given, prog)
  BY DEF Start, Grows
<1>5. KeepsValues(given, prog)
  <2> DEFINE f == [w \in Int |-> w]
  <2>1. prog = given
    BY DEF Start
  <2>2. IsStrip(given, prog, f)
    BY <2>1 DEF IsStrip
  <2>3. KeepsUnder(given, prog, f)
    <3>1. \A phi \in AllPhis(given) : \A i \in DOMAIN given.args[phi] :
            /\ given.args[phi][i] \in Int
            /\ IsInst(given.args[phi][i]) => given.args[phi][i] \in Insts(given)
      BY <1>1, <2>1, RegistersAreInsts DEF Legal, AllPhis
    <3> QED
      BY <2>1, <3>1 DEF KeepsUnder
  <2> QED
    BY <2>1, <2>2, <2>3 DEF KeepsValues, Strips
<1>6. pass = 1 /\ operands = PhiOperands(prog) /\ visit = {}
  BY DEF Start
<1> QED
  BY <1>1, <1>3, <1>4, <1>5, <1>6 DEF PhiInv, Registered, Separated, Unshared, NoneIsPhi

\* From one pass to the next.
LEMMA NextPassKeeps ==
  ASSUME PhiInv, NextPass
  PROVE  PhiInv'
<1>1. /\ pass' = pass + 1 /\ pass \in 1..3 /\ operands = <<>> /\ prog' = prog /\ given' = given
      /\ visit' = visit /\ operands' = IF pass < 3 THEN PhiOperands(prog) ELSE <<>>
  BY DEF PhiInv, NextPass
<1>2. IsFunction(prog) /\ HasFields(prog)
  BY DEF PhiInv, Legal, Sound
<1>3. \A o \in Sources(prog) : o \in Done
  BY <1>1 DEF Done, Range
<1>4. operands' \in Seq(Sources(prog')) /\ (pass' = 4 => operands' = <<>>)
  <2>1. PhiOperands(prog) \in Seq(Sources(prog))
    BY <1>2, PhiOperandsAreSources
  <2> QED
    BY <1>1, <2>1
<1>5. pass' # 4 => \A o : o \notin Done'
  <2>1. \A o \in Sources(prog) : \E m \in 1..Len(PhiOperands(prog)) : PhiOperands(prog)[m] = o
    BY <1>2, PhiOperandsAreSources
  <2>2. PhiOperands(prog) \in Seq(Sources(prog))
    BY <1>2, PhiOperandsAreSources
  <2> QED
    BY <1>1, <2>1, <2>2 DEF Done, Range
<1>6. Registered'
  BY <1>1, <1>3 DEF PhiInv, Registered
<1>7. Separated'
  BY <1>1, <1>5 DEF Separated
<1>8. Unshared'
  BY <1>1, <1>3 DEF PhiInv, Unshared, Separated
<1>9. NoneIsPhi'
  <2>1. \A o \in Done' : o \in Sources(prog)
    BY <1>1 DEF Done
  <2>2. CASE pass = 3
    BY <1>1, <1>3, <2>1, <2>2 DEF PhiInv, NoneIsPhi
  <2>3. CASE pass # 3
    BY <1>1, <1>5, <2>3 DEF NoneIsPhi
  <2> QED
    BY <2>2, <2>3
<1> QED
  BY <1>1, <1>4, <1>6, <1>7, <1>8, <1>9 DEF PhiInv

\* One operand that is not copied.
LEMMA SkippingKeeps ==
  ASSUME PhiInv, HandleOperand,
         NEW phi \in AllPhis(prog), NEW i \in DOMAIN prog.args[phi], operands[1] = <<phi, i>>,
         ~NeedsCopy(pass, prog, prog.args[phi][i], visit)
  PROVE  PhiInv'
<1> DEFINE o0 == <<phi, i>>
           v == prog.args[phi][i]
<1>1. /\ pass \in 1..3 /\ operands \in Seq(Sources(prog)) /\ operands # <<>>
      /\ operands' = Tail(operands) /\ UNCHANGED <<given, pass, handed, todo>>
  BY DEF PhiInv, HandleOperand
<1>2. prog' = prog /\ visit' = IF pass = 2 THEN visit \cup {Root(prog, v)} ELSE visit
  BY DEF HandleOperand, Prepare
<1>3. Sound(prog) /\ Read(prog, o0) = v /\ o0 \in Sources(prog) /\ phi \in Insts(prog)
  BY SourceParts DEF PhiInv, Legal, Read, AllPhis
<1> HIDE DEF v, o0
<1>4. \A o \in Done' : o \in Sources(prog) /\ (o \in Done \/ o = o0)
  <2>1. \A o : o \in Range(operands) => o = o0 \/ o \in Range(operands')
    BY <1>1, HeadOrTail DEF o0
  <2> QED
    BY <1>2, <2>1 DEF Done
<1>5. operands' \in Seq(Sources(prog')) /\ pass' # 4
  BY <1>1, <1>2
<1>6. Registered'
  <2>1. pass = 1 => isReg(prog, Read(prog, o0))
    BY <1>3 DEF NeedsCopy, v
  <2>2. Registered
    BY DEF PhiInv
  <2> QED
    BY <1>1, <1>2, <1>4, <2>1, <2>2 DEF Registered
<1>7. pass > 1 => Root(prog, v) \in Insts(prog)
  BY <1>1, <1>3 DEF PhiInv, Registered, isReg
<1>8. visit' \subseteq Insts(prog')
  BY <1>1, <1>2, <1>7 DEF PhiInv
<1>9. Separated'
  <2>1. pass = 2 => Root(prog, Read(prog, o0)) \notin visit /\ visit' = visit \cup {Root(prog, Read(prog, o0))}
    BY <1>2, <1>3 DEF NeedsCopy, v
  <2>2. Separated
    BY DEF PhiInv
  <2> QED
    BY <1>1, <1>2, <1>3, <1>4, <2>1, <2>2 DEF Separated
<1>10. Unshared'
  BY <1>1, <1>2 DEF PhiInv, Unshared
<1>11. NoneIsPhi'
  <2>1. pass = 3 => ~IsPhi(prog, Root(prog, v))
    <3>1. \A x \in Insts(prog) : IsInst(x)
      BY <1>3 DEF Sound, IsFunction
    <3> QED
      BY <1>7, <3>1 DEF NeedsCopy, v
  <2>2. NoneIsPhi
    BY DEF PhiInv
  <2> QED
    BY <1>1, <1>2, <1>3, <1>4, <2>1, <2>2 DEF NoneIsPhi
<1> QED
  BY <1>1, <1>2, <1>5, <1>6, <1>8, <1>9, <1>10, <1>11 DEF PhiInv

\* One operand that is copied.
LEMMA CopyingKeeps ==
  ASSUME PhiInv, HandleOperand,
         NEW phi \in AllPhis(prog), NEW i \in DOMAIN prog.args[phi], operands[1] = <<phi, i>>,
         NeedsCopy(pass, prog, prog.args[phi][i], visit)
  PROVE  PhiInv'
<1> DEFINE o0 == <<phi, i>>
           J == CopyIncoming(prog, phi, i)[2]
<1>1. /\ pass \in 1..3 /\ operands \in Seq(Sources(prog)) /\ operands # <<>>
      /\ operands' = Tail(operands) /\ UNCHANGED <<given, pass, handed, todo>>
  BY DEF PhiInv, HandleOperand
<1>2. /\ <<prog', J>> = CopyIncoming(prog, phi, i)
      /\ visit' = IF pass = 2 THEN visit \cup {J} ELSE visit
  BY DEF HandleOperand, Prepare, CopyIncoming
<1>3. Legal(prog) /\ Grows(given, prog) /\ KeepsValues(given, prog)
  BY DEF PhiInv
<1> HIDE DEF J
<1>4. Recopied(prog, prog', phi, i, J)
  BY <1>2, <1>3, CopyRecopies
<1>5. /\ \A o : o \in Sources(prog') <=> o \in Sources(prog)
      /\ o0 \in Sources(prog) /\ Read(prog', o0) = J
      /\ \A o \in Sources(prog) : o # o0 =>
              /\ Read(prog', o) = Read(prog, o)
              /\ isReg(prog, Read(prog, o)) =>
                   /\ isReg(prog', Read(prog', o))
                   /\ Root(prog', Read(prog', o)) = Root(prog, Read(prog, o))
                   /\ Root(prog, Read(prog, o)) \in Insts(prog)
                   /\ IsPhi(prog', Root(prog, Read(prog, o))) <=> IsPhi(prog, Root(prog, Read(prog, o)))
  BY <1>3, <1>4, RecopiedReads
<1>6. /\ Legal(prog') /\ J \in Insts(prog') /\ isReg(prog', J) /\ Insts(prog) \subseteq Insts(prog')
      /\ prog'.cmap = prog.cmap
      /\ Root(prog', J) \in Insts(prog') /\ Root(prog', J) \notin Insts(prog)
      /\ ~IsPhi(prog', Root(prog', J))
  BY <1>4 DEF Recopied
<1>7. Grows(given', prog')
  <2>1. \A psi \in AllPhis(prog) : psi \in Insts(prog)
    BY DEF AllPhis
  <2> QED
    BY <1>1, <1>3, <1>4, <2>1 DEF Grows, Recopied
<1>8. KeepsValues(given', prog')
  BY <1>1, <1>3, <1>4, CopyKeepsValues
<1> HIDE DEF o0
<1>9. \A o \in Done' : o \in Sources(prog) /\ (o \in Done \/ o = o0)
  <2>3. \A o : o \in Range(operands) => o = o0 \/ o \in Range(operands')
    BY <1>1, HeadOrTail DEF o0
  <2>4. \A o : o \in Done' <=> o \in Sources(prog) /\ o \notin Range(operands')
    BY <1>5 DEF Done
  <2> QED
    BY <2>3, <2>4 DEF Done
<1>10. operands' \in Seq(Sources(prog')) /\ pass' # 4
  <2>1. Sources(prog') = Sources(prog)
    BY <1>5
  <2> QED
    BY <1>1, <2>1
<1>11. visit' \subseteq Insts(prog')
  BY <1>2, <1>6 DEF PhiInv
<1>12. \A o \in Sources(prog) : o # o0 /\ (pass > 1 \/ o \in Done) =>
         /\ isReg(prog', Read(prog', o))
         /\ Root(prog', Read(prog', o)) = Root(prog, Read(prog, o))
         /\ Root(prog, Read(prog, o)) \in Insts(prog)
         /\ IsPhi(prog', Root(prog, Read(prog, o))) <=> IsPhi(prog, Root(prog, Read(prog, o)))
  <2>1. Registered
    BY DEF PhiInv
  <2> QED
    BY <1>5, <2>1 DEF Registered
<1>13. Registered'
  BY <1>1, <1>5, <1>6, <1>9, <1>12 DEF Registered
<1>14. Root(prog', Read(prog', o0)) \notin Insts(prog) /\ ~IsPhi(prog', Root(prog', Read(prog', o0)))
  BY <1>5, <1>6
<1>15. Separated'
  <2>1. Separated
    BY DEF PhiInv
  <2> SUFFICES ASSUME pass = 2, NEW o \in Sources(prog), NEW x \in Sources(prog), o # x, o \in Done',
                      Root(prog', Read(prog', o)) = Root(prog', Read(prog', x))
               PROVE  x \notin Done' /\ Root(prog', Read(prog', o)) \in visit'
    BY <1>1, <1>5 DEF Separated
  <2>2. o # o0 /\ x # o0
    BY <1>12, <1>14
  <2>3. Root(prog, Read(prog, o)) = Root(prog, Read(prog, x)) /\ o \in Done
    BY <1>9, <1>12, <2>2
  <2>4. x \notin Done /\ Root(prog, Read(prog, o)) \in visit
    BY <2>1, <2>3 DEF Separated
  <2> QED
    BY <1>2, <1>9, <1>12, <2>2, <2>4
<1>16. Unshared'
  <2>1. Unshared
    BY DEF PhiInv
  <2> SUFFICES ASSUME pass > 2, NEW o \in Sources(prog), NEW x \in Sources(prog),
                      Root(prog', Read(prog', o)) = Root(prog', Read(prog', x))
               PROVE  o = x
    BY <1>1, <1>5 DEF Unshared
  <2>2. CASE o = o0 \/ x = o0
    BY <1>1, <1>12, <1>14, <2>2
  <2>3. CASE o # o0 /\ x # o0
    BY <1>1, <1>12, <2>1, <2>3 DEF Unshared
  <2> QED
    BY <2>2, <2>3
<1>17. NoneIsPhi'
  <2>1. NoneIsPhi
    BY DEF PhiInv
  <2> SUFFICES ASSUME pass > 2, NEW o \in Done' PROVE ~IsPhi(prog', Root(prog', Read(prog', o)))
    BY <1>1 DEF NoneIsPhi
  <2>2. CASE o = o0
    BY <1>14, <2>2
  <2>3. CASE o # o0
    BY <1>1, <1>9, <1>12, <2>1, <2>3 DEF NoneIsPhi
  <2> QED
    BY <2>2, <2>3
<1>18. DOMAIN prog'.cmap = {}
  BY <1>6 DEF PhiInv
<1> QED
  BY <1>1, <1>6, <1>7, <1>8, <1>10, <1>11, <1>13, <1>15, <1>16, <1>17, <1>18 DEF PhiInv

\* The passes over the phis keep what holds of them.
LEMMA HandleOperandKeeps ==
  ASSUME PhiInv, HandleOperand
  PROVE  PhiInv'
<1>1. operands[1] \in Sources(prog)
  <2>1. operands \in Seq(Sources(prog)) /\ operands # <<>>
    BY DEF PhiInv, HandleOperand
  <2> QED
    BY <2>1
<1>2. PICK phi \in AllPhis(prog) : \E i \in DOMAIN prog.args[phi] : operands[1] = <<phi, i>>
  BY <1>1, SourceParts
<1>3. PICK i \in DOMAIN prog.args[phi] : operands[1] = <<phi, i>>
  BY <1>2
<1> QED
  BY <1>3, SkippingKeeps, CopyingKeeps

-----------------------------------------------------------------------------
\* ConstantSplit.

\* The types of constants.
LEMMA ConstantTypes ==
  \A c \in Constants :
    /\ Pool[-c].type \in {"i64", "i32", "v4i64", "v8i32"} /\ Pool[-c].type \in ValueTypes
    /\ Pool[-c] = [type |-> Pool[-c].type, value |-> Pool[-c].value]
    /\ Pool[-c].type = "i64" => ~IsVector(Pool[-c].type)
    /\ Pool[-c].value \in {1, 16} /\ (IsVector(Pool[-c].type) => Pool[-c].value = 1)
BY Pooled DEF IsVector, ValueTypes

\* No constant is twice in the pool.
LEMMA ConstantsDiffer ==
  \A c, d \in Constants : Pool[-c] = Pool[-d] => c = d
BY Pooled

\* The constants others are materialised from.
LEMMA WideConstants ==
  \A c \in Constants :
    /\ Wide(c) \in Constants /\ Pool[-Wide(c)].type = "i64" /\ Pool[-Wide(c)].value = Pool[-c].value
    /\ Pool[-c].type = "i64" => Wide(c) = c
<1> SUFFICES ASSUME NEW c \in Constants
             PROVE  /\ Wide(c) \in Constants /\ Pool[-Wide(c)].type = "i64"
                    /\ Pool[-Wide(c)].value = Pool[-c].value
                    /\ Pool[-c].type = "i64" => Wide(c) = c
  OBVIOUS
<1> DEFINE wide == [type |-> "i64", value |-> Pool[-c].value]
           n == CHOOSE k \in DOMAIN Pool : Pool[k] = wide
<1>1. \E k \in DOMAIN Pool : Pool[k] = wide
  BY ConstantTypes, Pooled
<1>2. n \in DOMAIN Pool /\ Pool[n] = wide
  BY <1>1
<1>3. Wide(c) = -n
  BY DEF Wide
<1> HIDE DEF n
<1>4. -(-n) = n
  BY <1>2, Pooled
<1>5. Wide(c) \in Constants /\ Pool[-Wide(c)] = wide
  BY <1>2, <1>3, <1>4 DEF Constants
<1>6. Pool[-c].type = "i64" => Wide(c) = c
  BY <1>5, ConstantTypes, ConstantsDiffer
<1> QED
  BY <1>5, <1>6

\* The element of a splat vector is a constant of the pool with the same value.
LEMMA ElementConstants ==
  \A c \in Constants : IsVector(Pool[-c].type) =>
    /\ Element(c) \in Constants /\ ~IsVector(Pool[-Element(c)].type)
    /\ Pool[-Element(c)].value = Pool[-c].value
<1> SUFFICES ASSUME NEW c \in Constants, IsVector(Pool[-c].type)
             PROVE  /\ Element(c) \in Constants /\ ~IsVector(Pool[-Element(c)].type)
                    /\ Pool[-Element(c)].value = Pool[-c].value
  OBVIOUS
<1> DEFINE element == [type |-> ElementType(Pool[-c].type), value |-> Pool[-c].value]
           n == CHOOSE k \in DOMAIN Pool : Pool[k] = element
<1>1. ElementType(Pool[-c].type) \in {"i64", "i32"}
  BY DEF IsVector, ElementType
<1>2. \E k \in DOMAIN Pool : Pool[k] = element
  BY <1>1, ConstantTypes, Pooled
<1>3. n \in DOMAIN Pool /\ Pool[n] = element
  BY <1>2
<1>4. Element(c) = -n
  BY DEF Element
<1> HIDE DEF n
<1>5. -(-n) = n
  BY <1>3, Pooled
<1>6. Element(c) \in Constants /\ Pool[-Element(c)] = element
  BY <1>3, <1>4, <1>5 DEF Constants
<1> QED
  BY <1>1, <1>6 DEF IsVector

\* J materialises constant c.
MaterialisedBy(p, c, J) ==
  /\ p.type[J] = Pool[-c].type
  /\ \/ p.kind[J] = "const" /\ Pool[-c].type = "i64" /\ p.args[J] = <<c>>
     \/ /\ p.kind[J] = "move" /\ Pool[-c].type = "i32"
        /\ Wide(c) \in DOMAIN p.cmap /\ p.args[J] = <<p.cmap[Wide(c)]>>
     \/ /\ p.kind[J] = "op" /\ IsVector(Pool[-c].type)
        /\ Element(c) \in DOMAIN p.cmap /\ p.args[J] = <<p.cmap[Element(c)]>>

\* The cache has all instructions p has more than h, in the entry block, in front of those
\* still to be visited.
CacheInv(h, p, td) ==
  /\ \A c \in DOMAIN p.cmap :
       /\ c \in Constants /\ p.cmap[c] \in Insts(p) \ Insts(h) /\ BlockOf(p, p.cmap[c]) = 1
       /\ MaterialisedBy(p, c, p.cmap[c])
       /\ \A X \in Range(td) : BlockOf(p, X) = 1 => DefDominates(p, p.cmap[c], X)
  /\ \A w \in Insts(p) \ Insts(h) : \E c \in DOMAIN p.cmap : p.cmap[c] = w

\* Those of the entry block are visited first, and in their order.
InOrder(p, td) ==
  \A k, l \in 1..Len(td) : k < l =>
    /\ td[k] # td[l]
    /\ BlockOf(p, td[l]) = 1 => BlockOf(p, td[k]) = 1 /\ DefDominates(p, td[k], td[l])

PhisReady(p) ==
  PhisReadRegisters(p) /\ IncomingInRegisters(p) /\ NoSharedOperands(p) /\ NoPhiFeedsPhi(p)

Same(h, p) ==
  /\ Insts(h) \subseteq Insts(p) /\ AllPhis(p) = AllPhis(h)
  /\ \A I \in Insts(h) : p.kind[I] = h.kind[I] /\ p.type[I] = h.type[I]

Caching(h, p, td) ==
  /\ Legal(p) /\ PhisReady(p) /\ Same(h, p)
  /\ td \in Seq(Insts(h)) /\ InOrder(p, td) /\ CacheInv(h, p, td)

\* q is p with more in the cache, and nothing else done to it.
Enriched(p, q) ==
  /\ Lengthened(p, q)
  /\ \A c \in DOMAIN p.cmap : c \in DOMAIN q.cmap /\ q.cmap[c] = p.cmap[c]

\* What grows keeps what holds of its phis.
LEMMA LengtheningKeepsPhis ==
  ASSUME NEW p, Sound(p), PhisReady(p), NEW q, Lengthened(p, q)
  PROVE  PhisReady(q)
<1>1. AllPhis(q) = AllPhis(p) /\ \A phi \in AllPhis(p) : phi \in Insts(p) /\ q.args[phi] = p.args[phi]
  BY DEF Lengthened, AllPhis
<1>2. \A phi \in AllPhis(p) : \A v \in Range(p.args[phi]) : v \in Insts(p)
  BY DEF PhisReady, PhisReadRegisters
<1>3. \A v \in Insts(p) : v \in Insts(q) /\ Root(q, v) = Root(p, v) /\ isReg(q, v) = isReg(p, v) /\ q.kind[v] = p.kind[v]
  BY DEF Lengthened, Grown
<1>4. PhisReadRegisters(q)
  BY <1>1, <1>2, <1>3 DEF PhisReady, PhisReadRegisters, IsPhi
<1>5. IncomingInRegisters(q)
  BY <1>1, <1>2, <1>3 DEF PhisReady, IncomingInRegisters
<1>6. NoSharedOperands(q)
  <2>1. \A phi \in AllPhis(p) : \A i \in DOMAIN p.args[phi] : Root(q, p.args[phi][i]) = Root(p, p.args[phi][i])
    BY <1>2, <1>3 DEF Range
  <2> QED
    BY <1>1, <2>1 DEF PhisReady, NoSharedOperands
<1>7. NoPhiFeedsPhi(q)
  <2>1. \A phi \in AllPhis(p) : \A v \in Range(p.args[phi]) : Root(p, v) \in Insts(p)
    BY DEF PhisReady, IncomingInRegisters, isReg
  <2> QED
    BY <1>1, <1>2, <1>3, <2>1 DEF PhisReady, NoPhiFeedsPhi, IsPhi
<1> QED
  BY <1>4, <1>5, <1>6, <1>7 DEF PhisReady

\* Where constants are materialised: what is in the cache can be used there, and what will be can be
\* by what has still to be visited.
LEMMA InsertPlace ==
  ASSUME NEW h, NEW p, NEW td, Caching(h, p, td), td # <<>>, NEW t, t = InsertPoint(p, td[1])
  PROVE  /\ td[1] \in Insts(h) /\ td[1] \in Insts(p)
         /\ t \in Insts(p) /\ ~IsPhi(p, t) /\ BlockOf(p, t) = 1
         /\ \A c \in DOMAIN p.cmap : Available(p, p.cmap[c], t)
         /\ \A X \in Range(td) : BlockOf(p, X) = 1 => X = t \/ DefDominates(p, t, X)
<1> DEFINE I == td[1]
<1>1. Sound(p) /\ IsFunction(p) /\ WellFormed(p) /\ 1 \in Blocks(p)
  BY BlocksFlow DEF Caching, Legal, Sound
<1>2. td \in Seq(Insts(h)) /\ DOMAIN td = 1..Len(td) /\ Len(td) \in Nat \ {0}
  BY DEF Caching
<1>3. I \in Insts(h) /\ I \in Insts(p)
  BY <1>2 DEF Caching, Same
<1>4. \A c \in DOMAIN p.cmap : /\ p.cmap[c] \in Insts(p) /\ BlockOf(p, p.cmap[c]) = 1
                               /\ p.kind[p.cmap[c]] \notin Terminators
                               /\ BlockOf(p, I) = 1 => DefDominates(p, p.cmap[c], I)
  <2>1. CacheInv(h, p, td) /\ I \in Range(td)
    BY <1>2 DEF Caching, Range
  <2> QED
    BY <2>1 DEF CacheInv, MaterialisedBy, Terminators
<1>5. CASE BlockOf(p, I) = 1
  <2>1. t = I
    BY <1>5 DEF InsertPoint
  <2>2. ~IsPhi(p, I)
    BY <1>1, <1>3, <1>5, PhisOfBlock DEF WellFormed
  <2>3. \A X \in Range(td) : BlockOf(p, X) = 1 => X = I \/ DefDominates(p, I, X)
    <3> SUFFICES ASSUME NEW X \in Range(td), X # I, BlockOf(p, X) = 1 PROVE DefDominates(p, I, X)
      OBVIOUS
    <3>1. PICK l \in 1..Len(td) : td[l] = X
      BY <1>2 DEF Range
    <3>2. 1 < l /\ 1 \in 1..Len(td)
      BY <1>2, <3>1
    <3> QED
      BY <3>1, <3>2 DEF Caching, InOrder
  <2> QED
    BY <1>3, <1>4, <1>5, <2>1, <2>2, <2>3 DEF Available
<1>6. CASE BlockOf(p, I) # 1
  <2>1. t = getTerminator(p, 1)
    BY <1>6 DEF InsertPoint
  <2>2. /\ t \in Insts(p) /\ ~IsPhi(p, t) /\ BlockOf(p, t) = 1 /\ p.kind[t] \in Terminators
        /\ \A J \in Insts(p) : BlockOf(p, J) = 1 /\ J # t => DefDominates(p, J, t)
    BY <1>1, <2>1, TerminatorPlace
  <2>3. \A X \in Range(td) : BlockOf(p, X) # 1
    <3> SUFFICES ASSUME NEW X \in Range(td), BlockOf(p, X) = 1 PROVE FALSE
      OBVIOUS
    <3>1. PICK l \in 1..Len(td) : td[l] = X
      BY <1>2 DEF Range
    <3>2. 1 < l /\ 1 \in 1..Len(td)
      BY <1>2, <1>6, <3>1
    <3> QED
      BY <1>6, <3>1, <3>2 DEF Caching, InOrder
  <2> QED
    BY <1>3, <1>4, <2>2, <2>3 DEF Available
<1> QED
  BY <1>5, <1>6

\* What Materialise is given for a constant.
MaterialisedWith(p, c, kind, args) ==
  \/ kind = "const" /\ Pool[-c].type = "i64" /\ args = <<c>>
  \/ /\ kind = "move" /\ Pool[-c].type = "i32"
     /\ Wide(c) \in DOMAIN p.cmap /\ args = <<p.cmap[Wide(c)]>>
  \/ /\ kind = "op" /\ IsVector(Pool[-c].type)
     /\ Element(c) \in DOMAIN p.cmap /\ args = <<p.cmap[Element(c)]>>

\* The function with one more materialised.
LEMMA MaterialiseInserts ==
  ASSUME NEW h, NEW p, NEW td, Caching(h, p, td), td # <<>>, NEW t, t = InsertPoint(p, td[1]),
         NEW c \in Constants, c \notin DOMAIN p.cmap, NEW kind, NEW args,
         MaterialisedWith(p, c, kind, args), NEW q, q = Materialise(p, t, c, kind, args),
         NEW J, J = FreshInst(p)
  PROVE  /\ Sound(q) /\ Grown(p, q) /\ InsertedInto(p, q, t, J) /\ Available(q, J, t) /\ ~IsPhi(q, J)
         /\ q.kind[J] = kind /\ q.args[J] = args /\ q.type[J] = Pool[-c].type
         /\ q.cmap = Extended(p.cmap, c, J)
         /\ \E x \in Int : args = <<x>> /\ (x = c \/ (x \in Insts(p) /\ p.kind[x] \notin Terminators))
<1>1. Sound(p) /\ IsFunction(p) /\ HasFields(p)
  BY DEF Caching, Legal, Sound
<1>2. /\ t \in Insts(p) /\ ~IsPhi(p, t) /\ BlockOf(p, t) = 1
      /\ \A d \in DOMAIN p.cmap : Available(p, p.cmap[d], t)
  BY InsertPlace
<1> DEFINE r == InsertBefore(p, t, J, kind, args, Pool[-c].type)
<1>3. /\ InsertedInto(p, r, t, J)
      /\ r.kind[J] = kind /\ r.args[J] = args /\ r.type[J] = Pool[-c].type
      /\ r.cmap = p.cmap
  <2>1. "cmap" \in DOMAIN p \ {"body", "kind", "args", "type", "from"}
    BY <1>1 DEF HasFields
  <2> QED
    BY <1>1, <2>1, InsertBeforeInserts
<1>4. q = [r EXCEPT !.cmap = Extended(@, c, J)] /\ "cmap" \in DOMAIN r
  BY <1>1, <1>3 DEF Materialise, HasFields, InsertedInto
<1> HIDE DEF r
<1>5. /\ DOMAIN q = DOMAIN r /\ q.body = r.body /\ q.succ = r.succ /\ q.kind = r.kind /\ q.args = r.args
      /\ q.type = r.type /\ q.from = r.from /\ q.cmap = Extended(p.cmap, c, J)
  BY <1>3, <1>4
<1>6. InsertedInto(p, q, t, J)
  <2>1. Insts(q) = Insts(r)
    BY <1>5 DEF Insts
  <2> QED
    BY <1>3, <1>5, <2>1 DEF InsertedInto
<1>7. \E x \in Int : args = <<x>> /\ (x = c \/ (x \in Insts(p) /\ p.kind[x] \notin Terminators /\ Available(p, x, t)))
  <2>1. \A d \in DOMAIN p.cmap : /\ p.cmap[d] \in Insts(p) /\ p.cmap[d] \in Int
                                 /\ p.kind[p.cmap[d]] \notin Terminators
    <3>1. \A x \in Insts(p) : x \in Int
      BY <1>1 DEF IsFunction
    <3> QED
      BY <3>1 DEF Caching, CacheInv, MaterialisedBy, Terminators
  <2>2. c \in Int
    BY ConstantsAreNegative
  <2> QED
    BY <1>2, <2>1, <2>2 DEF MaterialisedWith
<1>8. kind \in {"const", "move", "op"}
  BY DEF MaterialisedWith
<1>9. /\ q.kind[J] = kind /\ q.args[J] = args /\ q.type[J] = Pool[-c].type
  BY <1>3, <1>5
<1>10. Sound(q) /\ Grown(p, q) /\ Available(q, J, t) /\ ~IsPhi(q, J)
  <2>1. PICK x \in Int : args = <<x>> /\ (x = c \/ Available(p, x, t))
    BY <1>7
  <2>2. args \in Seq(Int) /\ args # <<>> /\ Range(args) = {x}
    BY <2>1 DEF Range
  <2>3. \A v \in Operands(q, J) : Available(p, v, t)
    BY <1>9, <2>1, <2>2, ConstantsAreNegative DEF Operands
  <2>4. Pool[-c].type \in ValueTypes
    BY ConstantTypes
  <2>5. q.kind[J] \in {"op", "const", "move", "noreg", "sp"}
    BY <1>8, <1>9
  <2>6. /\ q.args[J] \in Seq(Int) /\ q.args[J] # <<>> /\ q.type[J] \in ValueTypes
    BY <1>9, <2>2, <2>4
  <2> QED
    BY <1>1, <1>2, <1>6, <2>3, <2>5, <2>6, InsertionIsSound
<1> QED
  BY <1>5, <1>6, <1>7, <1>9, <1>10

\* One more materialised constant.
LEMMA MaterialiseKeeps ==
  ASSUME NEW h, NEW p, NEW td, Caching(h, p, td), td # <<>>, NEW t, t = InsertPoint(p, td[1]),
         NEW c \in Constants, c \notin DOMAIN p.cmap, NEW kind, NEW args,
         MaterialisedWith(p, c, kind, args), NEW q, q = Materialise(p, t, c, kind, args)
  PROVE  /\ Caching(h, q, td) /\ Enriched(p, q) /\ t = InsertPoint(q, td[1])
         /\ \A d : d \in DOMAIN q.cmap <=> d = c \/ d \in DOMAIN p.cmap
<1> DEFINE J == FreshInst(p)
<1>1. /\ Sound(p) /\ IsFunction(p) /\ HasFields(p) /\ Legal(p) /\ PhisReady(p) /\ Same(h, p)
      /\ td \in Seq(Insts(h)) /\ InOrder(p, td) /\ CacheInv(h, p, td)
  BY DEF Caching, Legal, Sound
<1>2. /\ td[1] \in Insts(h) /\ td[1] \in Insts(p)
      /\ t \in Insts(p) /\ ~IsPhi(p, t) /\ BlockOf(p, t) = 1
      /\ \A X \in Range(td) : BlockOf(p, X) = 1 => X = t \/ DefDominates(p, t, X)
  BY InsertPlace
<1>3. /\ Sound(q) /\ Grown(p, q) /\ InsertedInto(p, q, t, J) /\ ~IsPhi(q, J)
      /\ q.kind[J] = kind /\ q.args[J] = args /\ q.type[J] = Pool[-c].type
      /\ q.cmap = Extended(p.cmap, c, J)
      /\ \E x \in Int : args = <<x>> /\ (x = c \/ (x \in Insts(p) /\ p.kind[x] \notin Terminators))
  BY MaterialiseInserts
<1>4. /\ J \notin Insts(p) /\ J \in Insts(q) /\ \A w : w \in Insts(q) <=> w = J \/ w \in Insts(p)
      /\ \A I \in Insts(p) : q.kind[I] = p.kind[I] /\ q.args[I] = p.args[I] /\ q.type[I] = p.type[I]
                             /\ q.from[I] = p.from[I]
  BY <1>1, <1>3, FreshIsNew DEF InsertedInto
<1>5. IsFunction(q)
  BY <1>3 DEF Sound
<1> HIDE DEF J
<1>6. /\ BlockOf(q, J) = 1 /\ DefDominates(q, J, t)
      /\ \A I \in Insts(p) : BlockOf(q, I) = BlockOf(p, I)
      /\ \A u, v \in Insts(p) : DefDominates(q, u, v) <=> DefDominates(p, u, v)
      /\ getTerminator(q, 1) = getTerminator(p, 1)
  BY <1>1, <1>2, <1>3, <1>5, OrderAfterInsertion, BlocksFlow
<1>7. \A d : d \in DOMAIN q.cmap <=> d = c \/ d \in DOMAIN p.cmap
  BY <1>3 DEF Extended
<1>8. q.cmap[c] = J /\ \A d \in DOMAIN p.cmap : q.cmap[d] = p.cmap[d]
  BY <1>3 DEF Extended
<1>9. Lengthened(p, q)
  <2>1. AllPhis(q) = AllPhis(p)
    BY <1>3, <1>4 DEF AllPhis, IsPhi
  <2> QED
    BY <1>3, <1>4, <2>1 DEF Lengthened
<1>10. Enriched(p, q)
  BY <1>7, <1>8, <1>9 DEF Enriched
<1>11. t = InsertPoint(q, td[1])
  BY <1>2, <1>6 DEF InsertPoint
<1>12. Legal(q)
  <2>1. HasTypes(q)
    <3>1. \A I \in Insts(p) : q.kind[I] \in {"phi", "move", "op", "const"} => q.type[I] \in ValueTypes
      BY <1>1, <1>4 DEF Legal, HasTypes
    <3>2. q.type[J] \in ValueTypes
      BY <1>3, ConstantTypes
    <3> QED
      BY <1>4, <3>1, <3>2 DEF HasTypes
  <2>2. \A I \in Insts(p) : \A k \in DOMAIN q.args[I] : IsValue(q, q.args[I][k])
    <3> SUFFICES ASSUME NEW I \in Insts(p), NEW k \in DOMAIN q.args[I] PROVE IsValue(q, q.args[I][k])
      OBVIOUS
    <3>1. q.args[I][k] = p.args[I][k] /\ k \in DOMAIN p.args[I]
      BY <1>4
    <3>2. IsValue(p, p.args[I][k]) /\ (IsInst(p.args[I][k]) => p.args[I][k] \in Insts(p))
      BY <1>1, <3>1, RegistersAreInsts DEF Legal, ReadsValues
    <3> QED
      BY <1>4, <3>1, <3>2 DEF IsValue
  <2>3. \A k \in DOMAIN q.args[J] : IsValue(q, q.args[J][k])
    <3>1. PICK x \in Int : args = <<x>> /\ (x = c \/ (x \in Insts(p) /\ p.kind[x] \notin Terminators))
      BY <1>3
    <3>2. IsValue(q, x)
      <4>1. CASE x = c
        BY <4>1, ConstantsAreNegative DEF IsValue
      <4>2. CASE x \in Insts(p) /\ p.kind[x] \notin Terminators
        <5>1. IsInst(x) /\ q.kind[x] \notin Terminators
          BY <1>1, <1>4, <4>2 DEF IsFunction
        <5> QED
          BY <5>1 DEF IsValue
      <4> QED
        BY <3>1, <4>1, <4>2
    <3>3. DOMAIN args = {1} /\ args[1] = x
      BY <3>1
    <3> QED
      BY <1>3, <3>2, <3>3
  <2> QED
    BY <1>3, <1>4, <2>1, <2>2, <2>3 DEF Legal, ReadsValues
<1>13. PhisReady(q)
  BY <1>1, <1>9, LengtheningKeepsPhis
<1>14. \A k \in 1..Len(td) : td[k] \in Insts(h) /\ td[k] \in Insts(p) /\ td[k] \in Range(td)
  <2>1. DOMAIN td = 1..Len(td)
    BY <1>1
  <2>2. \A k \in 1..Len(td) : td[k] \in Insts(h)
    BY <1>1
  <2> QED
    BY <1>1, <2>1, <2>2 DEF Same, Range
<1>15. Same(h, q)
  <2>1. AllPhis(q) = AllPhis(p)
    BY <1>9 DEF Lengthened
  <2> QED
    BY <1>1, <1>4, <2>1 DEF Same
<1>16. InOrder(q, td)
  BY <1>1, <1>6, <1>14 DEF InOrder
<1>17. ASSUME NEW d \in DOMAIN p.cmap
       PROVE  /\ d \in Constants /\ q.cmap[d] \in Insts(q) \ Insts(h) /\ BlockOf(q, q.cmap[d]) = 1
              /\ MaterialisedBy(q, d, q.cmap[d])
              /\ \A X \in Range(td) : BlockOf(q, X) = 1 => DefDominates(q, q.cmap[d], X)
  <2> DEFINE w == p.cmap[d]
  <2>1. /\ d \in Constants /\ w \in Insts(p) \ Insts(h) /\ BlockOf(p, w) = 1
        /\ MaterialisedBy(p, d, w)
        /\ \A X \in Range(td) : BlockOf(p, X) = 1 => DefDominates(p, w, X)
    BY <1>1 DEF CacheInv
  <2>2. q.cmap[d] = w
    BY <1>8
  <2> HIDE DEF w
  <2>3. \A X \in Range(td) : X \in Insts(p)
    BY <1>1, <1>14 DEF Range
  <2>4. MaterialisedBy(q, d, w)
    BY <1>4, <1>7, <1>8, <2>1 DEF MaterialisedBy
  <2> QED
    BY <1>4, <1>6, <2>1, <2>2, <2>3, <2>4
<1>18. MaterialisedBy(q, c, J)
  BY <1>3, <1>7, <1>8 DEF MaterialisedBy, MaterialisedWith
<1>19. ASSUME NEW X \in Range(td), BlockOf(q, X) = 1 PROVE DefDominates(q, J, X)
  <2>1. X \in Insts(p) /\ X \in Insts(q) /\ t \in Insts(q) /\ BlockOf(q, t) = 1
    BY <1>1, <1>2, <1>4, <1>6, <1>14 DEF Range
  <2>2. X = t \/ DefDominates(q, t, X)
    BY <1>2, <1>6, <1>19, <2>1
  <2>3. IndexOf(q, J) < IndexOf(q, t)
    BY <1>6, <2>1 DEF DefDominates
  <2>4. X = t \/ IndexOf(q, t) < IndexOf(q, X)
    BY <1>19, <2>1, <2>2 DEF DefDominates
  <2>5. IndexOf(q, J) \in Nat /\ IndexOf(q, t) \in Nat /\ IndexOf(q, X) \in Nat
    BY <1>4, <1>5, <2>1, Places
  <2>6. IndexOf(q, J) < IndexOf(q, X)
    BY <2>3, <2>4, <2>5
  <2> QED
    BY <1>6, <1>19, <2>6 DEF DefDominates
<1>20. J \notin Insts(h)
  BY <1>1, <1>4 DEF Same
<1>21. CacheInv(h, q, td)
  <2>1. \A d \in DOMAIN q.cmap :
       /\ d \in Constants /\ q.cmap[d] \in Insts(q) \ Insts(h) /\ BlockOf(q, q.cmap[d]) = 1
       /\ MaterialisedBy(q, d, q.cmap[d])
       /\ \A X \in Range(td) : BlockOf(q, X) = 1 => DefDominates(q, q.cmap[d], X)
    <3> SUFFICES ASSUME NEW d \in DOMAIN q.cmap
                 PROVE  /\ d \in Constants /\ q.cmap[d] \in Insts(q) \ Insts(h) /\ BlockOf(q, q.cmap[d]) = 1
                        /\ MaterialisedBy(q, d, q.cmap[d])
                        /\ \A X \in Range(td) : BlockOf(q, X) = 1 => DefDominates(q, q.cmap[d], X)
      OBVIOUS
    <3>1. CASE d = c
      BY <1>4, <1>6, <1>8, <1>18, <1>19, <1>20, <3>1
    <3>2. CASE d \in DOMAIN p.cmap
      BY <1>17, <3>2
    <3> QED
      BY <1>7, <3>1, <3>2
  <2>2. \A w \in Insts(q) \ Insts(h) : \E d \in DOMAIN q.cmap : q.cmap[d] = w
    <3>1. \A w \in Insts(p) \ Insts(h) : \E d \in DOMAIN p.cmap : p.cmap[d] = w
      BY <1>1 DEF CacheInv
    <3> QED
      BY <1>4, <1>7, <1>8, <3>1
  <2> QED
    BY <2>1, <2>2 DEF CacheInv
<1> QED
  BY <1>1, <1>7, <1>10, <1>11, <1>12, <1>13, <1>15, <1>16, <1>21 DEF Caching

\* What is enriched twice is enriched.
LEMMA EnrichedTransitive ==
  ASSUME NEW p, NEW q, NEW r, Enriched(p, q), Enriched(q, r) PROVE Enriched(p, r)
BY LengthenedTransitive DEF Enriched

\* And so is what is left alone.
LEMMA EnrichedReflexive ==
  ASSUME NEW p PROVE Enriched(p, p)
BY DEF Enriched, Lengthened, Grown

\* The i64 of a constant.
LEMMA WideKeeps ==
  ASSUME NEW h, NEW p, NEW td, Caching(h, p, td), td # <<>>, NEW t, t = InsertPoint(p, td[1]),
         NEW c \in Constants, Pool[-c].type = "i64", NEW q, q = ResolveWide(p, c, t)
  PROVE  /\ Caching(h, q, td) /\ Enriched(p, q) /\ t = InsertPoint(q, td[1])
         /\ \A d : d \in DOMAIN q.cmap <=> d = c \/ d \in DOMAIN p.cmap
<1>1. CASE c \in DOMAIN p.cmap
  <2>1. q = p
    BY <1>1 DEF ResolveWide, Cached
  <2> QED
    BY <1>1, <2>1, EnrichedReflexive
<1>2. CASE c \notin DOMAIN p.cmap
  <2>1. q = Materialise(p, t, c, "const", <<c>>)
    BY <1>2 DEF ResolveWide, Cached
  <2>2. MaterialisedWith(p, c, "const", <<c>>)
    BY DEF MaterialisedWith
  <2> QED
    BY <1>2, <2>1, <2>2, MaterialiseKeeps
<1> QED
  BY <1>1, <1>2

\* An integer.
LEMMA IntKeeps ==
  ASSUME NEW h, NEW p, NEW td, Caching(h, p, td), td # <<>>, NEW t, t = InsertPoint(p, td[1]),
         NEW c \in Constants, ~IsVector(Pool[-c].type), NEW r, r = ResolveInt(p, c, t)
  PROVE  /\ Caching(h, r, td) /\ Enriched(p, r) /\ t = InsertPoint(r, td[1])
         /\ c \in DOMAIN r.cmap
         /\ \A d \in DOMAIN r.cmap : d \in DOMAIN p.cmap \/ ~IsVector(Pool[-d].type)
<1> DEFINE w == Wide(c)
           q == ResolveWide(p, w, t)
<1>1. w \in Constants /\ Pool[-w].type = "i64" /\ ~IsVector(Pool[-w].type)
      /\ (Pool[-c].type = "i64" => w = c)
  BY WideConstants, ConstantTypes
<1>2. /\ Caching(h, q, td) /\ Enriched(p, q) /\ t = InsertPoint(q, td[1])
      /\ \A d : d \in DOMAIN q.cmap <=> d = w \/ d \in DOMAIN p.cmap
  BY <1>1, WideKeeps
<1>3. r = IF c \in DOMAIN p.cmap \/ c = w THEN q ELSE Materialise(q, t, c, "move", <<q.cmap[w]>>)
  BY DEF ResolveInt, Cached
<1> HIDE DEF q, w
<1>4. CASE c \in DOMAIN p.cmap \/ c = w
  BY <1>1, <1>2, <1>3, <1>4
<1>5. CASE ~(c \in DOMAIN p.cmap \/ c = w)
  <2>1. r = Materialise(q, t, c, "move", <<q.cmap[w]>>) /\ c \notin DOMAIN q.cmap /\ w \in DOMAIN q.cmap
    BY <1>2, <1>3, <1>5
  <2>2. Pool[-c].type = "i32"
    BY <1>1, <1>5, ConstantTypes DEF IsVector
  <2>3. MaterialisedWith(q, c, "move", <<q.cmap[w]>>)
    BY <2>1, <2>2 DEF MaterialisedWith, w
  <2>4. /\ Caching(h, r, td) /\ Enriched(q, r) /\ t = InsertPoint(r, td[1])
        /\ \A d : d \in DOMAIN r.cmap <=> d = c \/ d \in DOMAIN q.cmap
    BY <1>2, <2>1, <2>3, MaterialiseKeeps
  <2>5. Enriched(p, r)
    BY <1>2, <2>4, EnrichedTransitive
  <2> QED
    BY <1>1, <1>2, <2>4, <2>5
<1> QED
  BY <1>4, <1>5

\* Whatever its type.
LEMMA ResolveKeeps ==
  ASSUME NEW h, NEW p, NEW td, Caching(h, p, td), td # <<>>, NEW c \in Constants,
         NEW r, r = resolve_constant(p, c, td[1])
  PROVE  Caching(h, r, td) /\ Enriched(p, r) /\ c \in DOMAIN r.cmap
<1> DEFINE t == InsertPoint(p, td[1])
           e == Element(c)
           q == ResolveInt(p, e, t)
<1>1. r = IF c \in DOMAIN p.cmap THEN p
          ELSE IF IsVector(Pool[-c].type) THEN Materialise(q, t, c, "op", <<q.cmap[e]>>)
          ELSE ResolveInt(p, c, t)
  BY DEF resolve_constant, Cached
<1>2. CASE c \in DOMAIN p.cmap
  BY <1>1, <1>2, EnrichedReflexive
<1>3. CASE c \notin DOMAIN p.cmap /\ ~IsVector(Pool[-c].type)
  BY <1>1, <1>3, IntKeeps
<1>4. CASE c \notin DOMAIN p.cmap /\ IsVector(Pool[-c].type)
  <2>1. e \in Constants /\ ~IsVector(Pool[-e].type)
    BY <1>4, ElementConstants
  <2>2. /\ Caching(h, q, td) /\ Enriched(p, q) /\ t = InsertPoint(q, td[1]) /\ e \in DOMAIN q.cmap
        /\ \A d \in DOMAIN q.cmap : d \in DOMAIN p.cmap \/ ~IsVector(Pool[-d].type)
    BY <2>1, IntKeeps
  <2>3. r = Materialise(q, t, c, "op", <<q.cmap[e]>>)
    BY <1>1, <1>4
  <2> HIDE DEF q, t
  <2>4. MaterialisedWith(q, c, "op", <<q.cmap[e]>>)
    BY <1>4, <2>2 DEF MaterialisedWith
  <2>5. c \notin DOMAIN q.cmap
    BY <1>4, <2>2
  <2>6. /\ Caching(h, r, td) /\ Enriched(q, r)
        /\ \A d : d \in DOMAIN r.cmap <=> d = c \/ d \in DOMAIN q.cmap
    BY <2>2, <2>3, <2>4, <2>5, MaterialiseKeeps
  <2>7. Enriched(p, r)
    BY <2>2, <2>6, EnrichedTransitive
  <2> QED
    BY <2>6, <2>7
<1> QED
  BY <1>2, <1>3, <1>4

\* What phis read stays what it is when an instruction that is no phi reads something else.
LEMMA RewiringKeepsPhis ==
  ASSUME NEW p, Sound(p), PhisReady(p), NEW q, AllPhis(q) = AllPhis(p), q.kind = p.kind,
         \A phi \in AllPhis(p) : q.args[phi] = p.args[phi], KeepsRoots(p, q)
  PROVE  PhisReady(q)
<1>1. Insts(q) = Insts(p) /\ \A x \in Insts(p) : IsInst(x)
  BY DEF Insts, Sound, IsFunction
<1>2. ASSUME NEW phi \in AllPhis(p), NEW v \in Range(p.args[phi])
      PROVE  /\ v \in Insts(p) /\ Root(q, v) = Root(p, v) /\ isReg(q, v) /\ Root(p, v) \in Insts(p)
  <2>1. v \in Insts(p) /\ isReg(p, v)
    BY <1>2 DEF PhisReady, PhisReadRegisters, IncomingInRegisters
  <2>2. Root(p, v) \in Insts(p) /\ Root(q, v) = Root(p, v)
    BY <1>1, <2>1 DEF isReg, KeepsRoots
  <2> QED
    BY <1>1, <2>1, <2>2 DEF isReg
<1>3. PhisReadRegisters(q)
  BY <1>1, <1>2 DEF PhisReady, PhisReadRegisters, IsPhi
<1>4. IncomingInRegisters(q)
  BY <1>2 DEF IncomingInRegisters
<1>5. NoSharedOperands(q)
  <2>1. \A phi \in AllPhis(p) : \A i \in DOMAIN p.args[phi] : Root(q, p.args[phi][i]) = Root(p, p.args[phi][i])
    BY <1>2 DEF Range
  <2> QED
    BY <2>1 DEF PhisReady, NoSharedOperands
<1>6. NoPhiFeedsPhi(q)
  BY <1>2 DEF PhisReady, NoPhiFeedsPhi, IsPhi
<1> QED
  BY <1>3, <1>4, <1>5, <1>6 DEF PhisReady

\* q is p but for what I reads where it read constant c.
Reading(p, q, I, c) ==
  /\ q.cmap = p.cmap /\ DOMAIN q.args[I] = DOMAIN p.args[I]
  /\ \A k \in DOMAIN p.args[I] :
       q.args[I][k] = IF p.args[I][k] = c THEN p.cmap[c] ELSE p.args[I][k]
  /\ \A J \in Insts(p) : J # I => q.args[J] = p.args[J]

\* The instruction being visited reads the materialised constant.
LEMMA UsesReplaced ==
  ASSUME NEW h, NEW p, NEW td, Caching(h, p, td), td # <<>>, NEW I, I = td[1], h.kind[I] # "const",
         NEW c \in DOMAIN p.cmap, NEW q, q = ReplaceUses(p, I, c, p.cmap[c])
  PROVE  Caching(h, q, td) /\ Reading(p, q, I, c)
<1> DEFINE w == p.cmap[c]
           K == {k \in DOMAIN p.args[I] : p.args[I][k] = c}
<1>1. /\ Sound(p) /\ IsFunction(p) /\ HasFields(p) /\ Legal(p) /\ PhisReady(p) /\ Same(h, p)
      /\ td \in Seq(Insts(h)) /\ InOrder(p, td) /\ CacheInv(h, p, td)
  BY DEF Caching, Legal, Sound
<1>2. /\ I \in Insts(h) /\ I \in Insts(p) /\ I \in Range(td)
  <2>1. td[1] \in Insts(h) /\ td[1] \in Insts(p)
    BY <1>1 DEF Same
  <2>2. 1 \in DOMAIN td
    BY <1>1
  <2> QED
    BY <2>1, <2>2 DEF Range
<1>3. /\ c \in Constants /\ w \in Insts(p) /\ w \notin Insts(h) /\ BlockOf(p, w) = 1
      /\ MaterialisedBy(p, c, w) /\ p.kind[w] \notin Terminators
      /\ \A X \in Range(td) : BlockOf(p, X) = 1 => DefDominates(p, w, X)
  BY <1>1 DEF CacheInv, MaterialisedBy, Terminators
<1>4. K \in SUBSET DOMAIN p.args[I] /\ \A k \in K : ~IsInst(p.args[I][k])
  BY <1>3, ConstantsAreNegative
<1>5. Rewired(p, q, I, K, w) /\ q.cmap = p.cmap
  <2>1. q = [p EXCEPT !.args[I] = [k \in DOMAIN @ |-> IF @[k] = c THEN w ELSE @[k]]]
    BY DEF ReplaceUses
  <2>2. /\ {"body", "succ", "kind", "args", "from", "type", "cmap"} \subseteq DOMAIN p
        /\ DOMAIN p.args = Insts(p)
    BY <1>1 DEF HasFields
  <2>3. /\ DOMAIN q = DOMAIN p /\ q.body = p.body /\ q.succ = p.succ /\ q.kind = p.kind
        /\ q.type = p.type /\ q.from = p.from /\ q.cmap = p.cmap
        /\ q.args = [p.args EXCEPT ![I] = [k \in DOMAIN @ |-> IF @[k] = c THEN w ELSE @[k]]]
    BY <2>1, <2>2
  <2>4. [k \in DOMAIN p.args[I] |-> IF p.args[I][k] = c THEN w ELSE p.args[I][k]]
          = [k \in DOMAIN p.args[I] |-> IF k \in K THEN w ELSE p.args[I][k]]
    OBVIOUS
  <2> HIDE DEF w, K
  <2>5. q.args = [p.args EXCEPT ![I] = [k \in DOMAIN @ |-> IF k \in K THEN w ELSE @[k]]]
    BY <2>3, <2>4
  <2> QED
    BY <2>3, <2>5 DEF Rewired
<1>6. IsPhi(p, I) => K = {}
  <2> SUFFICES ASSUME IsPhi(p, I), NEW k \in DOMAIN p.args[I] PROVE p.args[I][k] # c
    OBVIOUS
  <2>1. p.args[I][k] \in Insts(p)
    BY <1>1, <1>2 DEF PhisReady, PhisReadRegisters, AllPhis, Range
  <2> QED
    BY <1>1, <1>3, <2>1, ConstantsAreNegative DEF IsFunction
<1>7. \A k \in K : Fits(p, I, k, w)
  <2>1. ~IsPhi(p, I) => Available(p, w, I)
    <3>1. DefDominates(p, w, I)
      BY <1>2, <1>3 DEF DefDominates, Dominates
    <3> QED
      BY <1>3, <3>1 DEF Available
  <2> QED
    BY <1>6, <2>1 DEF Fits
<1>8. isMoveInst(p, w) => p.args[w][1] \in Insts(p) /\ ~isMoveInst(p, p.args[w][1])
  <2> SUFFICES ASSUME p.kind[w] = "move" PROVE p.args[w][1] \in Insts(p) /\ ~isMoveInst(p, p.args[w][1])
    BY DEF isMoveInst
  <2>1. Wide(c) \in DOMAIN p.cmap /\ p.args[w] = <<p.cmap[Wide(c)]>>
    BY <1>3 DEF MaterialisedBy
  <2>2. p.cmap[Wide(c)] \in Insts(p) /\ MaterialisedBy(p, Wide(c), p.cmap[Wide(c)])
    BY <1>1, <2>1 DEF CacheInv
  <2>3. Pool[-Wide(c)].type = "i64"
    BY <1>3, WideConstants
  <2>4. p.kind[p.cmap[Wide(c)]] = "const"
    BY <2>2, <2>3 DEF MaterialisedBy, IsVector
  <2>5. p.args[w][1] = p.cmap[Wide(c)]
    BY <2>1
  <2> QED
    BY <2>2, <2>4, <2>5 DEF isMoveInst
<1> HIDE DEF K, w
<1>9. Sound(q) /\ KeepsRoots(p, q)
  <2>1. \A J \in Insts(p) : isMoveInst(p, J) => p.type[J] \in ValueTypes
    BY <1>1 DEF Legal, HasTypes, isMoveInst
  <2>2. w \in Insts(p) /\ w # I
    BY <1>2, <1>3
  <2>3. Sound(p) /\ I \in Insts(p)
    BY <1>1, <1>2
  <2>4. K \in SUBSET DOMAIN p.args[I]
    BY <1>4
  <2>5. \A k \in K : ~IsInst(p.args[I][k])
    BY <1>4
  <2>6. Rewired(p, q, I, K, w)
    BY <1>5
  <2>7. Retargets(p, q, I, K, w)
    BY <1>7, <1>8, <2>1, <2>2, <2>3, <2>4, <2>5, <2>6 DEF Retargets
  <2> QED
    BY <2>7, RewiringMoves
<1>10. /\ Insts(q) = Insts(p) /\ AllPhis(q) = AllPhis(p)
       /\ \A J : BlockOf(q, J) = BlockOf(p, J)
       /\ \A x, y : DefDominates(q, x, y) <=> DefDominates(p, x, y)
  BY <1>5, RewiredPlaces
<1>11. /\ DOMAIN q.args[I] = DOMAIN p.args[I]
       /\ \A k \in DOMAIN p.args[I] : q.args[I][k] = IF k \in K THEN w ELSE p.args[I][k]
       /\ \A J \in Insts(p) : J # I => q.args[J] = p.args[J]
  <2>1. IsFunction(p) /\ HasFields(p) /\ I \in Insts(p) /\ w \in Insts(p)
    BY <1>1, <1>2, <1>3
  <2>2. /\ DOMAIN p.args = Insts(p)
        /\ q.args = [p.args EXCEPT ![I] = [k \in DOMAIN @ |-> IF k \in K THEN w ELSE @[k]]]
    BY <1>1, <1>5 DEF HasFields, Rewired
  <2> QED
    BY <2>1, <2>2
<1>12. \A k \in DOMAIN p.args[I] : q.args[I][k] = IF p.args[I][k] = c THEN p.cmap[c] ELSE p.args[I][k]
  BY <1>11 DEF K, w
<1>13. q.kind = p.kind /\ q.type = p.type
  BY <1>5 DEF Rewired
<1>14. \A phi \in AllPhis(p) : q.args[phi] = p.args[phi]
  <2> SUFFICES ASSUME NEW phi \in AllPhis(p) PROVE q.args[phi] = p.args[phi]
    OBVIOUS
  <2>1. CASE phi # I
    BY <1>11, <2>1 DEF AllPhis
  <2>2. CASE phi = I
    <3>1. K = {}
      BY <1>6, <2>2 DEF AllPhis
    <3>2. \A k \in DOMAIN p.args[I] : q.args[I][k] = p.args[I][k]
      BY <1>11, <3>1
    <3>3. q.args[I] \in Seq(Int) /\ p.args[I] \in Seq(Int)
      BY <1>1, <1>2, <1>9, <1>10 DEF Sound, HasFields
    <3> QED
      BY <1>11, <2>2, <3>2, <3>3
  <2> QED
    BY <2>1, <2>2
<1>15. PhisReady(q)
  <2>1. Sound(p) /\ PhisReady(p)
    BY <1>1
  <2>2. AllPhis(q) = AllPhis(p) /\ q.kind = p.kind
    BY <1>10, <1>13
  <2>3. KeepsRoots(p, q)
    BY <1>9
  <2> QED
    BY <1>14, <2>1, <2>2, <2>3, RewiringKeepsPhis
<1>16. Legal(q)
  <2>1. HasTypes(q)
    BY <1>1, <1>10, <1>13 DEF Legal, HasTypes
  <2>2. \A x : IsValue(q, x) <=> IsValue(p, x)
    BY <1>13 DEF IsValue
  <2>3. IsValue(p, w)
    <3>1. IsInst(w)
      BY <1>1, <1>3 DEF IsFunction
    <3> QED
      BY <1>3, <3>1 DEF IsValue
  <2>4. ReadsValues(q)
    <3> SUFFICES ASSUME NEW J \in Insts(p), NEW k \in DOMAIN q.args[J] PROVE IsValue(p, q.args[J][k])
      BY <1>10, <2>2 DEF ReadsValues
    <3>1. k \in DOMAIN p.args[J] /\ (q.args[J][k] = w \/ q.args[J][k] = p.args[J][k])
      BY <1>11
    <3> QED
      BY <1>1, <2>3, <3>1 DEF Legal, ReadsValues
  <2> QED
    BY <1>9, <2>1, <2>4 DEF Legal
<1>17. Same(h, q)
  BY <1>1, <1>10, <1>13 DEF Same
<1>18. InOrder(q, td)
  BY <1>1, <1>10 DEF InOrder
<1>19. CacheInv(h, q, td)
  <2>1. \A d \in DOMAIN p.cmap : MaterialisedBy(q, d, p.cmap[d])
    <3> SUFFICES ASSUME NEW d \in DOMAIN p.cmap PROVE MaterialisedBy(q, d, p.cmap[d])
      OBVIOUS
    <3>1. MaterialisedBy(p, d, p.cmap[d]) /\ p.cmap[d] \in Insts(p) \ Insts(h)
      BY <1>1 DEF CacheInv
    <3>2. q.args[p.cmap[d]] = p.args[p.cmap[d]]
      BY <1>2, <1>11, <3>1
    <3> QED
      BY <1>5, <1>13, <3>1, <3>2 DEF MaterialisedBy
  <2> QED
    BY <1>1, <1>5, <1>10, <2>1 DEF CacheInv
<1> QED
  BY <1>1, <1>5, <1>11, <1>12, <1>15, <1>16, <1>17, <1>18, <1>19 DEF Caching, Reading

\* What an operand is, of what it was.
Kept(p, was, is) ==
  is = was \/ (IsConstant(was) /\ was \in DOMAIN p.cmap /\ is = p.cmap[was])

ReadsKept(h, p) ==
  \A J \in Insts(h) :
    /\ DOMAIN p.args[J] = DOMAIN h.args[J]
    /\ \A k \in DOMAIN h.args[J] :
         /\ Kept(p, h.args[J][k], p.args[J][k])
         /\ h.kind[J] = "const" => p.args[J][k] = h.args[J][k]

\* No operand of J up to number i is a constant.
Split(h, p, J, i) ==
  h.kind[J] # "const" => \A k \in DOMAIN h.args[J] : k <= i => ~IsConstant(p.args[J][k])

SplitAll(h, p, J) ==
  h.kind[J] # "const" => \A k \in DOMAIN h.args[J] : ~IsConstant(p.args[J][k])

\* The instructions visited are done, those to come as they were; of the first, i operands are done.
Visiting(h, p, td, i) ==
  /\ Caching(h, p, td) /\ ReadsKept(h, p)
  /\ \A J \in Insts(h) : J \notin Range(td) => SplitAll(h, p, J)
  /\ \A J \in Range(Tail(td)) : p.args[J] = h.args[J]
  /\ Split(h, p, td[1], i)

\* The instruction visited is none of those to come.
LEMMA VisitedOnce ==
  ASSUME NEW h, NEW p, NEW td, Caching(h, p, td), td # <<>>
  PROVE  /\ td[1] \in Insts(h) /\ td[1] \in Insts(p) /\ td[1] \notin Range(Tail(td))
         /\ \A J : J \in Range(td) <=> J = td[1] \/ J \in Range(Tail(td))
<1>1. td \in Seq(Insts(h)) /\ InOrder(p, td) /\ Insts(h) \subseteq Insts(p)
  BY DEF Caching, Same
<1>2. td[1] \in Insts(h) /\ \A J : J \in Range(td) <=> J = td[1] \/ J \in Range(Tail(td))
  BY <1>1, HeadOrTail
<1>3. ASSUME td[1] \in Range(Tail(td)) PROVE FALSE
  <2>1. /\ DOMAIN Tail(td) = 1..(Len(td) - 1) /\ Len(td) \in Nat
        /\ \A k \in 1..(Len(td) - 1) : Tail(td)[k] = td[k + 1]
    BY <1>1
  <2>2. PICK k \in 1..(Len(td) - 1) : Tail(td)[k] = td[1]
    BY <1>3, <2>1 DEF Range
  <2>3. td[k + 1] = td[1] /\ 1 < k + 1 /\ k + 1 \in 1..Len(td) /\ 1 \in 1..Len(td)
    BY <2>1, <2>2
  <2> QED
    BY <1>1, <2>3 DEF InOrder
<1> QED
  BY <1>1, <1>2, <1>3

\* One operand.
LEMMA OperandKeeps ==
  ASSUME NEW h, NEW p, NEW td, NEW i \in Nat, Visiting(h, p, td, i), td # <<>>,
         h.kind[td[1]] # "const", i + 1 \in DOMAIN h.args[td[1]],
         NEW q, q = ReplaceOperand(p, td[1], i + 1)
  PROVE  Visiting(h, q, td, i + 1)
<1> DEFINE I == td[1]
           j == i + 1
           c == p.args[I][j]
<1>1. /\ Caching(h, p, td) /\ ReadsKept(h, p) /\ Split(h, p, I, i)
      /\ \A J \in Insts(h) : J \notin Range(td) => SplitAll(h, p, J)
      /\ \A J \in Range(Tail(td)) : p.args[J] = h.args[J]
  BY DEF Visiting
<1>2. I \in Insts(h) /\ I \in Insts(p) /\ I \notin Range(Tail(td)) /\ I \in Range(td)
      /\ \A J : J \in Range(Tail(td)) => J \in Range(td)
  BY <1>1, VisitedOnce
<1>3. /\ Sound(p) /\ Legal(p) /\ Insts(h) \subseteq Insts(p) /\ td \in Seq(Insts(h))
      /\ \A x \in Insts(p) : x \in Int /\ IsInst(x)
  BY <1>1 DEF Caching, Legal, Same, Sound, IsFunction
<1>4. DOMAIN p.args[I] = DOMAIN h.args[I] /\ j \in DOMAIN p.args[I]
  BY <1>1, <1>2 DEF ReadsKept
<1>5. \A k \in DOMAIN p.args[I] : p.args[I][k] \in Int /\ k \in Nat
  <2>1. p.args[I] \in Seq(Int)
    BY <1>2, <1>3 DEF Sound, HasFields
  <2> QED
    BY <1>2, <1>3, <2>1, RegistersAreInsts
<1>6. \A k \in DOMAIN p.args[I] : k <= j => k <= i \/ k = j
  BY <1>5
<1> HIDE DEF I, j
<1>7. CASE ~IsConstant(c)
  <2>1. q = p
    BY <1>7 DEF ReplaceOperand, I, j
  <2>2. Split(h, p, I, j)
    BY <1>1, <1>4, <1>6, <1>7 DEF Split
  <2> QED
    BY <1>1, <2>1, <2>2 DEF Visiting, I, j
<1>8. CASE IsConstant(c)
  <2> DEFINE r == resolve_constant(p, c, I)
  <2>1. c \in Constants
    <3>1. IsValue(p, c) /\ c \in Int
      BY <1>2, <1>3, <1>4, <1>5 DEF Legal, ReadsValues
    <3> QED
      BY <1>8, <3>1 DEF IsValue, IsConstant, IsInst, NoValue
  <2>2. q = ReplaceUses(r, I, c, r.cmap[c])
    BY <1>8 DEF ReplaceOperand, I, j
  <2> HIDE DEF c
  <2>3. Caching(h, r, td) /\ Enriched(p, r) /\ c \in DOMAIN r.cmap
    BY <1>1, <2>1, ResolveKeeps DEF I
  <2> HIDE DEF r
  <2>4. /\ \A J \in Insts(p) : J \in Insts(r) /\ r.args[J] = p.args[J]
        /\ \A d \in DOMAIN p.cmap : d \in DOMAIN r.cmap /\ r.cmap[d] = p.cmap[d]
    BY <2>3 DEF Enriched, Lengthened, Grown
  <2>5. /\ Caching(h, q, td) /\ q.cmap = r.cmap
        /\ DOMAIN q.args[I] = DOMAIN r.args[I]
        /\ \A k \in DOMAIN r.args[I] :
             q.args[I][k] = IF r.args[I][k] = c THEN r.cmap[c] ELSE r.args[I][k]
        /\ \A J \in Insts(r) : J # I => q.args[J] = r.args[J]
    <3>1. h.kind[I] # "const" /\ I = td[1]
      BY DEF I
    <3>2. Caching(h, r, td) /\ c \in DOMAIN r.cmap
      BY <2>3
    <3>3. Caching(h, q, td) /\ Reading(r, q, I, c)
      BY <2>2, <3>1, <3>2, UsesReplaced
    <3> QED
      BY <3>3 DEF Reading
  <2>6. /\ DOMAIN q.args[I] = DOMAIN p.args[I]
        /\ \A k \in DOMAIN p.args[I] :
             q.args[I][k] = IF p.args[I][k] = c THEN r.cmap[c] ELSE p.args[I][k]
        /\ \A J \in Insts(p) : J # I => q.args[J] = p.args[J]
    BY <1>2, <2>4, <2>5
  <2>7. r.cmap[c] \in Int /\ IsInst(r.cmap[c])
    BY <2>3 DEF Caching, CacheInv, Legal, Sound, IsFunction
  <2>8. \A was, is : Kept(p, was, is) => Kept(q, was, is)
    BY <2>4, <2>5 DEF Kept
  <2>9. ReadsKept(h, q)
    <3> SUFFICES ASSUME NEW J \in Insts(h)
                 PROVE  /\ DOMAIN q.args[J] = DOMAIN h.args[J]
                        /\ \A k \in DOMAIN h.args[J] :
                             /\ Kept(q, h.args[J][k], q.args[J][k])
                             /\ h.kind[J] = "const" => q.args[J][k] = h.args[J][k]
      BY DEF ReadsKept
    <3>1. /\ DOMAIN p.args[J] = DOMAIN h.args[J]
          /\ \A k \in DOMAIN h.args[J] :
                             /\ Kept(p, h.args[J][k], p.args[J][k])
                             /\ h.kind[J] = "const" => p.args[J][k] = h.args[J][k]
      BY <1>1 DEF ReadsKept
    <3>2. CASE J # I
      BY <1>3, <2>6, <2>8, <3>1, <3>2
    <3>3. CASE J = I
      <4>1. h.kind[I] # "const"
        BY DEF I
      <4>2. ASSUME NEW k \in DOMAIN h.args[I] PROVE Kept(q, h.args[I][k], q.args[I][k])
        <5>1. Kept(p, h.args[I][k], p.args[I][k]) /\ k \in DOMAIN p.args[I]
          BY <3>1, <3>3
        <5>2. CASE p.args[I][k] # c
          BY <2>6, <2>8, <5>1, <5>2
        <5>3. CASE p.args[I][k] = c
          <6>1. q.args[I][k] = q.cmap[c]
            BY <2>5, <2>6, <5>1, <5>3
          <6>2. \A d \in DOMAIN p.cmap : p.cmap[d] # c
            <7>1. \A d \in DOMAIN p.cmap : p.cmap[d] \in Insts(p)
              BY <1>1 DEF Caching, CacheInv
            <7> QED
              BY <1>3, <2>1, <7>1, ConstantsAreNegative
          <6>3. h.args[I][k] = c
            BY <5>1, <5>3, <6>2 DEF Kept
          <6> QED
            BY <1>8, <2>3, <2>5, <6>1, <6>3 DEF Kept, c
        <5> QED
          BY <5>2, <5>3
      <4> QED
        BY <2>6, <3>1, <3>3, <4>1, <4>2
    <3> QED
      BY <3>2, <3>3
  <2>10. \A J \in Insts(h) : J \notin Range(td) => SplitAll(h, q, J)
    BY <1>1, <1>2, <1>3, <2>6 DEF SplitAll
  <2>11. \A J \in Range(Tail(td)) : q.args[J] = h.args[J]
    <3>1. Tail(td) \in Seq(Insts(h))
      BY <1>3
    <3>2. \A J \in Range(Tail(td)) : J \in Insts(h)
      BY <3>1 DEF Range
    <3> QED
      BY <1>1, <1>2, <1>3, <2>6, <3>2
  <2>12. Split(h, q, I, j)
    <3> SUFFICES ASSUME h.kind[I] # "const", NEW k \in DOMAIN h.args[I], k <= j
                 PROVE  ~IsConstant(q.args[I][k])
      BY DEF Split
    <3>1. k \in DOMAIN p.args[I]
      BY <1>4
    <3>2. CASE p.args[I][k] = c
      BY <2>6, <2>7, <3>1, <3>2 DEF IsConstant, IsInst
    <3>3. CASE p.args[I][k] # c
      <4>1. k <= i
        BY <1>6, <3>1, <3>3 DEF c
      <4> QED
        BY <1>1, <2>6, <3>1, <3>3, <4>1 DEF Split
    <3> QED
      BY <3>2, <3>3
  <2> QED
    BY <2>5, <2>9, <2>10, <2>11, <2>12 DEF Visiting, I, j
<1> QED
  BY <1>7, <1>8

\* f lists what becomes of p as the operands of I are replaced one after the other.
Splits(p, I, n, f) ==
  f = [i \in 0..n |-> IF i = 0 THEN p ELSE ReplaceOperand(f[i - 1], I, i)]

\* It exists.
LEMMA SplittingExists ==
  ASSUME NEW p, NEW I, NEW n \in Nat
  PROVE  \E f : Splits(p, I, n, f)
<1> DEFINE S == {m \in Nat : ~\E f : Splits(p, I, m, f)}
<1> SUFFICES S = {}
  OBVIOUS
<1> SUFFICES ASSUME S # {} PROVE FALSE
  OBVIOUS
<1>1. PICK m \in S : \A l \in S : m <= l
  <2>1. S \in SUBSET Nat
    OBVIOUS
  <2> HIDE DEF S
  <2> QED
    BY <2>1, LeastNatural
<1>2. m \in Nat /\ ~\E f : Splits(p, I, m, f)
  OBVIOUS
<1>3. CASE m = 0
  <2> DEFINE f == [i \in 0..m |-> p]
  <2>1. \A i \in 0..m : i = 0
    BY <1>3
  <2>2. f = [i \in 0..m |-> IF i = 0 THEN p ELSE ReplaceOperand(f[i - 1], I, i)]
    BY <2>1
  <2> QED
    BY <1>2, <2>2 DEF Splits
<1>4. CASE m # 0
  <2>1. m - 1 \in Nat /\ m - 1 \notin S
    BY <1>1, <1>2, <1>4
  <2>2. PICK e : Splits(p, I, m - 1, e)
    BY <2>1
  <2>3. \A i \in 0..(m - 1) : e[i] = IF i = 0 THEN p ELSE ReplaceOperand(e[i - 1], I, i)
    BY <2>2 DEF Splits
  <2> DEFINE f == [i \in 0..m |-> IF i = m THEN ReplaceOperand(e[m - 1], I, m) ELSE e[i]]
  <2>4. \A i \in 0..(m - 1) : f[i] = e[i]
    BY <1>2
  <2>5. f[m] = ReplaceOperand(e[m - 1], I, m)
    BY <1>2
  <2>6. \A i \in 0..m : f[i] = IF i = 0 THEN p ELSE ReplaceOperand(f[i - 1], I, i)
    <3> SUFFICES ASSUME NEW i \in 0..m
                 PROVE  f[i] = IF i = 0 THEN p ELSE ReplaceOperand(f[i - 1], I, i)
      OBVIOUS
    <3> HIDE DEF f
    <3>1. CASE i = m
      <4>1. m - 1 \in 0..(m - 1)
        BY <2>1
      <4> QED
        BY <1>4, <2>4, <2>5, <3>1, <4>1
    <3>2. CASE i # m
      <4>1. i \in 0..(m - 1) /\ (i # 0 => i - 1 \in 0..(m - 1))
        BY <1>2, <3>2
      <4> QED
        BY <2>3, <2>4, <4>1
    <3> QED
      BY <3>1, <3>2
  <2>7. f = [i \in 0..m |-> f[i]]
    OBVIOUS
  <2> HIDE DEF f
  <2>8. f = [i \in 0..m |-> IF i = 0 THEN p ELSE ReplaceOperand(f[i - 1], I, i)]
    BY <2>6, <2>7
  <2> QED
    BY <1>2, <2>8 DEF Splits
<1> QED
  BY <1>3, <1>4

\* What SplitInstruction returns.
LEMMA SplitSteps ==
  ASSUME NEW p, NEW I, ~Skipped(p, I), NEW n \in Nat, n = Len(p.args[I])
  PROVE  \E f : /\ f[0] = p /\ SplitInstruction(p, I) = f[n]
                /\ \A i \in 1..n : f[i] = ReplaceOperand(f[i - 1], I, i)
<1> DEFINE split == CHOOSE f : Splits(p, I, n, f)
<1>1. Splits(p, I, n, split)
  BY SplittingExists
<1>2. SplitInstruction(p, I) = split[n]
  BY DEF SplitInstruction, Splits
<1> HIDE DEF split
<1>3. \A i \in 0..n : split[i] = IF i = 0 THEN p ELSE ReplaceOperand(split[i - 1], I, i)
  BY <1>1 DEF Splits
<1>4. split[0] = p /\ \A i \in 1..n : split[i] = ReplaceOperand(split[i - 1], I, i)
  BY <1>3
<1> QED
  BY <1>2, <1>4

\* What holds from one instruction to the next.
Splitted(h, p, td) ==
  /\ Caching(h, p, td) /\ ReadsKept(h, p)
  /\ \A J \in Insts(h) : J \notin Range(td) => SplitAll(h, p, J)
  /\ \A J \in Range(td) : p.args[J] = h.args[J]

\* The rest of the instructions.
LEMMA CachingTail ==
  ASSUME NEW h, NEW p, NEW td, Caching(h, p, td), td # <<>>
  PROVE  Caching(h, p, Tail(td))
<1>1. td \in Seq(Insts(h)) /\ InOrder(p, td) /\ CacheInv(h, p, td)
  BY DEF Caching
<1>2. Tail(td) \in Seq(Insts(h))
  BY <1>1
<1>3. InOrder(p, Tail(td))
  <2>1. /\ Len(td) \in Nat /\ Len(Tail(td)) = Len(td) - 1
        /\ \A k \in 1..Len(Tail(td)) : Tail(td)[k] = td[k + 1]
    BY <1>1
  <2> SUFFICES ASSUME NEW k \in 1..Len(Tail(td)), NEW l \in 1..Len(Tail(td)), k < l
               PROVE  /\ Tail(td)[k] # Tail(td)[l]
                      /\ BlockOf(p, Tail(td)[l]) = 1 =>
                           BlockOf(p, Tail(td)[k]) = 1 /\ DefDominates(p, Tail(td)[k], Tail(td)[l])
    BY DEF InOrder
  <2>2. k + 1 \in 1..Len(td) /\ l + 1 \in 1..Len(td) /\ k + 1 < l + 1
    BY <2>1
  <2>3. Tail(td)[k] = td[k + 1] /\ Tail(td)[l] = td[l + 1]
    BY <2>1
  <2> QED
    BY <1>1, <2>2, <2>3 DEF InOrder
<1>4. CacheInv(h, p, Tail(td))
  <2>1. \A X : X \in Range(Tail(td)) => X \in Range(td)
    BY <1>1, HeadOrTail
  <2> QED
    BY <1>1, <2>1 DEF CacheInv
<1> QED
  BY <1>2, <1>3, <1>4 DEF Caching

\* One instruction.
LEMMA InstructionKeeps ==
  ASSUME NEW h, NEW p, NEW td, Splitted(h, p, td), td # <<>>, NEW q, q = SplitInstruction(p, Head(td))
  PROVE  Splitted(h, q, Tail(td))
<1> DEFINE I == td[1]
<1>1. /\ Caching(h, p, td) /\ ReadsKept(h, p)
      /\ \A J \in Insts(h) : J \notin Range(td) => SplitAll(h, p, J)
      /\ \A J \in Range(td) : p.args[J] = h.args[J]
  BY DEF Splitted
<1>2. /\ I \in Insts(h) /\ I \in Insts(p) /\ I \notin Range(Tail(td))
      /\ \A J : J \in Range(td) <=> J = I \/ J \in Range(Tail(td))
  BY <1>1, VisitedOnce
<1>3. Head(td) = I /\ p.kind[I] = h.kind[I] /\ p.args[I] = h.args[I] /\ p.args[I] \in Seq(Int)
  <2>1. td \in Seq(Insts(h))
    BY <1>1 DEF Caching
  <2>2. p.kind[I] = h.kind[I] /\ p.args[I] \in Seq(Int)
    BY <1>1, <1>2 DEF Caching, Same, Legal, Sound, HasFields
  <2> QED
    BY <1>1, <1>2, <2>1, <2>2
<1>4. CASE h.kind[I] = "const"
  <2>1. q = p
    BY <1>3, <1>4 DEF SplitInstruction, Skipped
  <2>2. Caching(h, p, Tail(td))
    BY <1>1, CachingTail
  <2>3. \A J \in Insts(h) : J \notin Range(Tail(td)) => SplitAll(h, p, J)
    BY <1>1, <1>2, <1>4 DEF SplitAll
  <2> QED
    BY <1>1, <1>2, <2>1, <2>2, <2>3 DEF Splitted
<1>5. CASE h.kind[I] # "const"
  <2> DEFINE n == Len(p.args[I])
  <2>1. n \in Nat /\ DOMAIN h.args[I] = 1..n
    BY <1>3
  <2>2. ~Skipped(p, I)
    BY <1>3, <1>5 DEF Skipped
  <2> HIDE DEF n
  <2>3. PICK f : /\ f[0] = p /\ SplitInstruction(p, I) = f[n]
                 /\ \A i \in 1..n : f[i] = ReplaceOperand(f[i - 1], I, i)
    BY <2>1, <2>2, SplitSteps DEF n
  <2>4. Visiting(h, f[0], td, 0)
    <3>1. Split(h, p, I, 0)
      BY <2>1 DEF Split
    <3> QED
      BY <1>1, <1>2, <2>3, <3>1 DEF Visiting
  <2> DEFINE S == {i \in Nat : i <= n /\ ~Visiting(h, f[i], td, i)}
  <2>5. S = {}
    <3> SUFFICES ASSUME S # {} PROVE FALSE
      OBVIOUS
    <3>1. S \in SUBSET Nat
      OBVIOUS
    <3> HIDE DEF S
    <3>2. PICK m \in S : \A l \in S : m <= l
      BY <3>1, LeastNatural
    <3> USE DEF S
    <3>3. m \in Nat /\ m <= n /\ ~Visiting(h, f[m], td, m)
      BY <3>2
    <3>4. m # 0
      BY <2>4, <3>3
    <3>5. m - 1 \in Nat /\ m - 1 < m /\ m - 1 <= n /\ m \in 1..n
      BY <2>1, <3>3, <3>4
    <3>6. Visiting(h, f[m - 1], td, m - 1)
      BY <3>2, <3>5
    <3> DEFINE l == m - 1
    <3>7. l \in Nat /\ l + 1 = m /\ Visiting(h, f[l], td, l)
      BY <3>3, <3>5, <3>6
    <3>8. f[m] = ReplaceOperand(f[l], td[1], l + 1)
      BY <2>3, <3>5, <3>7
    <3> HIDE DEF l, S
    <3>9. l + 1 \in DOMAIN h.args[td[1]]
      BY <2>1, <3>5, <3>7
    <3>10. Visiting(h, f[m], td, l + 1)
      BY <1>5, <3>7, <3>8, <3>9, OperandKeeps
    <3> QED
      BY <3>3, <3>7, <3>10
  <2>6. Visiting(h, q, td, n)
    BY <1>3, <2>1, <2>3, <2>5
  <2> HIDE DEF S
  <2>7. Caching(h, q, Tail(td))
    BY <2>6, CachingTail DEF Visiting
  <2>8. SplitAll(h, q, I)
    BY <2>1, <2>6 DEF Visiting, Split, SplitAll
  <2>9. \A J \in Insts(h) : J \notin Range(Tail(td)) => SplitAll(h, q, J)
    BY <1>2, <2>6, <2>8 DEF Visiting
  <2> QED
    BY <2>6, <2>7, <2>9 DEF Visiting, Splitted
<1> QED
  BY <1>4, <1>5

-----------------------------------------------------------------------------
\* The stage.

\* While ConstantSplit runs, or has run.
SplitInv ==
  /\ pass = 4 /\ operands = <<>> /\ visit \subseteq Insts(handed) /\ Insts(given) \subseteq Insts(handed)
  /\ Splitted(handed, prog, todo)

\* Which of the two it is.
IInv == IF handed = <<>> THEN todo = <<>> /\ PhiInv ELSE SplitInv

\* What PHIPreprocess promises.
LEMMA PhisBecomeReady ==
  ASSUME PhiInv, pass = 4
  PROVE  PhisReady(prog)
<1>1. /\ Sound(prog) /\ Legal(prog) /\ IsFunction(prog) /\ MovesEnd(prog)
      /\ \A phi \in AllPhis(prog) : phi \in Insts(prog) /\ IsPhi(prog, phi)
  BY DEF PhiInv, Legal, Sound, AllPhis
<1>2. \A o \in Sources(prog) : /\ o \in Done /\ isReg(prog, Read(prog, o))
                               /\ ~IsPhi(prog, Root(prog, Read(prog, o)))
  <2>1. operands = <<>>
    BY DEF PhiInv
  <2>2. \A o \in Sources(prog) : o \in Done
    BY <2>1 DEF Done, Range
  <2> QED
    BY <2>2 DEF PhiInv, Registered, NoneIsPhi
<1>3. \A phi \in AllPhis(prog) : \A i \in DOMAIN prog.args[phi] :
        <<phi, i>> \in Sources(prog) /\ Read(prog, <<phi, i>>) = prog.args[phi][i]
  BY SourceParts DEF Read
<1>4. ASSUME NEW phi \in AllPhis(prog), NEW i \in DOMAIN prog.args[phi]
      PROVE  LET v == prog.args[phi][i] IN
             v \in Insts(prog) /\ isReg(prog, v) /\ ~IsPhi(prog, Root(prog, v)) /\ ~IsPhi(prog, v)
  <2> DEFINE v == prog.args[phi][i]
  <2>1. isReg(prog, v) /\ ~IsPhi(prog, Root(prog, v))
    BY <1>2, <1>3
  <2>2. v \in Insts(prog) /\ v \in Int
    BY <1>1, <2>1, RegistersAreInsts
  <2>3. IsPhi(prog, v) => Root(prog, v) = v
    BY <1>1, <2>2, RootSteps DEF IsPhi, isMoveInst
  <2> QED
    BY <2>1, <2>2, <2>3
<1>5. PhisReadRegisters(prog) /\ IncomingInRegisters(prog) /\ NoPhiFeedsPhi(prog)
  BY <1>4 DEF PhisReadRegisters, IncomingInRegisters, NoPhiFeedsPhi, Range
<1>6. NoSharedOperands(prog)
  <2>1. \A o, x \in Sources(prog) : Root(prog, Read(prog, o)) = Root(prog, Read(prog, x)) => o = x
    BY DEF PhiInv, Unshared
  <2> SUFFICES ASSUME NEW phi \in AllPhis(prog), NEW psi \in AllPhis(prog),
                      NEW i \in DOMAIN prog.args[phi], NEW j \in DOMAIN prog.args[psi],
                      Root(prog, prog.args[phi][i]) = Root(prog, prog.args[psi][j])
               PROVE  <<phi, i>> = <<psi, j>>
    BY DEF NoSharedOperands
  <2> DEFINE o == <<phi, i>>
             x == <<psi, j>>
  <2>2. o \in Sources(prog) /\ x \in Sources(prog)
    BY <1>3
  <2>3. Read(prog, o) = prog.args[phi][i] /\ Read(prog, x) = prog.args[psi][j]
    BY <1>3
  <2> HIDE DEF o, x
  <2>4. o = x
    BY <2>1, <2>2, <2>3
  <2> QED
    BY <2>4 DEF o, x
<1> QED
  BY <1>5, <1>6 DEF PhisReady

\* A function is no empty list.
LEMMA FunctionsAreNotEmpty ==
  ASSUME NEW p, HasFields(p)
  PROVE  p # <<>>
<1>1. "body" \in DOMAIN p
  BY DEF HasFields
<1>2. \A x : x \notin DOMAIN <<>>
  OBVIOUS
<1> QED
  BY <1>1, <1>2

\* What the three passes leave is where ConstantSplit can begin.
LEMMA SplittingBegins ==
  ASSUME PhiInv, BeginSplit
  PROVE  SplitInv' /\ handed' # <<>>
<1>1. /\ pass = 4 /\ handed' = prog /\ todo' = FlattenSeq(prog.body)
      /\ UNCHANGED <<given, prog, pass, operands, visit>>
  BY DEF BeginSplit
<1>2. /\ Legal(prog) /\ DOMAIN prog.cmap = {} /\ Grows(given, prog) /\ operands = <<>>
      /\ visit \subseteq Insts(prog) /\ IsFunction(prog) /\ HasFields(prog)
  BY <1>1 DEF PhiInv, Legal, Sound
<1>3. PhisReady(prog)
  BY <1>1, PhisBecomeReady
<1> DEFINE td == FlattenSeq(prog.body)
<1>4. /\ td \in Seq(Insts(prog)) /\ \A I \in Insts(prog) : \E m \in 1..Len(td) : td[m] = I
      /\ InOrder(prog, td)
  BY <1>2, CodeInOrder DEF InOrder
<1> HIDE DEF td
<1>5. \A I \in Insts(prog) : I \in Range(td)
  <2>1. DOMAIN td = 1..Len(td)
    BY <1>4
  <2> QED
    BY <1>4, <2>1 DEF Range
<1>6. Caching(prog, prog, td)
  BY <1>2, <1>3, <1>4 DEF Caching, Same, CacheInv
<1>7. Splitted(prog, prog, td)
  <2>1. \A J \in Range(td) : prog.args[J] = prog.args[J]
    OBVIOUS
  <2>2. ReadsKept(prog, prog)
    BY DEF ReadsKept, Kept
  <2> QED
    BY <1>5, <1>6, <2>1, <2>2 DEF Splitted
<1>8. Insts(given) \subseteq Insts(prog)
  BY <1>2 DEF Grows
<1> QED
  BY <1>1, <1>2, <1>7, <1>8, FunctionsAreNotEmpty DEF SplitInv, td

\* Each instruction ConstantSplit visits leaves it so.
LEMMA SplittingKeeps ==
  ASSUME SplitInv, VisitInstruction
  PROVE  SplitInv'
<1>1. /\ todo # <<>> /\ prog' = SplitInstruction(prog, Head(todo)) /\ todo' = Tail(todo)
      /\ UNCHANGED <<given, pass, operands, visit, handed>>
  BY DEF VisitInstruction
<1>2. Splitted(handed, prog, todo) /\ Splitted(handed', prog', todo')
  BY <1>1, InstructionKeeps DEF SplitInv
<1> QED
  BY <1>1, <1>2 DEF SplitInv

\* What the entries of the cache are made from.
LEMMA CacheEntries ==
  ASSUME SplitInv, NEW c \in DOMAIN prog.cmap
  PROVE  /\ c \in Constants /\ prog.cmap[c] \in Insts(prog) \ Insts(handed)
         /\ prog.type[prog.cmap[c]] = Pool[-c].type
         /\ Pool[-c].type = "i64" =>
              prog.kind[prog.cmap[c]] = "const" /\ prog.args[prog.cmap[c]][1] = c
         /\ Pool[-c].type = "i32" =>
              /\ prog.kind[prog.cmap[c]] # "const" /\ Wide(c) \in DOMAIN prog.cmap
              /\ prog.args[prog.cmap[c]][1] = prog.cmap[Wide(c)]
         /\ IsVector(Pool[-c].type) =>
              /\ prog.kind[prog.cmap[c]] # "const" /\ Element(c) \in DOMAIN prog.cmap
              /\ prog.args[prog.cmap[c]][1] = prog.cmap[Element(c)]
<1>1. c \in Constants /\ prog.cmap[c] \in Insts(prog) \ Insts(handed)
      /\ MaterialisedBy(prog, c, prog.cmap[c])
  BY DEF SplitInv, Splitted, Caching, CacheInv
<1>2. Pool[-c].type \in {"i64", "i32", "v4i64", "v8i32"}
  BY <1>1, ConstantTypes
<1>3. \A x : <<x>>[1] = x
  OBVIOUS
<1> QED
  BY <1>1, <1>2, <1>3 DEF MaterialisedBy, IsVector

\* What the literal of Computes is.
IsLiteral(f) ==
  f = [J \in Insts(prog) \ Insts(handed) |->
         IF prog.kind[J] = "const" THEN Pool[-prog.args[J][1]].value ELSE f[prog.args[J][1]]]

\* It exists: what an instruction is made from is in the cache.
LEMMA LiteralsExist ==
  ASSUME SplitInv
  PROVE  \E f : IsLiteral(f)
<1> DEFINE N == Insts(prog) \ Insts(handed)
           value(J) == Pool[-prog.args[J][1]].value
           below(J) == IF prog.kind[J] = "const" THEN value(J) ELSE value(prog.args[J][1])
           f == [J \in N |-> IF prog.kind[J] = "const" THEN value(J) ELSE below(prog.args[J][1])]
<1>1. ASSUME NEW J \in N
      PROVE  f[J] = IF prog.kind[J] = "const" THEN value(J) ELSE f[prog.args[J][1]]
  <2>1. PICK c \in DOMAIN prog.cmap : prog.cmap[c] = J
    BY DEF SplitInv, Splitted, Caching, CacheInv
  <2>2. f[J] = IF prog.kind[J] = "const" THEN value(J) ELSE below(prog.args[J][1])
    OBVIOUS
  <2>3. c \in Constants /\ Pool[-c].type \in {"i64", "i32", "v4i64", "v8i32"}
    BY CacheEntries, ConstantTypes
  <2>4. CASE Pool[-c].type = "i64"
    BY <2>1, <2>2, <2>4, CacheEntries
  <2>5. CASE Pool[-c].type # "i64"
    <3> DEFINE d == IF Pool[-c].type = "i32" THEN Wide(c) ELSE Element(c)
               K == prog.args[J][1]
    <3>1. prog.kind[J] # "const" /\ d \in DOMAIN prog.cmap /\ K = prog.cmap[d]
      BY <2>1, <2>3, <2>5, CacheEntries DEF IsVector
    <3>2. ~IsVector(Pool[-d].type)
      BY <2>3, <2>5, WideConstants, ElementConstants, ConstantTypes DEF IsVector
    <3> HIDE DEF d, K
    <3>3. d \in Constants /\ K \in N /\ Pool[-d].type \in {"i64", "i32"}
      BY <3>1, <3>2, CacheEntries, ConstantTypes DEF IsVector
    <3>4. f[K] = IF prog.kind[K] = "const" THEN value(K) ELSE below(prog.args[K][1])
      BY <3>3
    <3>5. f[K] = below(K)
      <4>1. CASE Pool[-d].type = "i64"
        <5>1. prog.kind[K] = "const"
          BY <3>1, <4>1, CacheEntries
        <5> QED
          BY <3>4, <5>1
      <4>2. CASE Pool[-d].type = "i32"
        <5>1. prog.kind[K] # "const" /\ Wide(d) \in DOMAIN prog.cmap /\ prog.args[K][1] = prog.cmap[Wide(d)]
          BY <3>1, <4>2, CacheEntries
        <5>2. Pool[-Wide(d)].type = "i64"
          BY <3>3, WideConstants
        <5>3. prog.kind[prog.args[K][1]] = "const"
          BY <5>1, <5>2, CacheEntries
        <5> QED
          BY <3>4, <5>1, <5>3
      <4> QED
        BY <3>3, <4>1, <4>2
    <3> QED
      BY <2>2, <3>1, <3>5 DEF K
  <2> QED
    BY <2>4, <2>5
<1>2. f = [J \in N |-> f[J]]
  OBVIOUS
<1> HIDE DEF f
<1>3. f = [J \in N |-> IF prog.kind[J] = "const" THEN value(J) ELSE f[prog.args[J][1]]]
  BY <1>1, <1>2
<1> QED
  BY <1>3 DEF IsLiteral

\* What the cache has for a constant computes it.
LEMMA CacheComputes ==
  ASSUME SplitInv
  PROVE  \A c \in DOMAIN prog.cmap : c \in Constants /\ Computes(prog.cmap[c]) = Pool[-c]
<1> DEFINE f == CHOOSE h : IsLiteral(h)
<1>1. IsLiteral(f)
  BY LiteralsExist
<1>2. \A I : Computes(I) = [type |-> prog.type[I], value |-> f[I]]
  BY DEF Computes, IsLiteral
<1> HIDE DEF f
<1>3. \A J \in Insts(prog) \ Insts(handed) :
        f[J] = IF prog.kind[J] = "const" THEN Pool[-prog.args[J][1]].value ELSE f[prog.args[J][1]]
  BY <1>1 DEF IsLiteral
<1>4. ASSUME NEW c \in DOMAIN prog.cmap, Pool[-c].type = "i64"
      PROVE  f[prog.cmap[c]] = Pool[-c].value
  BY <1>3, <1>4, CacheEntries
<1>5. ASSUME NEW c \in DOMAIN prog.cmap, Pool[-c].type = "i32"
      PROVE  f[prog.cmap[c]] = Pool[-c].value
  <2>1. /\ c \in Constants /\ prog.cmap[c] \in Insts(prog) \ Insts(handed)
        /\ prog.kind[prog.cmap[c]] # "const" /\ Wide(c) \in DOMAIN prog.cmap
        /\ prog.args[prog.cmap[c]][1] = prog.cmap[Wide(c)]
    BY <1>5, CacheEntries
  <2>2. Pool[-Wide(c)].type = "i64" /\ Pool[-Wide(c)].value = Pool[-c].value
    BY <2>1, WideConstants
  <2> QED
    BY <1>3, <1>4, <2>1, <2>2
<1>6. ASSUME NEW c \in DOMAIN prog.cmap, IsVector(Pool[-c].type)
      PROVE  f[prog.cmap[c]] = Pool[-c].value
  <2>1. /\ c \in Constants /\ prog.cmap[c] \in Insts(prog) \ Insts(handed)
        /\ prog.kind[prog.cmap[c]] # "const" /\ Element(c) \in DOMAIN prog.cmap
        /\ prog.args[prog.cmap[c]][1] = prog.cmap[Element(c)]
    BY <1>6, CacheEntries
  <2>2. /\ Element(c) \in Constants /\ Pool[-Element(c)].type \in {"i64", "i32"}
        /\ Pool[-Element(c)].value = Pool[-c].value
    BY <1>6, <2>1, ElementConstants, ConstantTypes DEF IsVector
  <2> QED
    BY <1>3, <1>4, <1>5, <2>1, <2>2
<1>7. ASSUME NEW c \in DOMAIN prog.cmap PROVE c \in Constants /\ Computes(prog.cmap[c]) = Pool[-c]
  <2>1. c \in Constants /\ prog.type[prog.cmap[c]] = Pool[-c].type
    BY CacheEntries
  <2>2. /\ Pool[-c].type \in {"i64", "i32"} \/ IsVector(Pool[-c].type)
        /\ Pool[-c] = [type |-> Pool[-c].type, value |-> Pool[-c].value]
    BY <2>1, ConstantTypes DEF IsVector
  <2>3. f[prog.cmap[c]] = Pool[-c].value
    BY <1>4, <1>5, <1>6, <2>2
  <2> QED
    BY <1>2, <2>1, <2>2, <2>3
<1> QED
  BY <1>7

\* The properties of the stage, from what its steps keep.
LEMMA InvTypes ==
  ASSUME IInv PROVE TypeOK
<1>1. CASE handed = <<>>
  <2>1. PhiInv /\ Sound(prog) /\ HasFields(prog)
    BY <1>1 DEF IInv, PhiInv, Legal, Sound
  <2>2. \A k \in DOMAIN operands :
          IsPhi(prog, operands[k][1]) /\ operands[k][2] \in DOMAIN prog.args[operands[k][1]]
    <3> SUFFICES ASSUME NEW k \in DOMAIN operands
                 PROVE  IsPhi(prog, operands[k][1]) /\ operands[k][2] \in DOMAIN prog.args[operands[k][1]]
      OBVIOUS
    <3>1. operands[k] \in Sources(prog)
      BY <2>1 DEF PhiInv
    <3>2. PICK phi \in AllPhis(prog) : \E i \in DOMAIN prog.args[phi] : operands[k] = <<phi, i>>
      BY <3>1, SourceParts
    <3> QED
      BY <3>2 DEF AllPhis
  <2>3. DOMAIN prog.type = Insts(prog) /\ DOMAIN prog.args = Insts(prog)
    BY <2>1 DEF HasFields
  <2> QED
    BY <1>1, <2>1, <2>2, <2>3 DEF TypeOK, PhiInv, Grows, Splitting
<1>2. CASE handed # <<>>
  <2>1. /\ pass = 4 /\ operands = <<>> /\ visit \subseteq Insts(handed) /\ Insts(given) \subseteq Insts(handed)
        /\ Caching(handed, prog, todo) /\ SplitInv
    BY <1>2 DEF IInv, SplitInv, Splitted
  <2>2. /\ HasFields(prog) /\ Insts(handed) \subseteq Insts(prog) /\ todo \in Seq(Insts(handed))
        /\ CacheInv(handed, prog, todo)
    BY <2>1 DEF Caching, Legal, Sound, Same
  <2>3. DOMAIN prog.type = Insts(prog) /\ DOMAIN prog.args = Insts(prog)
    BY <2>2 DEF HasFields
  <2>4. DOMAIN prog.cmap \subseteq Constants /\ Range(prog.cmap) \subseteq Insts(prog) \ Insts(handed)
    BY <2>2 DEF CacheInv, Range
  <2>5. Range(todo) \subseteq Insts(handed)
    BY <2>2 DEF Range
  <2> QED
    BY <2>1, <2>2, <2>3, <2>4, <2>5 DEF TypeOK
<1> QED
  BY <1>1, <1>2

\* StaysSSA is part of the invariant.
LEMMA InvSSA ==
  ASSUME IInv PROVE StaysSSA
BY DEF IInv, PhiInv, SplitInv, Splitted, Caching, Legal, Sound, StaysSSA

\* PhisPrepared follows when the passes are over, and is kept by ConstantSplit.
LEMMA InvPhisPrepared ==
  ASSUME IInv PROVE PhisPrepared
BY PhisBecomeReady DEF IInv, SplitInv, Splitted, Caching, PhisReady, PhisPrepared

\* Two instructions that compute the same are entered for the same constant.
LEMMA InvNoDuplicates ==
  ASSUME IInv PROVE NoDuplicateConstants
<1> SUFFICES ASSUME SplitInv, NEW I \in Insts(prog) \ Insts(handed), NEW J \in Insts(prog) \ Insts(handed),
                    Computes(I) = Computes(J)
             PROVE  I = J
  BY DEF IInv, NoDuplicateConstants, Splitting
<1>1. PICK c \in DOMAIN prog.cmap : prog.cmap[c] = I
  BY DEF SplitInv, Splitted, Caching, CacheInv
<1>2. PICK d \in DOMAIN prog.cmap : prog.cmap[d] = J
  BY DEF SplitInv, Splitted, Caching, CacheInv
<1>3. c \in Constants /\ d \in Constants /\ Pool[-c] = Pool[-d]
  BY <1>1, <1>2, CacheComputes
<1> QED
  BY <1>1, <1>2, <1>3, ConstantsDiffer

\* A constant operand that has been visited is the instruction entered for it.
LEMMA InvOperands ==
  ASSUME SplitInv, Splitting PROVE OperandsKeepValues
<1> SUFFICES ASSUME NEW I \in Insts(handed), NEW k \in DOMAIN handed.args[I]
             PROVE  LET was == handed.args[I][k]
                        is  == prog.args[I][k]
                    IN  \/ is = was /\ (IsConstant(was) => Contains(todo, I) \/ handed.kind[I] = "const")
                        \/ /\ IsConstant(was) /\ ~Contains(todo, I)
                           /\ is \in Insts(prog) \ Insts(handed)
                           /\ Computes(is) = Pool[-was]
  BY DEF OperandsKeepValues
<1> DEFINE was == handed.args[I][k]
           is  == prog.args[I][k]
<1>1. /\ Caching(handed, prog, todo)
      /\ Kept(prog, was, is)
      /\ I \notin Range(todo) => SplitAll(handed, prog, I)
      /\ I \in Range(todo) => prog.args[I] = handed.args[I]
  BY DEF SplitInv, Splitted, ReadsKept
<1>2. Contains(todo, I) <=> I \in Range(todo)
  BY DEF Contains, Range
<1>3. CASE is = was
  <2>1. IsConstant(was) => I \in Range(todo) \/ handed.kind[I] = "const"
    BY <1>1, <1>3 DEF SplitAll
  <2> QED
    BY <1>2, <1>3, <2>1
<1>4. CASE is # was
  <2>1. IsConstant(was) /\ was \in DOMAIN prog.cmap /\ is = prog.cmap[was]
    BY <1>1, <1>4 DEF Kept
  <2>2. I \notin Range(todo)
    BY <1>1, <1>4
  <2>3. Computes(is) = Pool[-was]
    BY <2>1, CacheComputes
  <2>4. is \in Insts(prog) \ Insts(handed)
    BY <1>1, <2>1 DEF Caching, CacheInv
  <2> QED
    BY <1>2, <2>1, <2>2, <2>3, <2>4
<1> QED
  BY <1>3, <1>4

\* Undoing the copies and casts, a phi reads what it read before.
LEMMA InvPhis ==
  ASSUME PhiInv PROVE PhisKeepValues
<1>1. /\ KeepsValues(given, prog) /\ Legal(prog) /\ Grows(given, prog)
      /\ Sound(prog) /\ IsFunction(prog)
  BY DEF PhiInv, Legal, Sound
<1>2. PICK f : IsStrip(given, prog, f) /\ KeepsUnder(given, prog, f)
  BY <1>1 DEF KeepsValues
<1>3. \A v \in Int : Original(v) = f[v]
  BY <1>1, <1>2, OriginalStrips DEF KeepsValues
<1> SUFFICES ASSUME NEW phi \in AllPhis(given), NEW i \in DOMAIN given.args[phi]
             PROVE  /\ Original(prog.args[phi][i]) = given.args[phi][i]
                    /\ IsInst(prog.args[phi][i]) /\ prog.args[phi][i] \notin Insts(given)
                         => prog.type[prog.args[phi][i]] = given.type[phi]
  BY DEF PhisKeepValues
<1>4. phi \in Insts(prog) /\ i \in DOMAIN prog.args[phi]
  BY <1>1 DEF Grows, AllPhis
<1>5. prog.args[phi][i] \in Int
  BY <1>1, <1>4, RegistersAreInsts
<1> QED
  BY <1>2, <1>3, <1>5 DEF KeepsUnder

\* The two halves of ValuesKept.
LEMMA InvValuesKept ==
  ASSUME IInv PROVE ValuesKept
BY InvOperands, InvPhis DEF IInv, ValuesKept, Splitting

\* The allocator's precondition, when the loops of ConstantSplit are over.
ReadyToAllocate == Splitting /\ todo = <<>> => Ready(prog)

\* What the cache holds is in the entry block and in front of its terminator.
LEMMA InvReady ==
  ASSUME IInv PROVE ReadyToAllocate
<1> SUFFICES ASSUME SplitInv PROVE Ready(prog)
  BY DEF ReadyToAllocate, Splitting, IInv
<1>1. Sound(prog) /\ PhisReady(prog) /\ CacheInv(handed, prog, todo)
  BY DEF SplitInv, Splitted, Caching, Legal
<1>2. prog.kind[getTerminator(prog, 1)] \in Terminators
  BY <1>1, BlocksFlow DEF Sound, WellFormed
<1>3. ConstantsAtHand(prog)
  BY <1>1, <1>2 DEF CacheInv, ConstantsAtHand, MaterialisedBy, Terminators
<1> QED
  BY <1>1, <1>3 DEF Ready, PhisReady

\* The stage starts with the invariant.
LEMMA InvInit ==
  Preparable(given) /\ Start(given) => IInv
BY PassesBegin DEF IInv, Start

\* Every step of the stage keeps it.
LEMMA InvNext ==
  IInv /\ [StageNext]_stageVars => IInv'
<1> SUFFICES ASSUME IInv, [StageNext]_stageVars PROVE IInv'
  OBVIOUS
<1>1. CASE HandleOperand
  <2>1. handed = <<>> /\ handed' = handed /\ todo' = todo
    BY <1>1 DEF HandleOperand, IInv, SplitInv
  <2> QED
    BY <1>1, <2>1, HandleOperandKeeps DEF IInv
<1>2. CASE NextPass
  <2>1. handed = <<>> /\ handed' = handed /\ todo' = todo
    BY <1>2 DEF NextPass, IInv, SplitInv
  <2> QED
    BY <1>2, <2>1, NextPassKeeps DEF IInv
<1>3. CASE BeginSplit
  BY <1>3, SplittingBegins DEF BeginSplit, IInv
<1>4. CASE VisitInstruction
  <2>1. handed # <<>> /\ handed' = handed
    BY <1>4 DEF VisitInstruction, IInv
  <2> QED
    BY <1>4, <2>1, SplittingKeeps DEF IInv
<1>5. CASE UNCHANGED stageVars
  BY <1>5 DEF stageVars, IInv, PhiInv, SplitInv, Registered, Separated, Unshared, NoneIsPhi, Done
<1> QED
  BY <1>1, <1>2, <1>3, <1>4, <1>5 DEF StageNext

\* The invariant of the two passes together: PhiInv while PHIPreprocess runs, SplitInv from the
\* moment ConstantSplit is handed its function.
THEOREM StageInvariant == Spec => []IInv
<1>1. Preparable(given) /\ Start(given) => IInv
  BY InvInit
<1>2. IInv /\ [StageNext]_stageVars => IInv'
  BY InvNext
<1> QED
  BY <1>1, <1>2, PTL DEF Spec

\* The variables keep their types.
THEOREM StageTypes == Spec => []TypeOK
<1>1. IInv => TypeOK
  BY InvTypes
<1> QED
  BY <1>1, StageInvariant, PTL

\* Every function in between is in SSA form.
THEOREM StageStaysSSA == Spec => []StaysSSA
<1>1. IInv => StaysSSA
  BY InvSSA
<1> QED
  BY <1>1, StageInvariant, PTL

\* The three passes over the phis keep their promises, and ConstantSplit leaves it so.
THEOREM PhisArePrepared == Spec => []PhisPrepared
<1>1. IInv => PhisPrepared
  BY InvPhisPrepared
<1> QED
  BY <1>1, StageInvariant, PTL

\* Phis and operands keep their values.
THEOREM ValuesAreKept == Spec => []ValuesKept
<1>1. IInv => ValuesKept
  BY InvValuesKept
<1> QED
  BY <1>1, StageInvariant, PTL

\* No constant is materialised twice.
THEOREM ConstantsAreShared == Spec => []NoDuplicateConstants
<1>1. IInv => NoDuplicateConstants
  BY InvNoDuplicates
<1> QED
  BY <1>1, StageInvariant, PTL

\* The stage ends with a function registers can be allocated for.
THEOREM StagePreparesAllocation == Spec => []ReadyToAllocate
<1>1. IInv => ReadyToAllocate
  BY InvReady
<1> QED
  BY <1>1, StageInvariant, PTL

=============================================================================
