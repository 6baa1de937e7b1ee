------------------------ MODULE AllocatedProgramProofs ----------------------
(***************************************************************************)
(* The theorems about the register allocator as a whole, for every         *)
(* function and every number of registers.  DifferentRegisters: when the   *)
(* loop of run() ends every value has a register the machine has, and two  *)
(* values that are needed together have different ones unless a phi merged *)
(* them.  LoopsBeginWithSSA: each round of the loop begins with a function *)
(* of the kind it needs.  RegistersReadCorrectly: the emitted program      *)
(* finds in its registers the operands its instructions name.              *)
(* PerfectColoringOrder and RegistersAreNeeded: a function without phis is *)
(* coloured along a perfect order, so no register of it is wasted.         *)
(* SpillingShrinks: every round of spilling leaves less to spill.          *)
(* PreparedIsAllocatable: what the stage before leaves (see                *)
(* PrepareFunctionProofs) is a function all this is about.                 *)
(*                                                                         *)
(* The invariant AllocInv follows the function through the phases.  Its    *)
(* parts about graph, order and colours come from the invariants of the    *)
(* algorithms' own modules (InterferenceGraphProofs,                       *)
(* InterferenceColoringProofs); what is new is how one hands its result on *)
(* to the next, and that the two ways back to the start - a copy of a phi  *)
(* operand, a colour spilled - leave a function the algorithms can work    *)
(* with.  That is the larger part: every edit is a sequence of insertions  *)
(* in front of an instruction and of operands redirected, and each of      *)
(* these keeps SSA form when what the new instruction reads can be read    *)
(* there.                                                                  *)
(*                                                                         *)
(* ReadInv follows the emitted program.  Wherever it stands, every value   *)
(* live there is in its register: what an instruction writes hits no live  *)
(* value, because values live at its definition interfere with it, and a   *)
(* move shares a register with its root.                                   *)
(*                                                                         *)
(* PerfectInv follows the order: the numbers of makeInterferenceGraph are  *)
(* perfect for the graph the moves are merged in, which is all             *)
(* PerfectEliminationOrdering needs (EliminationOrderProofs).              *)
(*                                                                         *)
(* SpillInv follows what may still be spilled: an instruction that is      *)
(* spilled, and every one that a store, a load or a copy adds, is entered  *)
(* in noSpill before anything can spill it.                                *)
(***************************************************************************)
EXTENDS AllocatedProgram, InterferenceGraphProofs

-----------------------------------------------------------------------------
\* What the edits of a function keep.

\* Allocatable, but for what is said of single instructions of the entry block.
Legal(p) ==
  /\ Sound(p) /\ HasRecords(p)
  /\ PhisReadRegisters(p) /\ IncomingInRegisters(p) /\ NoSharedOperands(p) /\ NoPhiFeedsPhi(p)

\* It keeps all that Legal asks for, and can be read itself from there on.
LEMMA InsertionKeeps ==
  ASSUME NEW p, Legal(p), NEW t \in Insts(p), ~IsPhi(p, t), NEW J, NEW q,
         InsertedInto(p, q, t, J), q.kind[J] \in {"op", "const", "move", "noreg", "sp"},
         q.args[J] \in Seq(Int), \A v \in Operands(q, J) : Available(p, v, t),
         q.kind[J] = "move" => q.args[J] # <<>>,
         q.kind[J] \in {"op", "const", "move"} => q.type[J] \in ValueTypes
  PROVE  /\ Legal(q) /\ Grown(p, q) /\ Available(q, J, t) /\ ~IsPhi(q, J)
         /\ q.kind[J] \in {"op", "const"} => isReg(q, J) /\ Root(q, J) = J
         /\ q.kind[J] = "move" => Root(q, J) = Root(q, q.args[J][1])
<1>1. Sound(p)
  BY DEF Legal
<1>2. /\ Sound(q) /\ Grown(p, q) /\ Available(q, J, t) /\ ~IsPhi(q, J)
      /\ q.kind[J] \in {"op", "const"} => isReg(q, J) /\ Root(q, J) = J
      /\ q.kind[J] = "move" => Root(q, J) = Root(q, q.args[J][1])
  BY <1>1, InsertionIsSound
<1>3. /\ Insts(q) = Insts(p) \cup {J} /\ DOMAIN q = DOMAIN p
      /\ \A I \in Insts(p) : q.kind[I] = p.kind[I] /\ q.args[I] = p.args[I]
  BY DEF InsertedInto
<1>4. HasRecords(q)
  BY <1>3 DEF Legal, HasRecords
<1>5. AllPhis(q) = AllPhis(p)
  BY <1>2, <1>3 DEF AllPhis, IsPhi
<1>6. \A phi \in AllPhis(p) : q.args[phi] = p.args[phi] /\ \A v \in Range(p.args[phi]) : v \in Insts(p)
  BY <1>3 DEF Legal, PhisReadRegisters, AllPhis
<1>7. \A v \in Insts(p) : Root(q, v) = Root(p, v) /\ isReg(q, v) = isReg(p, v)
  BY <1>2 DEF Grown
<1>8. PhisReadRegisters(q)
  BY <1>3, <1>5, <1>6 DEF Legal, PhisReadRegisters, IsPhi
<1>9. IncomingInRegisters(q)
  BY <1>5, <1>6, <1>7 DEF Legal, IncomingInRegisters
<1>10. \A phi \in AllPhis(p) : \A i \in DOMAIN p.args[phi] : p.args[phi][i] \in Range(p.args[phi])
  BY DEF Range
<1>11. NoSharedOperands(q)
  BY <1>5, <1>6, <1>7, <1>10 DEF Legal, NoSharedOperands
<1>12. NoPhiFeedsPhi(q)
  <2>1. \A v \in Insts(p) : isReg(p, v) => Root(p, v) \in Insts(p)
    BY DEF isReg
  <2> QED
    BY <1>3, <1>5, <1>6, <1>7, <2>1 DEF Legal, NoPhiFeedsPhi, IncomingInRegisters, IsPhi
<1> QED
  BY <1>2, <1>4, <1>8, <1>9, <1>11, <1>12 DEF Legal

\* q is p with w for operand k of u.
Redirected(p, q, u, k, w) ==
  /\ DOMAIN q = DOMAIN p /\ q.body = p.body /\ q.succ = p.succ /\ q.kind = p.kind
  /\ q.type = p.type /\ q.from = p.from
  /\ q.args = [p.args EXCEPT ![u][k] = w]

\* Reading something else where no move is made, a function in SSA form stays one when
\* what is read can be read there.
LEMMA RedirectedIsSound ==
  ASSUME NEW p, Legal(p), NEW u \in Insts(p), p.kind[u] # "move", NEW k \in DOMAIN p.args[u],
         NEW w \in Insts(p), Fits(p, u, k, w), NEW q, Redirected(p, q, u, k, w)
  PROVE  /\ Sound(q) /\ HasRecords(q) /\ Grown(p, q)
         /\ DOMAIN q.args[u] = DOMAIN p.args[u] /\ q.args[u][k] = w
         /\ \A j \in DOMAIN p.args[u] \ {k} : q.args[u][j] = p.args[u][j]
         /\ \A I \in Insts(p) \ {u} : q.args[I] = p.args[I]
<1>1. Sound(p) /\ IsFunction(p) /\ HasFields(p)
  BY DEF Legal, Sound
<1>2. DOMAIN p.args = Insts(p)
  BY <1>1 DEF HasFields
<1>3. Rewired(p, q, u, {k}, w)
  <2>1. [p.args[u] EXCEPT ![k] = w] = [j \in DOMAIN p.args[u] |-> IF j \in {k} THEN w ELSE p.args[u][j]]
    BY <1>1 DEF HasFields
  <2>2. q.args = [p.args EXCEPT ![u] = [j \in DOMAIN @ |-> IF j \in {k} THEN w ELSE @[j]]]
    BY <1>2, <2>1 DEF Redirected
  <2> QED
    BY <2>2 DEF Redirected, Rewired
<1>4. {k} \in SUBSET DOMAIN p.args[u] /\ \A j \in {k} : Fits(p, u, j, w)
  OBVIOUS
<1>5. Sound(q) /\ Grown(p, q)
  BY <1>1, <1>3, <1>4, RewiringIsSound
<1>6. HasRecords(q)
  BY DEF Legal, HasRecords, Redirected
<1>7. /\ \A I \in Insts(p) \ {u} : q.args[I] = p.args[I]
      /\ q.args[u] = [p.args[u] EXCEPT ![k] = w]
  BY <1>2 DEF Redirected
<1> QED
  BY <1>5, <1>6, <1>7

\* An operand of an instruction that is no phi and no move can become any value that can
\* be read there.
LEMMA RedirectionKeeps ==
  ASSUME NEW p, Legal(p), NEW u \in Insts(p), p.kind[u] \notin {"phi", "move"},
         NEW k \in DOMAIN p.args[u], NEW w, Available(p, w, u), NEW q, Redirected(p, q, u, k, w)
  PROVE  Legal(q) /\ Grown(p, q)
<1>1. w \in Insts(p) /\ Fits(p, u, k, w)
  BY DEF Available, Fits, IsPhi
<1>2. /\ Sound(q) /\ HasRecords(q) /\ Grown(p, q)
      /\ \A I \in Insts(p) \ {u} : q.args[I] = p.args[I]
  BY <1>1, RedirectedIsSound
<1>3. Insts(q) = Insts(p) /\ \A I : IsPhi(q, I) <=> IsPhi(p, I)
  BY DEF Redirected, Insts, IsPhi
<1>4. u \notin AllPhis(p) /\ AllPhis(q) = AllPhis(p)
  BY <1>3 DEF AllPhis, IsPhi
<1>5. \A phi \in AllPhis(p) : q.args[phi] = p.args[phi] /\ \A v \in Range(p.args[phi]) : v \in Insts(p)
  BY <1>2, <1>4 DEF Legal, PhisReadRegisters, AllPhis
<1>6. \A I \in Insts(p) : Root(q, I) = Root(p, I) /\ isReg(q, I) = isReg(p, I)
  BY <1>2 DEF Grown
<1>8. \A phi \in AllPhis(p) : \A i \in DOMAIN p.args[phi] : p.args[phi][i] \in Range(p.args[phi])
  BY DEF Range
<1>9. PhisReadRegisters(q) /\ IncomingInRegisters(q)
  BY <1>3, <1>4, <1>5, <1>6 DEF Legal, PhisReadRegisters, IncomingInRegisters
<1>10. NoSharedOperands(q)
  BY <1>4, <1>5, <1>6, <1>8 DEF Legal, NoSharedOperands
<1>11. NoPhiFeedsPhi(q)
  BY <1>3, <1>4, <1>5, <1>6 DEF Legal, NoPhiFeedsPhi
<1> QED
  BY <1>2, <1>9, <1>10, <1>11 DEF Legal

\* An operand of a phi can become a value of the block it comes from that no phi reads.
LEMMA IncomingKeeps ==
  ASSUME NEW p, Legal(p), NEW phi \in AllPhis(p), NEW i \in DOMAIN p.args[phi],
         NEW w \in Insts(p), isReg(p, w), ~IsPhi(p, w), ~IsPhi(p, Root(p, w)),
         BlockOf(p, w) = p.from[phi][i],
         \A psi \in AllPhis(p) : \A j \in DOMAIN p.args[psi] : Root(p, p.args[psi][j]) # Root(p, w),
         NEW q, Redirected(p, q, phi, i, w)
  PROVE  Legal(q) /\ Grown(p, q)
<1>1. phi \in Insts(p) /\ IsPhi(p, phi) /\ p.kind[phi] # "move" /\ Fits(p, phi, i, w)
  BY DEF AllPhis, IsPhi, Fits
<1>2. /\ Sound(q) /\ HasRecords(q) /\ Grown(p, q)
      /\ DOMAIN q.args[phi] = DOMAIN p.args[phi] /\ q.args[phi][i] = w
      /\ \A j \in DOMAIN p.args[phi] \ {i} : q.args[phi][j] = p.args[phi][j]
      /\ \A I \in Insts(p) \ {phi} : q.args[I] = p.args[I]
  BY <1>1, RedirectedIsSound
<1>3. Insts(q) = Insts(p) /\ Blocks(q) = Blocks(p) /\ \A I : IsPhi(q, I) <=> IsPhi(p, I)
  BY DEF Redirected, Insts, Blocks, IsPhi
<1>4. IsFunction(p) /\ WellFormed(p) /\ AllPhis(q) = AllPhis(p)
  BY <1>3 DEF Legal, Sound, AllPhis
<1>5. \A psi \in AllPhis(p) : psi \in Insts(p) /\ \A v \in Range(p.args[psi]) : v \in Insts(p)
  BY DEF Legal, Sound, PhisReadRegisters, AllPhis
<1>6. /\ \A I \in Insts(p) : BlockOf(q, I) = BlockOf(p, I) /\ Root(q, I) = Root(p, I)
                             /\ isReg(q, I) = isReg(p, I)
      /\ \A b : isPotentiallyReachable(q, b) <=> isPotentiallyReachable(p, b)
      /\ \A x, y \in Insts(p) : DefDominates(q, x, y) <=> DefDominates(p, x, y)
      /\ \A b \in Blocks(p) : getTerminator(q, b) = getTerminator(p, b)
  BY <1>2 DEF Grown
<1>7. \A psi \in AllPhis(p) : \A j \in DOMAIN q.args[psi] :
        /\ j \in DOMAIN p.args[psi]
        /\ \/ psi = phi /\ j = i /\ q.args[psi][j] = w
           \/ /\ <<psi, j>> # <<phi, i>> /\ q.args[psi][j] = p.args[psi][j]
              /\ p.args[psi][j] \in Range(p.args[psi]) /\ p.args[psi][j] \in Insts(p)
  BY <1>2, <1>5 DEF Range
<1>8. \A psi \in AllPhis(p) : \A v \in Range(q.args[psi]) : v = w \/ v \in Range(p.args[psi])
  BY <1>7 DEF Range
<1>10. PhisReadRegisters(q) /\ IncomingInRegisters(q)
  BY <1>3, <1>4, <1>5, <1>6, <1>8 DEF Legal, Sound, PhisReadRegisters, IncomingInRegisters
<1>11. NoSharedOperands(q)
  <2>1. SUFFICES ASSUME NEW psi1 \in AllPhis(p), NEW psi2 \in AllPhis(p),
                        NEW i1 \in DOMAIN q.args[psi1], NEW i2 \in DOMAIN q.args[psi2],
                        Root(q, q.args[psi1][i1]) = Root(q, q.args[psi2][i2])
                 PROVE  <<psi1, i1>> = <<psi2, i2>>
    BY <1>4 DEF NoSharedOperands
  <2>2. CASE psi1 = phi /\ i1 = i /\ q.args[psi1][i1] = w
    BY <1>6, <1>7, <2>1, <2>2
  <2>3. CASE psi2 = phi /\ i2 = i /\ q.args[psi2][i2] = w
    BY <1>6, <1>7, <2>1, <2>3
  <2>4. CASE /\ q.args[psi1][i1] = p.args[psi1][i1] /\ p.args[psi1][i1] \in Insts(p)
             /\ q.args[psi2][i2] = p.args[psi2][i2] /\ p.args[psi2][i2] \in Insts(p)
    BY <1>6, <1>7, <2>1, <2>4 DEF Legal, Sound, NoSharedOperands
  <2> QED
    BY <1>7, <2>2, <2>3, <2>4
<1>12. NoPhiFeedsPhi(q)
  BY <1>3, <1>4, <1>5, <1>6, <1>8 DEF Legal, Sound, NoPhiFeedsPhi
<1> QED
  BY <1>2, <1>10, <1>11, <1>12 DEF Legal, Sound

\* The first instruction stays the first.
LEMMA HeadStays ==
  ASSUME NEW p, IsFunction(p), NEW t \in Insts(p), t # p.body[1][1], NEW J, NEW q,
         InsertedInto(p, q, t, J)
  PROVE  q.body[1][1] = p.body[1][1]
<1> DEFINE H == p.body[1][1]
<1>1. 1 \in Blocks(p)
  BY EmptySeq, LenProperties DEF IsFunction, Blocks
<1>2. H \in Insts(p) /\ BlockOf(p, H) = 1 /\ IndexOf(p, H) = 1
  <2>1. Len(p.body[1]) \in Nat \ {0} /\ \A k \in 1..Len(p.body[1]) :
          p.body[1][k] \in Insts(p) /\ BlockOf(p, p.body[1][k]) = 1 /\ IndexOf(p, p.body[1][k]) = k
    BY <1>1, CodeOf
  <2>2. 1 \in 1..Len(p.body[1])
    BY <2>1
  <2> QED
    BY <2>1, <2>2
<1>3. BlockOf(p, t) = 1 => ~(1 >= IndexOf(p, t))
  <2>1. IndexOf(p, t) \in 1..Len(p.body[BlockOf(p, t)]) /\ p.body[BlockOf(p, t)][IndexOf(p, t)] = t
    BY Places
  <2>2. BlockOf(p, t) = 1 => IndexOf(p, t) # 1
    BY <2>1
  <2> QED
    BY <2>1, <2>2
<1> HIDE DEF H
<1>4. LET shift == IF BlockOf(p, H) = BlockOf(p, t) /\ IndexOf(p, H) >= IndexOf(p, t)
                   THEN IndexOf(p, H) + 1 ELSE IndexOf(p, H)
      IN  q.body[BlockOf(p, H)][shift] = H
  BY <1>2, PlacesAfterInsertion
<1> QED
  BY <1>2, <1>3, <1>4 DEF H

\* Where an instruction can be inserted: before one that is no phi, and behind the frame.
Open(p, t) == t \in Insts(p) /\ ~IsPhi(p, t) /\ (p.frame >= 0 => t # p.body[1][1])

\* An insertion lengthens the function: InsertionKeeps, with what it leaves alone.
LEMMA EmittingKeeps ==
  ASSUME NEW p, Legal(p), NEW t \in Insts(p), ~IsPhi(p, t), NEW J, NEW q,
         InsertedInto(p, q, t, J), q.kind[J] \in {"op", "const", "move", "noreg", "sp"},
         q.args[J] \in Seq(Int), \A v \in Operands(q, J) : Available(p, v, t),
         q.kind[J] = "move" => q.args[J] # <<>>,
         q.kind[J] \in {"op", "const", "move"} => q.type[J] \in ValueTypes
  PROVE  /\ Legal(q) /\ Lengthened(p, q)
         /\ Available(q, J, t) /\ BlockOf(q, J) = BlockOf(p, t) /\ ~IsPhi(q, J)
         /\ J \notin Insts(p)
         /\ q.kind[J] \in {"op", "const"} => isReg(q, J) /\ Root(q, J) = J
         /\ q.kind[J] = "move" => Root(q, J) = Root(q, q.args[J][1])
         /\ FreshInst(q) = J + 1 /\ Newest(q) = J /\ J \in Insts(q)
<1>1. IsFunction(p)
  BY DEF Legal, Sound
<1>2. /\ Legal(q) /\ Grown(p, q) /\ Available(q, J, t) /\ ~IsPhi(q, J)
      /\ q.kind[J] \in {"op", "const"} => isReg(q, J) /\ Root(q, J) = J
      /\ q.kind[J] = "move" => Root(q, J) = Root(q, q.args[J][1])
  BY InsertionKeeps
<1>3. IsFunction(q)
  BY <1>2 DEF Legal, Sound
<1>4. BlockOf(q, J) = BlockOf(p, t)
  BY <1>1, <1>3, OrderAfterInsertion
<1>5. /\ Insts(q) = Insts(p) \cup {J}
      /\ \A I \in Insts(p) : /\ q.kind[I] = p.kind[I] /\ q.args[I] = p.args[I]
                             /\ q.from[I] = p.from[I]
  BY DEF InsertedInto
<1>6. AllPhis(q) = AllPhis(p)
  BY <1>2, <1>5 DEF AllPhis, IsPhi
<1> QED
  BY <1>1, <1>2, <1>4, <1>5, <1>6, FreshAfterInsertion DEF Lengthened

\* The constants of the cache are at hand as before.
LEMMA ConstantsStay ==
  ASSUME NEW p, IsFunction(p), NEW q, Grown(p, q), ConstantsAtHand(p)
  PROVE  \A c \in DOMAIN p.cmap : LET I == p.cmap[c] IN
           I \in Insts(q) /\ BlockOf(q, I) = 1 /\ I # getTerminator(q, 1)
<1>1. 1 \in Blocks(p)
  BY EmptySeq, LenProperties DEF IsFunction, Blocks
<1> QED
  BY <1>1 DEF Grown, ConstantsAtHand

-----------------------------------------------------------------------------
\* Sequences of insertions in front of one instruction.

\* q is p with a fresh instruction in front of t.
Adds(p, q, t, kind, args, type) ==
  /\ InsertedInto(p, q, t, FreshInst(p)) /\ q.frame = p.frame
  /\ q.kind[FreshInst(p)] = kind /\ q.args[FreshInst(p)] = args /\ q.type[FreshInst(p)] = type

\* All passes insert that way.
LEMMA AllAdd ==
  ASSUME NEW p, Legal(p), NEW t, NEW kind, NEW args, NEW type
  PROVE  /\ Adds(p, InsertBefore(p, t, FreshInst(p), kind, args, type), t, kind, args, type)
         /\ InsertBefore(p, t, FreshInst(p), kind, args, type).cmap = p.cmap
         /\ Adds(p, Emit(p, t, kind, args, type), t, kind, args, type)
         /\ Emit(p, t, kind, args, type).cmap = p.cmap
         /\ \A J : J \in Emit(p, t, kind, args, type).noSpill <=>
                    J \in p.noSpill \/ J = FreshInst(p)
<1> DEFINE I == FreshInst(p)
           q == InsertBefore(p, t, I, kind, args, type)
           e == [q EXCEPT !.noSpill = @ \cup {I}]
<1>1. IsFunction(p) /\ HasFields(p) /\ HasRecords(p)
  BY DEF Legal, Sound
<1>2. {"cmap", "frame", "noSpill"} \subseteq DOMAIN p
  BY <1>1 DEF HasFields, HasRecords
<1>3. /\ InsertedInto(p, q, t, I)
      /\ q.kind[I] = kind /\ q.args[I] = args /\ q.type[I] = type
      /\ \A f \in DOMAIN p \ {"body", "kind", "args", "type", "from"} : q[f] = p[f]
  BY <1>1, InsertBeforeInserts
<1>4. q.frame = p.frame /\ q.cmap = p.cmap /\ q.noSpill = p.noSpill
  BY <1>2, <1>3
<1>11. "noSpill" \in DOMAIN q
  BY <1>2, <1>3 DEF InsertedInto
<1> HIDE DEF q, I
<1>5. /\ DOMAIN e = DOMAIN q /\ e.body = q.body /\ e.succ = q.succ /\ e.kind = q.kind
      /\ e.args = q.args /\ e.type = q.type /\ e.from = q.from /\ e.frame = q.frame
      /\ e.cmap = q.cmap
  BY DEF e
<1>12. \A J : J \in e.noSpill <=> J \in p.noSpill \/ J = I
  BY <1>4, <1>11
<1> HIDE DEF e
<1>6. InsertedInto(p, e, t, I)
  BY <1>3, <1>5 DEF InsertedInto, Insts
<1>7. Adds(p, q, t, kind, args, type)
  BY <1>3, <1>4 DEF Adds, I
<1>8. Adds(p, e, t, kind, args, type)
  BY <1>3, <1>4, <1>5, <1>6 DEF Adds, I
<1>9. Emit(p, t, kind, args, type) = e
  BY DEF Emit, e, q, I
<1>10. q = InsertBefore(p, t, FreshInst(p), kind, args, type)
  BY DEF q, I
<1> QED
  BY <1>4, <1>5, <1>7, <1>8, <1>9, <1>10, <1>12 DEF I

\* q is legal, has p lengthened somewhere else than at t, and its frame is p's.
Prolongs(p, q, t) ==
  /\ Legal(q) /\ Lengthened(p, q) /\ Open(q, t) /\ q.frame = p.frame
  /\ p.frame >= 0 => q.body[1][1] = p.body[1][1]

\* One insertion after the other prolongs a function.
LEMMA ProlongsTransitive ==
  ASSUME NEW p, NEW q, NEW r, NEW t, NEW u, Prolongs(p, q, u), Prolongs(q, r, t)
  PROVE  Prolongs(p, r, t)
  BY LengthenedTransitive DEF Prolongs

\* What could be read in front of t still can, and means what it did.
LEMMA ProlongedReads ==
  ASSUME NEW p, NEW t, Open(p, t), NEW q, Prolongs(p, q, t), NEW v, Available(p, v, t)
  PROVE  /\ Available(q, v, t) /\ Root(q, v) = Root(p, v) /\ isReg(q, v) = isReg(p, v)
         /\ BlockOf(q, v) = BlockOf(p, v) /\ v \in Insts(q)
<1>1. t \in Insts(p) /\ Grown(p, q)
  BY DEF Open, Prolongs, Lengthened
<1>2. Available(q, v, t)
  BY <1>1, GrownKeepsAvailable
<1> QED
  BY <1>1, <1>2 DEF Available, Grown

\* Where an instruction may go there is a place for the next as well.
LEMMA AddingProlongs ==
  ASSUME NEW p, Legal(p), NEW t, Open(p, t), NEW q, NEW kind, NEW args, NEW type,
         Adds(p, q, t, kind, args, type), kind \in {"op", "const", "move", "noreg"},
         args \in Seq(Int), \A v \in Range(args) : IsInst(v) => Available(p, v, t),
         kind = "move" => args # <<>>, kind # "noreg" => type \in ValueTypes
  PROVE  /\ Prolongs(p, q, t)
         /\ Available(q, FreshInst(p), t) /\ BlockOf(q, FreshInst(p)) = BlockOf(p, t)
         /\ ~IsPhi(q, FreshInst(p)) /\ FreshInst(p) \notin Insts(p)
         /\ kind \in {"op", "const"} =>
              isReg(q, FreshInst(p)) /\ Root(q, FreshInst(p)) = FreshInst(p)
         /\ kind = "move" => Root(q, FreshInst(p)) = Root(q, args[1])
         /\ FreshInst(q) = FreshInst(p) + 1 /\ Newest(q) = FreshInst(p)
         /\ FreshInst(p) \in Insts(q) /\ FreshInst(p) \in Int
<1> DEFINE J == FreshInst(p)
<1>1. /\ InsertedInto(p, q, t, J) /\ q.frame = p.frame
      /\ q.kind[J] = kind /\ q.args[J] = args /\ q.type[J] = type
  BY DEF Adds
<1>2. IsFunction(p) /\ t \in Insts(p) /\ ~IsPhi(p, t) /\ (p.frame >= 0 => t # p.body[1][1])
  BY DEF Legal, Sound, Open
<1> HIDE DEF J
<1>3. \A v \in Operands(q, J) : Available(p, v, t)
  BY <1>1 DEF Operands
<1>4. /\ Legal(q) /\ Lengthened(p, q)
      /\ Available(q, J, t) /\ BlockOf(q, J) = BlockOf(p, t) /\ ~IsPhi(q, J)
      /\ J \notin Insts(p)
      /\ q.kind[J] \in {"op", "const"} => isReg(q, J) /\ Root(q, J) = J
      /\ q.kind[J] = "move" => Root(q, J) = Root(q, q.args[J][1])
      /\ FreshInst(q) = J + 1 /\ Newest(q) = J /\ J \in Insts(q)
  BY <1>1, <1>2, <1>3, EmittingKeeps
<1>5. p.frame >= 0 => q.body[1][1] = p.body[1][1]
  BY <1>1, <1>2, HeadStays
<1>6. t \in Insts(q) /\ ~IsPhi(q, t)
  BY <1>2, <1>4 DEF Lengthened, Grown, IsPhi
<1>7. Open(q, t)
  BY <1>1, <1>2, <1>5, <1>6 DEF Open
<1>8. J \in Int
  BY <1>4 DEF Legal, Sound, IsFunction
<1> QED
  BY <1>1, <1>4, <1>5, <1>7, <1>8 DEF Prolongs, J

-----------------------------------------------------------------------------
\* Constants.

\* A function prolongs itself.
LEMMA ProlongsItself ==
  ASSUME NEW p, Legal(p), NEW t, Open(p, t) PROVE Prolongs(p, p, t)
  BY DEF Prolongs, Lengthened, Grown

\* In front of a terminator there always is a place.
LEMMA TerminatorsOpen ==
  ASSUME NEW p, Legal(p), FrameFirst(p), NEW b \in Blocks(p)
  PROVE  Open(p, getTerminator(p, b))
<1>1. IsFunction(p) /\ WellFormed(p)
  BY DEF Legal, Sound
<1>2. /\ getTerminator(p, b) \in Insts(p) /\ ~IsPhi(p, getTerminator(p, b))
      /\ p.kind[getTerminator(p, b)] \in Terminators
  BY <1>1, TerminatorPlace
<1> QED
  BY <1>2 DEF Open, FrameFirst, Terminators

\* A constant of the cache can be read at the end of every block.
LEMMA ConstantReads ==
  ASSUME NEW p, Legal(p), ConstantsAtHand(p), NEW c \in DOMAIN p.cmap, NEW b \in Blocks(p)
  PROVE  Available(p, p.cmap[c], getTerminator(p, b))
<1> DEFINE I == p.cmap[c]
<1>1. IsFunction(p) /\ WellFormed(p)
  BY DEF Legal, Sound
<1>2. I \in Insts(p) /\ BlockOf(p, I) = 1 /\ I # getTerminator(p, 1)
  BY DEF ConstantsAtHand
<1>3. /\ BlockOf(p, getTerminator(p, b)) = b
      /\ \A J \in Insts(p) : BlockOf(p, J) = b /\ J # getTerminator(p, b) =>
              DefDominates(p, J, getTerminator(p, b))
  BY <1>1, TerminatorPlace
<1>4. CASE b = 1
  BY <1>2, <1>3, <1>4 DEF Available
<1>5. CASE b # 1
  BY <1>2, <1>3, <1>5 DEF Available, DefDominates, Dominates
<1> QED
  BY <1>4, <1>5

\* What goes in front of the terminator of the entry block can be cached.
LEMMA MaterialiseKeeps ==
  ASSUME NEW p, Legal(p), ConstantsAtHand(p), NEW t, t = getTerminator(p, 1), Open(p, t),
         NEW c, NEW kind \in {"op", "const", "move"}, NEW args \in Seq(Int),
         \A v \in Range(args) : IsInst(v) => Available(p, v, t),
         kind = "move" => args # <<>>, Pool[-c].type \in ValueTypes
  PROVE  LET q == Materialise(p, t, c, kind, args) IN
         /\ Prolongs(p, q, t) /\ ConstantsAtHand(q) /\ t = getTerminator(q, 1)
         /\ c \in DOMAIN q.cmap
<1> DEFINE I == FreshInst(p)
           r == InsertBefore(p, t, I, kind, args, Pool[-c].type)
           q == Materialise(p, t, c, kind, args)
<1>1. IsFunction(p) /\ WellFormed(p) /\ 1 \in Blocks(p) /\ HasFields(p) /\ HasRecords(p)
  <2>1. IsFunction(p) /\ WellFormed(p) /\ HasFields(p) /\ HasRecords(p)
    BY DEF Legal, Sound
  <2>2. p.body \in Seq(Seq(Insts(p))) /\ p.body # <<>>
    BY <2>1 DEF IsFunction
  <2>3. 1 \in DOMAIN p.body
    BY <2>2, EmptySeq, LenProperties
  <2> QED
    BY <2>1, <2>3 DEF Blocks
<1>2. Adds(p, r, t, kind, args, Pool[-c].type) /\ r.cmap = p.cmap
  BY AllAdd
<1>3. q = [r EXCEPT !.cmap = Extended(@, c, I)]
  BY DEF Materialise
<1>4. "cmap" \in DOMAIN r
  BY <1>1, <1>2 DEF HasFields, HasRecords, Adds, InsertedInto
<1> HIDE DEF r, q
<1>5. /\ q.cmap = Extended(p.cmap, c, I) /\ q.frame = r.frame
      /\ DOMAIN q = DOMAIN r /\ q.body = r.body /\ q.succ = r.succ /\ q.kind = r.kind
      /\ q.args = r.args /\ q.type = r.type /\ q.from = r.from
  BY <1>2, <1>3, <1>4
<1>6. Adds(p, q, t, kind, args, Pool[-c].type)
  <2>1. InsertedInto(p, q, t, FreshInst(p))
    <3>1. InsertedInto(p, r, t, FreshInst(p))
      BY <1>2 DEF Adds
    <3>2. /\ DOMAIN q = DOMAIN r /\ q.body = r.body /\ q.succ = r.succ /\ q.kind = r.kind
          /\ q.args = r.args /\ q.type = r.type /\ q.from = r.from
      BY <1>5
    <3> QED
      BY <3>1, <3>2 DEF InsertedInto, Insts
  <2> QED
    BY <1>2, <1>5, <2>1 DEF Adds
<1> HIDE DEF I
<1>7. /\ Prolongs(p, q, t) /\ Available(q, I, t) /\ BlockOf(q, I) = BlockOf(p, t)
      /\ I \in Insts(q) /\ I \notin Insts(p)
  BY <1>6, AddingProlongs DEF I
<1>8. Grown(p, q) /\ t \in Insts(p)
  BY <1>7 DEF Prolongs, Lengthened, Open
<1>9. \A d \in DOMAIN p.cmap : LET J == p.cmap[d] IN
           J \in Insts(q) /\ BlockOf(q, J) = 1 /\ J # getTerminator(q, 1)
  BY <1>1, <1>8, ConstantsStay
<1>10. getTerminator(q, 1) = t
  BY <1>1, <1>8 DEF Grown
<1>11. I # t /\ BlockOf(q, I) = 1
  BY <1>1, <1>7, <1>8, TerminatorPlace
<1>12. /\ DOMAIN q.cmap = DOMAIN p.cmap \cup {c}
       /\ \A d \in DOMAIN q.cmap : IF d \in DOMAIN p.cmap THEN q.cmap[d] = p.cmap[d] ELSE q.cmap[d] = I
  BY <1>5 DEF Extended
<1>13. ConstantsAtHand(q)
  BY <1>7, <1>9, <1>10, <1>11, <1>12 DEF ConstantsAtHand
<1> QED
  BY <1>7, <1>10, <1>12, <1>13 DEF q

\* The ones copies multiply by, and that the wide one is all the other needs.
LEMMA Ones ==
  ASSUME NEW type \in {"i64", "i32"}
  PROVE  /\ One(type) \in Int /\ ~IsInst(One(type)) /\ Pool[-One(type)].type = type
         /\ Wide(One(type)) = One("i64")
<1> DEFINE k == CHOOSE j \in DOMAIN Pool : Pool[j] = [type |-> type, value |-> 1]
<1>1. /\ DOMAIN Pool = 1..6 /\ Pool[1] = [type |-> "i64", value |-> 1]
      /\ Pool[2] = [type |-> "i32", value |-> 1]
  BY DEF Pool
<1>2. k \in DOMAIN Pool /\ Pool[k] = [type |-> type, value |-> 1]
  <2>1. \E j \in DOMAIN Pool : Pool[j] = [type |-> type, value |-> 1]
    BY <1>1
  <2> QED
    BY <2>1
<1>3. One(type) = -k
  BY DEF One
<1> HIDE DEF k
<1>4. k \in Int
  BY <1>1, <1>2
<1>5. One(type) \in Int /\ -One(type) = k /\ ~IsInst(One(type))
  BY <1>1, <1>2, <1>3, <1>4 DEF IsInst
<1>6. Pool[-One(type)].type = type /\ Pool[-One(type)].value = 1
  BY <1>2, <1>5
<1>7. Wide(One(type)) = One("i64")
  BY <1>6 DEF Wide, One
<1> QED
  BY <1>5, <1>6, <1>7

\* Resolving one of them for an instruction behind the entry block makes it available.
LEMMA ResolvingKeeps ==
  ASSUME NEW p, Legal(p), ConstantsAtHand(p), FrameFirst(p), NEW use, BlockOf(p, use) # 1,
         NEW c \in {One("i64"), One("i32")}
  PROVE  LET q == resolve_constant(p, c, use) IN
         Prolongs(p, q, getTerminator(p, 1)) /\ ConstantsAtHand(q) /\ c \in DOMAIN q.cmap
<1> DEFINE t == getTerminator(p, 1)
           w == One("i64")
           q == ResolveWide(p, w, t)
<1>1. IsFunction(p) /\ 1 \in Blocks(p)
  BY EmptySeq, LenProperties DEF Legal, Sound, IsFunction, Blocks
<1>2. Open(p, t) /\ InsertPoint(p, use) = t /\ t = getTerminator(p, 1)
  BY <1>1, TerminatorsOpen DEF InsertPoint
<1>3. /\ Wide(c) = w /\ Wide(w) = w /\ w \in Int /\ c \in Int /\ Pool[-w].type = "i64"
      /\ Pool[-c].type \in {"i64", "i32"}
  BY Ones
<1>4. ~IsVector(Pool[-c].type) /\ Pool[-c].type \in ValueTypes /\ Wide(c) = w
  BY <1>3 DEF IsVector, ValueTypes
<1> HIDE DEF t, w
<1>5. /\ Prolongs(p, q, t) /\ ConstantsAtHand(q) /\ t = getTerminator(q, 1)
      /\ w \in DOMAIN q.cmap
  <2>1. CASE Cached(p, w)
    BY <1>2, <2>1, ProlongsItself DEF ResolveWide, Cached, t
  <2>2. CASE ~Cached(p, w)
    <3>1. \A v \in Range(<<w>>) : IsInst(v) => Available(p, v, t)
      BY Ones DEF Range, w
    <3>2. q = Materialise(p, t, w, "const", <<w>>)
      BY <2>2 DEF ResolveWide
    <3>3. <<w>> \in Seq(Int) /\ <<w>> # <<>> /\ Pool[-w].type \in ValueTypes
          /\ "const" \in {"op", "const", "move"}
      BY <1>3 DEF ValueTypes
    <3> HIDE DEF q
    <3> QED
      BY <1>2, <3>1, <3>2, <3>3, MaterialiseKeeps
  <2> QED
    BY <2>1, <2>2
<1> HIDE DEF q
<1>6. CASE Cached(p, c)
  BY <1>2, <1>6, ProlongsItself DEF resolve_constant, Cached, t
<1>7. CASE ~Cached(p, c) /\ c = w
  <2>1. resolve_constant(p, c, use) = q
    BY <1>2, <1>4, <1>7 DEF resolve_constant, ResolveInt, q
  <2> QED
    BY <1>5, <1>7, <2>1 DEF t
<1>8. CASE ~Cached(p, c) /\ c # w
  <2> DEFINE m == q.cmap[w]
             r == Materialise(q, t, c, "move", <<m>>)
  <2>1. resolve_constant(p, c, use) = r
    BY <1>2, <1>4, <1>8 DEF resolve_constant, ResolveInt, q
  <2>2. Legal(q) /\ Open(q, t)
    BY <1>5 DEF Prolongs
  <2>3. Available(q, m, t) /\ m \in Int
    <3>1. 1 \in Blocks(q) /\ IsFunction(q)
      BY <1>1, <1>5 DEF Prolongs, Lengthened, Grown, Legal, Sound
    <3>2. Available(q, m, t)
      BY <1>5, <2>2, <3>1, ConstantReads
    <3> QED
      BY <3>1, <3>2 DEF Available, IsFunction
  <2> HIDE DEF m
  <2>4. \A v \in Range(<<m>>) : Available(q, v, t)
    BY <2>3 DEF Range
  <2>5. <<m>> \in Seq(Int) /\ <<m>> # <<>> /\ "move" \in {"op", "const", "move"}
    BY <2>3
  <2>6. Prolongs(q, r, t) /\ ConstantsAtHand(r) /\ c \in DOMAIN r.cmap
    BY <1>4, <1>5, <2>2, <2>4, <2>5, MaterialiseKeeps
  <2> HIDE DEF r
  <2>7. Prolongs(p, r, t)
    BY <1>5, <2>6, ProlongsTransitive
  <2> QED
    BY <2>1, <2>6, <2>7 DEF t
<1> QED
  BY <1>6, <1>7, <1>8

\* The frame stays in front.
LEMMA FrameStays ==
  ASSUME NEW p, Legal(p), FrameFirst(p), NEW q, Grown(p, q), q.frame = p.frame,
         p.frame >= 0 => q.body[1][1] = p.body[1][1]
  PROVE  FrameFirst(q)
<1>1. IsFunction(p)
  BY DEF Legal, Sound
<1>2. 1 \in Blocks(p)
  BY <1>1, EmptySeq, LenProperties DEF IsFunction, Blocks
<1>3. p.body[1][1] \in Insts(p)
  <2>1. Len(p.body[1]) \in Nat \ {0} /\ \A k \in 1..Len(p.body[1]) : p.body[1][k] \in Insts(p)
    BY <1>1, <1>2, CodeOf
  <2>2. 1 \in 1..Len(p.body[1])
    BY <2>1
  <2> QED
    BY <2>1, <2>2
<1> QED
  BY <1>3 DEF FrameFirst, Grown

\* What ends a block is in no register.
LEMMA NoRegister ==
  ASSUME NEW p, Legal(p), NEW t \in Insts(p), p.kind[t] \in Terminators \cup {"sp", "noreg"}
  PROVE  ~isReg(p, t)
<1>1. IsFunction(p) /\ MovesEnd(p) /\ t \in Int
  BY DEF Legal, Sound, IsFunction
<1>2. Root(p, t) = IF isMoveInst(p, t) THEN Root(p, p.args[t][1]) ELSE t
  BY <1>1, RootSteps
<1>3. ~isMoveInst(p, t)
  BY DEF isMoveInst, Terminators
<1> QED
  BY <1>2, <1>3 DEF isReg, Terminators

\* The operand of a phi can be read at the end of the block it comes from.
LEMMA IncomingReads ==
  ASSUME NEW p, Legal(p), NEW phi \in AllPhis(p), NEW i \in DOMAIN p.args[phi]
  PROVE  /\ p.from[phi][i] \in Blocks(p) /\ p.args[phi][i] \in Regs(p) /\ ~IsPhi(p, p.args[phi][i])
         /\ BlockOf(p, phi) # 1
         /\ Available(p, p.args[phi][i], getTerminator(p, p.from[phi][i]))
<1> DEFINE v == p.args[phi][i]
           b == p.from[phi][i]
           t == getTerminator(p, b)
<1>1. IsFunction(p) /\ WellFormed(p)
  BY DEF Legal, Sound
<1>2. phi \in Insts(p) /\ IsPhi(p, phi)
  BY DEF AllPhis
<1>3. BlockOf(p, phi) \in Blocks(p) /\ 1 \in Blocks(p)
  <2>1. BlockOf(p, phi) \in Blocks(p)
    BY <1>1, <1>2, Places
  <2> QED
    BY <1>1, <2>1, EmptySeq, LenProperties DEF IsFunction, Blocks
<1>4. phi \in Phis(p, BlockOf(p, phi)) /\ BlockOf(p, phi) # 1
  <2>1. phi \in Phis(p, BlockOf(p, phi))
    BY <1>1, <1>2, <1>3, PhisOfBlock
  <2>2. Phis(p, 1) = {}
    BY <1>1 DEF WellFormed
  <2> QED
    BY <2>1, <2>2
<1>5. b \in Blocks(p)
  <2>1. p.from[phi] \in Seq(Blocks(p)) /\ i \in DOMAIN p.from[phi]
    BY <1>1, <1>3, <1>4 DEF IsFunction
  <2> QED
    BY <2>1, ElementOfSeq, LenProperties
<1>6. v \in Regs(p) /\ ~IsPhi(p, v) /\ IsInst(v)
  <2>1. v \in Range(p.args[phi])
    BY DEF Range
  <2>2. v \in Insts(p) /\ ~IsPhi(p, v) /\ isReg(p, v)
    BY <2>1 DEF Legal, Sound, PhisReadRegisters, IncomingInRegisters
  <2> QED
    BY <1>1, <2>2 DEF Regs, IsFunction
<1>7. \/ ~isPotentiallyReachable(p, b) \/ BlockOf(p, v) = b \/ Dominates(p, BlockOf(p, v), b)
  BY <1>1, <1>2, <1>6 DEF WellFormed
<1> HIDE DEF v, b
<1>8. /\ t \in Insts(p) /\ BlockOf(p, t) = b /\ p.kind[t] \in Terminators
      /\ \A I \in Insts(p) : BlockOf(p, I) = b /\ I # t => DefDominates(p, I, t)
  BY <1>1, <1>5, TerminatorPlace
<1>9. v # t /\ v \in Insts(p)
  BY <1>6, <1>8, NoRegister DEF Regs
<1>10. Available(p, v, t)
  BY <1>7, <1>8, <1>9 DEF Available, DefDominates
<1> QED
  BY <1>4, <1>5, <1>6, <1>10 DEF v, b

\* A phi can be given a value made for it at the end of the block the operand comes from.
LEMMA ReplacingIncoming ==
  ASSUME NEW p, Legal(p), ConstantsAtHand(p), FrameFirst(p),
         NEW phi \in AllPhis(p), NEW i \in DOMAIN p.args[phi],
         NEW q, NEW t, Prolongs(p, q, t), q.cmap = p.cmap,
         NEW w \in Insts(q), isReg(q, w), ~IsPhi(q, w), ~IsPhi(q, Root(q, w)),
         Root(q, w) \notin Insts(p), BlockOf(q, w) = p.from[phi][i]
  PROVE  Allocatable(setIncomingValue(q, phi, i, w))
<1> DEFINE r == setIncomingValue(q, phi, i, w)
<1>1. /\ Legal(q) /\ Grown(p, q) /\ AllPhis(q) = AllPhis(p) /\ q.frame = p.frame
      /\ p.frame >= 0 => q.body[1][1] = p.body[1][1]
      /\ \A I \in Insts(p) : q.args[I] = p.args[I] /\ q.from[I] = p.from[I]
  BY DEF Prolongs, Lengthened
<1>2. IsFunction(p) /\ IsFunction(q) /\ HasFields(q) /\ HasRecords(q)
  BY <1>1 DEF Legal, Sound
<1>3. phi \in Insts(p) /\ phi \in AllPhis(q) /\ i \in DOMAIN q.args[phi]
  BY <1>1 DEF AllPhis
<1>4. /\ DOMAIN r = DOMAIN q /\ r.body = q.body /\ r.succ = q.succ /\ r.kind = q.kind
      /\ r.type = q.type /\ r.from = q.from /\ r.frame = q.frame /\ r.cmap = q.cmap
      /\ r.args = [q.args EXCEPT ![phi][i] = w]
  BY <1>2 DEF setIncomingValue, HasFields, HasRecords
<1> HIDE DEF r
<1>5. Redirected(q, r, phi, i, w)
  BY <1>4 DEF Redirected
<1>6. ASSUME NEW psi \in AllPhis(q), NEW j \in DOMAIN q.args[psi]
      PROVE  Root(q, q.args[psi][j]) # Root(q, w)
  <2>1. psi \in AllPhis(p) /\ psi \in Insts(p) /\ j \in DOMAIN p.args[psi]
        /\ q.args[psi][j] = p.args[psi][j]
    BY <1>1, <1>6 DEF AllPhis
  <2>2. p.args[psi][j] \in Insts(p) /\ isReg(p, p.args[psi][j])
    BY <2>1, IncomingReads DEF Regs
  <2>3. Root(p, p.args[psi][j]) \in Insts(p)
    BY <2>2 DEF isReg
  <2> QED
    BY <1>1, <2>1, <2>2, <2>3 DEF Grown
<1>7. BlockOf(q, w) = q.from[phi][i]
  BY <1>1, <1>3
<1>8. Legal(r) /\ Grown(q, r)
  BY <1>1, <1>3, <1>5, <1>6, <1>7, IncomingKeeps
<1>9. Grown(p, r)
  BY <1>1, <1>8, GrownTransitive
<1>10. FrameFirst(r)
  BY <1>1, <1>4, <1>9, FrameStays
<1>11. ConstantsAtHand(r)
  BY <1>2, <1>4, <1>9, ConstantsStay DEF ConstantsAtHand
<1> QED
  BY <1>8, <1>10, <1>11 DEF Allocatable, Ready, Sound, Legal, r

-----------------------------------------------------------------------------
\* Copies of phi operands.

\* A copy keeps the function legal, for a value that is no pointer,
LEMMA PlainCopyKeeps ==
  ASSUME NEW p, Legal(p), ConstantsAtHand(p), FrameFirst(p),
         NEW phi \in AllPhis(p), NEW i \in DOMAIN p.args[phi],
         NEW c \in DOMAIN p.cmap, NEW wide \in ValueTypes
  PROVE  LET I == FreshInst(p)
             q == InsertBefore(p, CopyPoint(p, phi, i), I, "op",
                               <<p.args[phi][i], p.cmap[c]>>, wide)
         IN  Allocatable(setIncomingValue(q, phi, i, I))
<1> DEFINE b == p.from[phi][i]
           t == getTerminator(p, b)
           v == p.args[phi][i]
           k == p.cmap[c]
           I == FreshInst(p)
           q == InsertBefore(p, t, I, "op", <<v, k>>, wide)
<1>1. b \in Blocks(p) /\ Available(p, v, t)
  BY IncomingReads
<1>2. Open(p, t) /\ Available(p, k, t) /\ BlockOf(p, t) = b
  BY <1>1, TerminatorsOpen, ConstantReads, TerminatorPlace DEF Legal, Sound
<1>3. v \in Int /\ k \in Int
  BY <1>1, <1>2 DEF Available, Legal, Sound, IsFunction
<1> HIDE DEF b, v, k, t
<1>4. Adds(p, q, t, "op", <<v, k>>, wide) /\ q.cmap = p.cmap
  BY AllAdd
<1> HIDE DEF I, q
<1>5. /\ Prolongs(p, q, t) /\ BlockOf(q, I) = BlockOf(p, t) /\ ~IsPhi(q, I) /\ I \notin Insts(p)
      /\ isReg(q, I) /\ Root(q, I) = I /\ I \in Insts(q)
  <2>1. <<v, k>> \in Seq(Int) /\ <<v, k>> # <<>>
    BY <1>3
  <2>2. \A x \in Range(<<v, k>>) : IsInst(x) => Available(p, x, t)
    BY <1>1, <1>2 DEF Range
  <2> QED
    BY <1>2, <1>4, <2>1, <2>2, AddingProlongs DEF I
<1>6. BlockOf(q, I) = p.from[phi][i] /\ Root(q, I) \notin Insts(p)
  BY <1>2, <1>5 DEF b
<1>7. Allocatable(setIncomingValue(q, phi, i, I))
  BY <1>4, <1>5, <1>6, ReplacingIncoming
<1> QED
  BY <1>7 DEF q, I, v, k, t, b, CopyPoint

\* and for a pointer, by way of a cast to an integer and back.
LEMMA PointerCopyKeeps ==
  ASSUME NEW p, Legal(p), ConstantsAtHand(p), FrameFirst(p),
         NEW phi \in AllPhis(p), NEW i \in DOMAIN p.args[phi],
         NEW c \in DOMAIN p.cmap, NEW wide \in ValueTypes
  PROVE  LET t == CopyPoint(p, phi, i)
             I == FreshInst(p)
             J == I + 1
             cast1 == InsertBefore(p, t, I, "move", <<p.args[phi][i]>>, "i64")
             cast2 == InsertBefore(cast1, t, J, "op", <<I, p.cmap[c]>>, wide)
             cast3 == InsertBefore(cast2, t, J + 1, "move", <<J>>, "ptr")
         IN  Allocatable(setIncomingValue(cast3, phi, i, J + 1))
<1> DEFINE b == p.from[phi][i]
           t == getTerminator(p, b)
           v == p.args[phi][i]
           k == p.cmap[c]
           I == FreshInst(p)
           J == I + 1
           cast1 == InsertBefore(p, t, I, "move", <<v>>, "i64")
           cast2 == InsertBefore(cast1, t, J, "op", <<I, k>>, wide)
           cast3 == InsertBefore(cast2, t, J + 1, "move", <<J>>, "ptr")
<1>1. b \in Blocks(p) /\ Available(p, v, t)
  BY IncomingReads
<1>2. Open(p, t) /\ Available(p, k, t) /\ BlockOf(p, t) = b
  BY <1>1, TerminatorsOpen, ConstantReads, TerminatorPlace DEF Legal, Sound
<1>3. v \in Int /\ k \in Int
  BY <1>1, <1>2 DEF Available, Legal, Sound, IsFunction
<1>4. {"i64", "ptr"} \subseteq ValueTypes /\ {"move", "op"} \subseteq {"op", "const", "move", "noreg"}
  BY DEF ValueTypes
<1> HIDE DEF b, v, k, t
<1>5. Adds(p, cast1, t, "move", <<v>>, "i64") /\ cast1.cmap = p.cmap
  BY AllAdd
<1> HIDE DEF I, cast1
<1>6. /\ Prolongs(p, cast1, t) /\ Available(cast1, I, t) /\ BlockOf(cast1, I) = BlockOf(p, t)
      /\ I \notin Insts(p) /\ I \in Insts(cast1) /\ I \in Int /\ FreshInst(cast1) = J
  <2>1. <<v>> \in Seq(Int) /\ <<v>> # <<>>
    BY <1>3
  <2>2. \A x \in Range(<<v>>) : IsInst(x) => Available(p, x, t)
    BY <1>1 DEF Range
  <2> QED
    BY <1>2, <1>4, <1>5, <2>1, <2>2, AddingProlongs DEF I
<1>7. Legal(cast1) /\ Open(cast1, t) /\ Available(cast1, k, t) /\ BlockOf(cast1, t) = b
  <2>1. Legal(cast1) /\ Open(cast1, t) /\ Grown(p, cast1)
    BY <1>6 DEF Prolongs, Lengthened
  <2> QED
    BY <1>2, <1>6, <2>1, ProlongedReads DEF Grown, Open
<1>8. Adds(cast1, cast2, t, "op", <<I, k>>, wide) /\ cast2.cmap = cast1.cmap
  BY <1>6, <1>7, AllAdd
<1> HIDE DEF J, cast2
<1>9. /\ Prolongs(cast1, cast2, t) /\ Available(cast2, J, t) /\ ~IsPhi(cast2, J)
      /\ BlockOf(cast2, J) = BlockOf(cast1, t)
      /\ J \notin Insts(cast1) /\ J \in Insts(cast2) /\ J \in Int /\ FreshInst(cast2) = J + 1
      /\ isReg(cast2, J) /\ Root(cast2, J) = J
  <2>1. <<I, k>> \in Seq(Int) /\ <<I, k>> # <<>>
    BY <1>3, <1>6
  <2>2. \A x \in Range(<<I, k>>) : IsInst(x) => Available(cast1, x, t)
    BY <1>6, <1>7 DEF Range
  <2> QED
    BY <1>4, <1>6, <1>7, <1>8, <2>1, <2>2, AddingProlongs
<1>10. Legal(cast2) /\ Open(cast2, t) /\ BlockOf(cast2, t) = b
  <2>1. Legal(cast2) /\ Open(cast2, t) /\ Grown(cast1, cast2)
    BY <1>9 DEF Prolongs, Lengthened
  <2> QED
    BY <1>7, <2>1 DEF Grown, Open
<1> DEFINE W == J + 1
<1>11. Adds(cast2, cast3, t, "move", <<J>>, "ptr") /\ cast3.cmap = cast2.cmap
  BY <1>9, <1>10, AllAdd
<1> HIDE DEF cast3, W
<1>12. /\ Prolongs(cast2, cast3, t) /\ BlockOf(cast3, W) = BlockOf(cast2, t) /\ ~IsPhi(cast3, W)
       /\ W \notin Insts(cast2) /\ W \in Insts(cast3) /\ Root(cast3, W) = Root(cast3, J)
  <2>1. <<J>> \in Seq(Int) /\ <<J>> # <<>> /\ <<J>>[1] = J
    BY <1>9
  <2>2. \A x \in Range(<<J>>) : IsInst(x) => Available(cast2, x, t)
    BY <1>9 DEF Range
  <2>3. FreshInst(cast2) = W
    BY <1>9 DEF W
  <2> QED
    <3> DEFINE F == FreshInst(cast2)
               args == <<J>>
    <3>1. args \in Seq(Int) /\ args # <<>> /\ args[1] = J
      BY <2>1
    <3>2. \A x \in Range(args) : IsInst(x) => Available(cast2, x, t)
      BY <2>2
    <3>3. Adds(cast2, cast3, t, "move", args, "ptr")
      BY <1>11
    <3> HIDE DEF args
    <3>4. /\ Prolongs(cast2, cast3, t) /\ BlockOf(cast3, F) = BlockOf(cast2, t) /\ ~IsPhi(cast3, F)
          /\ F \notin Insts(cast2) /\ F \in Insts(cast3) /\ Root(cast3, F) = Root(cast3, args[1])
      BY <1>4, <1>10, <3>1, <3>2, <3>3, AddingProlongs
    <3> QED
      BY <2>3, <3>1, <3>4
<1>13. /\ Root(cast3, J) = J /\ isReg(cast3, J) /\ ~IsPhi(cast3, J) /\ J \notin Insts(p)
  <2>1. Grown(cast2, cast3) /\ Grown(p, cast1)
    BY <1>6, <1>12 DEF Prolongs, Lengthened
  <2> QED
    BY <1>9, <2>1 DEF Grown, IsPhi
<1>14. isReg(cast3, W) /\ Root(cast3, W) = J
  BY <1>12, <1>13 DEF isReg
<1>15. Prolongs(p, cast3, t) /\ cast3.cmap = p.cmap
  BY <1>5, <1>6, <1>8, <1>9, <1>11, <1>12, ProlongsTransitive
<1>16. BlockOf(cast3, W) = p.from[phi][i]
  BY <1>10, <1>12 DEF b
<1>17. Allocatable(setIncomingValue(cast3, phi, i, W))
  BY <1>12, <1>13, <1>14, <1>15, <1>16, ReplacingIncoming
<1> QED
  BY <1>17 DEF cast3, cast2, cast1, W, J, I, v, k, t, b, CopyPoint

\* So resolvePHIInterference keeps the function what it must be.
LEMMA CopyingKeepsAllocatable ==
  ASSUME Allocatable(prog), CopyPhiOperand PROVE Allocatable(prog)'
<1>1. PICK phi \in MustCopy :
        /\ ~IsVector(prog.type[prog.args[phi][Min(ToCopy(phi))]])
        /\ BuildAgain(Copied(phi, Min(ToCopy(phi))))
  BY DEF CopyPhiOperand
<1> DEFINE i == Min(ToCopy(phi))
           v == prog.args[phi][i]
           wide == IF prog.type[v] = "ptr" THEN "i64" ELSE prog.type[v]
           c == One(wide)
           p == resolve_constant(prog, c, phi)
<1>2. Legal(prog) /\ ConstantsAtHand(prog) /\ FrameFirst(prog) /\ IsFunction(prog)
  BY DEF Allocatable, Ready, Sound, Legal
<1>3. phi \in AllPhis(prog) /\ i \in DOMAIN prog.args[phi]
  <2>1. phi \in AllPhis(prog) /\ ToCopy(phi) # {} /\ phi \in Insts(prog)
    BY DEF MustCopy, AllPhis
  <2>2. DOMAIN prog.args[phi] \subseteq Nat
    <3>1. prog.args[phi] \in Seq(Int)
      BY <1>2, <2>1 DEF Legal, Sound, HasFields, HasRecords
    <3> QED
      BY <3>1, LenProperties
  <2>3. ToCopy(phi) \in SUBSET Nat
    BY <2>2 DEF ToCopy
  <2>4. i \in ToCopy(phi)
    BY <2>1, <2>3, LeastNatural DEF Min, i
  <2> QED
    BY <2>1, <2>4 DEF ToCopy
<1>4. v \in Regs(prog) /\ BlockOf(prog, phi) # 1
  BY <1>2, <1>3, IncomingReads
<1>5. prog.type[v] \in {"i32", "i64", "ptr"}
  BY <1>1, <1>2, <1>4 DEF Legal, Sound, HasFields, HasRecords, ValueTypes, IsVector
<1>6. wide \in {"i64", "i32"} /\ wide \in ValueTypes
  BY <1>5 DEF ValueTypes
<1> HIDE DEF i, wide
<1>7. c \in {One("i64"), One("i32")}
  BY <1>6
<1>8. Prolongs(prog, p, getTerminator(prog, 1)) /\ ConstantsAtHand(p) /\ c \in DOMAIN p.cmap
  BY <1>2, <1>4, <1>7, ResolvingKeeps
<1> HIDE DEF p
<1>9. /\ Legal(p) /\ Grown(prog, p) /\ AllPhis(p) = AllPhis(prog) /\ p.frame = prog.frame
      /\ prog.frame >= 0 => p.body[1][1] = prog.body[1][1]
      /\ p.args[phi] = prog.args[phi]
  BY <1>3, <1>8 DEF Prolongs, Lengthened, AllPhis
<1>10. FrameFirst(p)
  BY <1>2, <1>9, FrameStays
<1>11. phi \in AllPhis(p) /\ i \in DOMAIN p.args[phi] /\ v = p.args[phi][i]
  BY <1>3, <1>9
<1>12. prog' = Copied(phi, i)
  BY <1>1 DEF BuildAgain, i
<1>13. CASE prog.type[v] = "ptr"
  <2> DEFINE t == CopyPoint(p, phi, i)
             I == FreshInst(p)
             J == I + 1
             cast1 == InsertBefore(p, t, I, "move", <<v>>, "i64")
             cast2 == InsertBefore(cast1, t, J, "op", <<I, p.cmap[c]>>, wide)
             cast3 == InsertBefore(cast2, t, J + 1, "move", <<J>>, "ptr")
  <2>1. Allocatable(setIncomingValue(cast3, phi, i, J + 1))
    BY <1>6, <1>8, <1>9, <1>10, <1>11, PointerCopyKeeps
  <2>2. Copied(phi, i) = setIncomingValue(cast3, phi, i, J + 1)
    BY <1>13 DEF Copied, p, wide
  <2> QED
    BY <1>12, <2>1, <2>2
<1>14. CASE prog.type[v] # "ptr"
  <2> DEFINE I == FreshInst(p)
             q == InsertBefore(p, CopyPoint(p, phi, i), I, "op", <<v, p.cmap[c]>>, wide)
  <2>1. Allocatable(setIncomingValue(q, phi, i, I))
    BY <1>6, <1>8, <1>9, <1>10, <1>11, PlainCopyKeeps
  <2>2. Copied(phi, i) = setIncomingValue(q, phi, i, I)
    BY <1>14 DEF Copied, p, wide
  <2> QED
    BY <1>12, <2>1, <2>2
<1> QED
  BY <1>13, <1>14

-----------------------------------------------------------------------------
\* Folds over the values to store and the operands to load.

\* One step of either fold of InsertLoadStore.
Accessed(loading, x, q, acc) ==
  IF loading THEN LoadBefore(q, x[1], x[2], acc) ELSE StoreAfter(q, x, acc)

\* f lists the results of the fold for the subsets of S.
Folds(f, S, loading, base, acc) ==
  f = [s \in SUBSET S |->
         IF s = {} THEN base
         ELSE LET x == CHOOSE x \in s : TRUE IN Accessed(loading, x, f[s \ {x}], acc)]

\* For a finite set there is such a list.
LEMMA FoldExists ==
  ASSUME NEW S, IsFiniteSet(S), NEW loading, NEW base, NEW acc
  PROVE  \E f : Folds(f, S, loading, base, acc)
<1> DEFINE First(s) == CHOOSE x \in s : TRUE
           Step(f, s) == IF s = {} THEN base ELSE Accessed(loading, First(s), f[s \ {First(s)}], acc)
           Upto(f, n) == /\ DOMAIN f = SUBSET S
                         /\ \A s \in SUBSET S : Cardinality(s) <= n => f[s] = Step(f, s)
           missing == {n \in Nat : ~ \E f : Upto(f, n)}
<1>1. \A s \in SUBSET S : IsFiniteSet(s) /\ Cardinality(s) \in Nat /\ Cardinality(s) <= Cardinality(S)
  BY FS_Subset, FS_CardinalityType
<1>2. \A s \in SUBSET S : s # {} => /\ First(s) \in s /\ s \ {First(s)} \in SUBSET S
                                    /\ Cardinality(s \ {First(s)}) = Cardinality(s) - 1
  BY <1>1, FS_RemoveElement
<1>3. \A s \in SUBSET S : Cardinality(s) = 0 <=> s = {}
  BY <1>1, FS_EmptySet
<1> HIDE DEF First
<1>4. ASSUME missing # {} PROVE FALSE
  <2>1. PICK n \in missing : \A m \in missing : n <= m
    <3>1. missing \in SUBSET Nat
      OBVIOUS
    <3> HIDE DEF missing
    <3> QED
      BY <1>4, <3>1, LeastNatural
  <2>2. CASE n = 0
    <3> DEFINE f == [s \in SUBSET S |-> base]
    <3>1. Upto(f, 0)
      BY <1>1, <1>3
    <3> QED
      BY <2>1, <2>2, <3>1
  <2>3. CASE n # 0
    <3>1. n - 1 \in Nat /\ n - 1 \notin missing /\ n \in Nat
      <4>1. n \in Nat
        BY <2>1
      <4> HIDE DEF missing
      <4> QED
        BY <2>1, <2>3, <4>1
    <3>2. PICK f : Upto(f, n - 1)
      BY <3>1
    <3> DEFINE g == [s \in SUBSET S |-> IF Cardinality(s) <= n - 1 THEN f[s] ELSE Step(f, s)]
    <3>3. ASSUME NEW s \in SUBSET S, Cardinality(s) <= n
          PROVE  g[s] = Step(g, s)
      <4>1. CASE s = {}
        <5>1. Cardinality(s) <= n - 1 /\ g[s] = f[s]
          BY <1>1, <1>3, <3>1, <4>1
        <5> QED
          BY <3>2, <4>1, <5>1
      <4>2. CASE s # {}
        <5> DEFINE r == s \ {First(s)}
        <5>1. r \in SUBSET S /\ Cardinality(r) <= n - 1
          BY <1>1, <1>2, <3>1, <3>3, <4>2
        <5>2. g[r] = f[r]
          BY <5>1
        <5>3. g[s] = Step(f, s)
          BY <3>2
        <5> HIDE DEF g
        <5> QED
          BY <4>2, <5>2, <5>3
      <4> QED
        BY <4>1, <4>2
    <3>4. DOMAIN g = SUBSET S
      OBVIOUS
    <3> HIDE DEF g
    <3>5. Upto(g, n)
      BY <3>3, <3>4
    <3> QED
      BY <2>1, <3>5
  <2> QED
    BY <2>2, <2>3
<1>5. PICK f : Upto(f, Cardinality(S))
  <2>1. Cardinality(S) \in Nat
    BY FS_CardinalityType
  <2> QED
    BY <1>4, <2>1
<1>6. \A s \in SUBSET S : f[s] = Step(f, s)
  BY <1>1, <1>5
<1> DEFINE g == [s \in SUBSET S |-> f[s]]
<1>7. g = [s \in SUBSET S |-> Step(g, s)]
  <2>1. \A s \in SUBSET S : g[s] = f[s]
    OBVIOUS
  <2>2. \A s \in SUBSET S : g[s] = Step(g, s)
    <3> TAKE s \in SUBSET S
    <3>1. CASE s = {}
      BY <1>6, <3>1
    <3>2. CASE s # {}
      <4> DEFINE r == s \ {First(s)}
      <4>1. g[r] = f[r] /\ g[s] = f[s]
        BY <2>1
      <4> HIDE DEF g
      <4> QED
        BY <1>6, <3>2, <4>1
    <3> QED
      BY <3>1, <3>2
  <2>3. DOMAIN g = SUBSET S /\ g = [s \in SUBSET S |-> g[s]]
    OBVIOUS
  <2> HIDE DEF g
  <2> QED
    BY <2>2, <2>3
<1> HIDE DEF g
<1> QED
  BY <1>7 DEF Folds, First

\* The folds of InsertLoadStore.
StoredAll(base, S, acc) == FoldSet(LAMBDA I, q : StoreAfter(q, I, acc), base, S)
LoadedAll(base, S, acc) == FoldSet(LAMBDA x, q : LoadBefore(q, x[1], x[2], acc), base, S)

\* What the folds return is listed, each entry made from that for a set with an element less.
LEMMA FoldSteps ==
  ASSUME NEW S, IsFiniteSet(S), NEW base, NEW acc
  PROVE  /\ \E f : /\ Folds(f, S, FALSE, base, acc)
                   /\ StoredAll(base, S, acc) = f[S]
         /\ \E f : /\ Folds(f, S, TRUE, base, acc)
                   /\ LoadedAll(base, S, acc) = f[S]
<1>1. \E f : /\ Folds(f, S, FALSE, base, acc)
             /\ StoredAll(base, S, acc) = f[S]
  <2> DEFINE Listed(f) == f = [s \in SUBSET S |->
                 IF s = {} THEN base
                 ELSE LET x == CHOOSE x \in s : TRUE IN StoreAfter(f[s \ {x}], x, acc)]
             f0 == CHOOSE f : Listed(f)
  <2>1. PICK g : Folds(g, S, FALSE, base, acc)
    BY FoldExists
  <2>2. Listed(g)
    BY <2>1 DEF Folds, Accessed
  <2>3. Listed(f0)
    <3> HIDE DEF Listed
    <3> QED
      BY <2>2
  <2>4. StoredAll(base, S, acc) = f0[S]
    BY DEF StoredAll, FoldSet, MapThenFoldSet
  <2>5. Folds(f0, S, FALSE, base, acc)
    BY <2>3 DEF Folds, Accessed
  <2> QED
    BY <2>4, <2>5
<1>2. \E f : /\ Folds(f, S, TRUE, base, acc)
             /\ LoadedAll(base, S, acc) = f[S]
  <2> DEFINE Listed(f) == f = [s \in SUBSET S |->
                 IF s = {} THEN base
                 ELSE LET x == CHOOSE x \in s : TRUE IN LoadBefore(f[s \ {x}], x[1], x[2], acc)]
             f0 == CHOOSE f : Listed(f)
  <2>1. PICK g : Folds(g, S, TRUE, base, acc)
    BY FoldExists
  <2>2. Listed(g)
    BY <2>1 DEF Folds, Accessed
  <2>3. Listed(f0)
    <3> HIDE DEF Listed
    <3> QED
      BY <2>2
  <2>4. LoadedAll(base, S, acc) = f0[S]
    BY DEF LoadedAll, FoldSet, MapThenFoldSet
  <2>5. Folds(f0, S, TRUE, base, acc)
    BY <2>3 DEF Folds, Accessed
  <2> QED
    BY <2>4, <2>5
<1> QED
  BY <1>1, <1>2

-----------------------------------------------------------------------------
\* Spilling.

\* p and q have the same instructions.
SameText(p, q) ==
  /\ q.body = p.body /\ q.succ = p.succ /\ q.kind = p.kind
  /\ q.args = p.args /\ q.type = p.type /\ q.from = p.from

\* p and q differ in nothing but the allocator's records.
SameCode(p, q) == DOMAIN q = DOMAIN p /\ SameText(p, q)

\* What the instructions have, q has when p has it.
LEMMA SameTextKeeps ==
  ASSUME NEW p, Sound(p), NEW q, SameText(p, q),
         {"body", "succ", "kind", "args", "from", "type", "cmap"} \subseteq DOMAIN q
  PROVE  /\ Sound(q) /\ Lengthened(p, q) /\ q.body[1][1] = p.body[1][1]
         /\ Newest(q) = Newest(p) /\ FreshInst(q) = FreshInst(p)
         /\ PhisReadRegisters(p) =>
              /\ PhisReadRegisters(q)
              /\ IncomingInRegisters(p) => IncomingInRegisters(q)
              /\ NoSharedOperands(p) => NoSharedOperands(q)
              /\ NoPhiFeedsPhi(p) => NoPhiFeedsPhi(q)
<1>1. IsFunction(p) /\ WellFormed(p) /\ MovesEnd(p) /\ HasFields(p)
  BY DEF Sound
<1>2. Insts(q) = Insts(p) /\ Blocks(q) = Blocks(p) /\ \A I : IsPhi(q, I) <=> IsPhi(p, I)
  BY DEF SameText, Insts, Blocks, IsPhi
<1>3. \A I : Operands(q, I) = Operands(p, I)
  BY DEF SameText, Operands
<1>4. /\ \A b : Phis(q, b) = Phis(p, b) /\ getTerminator(q, b) = getTerminator(p, b)
      /\ AllPhis(q) = AllPhis(p)
  BY <1>2 DEF SameText, Phis, getTerminator, AllPhis
<1>5. IsFunction(q)
  BY <1>1, <1>2, <1>3, <1>4 DEF IsFunction, SameText
<1>6. SameMoves(p, q)
  BY <1>2 DEF SameMoves, isMoveInst, SameText
<1>7. MovesEnd(q)
  BY <1>1, <1>5, <1>6, MovesStillEnd
<1>8. \A v \in Insts(p) : Root(q, v) = Root(p, v)
  BY <1>1, <1>5, <1>6, RootsStay
<1>9. \A v \in Insts(p) : isReg(q, v) = isReg(p, v)
  BY <1>2, <1>8 DEF isReg, SameText
<1>10. HasFields(q)
  <2>1. \A I \in Regs(q) : q.type[I] \in ValueTypes
    BY <1>1, <1>2, <1>9 DEF HasFields, Regs, SameText
  <2> QED
    BY <1>1, <1>2, <2>1 DEF HasFields, SameText
<1>11. /\ \A I : BlockOf(q, I) = BlockOf(p, I) /\ IndexOf(q, I) = IndexOf(p, I)
       /\ \A b : isPotentiallyReachable(q, b) <=> isPotentiallyReachable(p, b)
       /\ \A a, b : Dominates(q, a, b) <=> Dominates(p, a, b)
  BY DEF SameText, BlockOf, IndexOf, Blocks, isPotentiallyReachable, ReachableFrom, Dominates,
         NotThrough
<1>12. \A x, y : DefDominates(q, x, y) <=> DefDominates(p, x, y)
  BY <1>11 DEF DefDominates
<1>13. Lengthened(p, q)
  BY <1>2, <1>4, <1>8, <1>9, <1>11, <1>12 DEF Grown, Lengthened, SameText
<1>14. WellFormed(q)
  BY <1>1, <1>2, <1>3, <1>4, <1>11, <1>12 DEF WellFormed, SameText
<1>15. ASSUME PhisReadRegisters(p)
       PROVE  /\ PhisReadRegisters(q)
              /\ IncomingInRegisters(p) => IncomingInRegisters(q)
              /\ NoSharedOperands(p) => NoSharedOperands(q)
              /\ NoPhiFeedsPhi(p) => NoPhiFeedsPhi(q)
  <2>1. \A phi \in AllPhis(p) : /\ q.args[phi] = p.args[phi]
                                /\ \A v \in Range(p.args[phi]) : v \in Insts(p)
    BY <1>15 DEF PhisReadRegisters, SameText
  <2>2. \A phi \in AllPhis(p) : \A i \in DOMAIN p.args[phi] : p.args[phi][i] \in Range(p.args[phi])
    BY DEF Range
  <2>3. PhisReadRegisters(q)
    BY <1>2, <1>4, <1>15, <2>1 DEF PhisReadRegisters
  <2>4. IncomingInRegisters(p) => IncomingInRegisters(q)
    BY <1>4, <1>9, <2>1 DEF IncomingInRegisters
  <2>5. NoSharedOperands(p) => NoSharedOperands(q)
    BY <1>4, <1>8, <2>1, <2>2 DEF NoSharedOperands
  <2>6. NoPhiFeedsPhi(p) => NoPhiFeedsPhi(q)
    BY <1>2, <1>4, <1>8, <2>1 DEF NoPhiFeedsPhi
  <2> QED
    BY <2>3, <2>4, <2>5, <2>6
<1>16. q.body[1][1] = p.body[1][1] /\ Newest(q) = Newest(p) /\ FreshInst(q) = FreshInst(p)
  BY <1>2 DEF SameText, Newest, FreshInst
<1>17. Sound(q)
  BY <1>5, <1>7, <1>10, <1>14 DEF Sound
<1> QED
  BY <1>13, <1>15, <1>16, <1>17

\* So q is as legal as p.
LEMMA SameCodeKeeps ==
  ASSUME NEW p, Legal(p), NEW q, SameCode(p, q)
  PROVE  /\ Legal(q) /\ Lengthened(p, q) /\ q.body[1][1] = p.body[1][1]
         /\ Newest(q) = Newest(p) /\ FreshInst(q) = FreshInst(p)
<1>1. /\ SameText(p, q) /\ Sound(p) /\ PhisReadRegisters(p)
      /\ {"body", "succ", "kind", "args", "from", "type", "cmap"} \subseteq DOMAIN q
  BY DEF SameCode, Legal, Sound, HasFields
<1>2. HasRecords(q)
  BY DEF SameCode, Legal, HasRecords
<1>3. /\ Sound(q) /\ Lengthened(p, q) /\ q.body[1][1] = p.body[1][1]
      /\ Newest(q) = Newest(p) /\ FreshInst(q) = FreshInst(p)
      /\ PhisReadRegisters(q) /\ (IncomingInRegisters(p) => IncomingInRegisters(q))
      /\ (NoSharedOperands(p) => NoSharedOperands(q)) /\ (NoPhiFeedsPhi(p) => NoPhiFeedsPhi(q))
  BY <1>1, SameTextKeeps
<1> QED
  BY <1>2, <1>3 DEF Legal

\* What PrepareFunction leaves is what the allocator may be called with.
THEOREM PreparedIsAllocatable == \A p : Ready(p) => Allocatable(Unspilled(p))
<1> SUFFICES ASSUME NEW p, Ready(p) PROVE Allocatable(Unspilled(p))
  OBVIOUS
<1> DEFINE q == Unspilled(p)
<1>1. /\ Sound(p) /\ ConstantsAtHand(p)
      /\ PhisReadRegisters(p) /\ IncomingInRegisters(p) /\ NoSharedOperands(p) /\ NoPhiFeedsPhi(p)
  BY DEF Ready
<1>2. /\ SameText(p, q) /\ q.cmap = p.cmap /\ q.frame = -1 /\ HasRecords(q)
      /\ {"body", "succ", "kind", "args", "from", "type", "cmap"} \subseteq DOMAIN q
  BY DEF Unspilled, SameText, HasRecords
<1> HIDE DEF q
<1>3. /\ Sound(q) /\ Lengthened(p, q)
      /\ PhisReadRegisters(q) /\ (IncomingInRegisters(p) => IncomingInRegisters(q))
      /\ (NoSharedOperands(p) => NoSharedOperands(q)) /\ (NoPhiFeedsPhi(p) => NoPhiFeedsPhi(q))
  BY <1>1, <1>2, SameTextKeeps
<1>4. 1 \in Blocks(p)
  BY <1>1, EmptySeq, LenProperties DEF Sound, IsFunction, Blocks
<1>5. ConstantsAtHand(q)
  BY <1>1, <1>2, <1>3, <1>4 DEF ConstantsAtHand, Lengthened, Grown
<1>6. FrameFirst(q)
  BY <1>2 DEF FrameFirst
<1> QED
  BY <1>1, <1>2, <1>3, <1>5, <1>6 DEF Allocatable, Ready, q

\* What q has more than p is never spilled, and reads no value of p that may still be.
Settles(p, q) ==
  /\ p.noSpill \subseteq q.noSpill
  /\ \A I \in Insts(q) \ Insts(p) : I \in q.noSpill
  /\ \A v \in Regs(p) \ q.noSpill : Users(q, v) \subseteq Users(p, v)

\* So it is for what settles twice.
LEMMA SettlesTransitive ==
  ASSUME NEW p, NEW q, NEW r, Grown(p, q), Settles(p, q), Settles(q, r) PROVE Settles(p, r)
<1>1. p.noSpill \subseteq r.noSpill
  BY DEF Settles
<1>2. \A I \in Insts(r) \ Insts(p) : I \in r.noSpill
  BY DEF Settles
<1>3. ASSUME NEW v \in Regs(p) \ r.noSpill PROVE Users(r, v) \subseteq Users(p, v)
  <2>1. v \in Regs(q) \ r.noSpill /\ v \notin q.noSpill
    BY <1>3 DEF Settles, Grown, Regs
  <2>2. Users(r, v) \subseteq Users(q, v) /\ Users(q, v) \subseteq Users(p, v)
    BY <1>3, <2>1 DEF Settles
  <2> QED
    BY <2>2
<1> QED
  BY <1>1, <1>2, <1>3 DEF Settles

\* q is legal, has p grown and settled, and its frame and constants are p's.
Continues(p, q) ==
  /\ Legal(q) /\ Grown(p, q) /\ q.frame = p.frame /\ q.cmap = p.cmap
  /\ q.body[1][1] = p.body[1][1]
  /\ Settles(p, q)

\* What continues a continuation continues the function itself.
LEMMA ContinuesTransitive ==
  ASSUME NEW p, NEW q, NEW r, Continues(p, q), Continues(q, r) PROVE Continues(p, r)
  BY GrownTransitive, SettlesTransitive DEF Continues

\* A function with its frame in front.
Framed(p) == Allocatable(p) /\ p.frame >= 0

\* Such a function stays one.
LEMMA ContinuedIsFramed ==
  ASSUME NEW p, Framed(p), NEW q, Continues(p, q) PROVE Framed(q)
<1>1. Legal(p) /\ IsFunction(p) /\ FrameFirst(p) /\ ConstantsAtHand(p)
  BY DEF Framed, Allocatable, Ready, Sound, Legal
<1>2. FrameFirst(q)
  BY <1>1, FrameStays DEF Continues
<1>3. ConstantsAtHand(q)
  BY <1>1, ConstantsStay DEF ConstantsAtHand, Continues
<1> QED
  BY <1>2, <1>3 DEF Framed, Allocatable, Ready, Sound, Continues, Legal

\* The first instruction and its place.
LEMMA FirstInst ==
  ASSUME NEW p, IsFunction(p)
  PROVE  /\ 1 \in Blocks(p) /\ p.body[1][1] \in Insts(p) /\ BlockOf(p, p.body[1][1]) = 1
         /\ IndexOf(p, p.body[1][1]) = 1 /\ 1 \in DOMAIN p.body[1]
<1>1. 1 \in Blocks(p)
  BY EmptySeq, LenProperties DEF IsFunction, Blocks
<1>2. /\ Len(p.body[1]) \in Nat \ {0} /\ DOMAIN p.body[1] = 1..Len(p.body[1])
      /\ \A k \in 1..Len(p.body[1]) : p.body[1][k] \in Insts(p)
           /\ BlockOf(p, p.body[1][k]) = 1 /\ IndexOf(p, p.body[1][k]) = k
  BY <1>1, CodeOf
<1>3. 1 \in 1..Len(p.body[1])
  BY <1>2
<1> QED
  BY <1>1, <1>2, <1>3

\* q continues p with code in front of t that changes nothing p's instructions read.
Emits(p, q, t) ==
  /\ Continues(p, q) /\ Lengthened(p, q) /\ Open(q, t)
  /\ \A v : Available(p, v, t) => Available(q, v, t)

\* One emission after another is an emission.
LEMMA EmitsTransitive ==
  ASSUME NEW p, NEW q, NEW r, NEW t, Emits(p, q, t), Emits(q, r, t) PROVE Emits(p, r, t)
  BY ContinuesTransitive, LengthenedTransitive DEF Emits

\* Emit does that.
LEMMA EmitKeeps ==
  ASSUME NEW p, Legal(p), p.frame >= 0, NEW t, Open(p, t),
         NEW kind \in {"op", "const", "move", "noreg"}, NEW args \in Seq(Int), NEW type,
         \A v \in Range(args) : IsInst(v) => Available(p, v, t),
         kind = "move" => args # <<>>, kind # "noreg" => type \in ValueTypes,
         kind # "move" => \A v \in Range(args) : v \in Regs(p) => v \in p.noSpill
  PROVE  LET q == Emit(p, t, kind, args, type) IN
         /\ Emits(p, q, t)
         /\ Available(q, Newest(q), t) /\ Newest(q) \in Int /\ Newest(q) \in q.noSpill
<1> DEFINE q == Emit(p, t, kind, args, type)
           J == FreshInst(p)
<1>1. /\ Adds(p, q, t, kind, args, type) /\ q.cmap = p.cmap
      /\ \A I : I \in q.noSpill <=> I \in p.noSpill \/ I = J
  BY AllAdd
<1>5. /\ Insts(q) = Insts(p) \cup {J} /\ q.args[J] = args /\ q.kind[J] = kind
      /\ \A u \in Insts(p) : q.args[u] = p.args[u] /\ q.kind[u] = p.kind[u]
  BY <1>1 DEF Adds, InsertedInto
<1> HIDE DEF q, J
<1>6. Settles(p, q)
  <2>1. ASSUME NEW v \in Regs(p) \ q.noSpill, NEW u \in Users(q, v) PROVE u \in Users(p, v)
    <3>1. v \notin p.noSpill /\ u \in Insts(q) /\ v \in Range(q.args[u]) /\ IsInst(v)
          /\ q.kind[u] \notin {"phi", "move"}
      BY <1>1, <2>1 DEF Users, Operands
    <3>2. u # J
      BY <1>5, <2>1, <3>1
    <3> QED
      BY <1>5, <3>1, <3>2 DEF Users, Operands
  <2> QED
    BY <1>1, <1>5, <2>1 DEF Settles
<1>2. Prolongs(p, q, t) /\ Available(q, J, t) /\ Newest(q) = J /\ J \in Int
  BY <1>1, AddingProlongs DEF J
<1>3. Continues(p, q) /\ Lengthened(p, q) /\ Open(q, t)
  BY <1>1, <1>2, <1>6 DEF Prolongs, Lengthened, Continues
<1>4. \A v : Available(p, v, t) => Available(q, v, t)
  BY <1>2, ProlongedReads
<1> QED
  BY <1>1, <1>2, <1>3, <1>4 DEF Emits, q

\* The stack pointer stands in front of all places.
LEMMA StackPointerReads ==
  ASSUME NEW p, Legal(p), FrameFirst(p), p.frame >= 0, NEW t, Open(p, t)
  PROVE  /\ Available(p, StackPointer(p), t) /\ StackPointer(p) \in Int
         /\ p.kind[StackPointer(p)] = "sp"
<1> DEFINE H == p.body[1][1]
           K == {k \in DOMAIN p.body[1] : p.kind[p.body[1][k]] = "sp"}
<1>1. IsFunction(p) /\ t \in Insts(p) /\ t # H
  BY DEF Legal, Sound, Open
<1>2. /\ 1 \in Blocks(p) /\ H \in Insts(p) /\ BlockOf(p, H) = 1 /\ IndexOf(p, H) = 1
      /\ 1 \in DOMAIN p.body[1]
  BY <1>1, FirstInst
<1>3. DOMAIN p.body[1] = 1..Len(p.body[1]) /\ Len(p.body[1]) \in Nat
  BY <1>1, <1>2, CodeOf
<1>4. 1 \in K /\ \A k \in K : k \in Nat /\ 1 <= k
  BY <1>2, <1>3 DEF FrameFirst
<1>5. Min(K) = 1
  <2> HIDE DEF K
  <2> QED
    BY <1>4 DEF Min
<1>6. StackPointer(p) = H
  BY <1>5 DEF StackPointer
<1>7. DefDominates(p, H, t)
  <2>1. CASE BlockOf(p, t) = 1
    <3>1. IndexOf(p, t) \in 1..Len(p.body[1]) /\ p.body[1][IndexOf(p, t)] = t
      BY <1>1, <2>1, Places
    <3>2. IndexOf(p, t) # 1
      BY <1>1, <3>1
    <3>3. 1 < IndexOf(p, t)
      BY <1>3, <3>1, <3>2
    <3> QED
      BY <1>2, <2>1, <3>3 DEF DefDominates
  <2>2. CASE BlockOf(p, t) # 1
    BY <1>2, <2>2 DEF DefDominates, Dominates
  <2> QED
    BY <2>1, <2>2
<1>8. H \in Int
  BY <1>1, <1>2 DEF IsFunction
<1> QED
  BY <1>2, <1>6, <1>7, <1>8 DEF Available, FrameFirst

\* The address of a slot is computed in front of the instruction that uses it.
LEMMA AddressKeeps ==
  ASSUME NEW p, Legal(p), FrameFirst(p), p.frame >= 0, NEW t, Open(p, t), NEW acc
  PROVE  LET q == Address(p, t, acc) IN
         /\ Emits(p, q, t)
         /\ Available(q, Newest(q), t) /\ Newest(q) \in Int /\ Newest(q) \in q.noSpill
<1> DEFINE sp == StackPointer(p)
           c  == Emit(p, t, "const", <<>>, "i64")
           a  == Emit(c, t, "op", <<sp, Newest(c)>>, "i64")
<1>1. Available(p, sp, t) /\ sp \in Int /\ p.kind[sp] = "sp"
  BY StackPointerReads
<1>2. /\ {"i64", "ptr"} \subseteq ValueTypes
      /\ {"move", "op", "const"} \subseteq {"op", "const", "move", "noreg"}
  BY DEF ValueTypes
<1> HIDE DEF sp
<1>3. CASE acc = 0
  <2> DEFINE q == Emit(p, t, "move", <<sp>>, "ptr")
  <2>1. <<sp>> \in Seq(Int) /\ <<sp>> # <<>>
    BY <1>1
  <2>2. \A v \in Range(<<sp>>) : IsInst(v) => Available(p, v, t)
    BY <1>1 DEF Range
  <2>3. Emits(p, q, t) /\ Available(q, Newest(q), t) /\ Newest(q) \in Int /\ Newest(q) \in q.noSpill
    BY <1>2, <2>1, <2>2, EmitKeeps
  <2>4. q = Address(p, t, acc)
    BY <1>3 DEF Address, sp
  <2> QED
    BY <2>3, <2>4
<1>4. CASE acc # 0
  <2>1. Emits(p, c, t) /\ Available(c, Newest(c), t) /\ Newest(c) \in Int /\ Newest(c) \in c.noSpill
    <3>1. <<>> \in Seq(Int) /\ \A v : v \notin Range(<<>>)
      BY DEF Range
    <3> QED
      BY <1>2, <3>1, EmitKeeps
  <2> HIDE DEF c
  <2>2. Legal(c) /\ c.frame >= 0 /\ Open(c, t) /\ Available(c, sp, t)
    BY <1>1, <2>1 DEF Emits, Continues
  <2>3. Emits(c, a, t) /\ Available(a, Newest(a), t) /\ Newest(a) \in Int
    <3>1. <<sp, Newest(c)>> \in Seq(Int) /\ <<sp, Newest(c)>> # <<>>
      BY <1>1, <2>1
    <3>2. \A v \in Range(<<sp, Newest(c)>>) : IsInst(v) => Available(c, v, t)
      BY <2>1, <2>2 DEF Range
    <3>3. sp \notin Regs(c)
      <4>1. sp \in Insts(c) /\ c.kind[sp] = "sp"
        BY <1>1, <2>1 DEF Available, Emits, Continues, Grown
      <4> QED
        BY <2>2, <4>1, NoRegister DEF Regs
    <3>4. \A v \in Range(<<sp, Newest(c)>>) : v \in Regs(c) => v \in c.noSpill
      BY <2>1, <3>3 DEF Range
    <3> QED
      BY <1>2, <2>2, <3>1, <3>2, <3>4, EmitKeeps
  <2> HIDE DEF a
  <2> DEFINE q == Emit(a, t, "move", <<Newest(a)>>, "ptr")
  <2>4. Legal(a) /\ a.frame >= 0 /\ Open(a, t)
    BY <2>2, <2>3 DEF Emits, Continues
  <2>5. Emits(a, q, t) /\ Available(q, Newest(q), t) /\ Newest(q) \in Int /\ Newest(q) \in q.noSpill
    <3>1. <<Newest(a)>> \in Seq(Int) /\ <<Newest(a)>> # <<>>
      BY <2>3
    <3>2. \A v \in Range(<<Newest(a)>>) : IsInst(v) => Available(a, v, t)
      BY <2>3 DEF Range
    <3> QED
      BY <1>2, <2>4, <3>1, <3>2, EmitKeeps
  <2> HIDE DEF q
  <2>6. Emits(p, q, t)
    BY <2>1, <2>3, <2>5, EmitsTransitive
  <2>7. q = Address(p, t, acc)
    BY <1>4 DEF Address, sp, c, a, q
  <2> QED
    BY <2>5, <2>6, <2>7
<1> QED
  BY <1>3, <1>4

\* No other value can be read by the first instruction of a function.
LEMMA NothingInFront ==
  ASSUME NEW p, Legal(p), NEW u \in Insts(p), ~IsPhi(p, u), NEW v \in Operands(p, u)
  PROVE  u # p.body[1][1]
<1> DEFINE H == p.body[1][1]
           a == BlockOf(p, v)
<1>1. IsFunction(p) /\ WellFormed(p)
  BY DEF Legal, Sound
<1>2. /\ 1 \in Blocks(p) /\ H \in Insts(p) /\ BlockOf(p, H) = 1 /\ IndexOf(p, H) = 1
  BY <1>1, FirstInst
<1>3. 1 \in Blocks(p) /\ DOMAIN p.succ = Blocks(p) /\ IsFlow(p.succ)
  BY <1>1, BlocksFlow
<1>4. isPotentiallyReachable(p, 1)
  <2>1. {1} \in SUBSET DOMAIN p.succ
    BY <1>3
  <2>2. {1} \subseteq Reached(p.succ, {1})
    BY <1>3, <2>1, ReachedIsLeast
  <2> QED
    BY <2>2 DEF isPotentiallyReachable, ReachableFrom
<1>5. v \in Insts(p) /\ a \in Blocks(p)
  <2>1. v \in Insts(p)
    BY <1>1 DEF IsFunction
  <2> QED
    BY <1>1, <2>1, Places
<1>6. 1 \in Reached(NotThrough(p, a), {1})
  BY <1>1, <1>5, ReachedNotThrough
<1>7. IndexOf(p, v) \in 1..Len(p.body[a])
  BY <1>1, <1>5, Places
<1>8. ASSUME u = H PROVE FALSE
  <2>1. DefDominates(p, v, H)
    BY <1>1, <1>2, <1>4, <1>8 DEF WellFormed
  <2>2. CASE a = 1
    BY <1>2, <1>7, <2>1, <2>2 DEF DefDominates
  <2>3. CASE a # 1
    BY <1>2, <1>6, <2>1, <2>3 DEF DefDominates, Dominates
  <2> QED
    BY <2>2, <2>3
<1> QED
  BY <1>8

\* Behind a value in a register that is no phi there is a place for its store.
LEMMA PlaceBehind ==
  ASSUME NEW p, Legal(p), NEW I \in Insts(p), p.kind[I] \in {"op", "const"}
  PROVE  LET t == getNextNode(p, I) IN Open(p, t) /\ Available(p, I, t)
<1> DEFINE t == getNextNode(p, I)
           b == BlockOf(p, I)
           k == IndexOf(p, I)
<1>1. IsFunction(p) /\ WellFormed(p)
  BY DEF Legal, Sound
<1>2. /\ b \in Blocks(p) /\ k \in 1..Len(p.body[b]) /\ p.body[b][k] = I
  BY <1>1, Places
<1>3. /\ Len(p.body[b]) \in Nat /\ \A j \in 1..Len(p.body[b]) : p.body[b][j] \in Insts(p)
      /\ \A j \in 1..Len(p.body[b]) : IndexOf(p, p.body[b][j]) = j
  BY <1>1, <1>2, CodeOf
<1>4. k # Len(p.body[b])
  <2>1. p.kind[p.body[b][Len(p.body[b])]] \in Terminators
    BY <1>1, <1>2 DEF WellFormed, getTerminator, Last
  <2> QED
    BY <1>2, <2>1 DEF Terminators
<1>5. t = p.body[b][k + 1] /\ k + 1 \in 1..Len(p.body[b])
  BY <1>2, <1>3, <1>4 DEF getNextNode
<1>6. t # NoValue
  BY <1>1, <1>4, NoNextInst
<1>7. t \in Insts(p) /\ BlockOf(p, t) = b /\ ~IsPhi(p, t)
  <2>1. I \in Points(p)
    BY DEF Points, IsPhi
  <2> QED
    BY <1>1, <1>6, <2>1, NextInst DEF Points
<1>8. IndexOf(p, t) = k + 1
  BY <1>3, <1>5
<1> HIDE DEF t, b, k
<1>9. DefDominates(p, I, t)
  BY <1>2, <1>3, <1>7, <1>8 DEF DefDominates, b, k
<1>10. t # p.body[1][1]
  <2>1. IndexOf(p, p.body[1][1]) = 1
    BY <1>1, FirstInst
  <2> QED
    BY <1>2, <1>3, <1>8, <2>1
<1> QED
  BY <1>7, <1>9, <1>10 DEF Open, Available, t

\* A value is stored right after its definition.
LEMMA StoringKeeps ==
  ASSUME NEW p, Framed(p), NEW I \in Insts(p), p.kind[I] \in {"op", "const"}, I \in p.noSpill,
         NEW acc
  PROVE  Continues(p, StoreAfter(p, I, acc)) /\ Lengthened(p, StoreAfter(p, I, acc))
<1> DEFINE t == getNextNode(p, I)
           q == Address(p, t, acc)
           m == Emit(q, t, "move", <<I>>, "i64")
           w == IF IsWide(p.type[I]) THEN q ELSE m
           V == IF IsWide(p.type[I]) THEN I ELSE Newest(w)
           s == Emit(w, t, "noreg", <<V, Newest(q)>>, "void")
           r == [s EXCEPT !.slot = Extended(@, Newest(s), acc)]
<1>1. Legal(p) /\ FrameFirst(p) /\ p.frame >= 0
  BY DEF Framed, Allocatable, Ready, Sound, Legal
<1>2. Open(p, t) /\ Available(p, I, t) /\ I \in Int
  <2>1. I \in Int
    BY <1>1 DEF Legal, Sound, IsFunction
  <2> QED
    BY <1>1, <2>1, PlaceBehind
<1>3. "i64" \in ValueTypes /\ {"move", "noreg"} \subseteq {"op", "const", "move", "noreg"}
  BY DEF ValueTypes
<1> HIDE DEF t
<1>4. Emits(p, q, t) /\ Available(q, Newest(q), t) /\ Newest(q) \in Int /\ Newest(q) \in q.noSpill
  BY <1>1, <1>2, AddressKeeps
<1> HIDE DEF q
<1>5. Legal(q) /\ q.frame >= 0 /\ Open(q, t) /\ Available(q, I, t)
  BY <1>1, <1>2, <1>4 DEF Emits, Continues
<1>6. Emits(q, m, t) /\ Available(m, Newest(m), t) /\ Newest(m) \in Int /\ Newest(m) \in m.noSpill
  <2>1. <<I>> \in Seq(Int) /\ <<I>> # <<>>
    BY <1>2
  <2>2. \A v \in Range(<<I>>) : IsInst(v) => Available(q, v, t)
    BY <1>5 DEF Range
  <2> QED
    BY <1>3, <1>5, <2>1, <2>2, EmitKeeps
<1> HIDE DEF m
<1>7. Emits(p, w, t) /\ Available(w, V, t) /\ Available(w, Newest(q), t) /\ V \in Int
  <2>1. CASE IsWide(p.type[I])
    BY <1>2, <1>4, <1>5, <2>1
  <2>2. CASE ~IsWide(p.type[I])
    <3>1. w = m /\ V = Newest(m)
      BY <2>2
    <3>2. Emits(p, m, t)
      BY <1>4, <1>6, EmitsTransitive
    <3>3. Available(m, Newest(q), t)
      BY <1>4, <1>6 DEF Emits
    <3> QED
      BY <1>6, <3>1, <3>2, <3>3
  <2> QED
    BY <2>1, <2>2
<1> HIDE DEF w, V
<1>8. Legal(w) /\ w.frame >= 0 /\ Open(w, t)
  BY <1>1, <1>7 DEF Emits, Continues
<1>16. V \in w.noSpill /\ Newest(q) \in w.noSpill
  <2>1. I \in w.noSpill
    BY <1>7 DEF Emits, Continues, Settles
  <2>2. Newest(q) \in m.noSpill
    BY <1>4, <1>6 DEF Emits, Continues, Settles
  <2> QED
    BY <1>4, <1>6, <2>1, <2>2 DEF V, w
<1>9. Emits(w, s, t)
  <2>1. <<V, Newest(q)>> \in Seq(Int) /\ <<V, Newest(q)>> # <<>>
    BY <1>4, <1>7
  <2>2. \A v \in Range(<<V, Newest(q)>>) : IsInst(v) => Available(w, v, t)
    BY <1>7 DEF Range
  <2>3. \A v \in Range(<<V, Newest(q)>>) : v \in w.noSpill
    BY <1>16 DEF Range
  <2> QED
    BY <1>3, <1>8, <2>1, <2>2, <2>3, EmitKeeps
<1> HIDE DEF s
<1>10. Emits(p, s, t)
  BY <1>7, <1>9, EmitsTransitive
<1>11. SameCode(s, r) /\ r.frame = s.frame /\ r.cmap = s.cmap /\ r.noSpill = s.noSpill
  BY DEF SameCode, SameText
<1> HIDE DEF r
<1>12. Legal(s)
  BY <1>10 DEF Emits, Continues
<1>13. Continues(s, r) /\ Lengthened(s, r)
  <2>1. Settles(s, r)
    BY <1>11 DEF SameCode, SameText, Settles, Users, Operands, Insts
  <2> QED
    BY <1>11, <1>12, <2>1, SameCodeKeeps DEF Continues, Lengthened
<1>14. Continues(p, r) /\ Lengthened(p, r)
  BY <1>10, <1>13, ContinuesTransitive, LengthenedTransitive DEF Emits
<1>15. r = StoreAfter(p, I, acc)
  BY DEF StoreAfter, r, s, V, w, m, q, t
<1> QED
  BY <1>14, <1>15

\* An operand is loaded right before the instruction that reads it.
LEMMA LoadingKeeps ==
  ASSUME NEW p, Framed(p), NEW u \in Insts(p), p.kind[u] \notin {"phi", "move"},
         NEW k \in DOMAIN p.args[u], p.args[u][k] \in Regs(p), NEW acc
  PROVE  LET r == LoadBefore(p, u, k, acc) IN
         /\ Continues(p, r)
         /\ \A J \in Insts(p) : \A j \in DOMAIN p.args[J] :
              <<J, j>> # <<u, k>> => j \in DOMAIN r.args[J] /\ r.args[J][j] = p.args[J][j]
<1> DEFINE I == p.args[u][k]
           q == Address(p, u, acc)
           type == IF IsWide(p.type[I]) THEN p.type[I] ELSE "i64"
           l == Emit(q, u, "op", <<Newest(q)>>, type)
           m == Emit(l, u, "move", <<Newest(l)>>, p.type[I])
           w == IF IsWide(p.type[I]) THEN l ELSE m
           r == [w EXCEPT !.slot = Extended(@, Newest(l), acc),
                          !.reload = Extended(@, Newest(l), I),
                          !.args[u][k] = Newest(w)]
<1>1. Legal(p) /\ FrameFirst(p) /\ p.frame >= 0 /\ IsFunction(p)
  BY DEF Framed, Allocatable, Ready, Sound, Legal
<1>2. I \in Insts(p) /\ IsInst(I) /\ I \in Operands(p, u) /\ p.type[I] \in ValueTypes
  BY <1>1 DEF Regs, Legal, Sound, IsFunction, HasFields, HasRecords, Operands, Range
<1>3. Open(p, u)
  BY <1>1, <1>2, NothingInFront DEF Open, IsPhi
<1>4. /\ type \in ValueTypes
      /\ {"move", "op"} \subseteq {"op", "const", "move", "noreg"}
  BY <1>2 DEF ValueTypes
<1> HIDE DEF type
<1>5. Emits(p, q, u) /\ Available(q, Newest(q), u) /\ Newest(q) \in Int /\ Newest(q) \in q.noSpill
  BY <1>1, <1>3, AddressKeeps
<1> HIDE DEF q
<1>6. Legal(q) /\ q.frame >= 0 /\ Open(q, u)
  BY <1>1, <1>5 DEF Emits, Continues
<1>7. Emits(q, l, u) /\ Available(l, Newest(l), u) /\ Newest(l) \in Int /\ Newest(l) \in l.noSpill
  <2>1. <<Newest(q)>> \in Seq(Int) /\ <<Newest(q)>> # <<>>
    BY <1>5
  <2>2. \A v \in Range(<<Newest(q)>>) : IsInst(v) => Available(q, v, u)
    BY <1>5 DEF Range
  <2>3. \A v \in Range(<<Newest(q)>>) : v \in q.noSpill
    BY <1>5 DEF Range
  <2> QED
    BY <1>4, <1>6, <2>1, <2>2, <2>3, EmitKeeps
<1> HIDE DEF l
<1>8. Legal(l) /\ l.frame >= 0 /\ Open(l, u)
  BY <1>6, <1>7 DEF Emits, Continues
<1>9. Emits(l, m, u) /\ Available(m, Newest(m), u) /\ Newest(m) \in m.noSpill
  <2>1. <<Newest(l)>> \in Seq(Int) /\ <<Newest(l)>> # <<>>
    BY <1>7
  <2>2. \A v \in Range(<<Newest(l)>>) : IsInst(v) => Available(l, v, u)
    BY <1>7 DEF Range
  <2> QED
    BY <1>2, <1>4, <1>8, <2>1, <2>2, EmitKeeps
<1> HIDE DEF m
<1>10. Emits(p, w, u) /\ Available(w, Newest(w), u) /\ Newest(w) \in w.noSpill
  <2>1. Emits(p, l, u)
    BY <1>5, <1>7, EmitsTransitive
  <2>2. Emits(p, m, u)
    BY <1>9, <2>1, EmitsTransitive
  <2> QED
    BY <1>7, <1>9, <2>1, <2>2
<1> HIDE DEF w, I
<1>11. /\ Legal(w) /\ Continues(p, w) /\ u \in Insts(w) /\ w.kind[u] = p.kind[u]
       /\ \A J \in Insts(p) : w.args[J] = p.args[J]
  BY <1>10 DEF Emits, Continues, Lengthened, Grown
<1>12. HasFields(w) /\ HasRecords(w)
  BY <1>11 DEF Legal, Sound
<1>13. /\ DOMAIN r = DOMAIN w /\ r.body = w.body /\ r.succ = w.succ /\ r.kind = w.kind
       /\ r.type = w.type /\ r.from = w.from /\ r.frame = w.frame /\ r.cmap = w.cmap
       /\ r.noSpill = w.noSpill
       /\ r.args = [w.args EXCEPT ![u][k] = Newest(w)]
  BY <1>12 DEF HasFields, HasRecords
<1> HIDE DEF r
<1>14. Redirected(w, r, u, k, Newest(w))
  BY <1>13 DEF Redirected
<1>15. Legal(r) /\ Grown(w, r)
  BY <1>10, <1>11, <1>14, RedirectionKeeps
<1>18. Settles(w, r)
  <2>1. Insts(r) = Insts(w) /\ \A x \in Insts(w) : w.args[x] \in Seq(Int)
    BY <1>12, <1>13 DEF Insts, HasFields, HasRecords
  <2>2. ASSUME NEW v \in Regs(w) \ r.noSpill, NEW x \in Users(r, v) PROVE x \in Users(w, v)
    <3>1. /\ x \in Insts(w) /\ v \in Range(r.args[x]) /\ IsInst(v)
          /\ w.kind[x] \notin {"phi", "move"} /\ v # Newest(w)
      BY <1>10, <1>13, <2>1, <2>2 DEF Users, Operands
    <3>2. PICK j \in DOMAIN r.args[x] : r.args[x][j] = v
      BY <3>1 DEF Range
    <3>3. j \in DOMAIN w.args[x] /\ w.args[x][j] = v
      BY <1>11, <1>12, <1>13, <2>1, <3>1, <3>2 DEF HasFields, HasRecords
    <3> QED
      BY <3>1, <3>3 DEF Users, Operands, Range
  <2> QED
    BY <1>13, <2>1, <2>2 DEF Settles
<1>16. Continues(p, r)
  BY <1>11, <1>13, <1>15, <1>18, GrownTransitive, SettlesTransitive DEF Continues
<1>17. ASSUME NEW J \in Insts(p), NEW j \in DOMAIN p.args[J], <<J, j>> # <<u, k>>
       PROVE  j \in DOMAIN r.args[J] /\ r.args[J][j] = p.args[J][j]
  <2>1. J \in DOMAIN w.args /\ w.args[J] = p.args[J]
    BY <1>11, <1>12 DEF HasFields, HasRecords, Continues, Grown
  <2> QED
    BY <1>13, <1>17, <2>1
<1> QED
  BY <1>16, <1>17 DEF LoadBefore, r, w, m, l, type, q, I

\* spillColors has a $decr_sp in front of the function, made when there is none.
LEMMA StackPointerComes ==
  ASSUME NEW p, Allocatable(p), StackPointers(p) = {} \/ LiteralFrame(p)
  PROVE  /\ Framed(WithStackPointer(p)) /\ Grown(p, WithStackPointer(p))
         /\ Settles(p, WithStackPointer(p))
<1>1. /\ Legal(p) /\ FrameFirst(p) /\ ConstantsAtHand(p) /\ IsFunction(p) /\ WellFormed(p)
      /\ HasFields(p) /\ HasRecords(p)
  BY DEF Allocatable, Ready, Sound, Legal
<1>2. CASE StackPointers(p) # {}
  <2>1. WithStackPointer(p) = p /\ p.frame >= 0
    BY <1>2 DEF WithStackPointer, LiteralFrame
  <2>2. Grown(p, p) /\ Settles(p, p)
    BY DEF Grown, Settles
  <2> QED
    BY <2>1, <2>2 DEF Framed
<1>3. CASE StackPointers(p) = {}
  <2> DEFINE t == p.body[1][1]
             J == FreshInst(p)
             e == Emit(p, t, "sp", <<>>, "i64")
             q == [e EXCEPT !.frame = 0]
  <2>1. /\ 1 \in Blocks(p) /\ t \in Insts(p) /\ BlockOf(p, t) = 1 /\ IndexOf(p, t) = 1
        /\ 1 \in DOMAIN p.body[1]
    BY <1>1, FirstInst
  <2>2. /\ DOMAIN p.body[1] = 1..Len(p.body[1]) /\ Len(p.body[1]) \in Nat
        /\ \A k \in DOMAIN p.body[1] : ~IsPhi(p, p.body[1][k])
    <3>1. DOMAIN p.body[1] = 1..Len(p.body[1]) /\ Len(p.body[1]) \in Nat
          /\ \A k \in 1..Len(p.body[1]) : p.body[1][k] \in Insts(p) /\ BlockOf(p, p.body[1][k]) = 1
      BY <1>1, <2>1, CodeOf
    <3>2. Phis(p, 1) = {}
      BY <1>1 DEF WellFormed
    <3>3. \A I : I \in Phis(p, 1) <=> I \in Insts(p) /\ IsPhi(p, I) /\ BlockOf(p, I) = 1
      BY <1>1, <2>1, PhisOfBlock
    <3> QED
      BY <3>1, <3>2, <3>3
  <2>3. getFirstNonPHI(p, 1) = t
    <3> DEFINE First(k) == /\ ~IsPhi(p, p.body[1][k])
                           /\ \A j \in 1..(k - 1) : IsPhi(p, p.body[1][j])
    <3>1. First(1) /\ 1 \in DOMAIN p.body[1]
      BY <2>1, <2>2
    <3>2. \A k \in DOMAIN p.body[1] : First(k) => k = 1
      <4> SUFFICES ASSUME NEW k \in DOMAIN p.body[1], First(k), k # 1 PROVE FALSE
        OBVIOUS
      <4>1. 1 \in 1..(k - 1)
        BY <2>2
      <4> QED
        BY <2>1, <2>2, <4>1
    <3> HIDE DEF First
    <3>3. (CHOOSE k \in DOMAIN p.body[1] : First(k)) = 1
      BY <3>1, <3>2
    <3> QED
      BY <3>3 DEF getFirstNonPHI, First
  <2>4. /\ Adds(p, e, t, "sp", <<>>, "i64") /\ e.cmap = p.cmap
        /\ \A I : I \in e.noSpill <=> I \in p.noSpill \/ I = J
    BY <1>1, AllAdd
  <2>5. {"frame", "cmap"} \subseteq DOMAIN e
    BY <1>1, <2>4 DEF HasFields, HasRecords, Adds, InsertedInto
  <2>6. WithStackPointer(p) = q
    BY <1>3, <2>3 DEF WithStackPointer
  <2> HIDE DEF e
  <2>7. /\ DOMAIN q = DOMAIN e /\ q.body = e.body /\ q.succ = e.succ /\ q.kind = e.kind
        /\ q.args = e.args /\ q.type = e.type /\ q.from = e.from /\ q.cmap = e.cmap
        /\ q.frame = 0 /\ q.noSpill = e.noSpill
    BY <2>5
  <2> HIDE DEF q
  <2>8. /\ InsertedInto(p, q, t, J) /\ q.kind[J] = "sp" /\ q.args[J] = <<>> /\ q.cmap = p.cmap
    <3>1. InsertedInto(p, e, t, J)
      BY <2>4 DEF Adds
    <3>2. InsertedInto(p, q, t, J)
      BY <2>7, <3>1 DEF InsertedInto, Insts
    <3> QED
      BY <2>4, <2>7, <3>2 DEF Adds
  <2>9. ~IsPhi(p, t) /\ Operands(q, J) = {} /\ q.args[J] \in Seq(Int)
    BY <2>1, <2>2, <2>8 DEF Operands, Range
  <2> HIDE DEF J, t
  <2>10. Legal(q) /\ Lengthened(p, q)
    BY <1>1, <2>1, <2>8, <2>9, EmittingKeeps
  <2>11. q.body[1][1] = J
    BY <1>1, <2>1, <2>8, PlacesAfterInsertion
  <2>12. FrameFirst(q) /\ Grown(p, q)
    BY <2>7, <2>8, <2>10, <2>11 DEF FrameFirst, Lengthened
  <2>13. ConstantsAtHand(q)
    BY <1>1, <2>8, <2>12, ConstantsStay DEF ConstantsAtHand
  <2>14. Settles(p, q)
    <3>1. /\ Insts(q) = Insts(p) \cup {J}
          /\ \A u \in Insts(p) : q.args[u] = p.args[u] /\ q.kind[u] = p.kind[u]
      BY <2>8 DEF InsertedInto
    <3>2. ASSUME NEW v, NEW u \in Users(q, v) PROVE u \in Users(p, v)
      <4>1. u # J
        BY <2>9, <3>2 DEF Users
      <4> QED
        BY <3>1, <3>2, <4>1 DEF Users, Operands
    <3> QED
      BY <2>4, <2>7, <3>1, <3>2 DEF Settles
  <2> QED
    BY <2>6, <2>7, <2>10, <2>12, <2>13, <2>14 DEF Framed, Allocatable, Ready, Sound, Legal
<1> QED
  BY <1>2, <1>3

\* A function continues itself.
LEMMA ContinuesItself ==
  ASSUME NEW p, Legal(p) PROVE Continues(p, p) /\ Lengthened(p, p)
  BY DEF Continues, Lengthened, Grown, Settles

\* What Grown says of a register.
LEMMA GrownRegs ==
  ASSUME NEW p, NEW q, Grown(p, q)
  PROVE  /\ \A I \in Regs(p) : I \in Regs(q)
         /\ \A I \in Insts(p) : I \in Insts(q) /\ q.kind[I] = p.kind[I]
  BY DEF Grown, Regs

\* All stores are made.
LEMMA StoresKeep ==
  ASSUME NEW p, Framed(p), NEW S, IsFiniteSet(S), NEW acc,
         \A I \in S : I \in Insts(p) /\ p.kind[I] \in {"op", "const"} /\ I \in p.noSpill
  PROVE  LET r == StoredAll(p, S, acc)
         IN  Continues(p, r) /\ Lengthened(p, r)
<1>1. PICK f : /\ Folds(f, S, FALSE, p, acc)
               /\ StoredAll(p, S, acc) = f[S]
  BY FoldSteps
<1> DEFINE First(s) == CHOOSE x \in s : TRUE
           Good(s) == Continues(p, f[s]) /\ Lengthened(p, f[s])
           bad == {n \in Nat : \E s \in SUBSET S : Cardinality(s) = n /\ ~Good(s)}
<1>2. \A s \in SUBSET S : f[s] = IF s = {} THEN p ELSE StoreAfter(f[s \ {First(s)}], First(s), acc)
  BY <1>1 DEF Folds, Accessed
<1>3. \A s \in SUBSET S : IsFiniteSet(s) /\ Cardinality(s) \in Nat
  BY FS_Subset, FS_CardinalityType
<1>4. \A s \in SUBSET S : s # {} => /\ First(s) \in s /\ s \ {First(s)} \in SUBSET S
                                    /\ Cardinality(s \ {First(s)}) = Cardinality(s) - 1
  BY <1>3, FS_RemoveElement
<1> HIDE DEF First
<1>5. ASSUME bad # {} PROVE FALSE
  <2>1. PICK n \in bad : \A m \in bad : n <= m
    <3>1. bad \in SUBSET Nat
      OBVIOUS
    <3> HIDE DEF bad
    <3> QED
      BY <1>5, <3>1, LeastNatural
  <2>2. PICK s \in SUBSET S : Cardinality(s) = n /\ ~Good(s)
    BY <2>1
  <2>3. CASE s = {}
    BY <1>2, <2>2, <2>3, ContinuesItself DEF Framed, Allocatable, Ready, Sound, Legal
  <2>4. CASE s # {}
    <3> DEFINE x == First(s)
               r == s \ {x}
    <3>1. x \in s /\ r \in SUBSET S /\ Cardinality(r) = n - 1 /\ Cardinality(r) \in Nat /\ n \in Nat
      BY <1>3, <1>4, <2>2, <2>4
    <3>2. f[s] = StoreAfter(f[r], x, acc)
      BY <1>2, <2>4
    <3> HIDE DEF x, r
    <3>3. Good(r)
      BY <2>1, <3>1
    <3> DEFINE q == f[r]
    <3>4. Framed(q) /\ x \in Insts(q) /\ q.kind[x] \in {"op", "const"} /\ x \in q.noSpill
      <4>1. Framed(q) /\ Grown(p, q) /\ x \in S
        BY <3>1, <3>3, ContinuedIsFramed DEF Lengthened
      <4>2. p.noSpill \subseteq q.noSpill
        BY <3>3 DEF Continues, Settles
      <4> QED
        BY <4>1, <4>2, GrownRegs
    <3> HIDE DEF q
    <3>5. Continues(q, StoreAfter(q, x, acc)) /\ Lengthened(q, StoreAfter(q, x, acc))
      BY <3>4, StoringKeeps
    <3>6. Good(s)
      BY <3>2, <3>3, <3>5, ContinuesTransitive, LengthenedTransitive DEF q
    <3> QED
      BY <2>2, <3>6
  <2> QED
    BY <2>3, <2>4
<1>6. Good(S)
  BY <1>3, <1>5
<1> QED
  BY <1>1, <1>6

\* All loads are made: each finds the operand it replaces as it was.
LEMMA LoadsKeep ==
  ASSUME NEW p, Framed(p), NEW S, IsFiniteSet(S), NEW acc,
         \A x \in S : /\ x = <<x[1], x[2]>> /\ x[1] \in Insts(p)
                      /\ p.kind[x[1]] \notin {"phi", "move"}
                      /\ x[2] \in DOMAIN p.args[x[1]] /\ p.args[x[1]][x[2]] \in Regs(p)
  PROVE  Continues(p, LoadedAll(p, S, acc))
<1>1. PICK f : /\ Folds(f, S, TRUE, p, acc)
               /\ LoadedAll(p, S, acc) = f[S]
  BY ONLY IsFiniteSet(S), FoldSteps
<1> DEFINE First(s) == CHOOSE x \in s : TRUE
           Pending(s) == \A J \in Insts(p) : \A j \in DOMAIN p.args[J] :
              <<J, j>> \notin s => j \in DOMAIN f[s].args[J] /\ f[s].args[J][j] = p.args[J][j]
           Good(s) == Continues(p, f[s]) /\ Pending(s)
           bad == {n \in Nat : \E s \in SUBSET S : Cardinality(s) = n /\ ~Good(s)}
<1>2. \A s \in SUBSET S : f[s] = IF s = {} THEN p
                                 ELSE LoadBefore(f[s \ {First(s)}], First(s)[1], First(s)[2], acc)
  BY <1>1 DEF Folds, Accessed
<1>3. \A s \in SUBSET S : IsFiniteSet(s) /\ Cardinality(s) \in Nat
  BY FS_Subset, FS_CardinalityType
<1>4. \A s \in SUBSET S : s # {} => /\ First(s) \in s /\ s \ {First(s)} \in SUBSET S
                                    /\ Cardinality(s \ {First(s)}) = Cardinality(s) - 1
  BY <1>3, FS_RemoveElement
<1> HIDE DEF First
<1>5. ASSUME bad # {} PROVE FALSE
  <2>1. PICK n \in bad : \A m \in bad : n <= m
    <3>1. bad \in SUBSET Nat
      OBVIOUS
    <3> HIDE DEF bad
    <3> QED
      BY <1>5, <3>1, LeastNatural
  <2>2. PICK s \in SUBSET S : Cardinality(s) = n /\ ~Good(s)
    BY <2>1
  <2>3. CASE s = {}
    BY <1>2, <2>2, <2>3, ContinuesItself DEF Framed, Allocatable, Ready, Sound, Legal
  <2>4. CASE s # {}
    <3> DEFINE x == First(s)
               r == s \ {x}
    <3>1. /\ x \in s /\ r \in SUBSET S /\ Cardinality(r) = n - 1 /\ Cardinality(r) \in Nat
          /\ n \in Nat /\ x \notin r
          /\ \A y : y \notin s => y \notin r /\ y # x
      BY <1>3, <1>4, <2>2, <2>4
    <3>2. f[s] = LoadBefore(f[r], x[1], x[2], acc)
      BY <1>2, <2>4
    <3> HIDE DEF x, r
    <3>3. Good(r)
      BY <2>1, <3>1
    <3> DEFINE q == f[r]
               u == x[1]
               k == x[2]
    <3>4. /\ x = <<u, k>> /\ u \in Insts(p) /\ p.kind[u] \notin {"phi", "move"}
          /\ k \in DOMAIN p.args[u] /\ p.args[u][k] \in Regs(p)
      BY <3>1
    <3>5. k \in DOMAIN q.args[u] /\ q.args[u][k] = p.args[u][k]
      BY <3>1, <3>3, <3>4
    <3>6. Framed(q) /\ Grown(p, q)
      BY <3>3, ContinuedIsFramed DEF Continues
    <3> HIDE DEF q, u, k, Pending
    <3>7. u \in Insts(q) /\ q.kind[u] \notin {"phi", "move"} /\ q.args[u][k] \in Regs(q)
      BY <3>4, <3>5, <3>6, GrownRegs
    <3> DEFINE w == LoadBefore(q, u, k, acc)
    <3>8. /\ Continues(q, w)
          /\ \A J \in Insts(q) : \A j \in DOMAIN q.args[J] :
               <<J, j>> # <<u, k>> => j \in DOMAIN w.args[J] /\ w.args[J][j] = q.args[J][j]
      BY <3>5, <3>6, <3>7, LoadingKeeps
    <3>9. f[s] = w
      BY <3>2 DEF q, u, k
    <3> HIDE DEF w
    <3>10. Continues(p, f[s])
      BY <3>3, <3>8, <3>9, ContinuesTransitive DEF q
    <3>11. ASSUME NEW J \in Insts(p), NEW j \in DOMAIN p.args[J], <<J, j>> \notin s
           PROVE  j \in DOMAIN f[s].args[J] /\ f[s].args[J][j] = p.args[J][j]
      <4>1. <<J, j>> \notin r /\ <<J, j>> # <<u, k>>
        BY <3>1, <3>4, <3>11
      <4>2. j \in DOMAIN q.args[J] /\ q.args[J][j] = p.args[J][j]
        BY <3>3, <4>1 DEF Pending, q
      <4>3. J \in Insts(q)
        BY <3>6, GrownRegs
      <4> QED
        BY <3>8, <3>9, <4>1, <4>2, <4>3
    <3> QED
      BY <2>2, <3>10, <3>11 DEF Pending
  <2> QED
    BY <2>3, <2>4
<1>6. Good(S)
  BY <1>3, <1>5
<1> QED
  BY <1>1, <1>6

\* The values spilling stores are defined by an operation or are constants.
LEMMA StoredValues ==
  ASSUME NEW p, Legal(p), NEW I \in Regs(p), Stored(p, I)
  PROVE  I \in Insts(p) /\ p.kind[I] \in {"op", "const"}
<1>1. IsFunction(p) /\ MovesEnd(p) /\ I \in Insts(p) /\ I \in Int /\ isReg(p, I)
  <2>1. I \in Insts(p) /\ isReg(p, I)
    BY DEF Regs
  <2>2. IsFunction(p) /\ MovesEnd(p)
    BY DEF Legal, Sound
  <2>3. \A J \in Insts(p) : J \in Nat
    BY <2>2 DEF IsFunction
  <2> QED
    BY <2>1, <2>2, <2>3
<1>2. p.kind[I] \notin {"move", "phi"}
  BY DEF Stored
<1>3. Root(p, I) = I
  BY <1>1, <1>2, RootSteps DEF isMoveInst
<1> QED
  BY <1>1, <1>2, <1>3 DEF isReg

\* What the uses of values are.
LEMMA UsesOfValues ==
  ASSUME NEW p, Legal(p), NEW S, S \subseteq Regs(p)
  PROVE  \A x \in Uses(p, S) : /\ x = <<x[1], x[2]>> /\ x[1] \in Insts(p)
                               /\ p.kind[x[1]] \notin {"phi", "move"}
                               /\ x[2] \in DOMAIN p.args[x[1]] /\ p.args[x[1]][x[2]] \in S
<1> SUFFICES ASSUME NEW x \in Uses(p, S)
             PROVE  /\ x = <<x[1], x[2]>> /\ x[1] \in Insts(p)
                    /\ p.kind[x[1]] \notin {"phi", "move"}
                    /\ x[2] \in DOMAIN p.args[x[1]] /\ p.args[x[1]][x[2]] \in S
  OBVIOUS
<1>1. PICK u \in UNION {Users(p, v) : v \in S} :
         x \in {<<u, k>> : k \in {j \in DOMAIN p.args[u] : p.args[u][j] \in S}}
  BY DEF Uses
<1>2. PICK k \in DOMAIN p.args[u] : x = <<u, k>> /\ p.args[u][k] \in S
  BY <1>1
<1>3. u \in Insts(p) /\ p.kind[u] \notin {"phi", "move"}
  BY DEF Users
<1> QED
  BY <1>2, <1>3

\* There are finitely many.
LEMMA UsesFinite ==
  ASSUME NEW p, Legal(p), NEW S, S \subseteq Regs(p)
  PROVE  IsFiniteSet(Uses(p, S))
<1> DEFINE f == [u \in Insts(p) |-> DOMAIN p.args[u]]
           T == {f[u] : u \in Insts(p)}
           N == UNION T
<1>1. IsFiniteSet(Insts(p)) /\ \A I \in Insts(p) : p.args[I] \in Seq(Int)
  BY DEF Legal, Sound, IsFunction, HasFields, HasRecords
<1>2. IsFiniteSet(T)
  <2>1. f \in Surjection(Insts(p), T)
    BY DEF Surjection
  <2> HIDE DEF f, T
  <2> QED
    BY <1>1, <2>1, FS_Surjection
<1>3. \A X \in T : IsFiniteSet(X)
  <2> SUFFICES ASSUME NEW u \in Insts(p) PROVE IsFiniteSet(DOMAIN p.args[u])
    OBVIOUS
  <2>1. DOMAIN p.args[u] = 1..Len(p.args[u]) /\ Len(p.args[u]) \in Int /\ 1 \in Int
    BY <1>1, LenProperties
  <2> QED
    BY <2>1, FS_Interval
<1>4. IsFiniteSet(N)
  <2> HIDE DEF T
  <2> QED
    BY <1>2, <1>3, FS_UNION
<1>5. \A u \in Insts(p) : \A k \in DOMAIN p.args[u] : k \in N
  OBVIOUS
<1> HIDE DEF N
<1>6. Uses(p, S) \in SUBSET (Insts(p) \X N)
  BY <1>5, UsesOfValues
<1>7. IsFiniteSet(Insts(p) \X N)
  BY <1>1, <1>4, FS_Product
<1> QED
  BY <1>6, <1>7, FS_Subset

\* insertLoadStore and insertVectorLoadStore: the values are stored and loaded, and the
\* function is ready for another round.
LEMMA SlotsKeep ==
  ASSUME NEW p, Framed(p), NEW S, S \subseteq Regs(p), NEW bytes \in Nat
  PROVE  LET q == InsertLoadStore(p, S, bytes)
         IN  Framed(q) /\ Grown(p, q) /\ Settles(p, q) /\ S \subseteq q.noSpill
<1> DEFINE chosen == S \ p.noSpill
           stores == {I \in chosen : Stored(p, I)}
           loads  == Uses(p, chosen)
           acc    == p.frame
           q1 == [p EXCEPT !.noSpill = @ \cup chosen, !.frame = acc + bytes * Cardinality(stores)]
           q2 == StoredAll(q1, stores, acc)
           q3 == LoadedAll(q2, loads, acc)
<1>1. InsertLoadStore(p, S, bytes) = q3
  BY DEF InsertLoadStore, StoredAll, LoadedAll
<1>2. /\ Legal(p) /\ IsFunction(p) /\ HasFields(p) /\ HasRecords(p) /\ FrameFirst(p) /\ ConstantsAtHand(p)
      /\ p.frame \in Int /\ p.frame >= 0 /\ chosen \subseteq Regs(p)
  BY DEF Framed, Allocatable, Ready, Sound, Legal, FrameFirst
<1>3. IsFiniteSet(stores) /\ \A I \in stores : I \in Insts(p) /\ p.kind[I] \in {"op", "const"}
  <2>1. \A I \in stores : I \in Regs(p) /\ Stored(p, I)
    BY <1>2
  <2>2. \A I \in stores : I \in Insts(p) /\ p.kind[I] \in {"op", "const"}
    BY <1>2, <2>1, StoredValues
  <2>3. IsFiniteSet(Insts(p)) /\ stores \in SUBSET Insts(p)
    BY <1>2, <2>2 DEF IsFunction
  <2> QED
    BY <2>2, <2>3, FS_Subset
<1>4. IsFiniteSet(loads)
      /\ \A x \in loads : /\ x = <<x[1], x[2]>> /\ x[1] \in Insts(p)
                          /\ p.kind[x[1]] \notin {"phi", "move"}
                          /\ x[2] \in DOMAIN p.args[x[1]] /\ p.args[x[1]][x[2]] \in Regs(p)
  <2> HIDE DEF chosen
  <2> QED
    BY <1>2, UsesOfValues, UsesFinite
<1> HIDE DEF chosen, loads
<1>5. q1.frame \in Int /\ q1.frame >= 0
  <2> DEFINE more == bytes * Cardinality(stores)
  <2>1. Cardinality(stores) \in Nat
    BY <1>3, FS_CardinalityType
  <2> HIDE DEF stores
  <2>2. more \in Nat
    BY <2>1
  <2>3. q1.frame = p.frame + more
    BY <1>2 DEF HasFields, HasRecords
  <2> HIDE DEF more, q1
  <2> QED
    BY <1>2, <2>2, <2>3
<1> HIDE DEF stores
<1>6. /\ SameCode(p, q1) /\ q1.cmap = p.cmap
      /\ \A I : I \in q1.noSpill <=> I \in p.noSpill \/ I \in chosen
  BY <1>2 DEF SameCode, SameText, HasFields, HasRecords
<1> HIDE DEF q1
<1>7. Legal(q1) /\ Lengthened(p, q1) /\ q1.body[1][1] = p.body[1][1]
  BY <1>2, <1>6, SameCodeKeeps
<1>8. Framed(q1)
  <2>1. FrameFirst(q1)
    BY <1>2, <1>5, <1>6, <1>7 DEF FrameFirst, SameCode, SameText
  <2>2. ConstantsAtHand(q1)
    BY <1>2, <1>6, <1>7, ConstantsStay DEF ConstantsAtHand, Lengthened
  <2> QED
    BY <1>5, <1>7, <2>1, <2>2 DEF Framed, Allocatable, Ready, Sound, Legal
<1>9. Continues(q1, q2) /\ Lengthened(q1, q2)
  <2>1. \A I \in stores : I \in Insts(q1) /\ q1.kind[I] \in {"op", "const"} /\ I \in q1.noSpill
    BY <1>3, <1>6, <1>7, GrownRegs DEF Lengthened, stores
  <2> HIDE DEF acc
  <2> QED
    BY <1>3, <1>8, <2>1, StoresKeep
<1>10. Framed(q2) /\ Lengthened(p, q2)
  BY <1>7, <1>8, <1>9, ContinuedIsFramed, LengthenedTransitive
<1> HIDE DEF q2
<1>11. Continues(q2, q3)
  <2>1. ASSUME NEW x \in loads
        PROVE  /\ x = <<x[1], x[2]>> /\ x[1] \in Insts(q2)
               /\ q2.kind[x[1]] \notin {"phi", "move"}
               /\ x[2] \in DOMAIN q2.args[x[1]] /\ q2.args[x[1]][x[2]] \in Regs(q2)
    <3>1. /\ x = <<x[1], x[2]>> /\ x[1] \in Insts(p)
          /\ p.kind[x[1]] \notin {"phi", "move"}
          /\ x[2] \in DOMAIN p.args[x[1]] /\ p.args[x[1]][x[2]] \in Regs(p)
      BY <1>4
    <3>2. q2.args[x[1]] = p.args[x[1]]
      BY <1>10, <3>1 DEF Lengthened
    <3>3. /\ x[1] \in Insts(q2) /\ q2.kind[x[1]] = p.kind[x[1]]
          /\ p.args[x[1]][x[2]] \in Regs(q2)
      BY <1>10, <3>1, GrownRegs DEF Lengthened
    <3> QED
      BY <3>1, <3>2, <3>3
  <2> HIDE DEF acc
  <2> QED
    BY <1>4, <1>10, <2>1, LoadsKeep
<1> HIDE DEF q3
<1>12. Framed(q3) /\ Grown(q2, q3)
  BY <1>10, <1>11, ContinuedIsFramed DEF Continues
<1>13. Settles(p, q1)
  BY <1>6 DEF SameCode, SameText, Settles, Users, Operands, Insts
<1>14. Settles(p, q2) /\ Settles(q2, q3)
  BY <1>7, <1>9, <1>11, <1>13, SettlesTransitive DEF Continues, Lengthened
<1>15. Settles(p, q3)
  BY <1>10, <1>14, SettlesTransitive DEF Lengthened
<1>16. S \subseteq q3.noSpill
  <2>1. S \subseteq q1.noSpill
    BY <1>6 DEF chosen
  <2> QED
    BY <2>1, <1>9, <1>14 DEF Settles, Continues
<1> QED
  BY <1>1, <1>10, <1>12, <1>15, <1>16, GrownTransitive DEF Lengthened

\* What spillColors makes of the function is one the next round can begin with.
LEMMA SpillingKeepsAllocatable ==
  ASSUME Allocatable(prog), Spill PROVE Allocatable(prog)'
<1>1. PICK general \in Spillable(general_reg_color), vector \in Spillable(vector_reg_color) :
         BuildAgain(SpillColors(prog, general, vector))
  BY DEF Spill
<1>2. StackPointers(prog) = {} \/ LiteralFrame(prog)
  BY DEF Spill, SpillCrashes
<1>3. general \subseteq Regs(prog) /\ vector \subseteq Regs(prog)
  BY DEF Spillable, ColorClass
<1> DEFINE p == WithStackPointer(prog)
           q == InsertLoadStore(p, general, 8)
           r == InsertLoadStore(q, vector, 32)
<1>4. Framed(p) /\ Grown(prog, p)
  BY <1>2, StackPointerComes
<1> HIDE DEF p
<1>5. Framed(q) /\ Grown(p, q)
  <2>1. general \subseteq Regs(p)
    BY <1>3, <1>4, GrownRegs
  <2> QED
    BY <1>4, <2>1, SlotsKeep
<1> HIDE DEF q
<1>6. Framed(r)
  <2>1. vector \subseteq Regs(q)
    BY <1>3, <1>4, <1>5, GrownRegs
  <2> QED
    BY <1>5, <2>1, SlotsKeep
<1>7. prog' = r
  BY <1>1 DEF BuildAgain, SpillColors, p, q
<1> QED
  BY <1>6, <1>7 DEF Framed, Allocatable, Ready, Sound

\* The graph makeInterferenceGraph returns, that graph with moves merged into what they
\* copy, and the three algorithms of InterferenceColoring at work on it.
NeighbourGraph == [I \in Regs(prog) |-> Neighbours(I)]
MoveRoots      == [I \in {J \in Regs(prog) : prog.kind[J] = "move"} |-> Root(prog, I)]
MovesMerged    == CO!Quotient(NeighbourGraph, MoveRoots)
Banks          == [I \in Nat |-> IF I \in Insts(prog) THEN bank[I] ELSE "none"]

IC == INSTANCE InterferenceColoringProofs
        WITH Inst <- Nat, graph <- MovesMerged, into <- PhiInto, trash <- DOMAIN PhiInto,
             bank <- Banks

\* A register is, or copies, a value that is no move.
LEMMA RegisterRoots ==
  ASSUME NEW p, IsFunction(p), MovesEnd(p), NEW I \in Regs(p)
  PROVE  /\ I \in Insts(p) /\ I \in Nat
         /\ Root(p, I) \in Regs(p) /\ p.kind[Root(p, I)] # "move"
         /\ p.kind[I] # "move" => Root(p, I) = I
         /\ Root(p, Root(p, I)) = Root(p, I)
<1>1. I \in Insts(p) /\ I \in Nat /\ I \in Int
  BY DEF Regs, IsFunction
<1>2. Root(p, I) \in Insts(p) /\ p.kind[Root(p, I)] \in {"op", "const", "phi"}
  BY DEF Regs, isReg
<1>3. Root(p, Root(p, I)) = Root(p, I)
  BY <1>1, Roots
<1>4. p.kind[I] # "move" => Root(p, I) = I
  BY <1>1, RootSteps DEF isMoveInst
<1> QED
  BY <1>1, <1>2, <1>3, <1>4 DEF Regs, isReg

\* What is known once makeInterferenceGraph is through.
LiveKnown ==
  /\ \A I \in Insts(prog) : /\ out[I] = LiveOut(prog, I)
                            /\ ~IsPhi(prog, I) => in[I] = LiveBefore(prog, I)
  /\ \A a \in Regs(prog) : inst2num[a] \in Nat
  /\ \A a, b \in Regs(prog) : a # b => inst2num[a] # inst2num[b]

\* The operators of the library mean the same in every instance.
LEMMA SameOperators ==
  /\ \A S : IC!IsFiniteSet(S) <=> IsFiniteSet(S)
  /\ \A S : IC!Cardinality(S) = Cardinality(S)
  /\ \A S : EO!Cardinality(S) = Cardinality(S)
  /\ \A S : GC!Cardinality(S) = Cardinality(S)
  /\ \A s : IC!Reverse(s) = Reverse(s)
<1>1. \A S : IC!IsFiniteSet(S) <=> IsFiniteSet(S)
  BY DEF IC!IsFiniteSet, IsFiniteSet
<1>2. \A S : IC!Cardinality(S) = Cardinality(S)
  BY DEF IC!Cardinality, Cardinality
<1>3. \A S : EO!Cardinality(S) = Cardinality(S)
  BY DEF EO!Cardinality, Cardinality
<1>4. \A S : GC!Cardinality(S) = Cardinality(S)
  BY DEF GC!Cardinality, Cardinality
<1>5. \A s : IC!Reverse(s) = Reverse(s)
  BY DEF IC!Reverse, Reverse
<1> QED
  BY <1>1, <1>2, <1>3, <1>4, <1>5

\* The neighbours of makeInterferenceGraph make a graph over the registers.
LEMMA NeighboursInterfere ==
  ASSUME IsFunction(prog)
  PROVE  IC!IsGraph(NeighbourGraph) /\ DOMAIN NeighbourGraph = Regs(prog) /\ Regs(prog) \subseteq Nat
<1>1. Regs(prog) \subseteq Nat
  BY DEF Regs, IsFunction
<1> QED
  BY <1>1 DEF IC!IsGraph, NeighbourGraph, Neighbours

\* The registers that are left when the moves are merged.
Kept == {I \in Regs(prog) : prog.kind[I] # "move"}

\* coalesceMovInsts leaves a graph over the registers that are no moves; neighbours whose
\* roots differ have their roots for neighbours there.
LEMMA MovesMergedIsGraph ==
  ASSUME Allocatable(prog)
  PROVE  /\ IC!IsGraph(MovesMerged) /\ DOMAIN MovesMerged = Kept
         /\ \A u, v \in Regs(prog) : v \in Neighbours(u) /\ Root(prog, u) # Root(prog, v) =>
              Root(prog, v) \in MovesMerged[Root(prog, u)]
<1>1. IsFunction(prog) /\ MovesEnd(prog)
  BY DEF Allocatable, Ready, Sound
<1>2. IC!IsGraph(NeighbourGraph) /\ DOMAIN NeighbourGraph = Regs(prog)
  BY <1>1, NeighboursInterfere
<1>3. DOMAIN MoveRoots = Regs(prog) \ Kept
  BY DEF MoveRoots, Kept
<1>4. \A I \in Regs(prog) \ Kept : MoveRoots[I] = Root(prog, I) /\ Root(prog, I) \in Kept
  BY <1>1, RegisterRoots DEF MoveRoots, Kept
<1>5. IC!IsMerge(NeighbourGraph, MoveRoots)
  BY <1>2, <1>3, <1>4 DEF IC!IsMerge, Kept
<1>6. MovesMerged = IC!Quotient(NeighbourGraph, MoveRoots)
  BY DEF MovesMerged, CO!Quotient, IC!Quotient, CO!Class, IC!Class
<1>7. IC!IsGraph(MovesMerged) /\ DOMAIN MovesMerged = Kept
  <2>1. /\ IC!IsGraph(IC!Quotient(NeighbourGraph, MoveRoots))
        /\ DOMAIN IC!Quotient(NeighbourGraph, MoveRoots) = DOMAIN NeighbourGraph \ DOMAIN MoveRoots
    BY <1>2, <1>5, IC!QuotientIsGraph
  <2>2. Regs(prog) \ (Regs(prog) \ Kept) = Kept
    BY DEF Kept
  <2> QED
    BY <1>2, <1>3, <1>6, <2>1, <2>2
<1>8. ASSUME NEW u \in Regs(prog), NEW v \in Regs(prog), v \in Neighbours(u),
             Root(prog, u) # Root(prog, v)
      PROVE  Root(prog, v) \in MovesMerged[Root(prog, u)]
  <2>1. Root(prog, u) \in Kept /\ Root(prog, v) \in Kept
    BY <1>1, RegisterRoots DEF Kept
  <2>2. u \in CO!Class(MoveRoots, Root(prog, u)) /\ v \in CO!Class(MoveRoots, Root(prog, v))
    <3>1. \A w \in Regs(prog) : w \in CO!Class(MoveRoots, Root(prog, w))
      BY <1>1, <1>3, <1>4, RegisterRoots DEF CO!Class, Kept
    <3> QED
      BY <3>1
  <2>3. v \in NeighbourGraph[u]
    BY <1>8 DEF NeighbourGraph
  <2>4. Root(prog, v) \in DOMAIN NeighbourGraph \ (DOMAIN MoveRoots \cup {Root(prog, u)})
    BY <1>2, <1>3, <1>8, <2>1 DEF Kept
  <2>5. Root(prog, u) \in DOMAIN NeighbourGraph \ DOMAIN MoveRoots
    BY <1>2, <1>3, <2>1 DEF Kept
  <2> QED
    BY <2>2, <2>3, <2>4, <2>5 DEF MovesMerged, CO!Quotient
<1> QED
  BY <1>7, <1>8

\* The operands of phis, by what they copy.
LEMMA PhiMerges ==
  ASSUME Allocatable(prog)
  PROVE  /\ DOMAIN PhiInto = PhiOperandRoots /\ PhiOperandRoots \subseteq Kept
         /\ AllPhis(prog) \subseteq Kept \ PhiOperandRoots
         /\ \A phi \in AllPhis(prog) : \A i \in DOMAIN prog.args[phi] :
              Parent(phi, i) \in PhiOperandRoots /\ PhiInto[Parent(phi, i)] = phi
         /\ \A V \in PhiOperandRoots : PhiInto[V] \in AllPhis(prog) /\
              \E i \in DOMAIN prog.args[PhiInto[V]] : Parent(PhiInto[V], i) = V
<1>1. /\ IsFunction(prog) /\ MovesEnd(prog) /\ IncomingInRegisters(prog)
      /\ NoSharedOperands(prog) /\ NoPhiFeedsPhi(prog) /\ PhisReadRegisters(prog)
  BY DEF Allocatable, Ready, Sound
<1>2. \A phi \in AllPhis(prog) : phi \in Insts(prog) /\ prog.kind[phi] = "phi"
  BY DEF AllPhis, IsPhi
<1>3. ASSUME NEW phi \in AllPhis(prog), NEW i \in DOMAIN prog.args[phi]
      PROVE  Parent(phi, i) \in Kept /\ ~IsPhi(prog, Parent(phi, i))
  <2>1. prog.args[phi][i] \in Range(prog.args[phi])
    BY DEF Range
  <2>2. prog.args[phi][i] \in Regs(prog) /\ ~IsPhi(prog, Root(prog, prog.args[phi][i]))
    BY <1>1, <2>1 DEF IncomingInRegisters, PhisReadRegisters, NoPhiFeedsPhi, Regs
  <2> QED
    BY <1>1, <2>2, RegisterRoots DEF Kept, Parent
<1>4. ASSUME NEW phi \in AllPhis(prog) PROVE phi \in Kept
  <2>1. Root(prog, phi) = phi
    <3>1. phi \in Int /\ ~isMoveInst(prog, phi)
      BY <1>1, <1>2 DEF isMoveInst, IsFunction
    <3> QED
      BY <1>1, <3>1, RootSteps
  <2> QED
    BY <1>2, <2>1 DEF Kept, Regs, isReg
<1>5. \A V \in PhiOperandRoots :
        \E phi \in AllPhis(prog) : \E i \in DOMAIN prog.args[phi] : Parent(phi, i) = V
  BY DEF PhiOperandRoots
<1>6. \A V \in PhiOperandRoots : PhiInto[V] \in AllPhis(prog) /\
        \E i \in DOMAIN prog.args[PhiInto[V]] : Parent(PhiInto[V], i) = V
  BY <1>5 DEF PhiInto
<1>7. \A phi \in AllPhis(prog) : \A i \in DOMAIN prog.args[phi] : Parent(phi, i) \in PhiOperandRoots
  BY DEF PhiOperandRoots
<1>8. \A phi, psi \in AllPhis(prog) : \A i \in DOMAIN prog.args[phi], j \in DOMAIN prog.args[psi] :
        Parent(phi, i) = Parent(psi, j) => phi = psi
  BY <1>1 DEF NoSharedOperands, Parent
<1>9. \A phi \in AllPhis(prog) : \A i \in DOMAIN prog.args[phi] : PhiInto[Parent(phi, i)] = phi
  BY <1>6, <1>7, <1>8
<1>10. PhiOperandRoots \subseteq Kept /\ \A phi \in AllPhis(prog) : phi \notin PhiOperandRoots
  BY <1>2, <1>3, <1>5 DEF IsPhi
<1>11. DOMAIN PhiInto = PhiOperandRoots
  BY DEF PhiInto
<1> QED
  BY <1>4, <1>6, <1>7, <1>9, <1>10, <1>11

\* What is merged, ordered and coloured next meets what the three algorithms ask for.
LEMMA MovesMergedInterfere ==
  ASSUME Allocatable(prog), LiveKnown
  PROVE  IC!Interfering
<1>1. IC!IsGraph(MovesMerged) /\ DOMAIN MovesMerged = Kept
  BY MovesMergedIsGraph
<1>2. IsFiniteSet(Kept)
  <2>1. IsFiniteSet(Insts(prog))
    BY DEF Allocatable, Ready, Sound, IsFunction
  <2>2. Kept \subseteq Insts(prog)
    BY DEF Kept, Regs
  <2> QED
    BY <2>1, <2>2, FS_Subset
<1>3. /\ \A I \in Kept : inst2num[I] \in Nat
      /\ \A I, J \in Kept : inst2num[I] = inst2num[J] => I = J
  BY DEF LiveKnown, Kept
<1>4. IC!IsInput(MovesMerged, inst2num)
  BY <1>1, <1>2, <1>3, SameOperators DEF IC!IsInput
<1>5. IC!IsMerge(MovesMerged, PhiInto)
  BY <1>1, PhiMerges DEF IC!IsMerge
<1>6. Banks \in [Nat -> {"general", "vector", "none"}]
  <2>1. \A I \in Insts(prog) : bank[I] \in {"general", "vector"}
    BY DEF bank, Bank
  <2> QED
    BY <2>1 DEF Banks
<1> QED
  BY <1>4, <1>5, <1>6 DEF IC!Interfering

-----------------------------------------------------------------------------
\* The phases of the loop.

\* makeInterferenceGraph leaves the function alone and keeps its own invariant.
LEMMA BuildingKeeps ==
  ASSUME NumberInv, Allocatable(prog), BuildGraph
  PROVE  NumberInv' /\ Allocatable(prog)'
<1>1. BuildNext
  BY DEF BuildGraph
<1>2. NumberInv'
  BY <1>1, NumberSteps
<1>3. prog' = prog
  BY <1>1 DEF BuildNext, Descend, Retreat, CollectUnreachable, InitialSets, Visit, NextPass,
              Connect
<1> QED
  BY <1>2, <1>3

\* coalesceMovInsts hands on the graph with the moves merged, of an exact liveness.
LEMMA MovesAreCoalesced ==
  ASSUME NumberInv, Allocatable(prog), CoalesceMoves
  PROVE  /\ phase' = "resolve" /\ Allocatable(prog)' /\ LiveKnown'
         /\ inter_graph' = MovesMerged'
<1>1. /\ phase = "built" /\ phase' = "resolve" /\ UNCHANGED <<prog, graphVars, inst2num>>
      /\ inter_graph' = CO!Quotient(inter_graph, MoveInto)
  BY DEF CoalesceMoves
<1>2. BuildInv /\ LivenessExact
  BY SolvedIsExact DEF NumberInv
<1>3. inter_graph = NeighbourGraph
  BY <1>1, <1>2 DEF BuildInv, NeighbourGraph
<1>4. MoveInto = MoveRoots
  BY <1>3 DEF MoveInto, MoveRoots, NeighbourGraph
<1>5. LiveKnown
  BY <1>1, <1>2, NumbersDiffer DEF LivenessExact, LiveKnown
<1>6. UNCHANGED <<prog, in, out, inst2num>>
  BY <1>1 DEF graphVars
<1>7. MovesMerged' = MovesMerged
  BY <1>6 DEF MovesMerged, NeighbourGraph, Neighbours, MoveRoots
<1> QED
  BY <1>1, <1>3, <1>4, <1>5, <1>6, <1>7 DEF LiveKnown, MovesMerged

\* What stays as long as the function and the sets do.
LEMMA InputsKeep ==
  ASSUME UNCHANGED <<prog, graphVars, inst2num>>
  PROVE  /\ UNCHANGED <<MovesMerged, PhiInto, PhiOperandRoots, Banks, bank, in, out, prog, inst2num>>
         /\ LiveKnown => LiveKnown'
         /\ Allocatable(prog) => Allocatable(prog)'
<1>1. UNCHANGED <<prog, in, out, inst2num>>
  BY DEF graphVars
<1>2. UNCHANGED MovesMerged
  BY <1>1 DEF MovesMerged, NeighbourGraph, Neighbours, MoveRoots
<1>3. UNCHANGED <<PhiOperandRoots, PhiInto, Banks, bank>>
  BY <1>1 DEF PhiOperandRoots, PhiInto, Parent, Banks, bank
<1>4. LiveKnown => LiveKnown'
  BY <1>1 DEF LiveKnown
<1> QED
  BY <1>1, <1>2, <1>3, <1>4

\* The merged graph is what PerfectEliminationOrdering starts on.
LEMMA PhisAreCoalesced ==
  ASSUME Allocatable(prog), LiveKnown, inter_graph = MovesMerged, CoalescePhis
  PROVE  /\ phase' = "order" /\ Allocatable(prog)' /\ LiveKnown'
         /\ IC!Interfering' /\ inter_graph' = IC!Handed' /\ IC!OrderInv'
<1>1. /\ phase' = "order" /\ UNCHANGED <<prog, graphVars, inst2num>>
      /\ inter_graph' = CO!Quotient(inter_graph, PhiInto)
      /\ adj' = inter_graph' /\ C' = EO!InitialCounts(inter_graph')
      /\ Q' = <<>> /\ visit' = {} /\ rest' = {} /\ size' = 0 /\ order' = <<>>
  BY DEF CoalescePhis
<1>2. /\ UNCHANGED <<MovesMerged, PhiInto, Banks, prog, inst2num>>
      /\ Allocatable(prog)' /\ LiveKnown'
  BY <1>1, InputsKeep
<1>3. IC!Interfering
  BY MovesMergedInterfere
<1>4. IC!Interfering'
  BY <1>2, <1>3 DEF IC!Interfering
<1>5. inter_graph' = IC!Handed
  <2>1. CO!Quotient(MovesMerged, PhiInto) = IC!Quotient(MovesMerged, PhiInto)
    BY DEF CO!Quotient, IC!Quotient, CO!Class, IC!Class
  <2>2. CASE DOMAIN PhiInto = {}
    <3>1. IC!IsGraph(MovesMerged)
      BY MovesMergedIsGraph
    <3> DEFINE g == MovesMerged
               q == CO!Quotient(g, PhiInto)
    <3>2. DOMAIN q = DOMAIN g /\ \A I \in DOMAIN g : q[I] = g[I]
      BY <2>2, <3>1 DEF CO!Quotient, CO!Class, IC!IsGraph
    <3>3. q = [I \in DOMAIN q |-> q[I]] /\ g = [I \in DOMAIN g |-> g[I]]
      BY <3>1 DEF CO!Quotient, IC!IsGraph
    <3> QED
      BY <1>1, <2>2, <3>2, <3>3 DEF IC!Handed
  <2>3. CASE DOMAIN PhiInto # {}
    BY <1>1, <2>1, <2>3 DEF IC!Handed
  <2> QED
    BY <2>2, <2>3
<1>6. inter_graph' = IC!Handed'
  BY <1>2, <1>5 DEF IC!Handed, IC!Quotient, IC!Class
<1>7. IC!IsInput(inter_graph', inst2num')
  <2>1. IC!IsInput(IC!Handed, inst2num)
    BY <1>3, IC!HandedIsInput
  <2> QED
    BY <1>2, <1>5, <2>1
<1>8. C' = IC!InitialCounts(inter_graph')
  BY <1>1, SameOperators DEF EO!InitialCounts, IC!InitialCounts, EO!Missing, IC!Missing
<1>9. IC!OrderInit'
  BY <1>1, <1>7, <1>8 DEF IC!OrderInit, IC!StartOrder
<1>10. IC!OrderInit' => IC!OrderInv'
  BY IC!OrderingStarts, PTL
<1> QED
  BY <1>1, <1>2, <1>4, <1>6, <1>9, <1>10

\* Ordering is that of InterferenceColoring.
LEMMA OrderingIsIC ==
  ASSUME OrderVertices
  PROVE  IC!OrderNext /\ UNCHANGED <<prog, phase, graphVars, inter_graph, inst2num>>
<1>1. EO!OrderNext /\ UNCHANGED <<prog, phase, graphVars>>
  BY DEF OrderVertices
<1>2. UNCHANGED <<inter_graph, inst2num>>
  BY <1>1 DEF EO!OrderNext, EO!Pick, EO!Dequeue, EO!Relax
<1>3. /\ EO!Vertices = IC!Vertices
      /\ \A S : EO!Lowest(S) = IC!Lowest(S)
      /\ \A S : EO!Highest(S) = IC!Highest(S)
  BY DEF EO!Vertices, IC!Vertices, EO!Lowest, IC!Lowest, EO!Highest, IC!Highest
<1>4. EO!MinElement = IC!MinElement
  BY <1>3 DEF EO!MinElement, IC!MinElement
<1>5. EO!Ordered <=> IC!Ordered
  BY <1>3, SameOperators DEF EO!Ordered, IC!Ordered
<1>6. EO!Pick => IC!Pick
  BY <1>4, <1>5 DEF EO!Pick, IC!Pick
<1>7. EO!Dequeue => IC!Dequeue
  BY SameOperators DEF EO!Dequeue, IC!Dequeue
<1>8. EO!Relax => IC!Relax
  <2>1. \A w, remaining : EO!Recounted(w, remaining) = IC!Recounted(w, remaining)
    BY SameOperators DEF EO!Recounted, IC!Recounted
  <2>2. \A w, v : EO!Without(w, v) = IC!Without(w, v)
    BY DEF EO!Without, IC!Without
  <2>3. \A w, c : EO!BecomesReady(w, c) <=> IC!BecomesReady(w, c)
    BY DEF EO!BecomesReady, IC!BecomesReady
  <2> QED
    BY <1>3, <2>1, <2>2, <2>3 DEF EO!Relax, IC!Relax
<1> QED
  BY <1>1, <1>2, <1>6, <1>7, <1>8 DEF EO!OrderNext, IC!OrderNext

\* PerfectEliminationOrdering works on the graph it was handed.
LEMMA OrderingKeeps ==
  ASSUME Allocatable(prog), LiveKnown, IC!Interfering, inter_graph = IC!Handed, IC!OrderInv,
         OrderVertices
  PROVE  /\ phase' = phase /\ Allocatable(prog)' /\ LiveKnown'
         /\ IC!Interfering' /\ inter_graph' = IC!Handed' /\ IC!OrderInv'
<1>1. IC!OrderNext /\ UNCHANGED <<prog, phase, graphVars, inter_graph, inst2num>>
  BY OrderingIsIC
<1>2. /\ UNCHANGED <<MovesMerged, PhiInto, Banks, prog, inst2num>>
      /\ Allocatable(prog)' /\ LiveKnown'
  BY <1>1, InputsKeep
<1>3. IC!OrderInv'
  BY <1>1, IC!OrderingSteps
<1>4. IC!Interfering'
  BY <1>2 DEF IC!Interfering
<1>5. inter_graph' = IC!Handed'
  BY <1>1, <1>2 DEF IC!Handed, IC!Quotient, IC!Class
<1> QED
  BY <1>1, <1>2, <1>3, <1>4, <1>5

\* The order lists every vertex, and the reversed order is what GreedyColoring starts on.
LEMMA OrderIsReversed ==
  ASSUME Allocatable(prog), LiveKnown, IC!Interfering, inter_graph = IC!Handed, IC!OrderInv,
         ReverseOrder
  PROVE  /\ phase' = "color" /\ Allocatable(prog)' /\ LiveKnown'
         /\ IC!Interfering' /\ IC!WhileColoring'
<1>1. /\ phase' = "color" /\ EO!Ordered /\ order' = Reverse(order) /\ next' = 1
      /\ general_reg_color' = NoColors /\ vector_reg_color' = NoColors
      /\ general_num_colors' = 0 /\ vector_num_colors' = 0
      /\ UNCHANGED <<prog, graphVars, inter_graph, inst2num, adj, C, Q, visit, rest, size>>
  BY DEF ReverseOrder, orderVars
<1>2. /\ UNCHANGED <<MovesMerged, PhiInto, Banks, prog, inst2num>>
      /\ Allocatable(prog)' /\ LiveKnown'
  BY <1>1, InputsKeep
<1>3. IC!Ordered
  BY <1>1, SameOperators DEF EO!Ordered, IC!Ordered, EO!Vertices, IC!Vertices
<1>4. IC!AllListed /\ order \in Seq(IC!Vertices)
  BY <1>3, IC!OrderedListsAll DEF IC!OrderInv, IC!OrderTypeOK
<1>5. /\ order' \in Seq(IC!Vertices) /\ IC!Entries(order') = IC!Entries(order)
      /\ IC!NoRepeats(order')
  BY <1>1, <1>4, IC!ReverseKeepsEntries, SameOperators DEF IC!AllListed
<1>6. IC!AllListed'
  BY <1>1, <1>4, <1>5 DEF IC!AllListed, IC!Vertices
<1>7. IC!Interfering' /\ inter_graph' = IC!Handed'
  BY <1>1, <1>2 DEF IC!Interfering, IC!Handed, IC!Quotient, IC!Class
<1>8. /\ IC!IsGraph(inter_graph) /\ DOMAIN inter_graph = IC!Vertices
      /\ \A I \in DOMAIN inter_graph : IsFiniteSet(inter_graph[I])
  <2>1. IC!IsGraph(inter_graph) /\ DOMAIN inter_graph = IC!Vertices /\ IsFiniteSet(IC!Vertices)
    BY SameOperators DEF IC!OrderInv, IC!OrderTypeOK
  <2>2. \A I \in DOMAIN inter_graph : inter_graph[I] \in SUBSET IC!Vertices
    BY <2>1 DEF IC!IsGraph
  <2> QED
    BY <2>1, <2>2, FS_Subset
<1>9. IC!Inputs'
  BY <1>1, <1>5, <1>7, <1>8, SameOperators DEF IC!Inputs, IC!NoRepeats, IC!Interfering
<1>10. IC!StartColoring'
  BY <1>1 DEF IC!StartColoring, IC!NoColors, NoColors
<1>11. IC!ColorInv'
  <2>1. IC!ColorInit' => IC!ColorInv'
    BY IC!ColoringStarts, PTL
  <2> QED
    BY <1>9, <1>10, <2>1 DEF IC!ColorInit
<1>12. IC!OptimalOnPerfectOrder' /\ IC!PassedAreColored'
  BY <1>10 DEF IC!StartColoring, IC!NoColors, IC!OptimalOnPerfectOrder, IC!PassedAreColored
<1> QED
  BY <1>1, <1>2, <1>6, <1>7, <1>11, <1>12 DEF IC!WhileColoring

\* Colouring is that of InterferenceColoring.
LEMMA ColoringKeeps ==
  ASSUME Allocatable(prog), LiveKnown, IC!Interfering, IC!WhileColoring, ColorVertices
  PROVE  /\ phase' = phase /\ Allocatable(prog)' /\ LiveKnown'
         /\ IC!Interfering' /\ IC!WhileColoring'
<1>1. /\ phase = "color" /\ GC!ColorNext
      /\ UNCHANGED <<prog, phase, graphVars, inst2num, adj, C, Q, visit, rest, size>>
  BY DEF ColorVertices, orderVars
<1>2. /\ UNCHANGED <<MovesMerged, PhiInto, Banks, bank, prog, inst2num>>
      /\ Allocatable(prog)' /\ LiveKnown'
  BY <1>1, InputsKeep
<1>3. /\ order \in Seq(DOMAIN inter_graph) /\ next \in 1..(Len(order) + 1)
      /\ DOMAIN inter_graph \subseteq Kept
  <2>1. IC!Inputs /\ next \in 1..(Len(order) + 1)
    BY DEF IC!WhileColoring, IC!ColorInv, IC!ColorTypeOK
  <2>2. DOMAIN inter_graph \subseteq Kept
    BY IC!HandedIsInput, MovesMergedIsGraph DEF IC!WhileColoring
  <2> QED
    BY <2>1, <2>2 DEF IC!Inputs
<1>4. next <= Len(order) => Banks[order[next]] = bank[order[next]]
  <2> SUFFICES ASSUME next <= Len(order) PROVE Banks[order[next]] = bank[order[next]]
    OBVIOUS
  <2>1. order[next] \in DOMAIN inter_graph
    BY <1>3
  <2>2. order[next] \in Insts(prog) /\ order[next] \in Nat
    BY <1>3, <2>1 DEF Kept, Regs, Allocatable, Ready, Sound, IsFunction
  <2> QED
    BY <2>2 DEF Banks
<1>5. next \in Nat /\ Len(order) \in Nat
  BY <1>3
<1>6. /\ \A used : GC!LowestFree(used) = IC!LowestFree(used)
      /\ \A color, I : GC!Used(color, I) = IC!Used(color, I)
      /\ \A color, I, c : GC!Paint(color, I, c) = IC!Paint(color, I, c)
      /\ \A n, c : GC!Larger(n, c) = IC!Larger(n, c)
  BY SameOperators DEF GC!LowestFree, IC!LowestFree, GC!Used, IC!Used, GC!Paint, IC!Paint,
                       GC!Larger, IC!Larger
<1>7. GC!Done <=> IC!Done
  BY DEF GC!Done, IC!Done
<1>8. ~IC!Done => next <= Len(order)
  BY <1>5 DEF IC!Done
<1>9. GC!ColorGeneral => IC!ColorGeneral
  BY <1>2, <1>4, <1>6, <1>7, <1>8
     DEF GC!ColorGeneral, IC!ColorGeneral, GC!inputVars, IC!inputVars
<1>10. GC!ColorVector => IC!ColorVector
  BY <1>2, <1>4, <1>6, <1>7, <1>8
     DEF GC!ColorVector, IC!ColorVector, GC!inputVars, IC!inputVars
<1>11. GC!ColorNone => IC!ColorNone
  BY <1>2, <1>4, <1>6, <1>7, <1>8
     DEF GC!ColorNone, IC!ColorNone, GC!inputVars, IC!inputVars
<1>12. IC!ColorNext
  BY <1>1, <1>9, <1>10, <1>11 DEF GC!ColorNext, IC!ColorNext
<1>13. IC!ColorVertices
  BY <1>1, <1>2, <1>12 DEF IC!ColorVertices
<1>14. IC!WhileColoring'
  BY <1>13, IC!ColoringPhase DEF IC!ColoringNext
<1>15. IC!Interfering'
  BY <1>2 DEF IC!Interfering
<1> QED
  BY <1>1, <1>2, <1>14, <1>15

-----------------------------------------------------------------------------
\* The colours, propagated.

\* RegistersKeptApart, whether or not the function runs already.
Apart ==
  /\ \A v \in Regs(prog) : place[v] \in ({"r"} \X (1..MAX_REGISTER))
                                       \cup ({"v"} \X (1..MAX_VECTOR_REGISTER))
  /\ \A u, v \in Regs(prog) :
       place[u] = place[v] /\ Standing(u) # Standing(v) => ~NeededTogether(u, v)

\* What stands for a register has a colour of one bank when the loop is through.
LEMMA StandingIsColored ==
  ASSUME Allocatable(prog), LiveKnown, IC!Interfering, IC!WhileColoring, GC!Done, phase = "color",
         NEW v \in Regs(prog)
  PROVE  /\ Root(prog, v) \in Kept /\ Standing(v) = IC!Representative(Root(prog, v))
         /\ Standing(v) \in Kept \ PhiOperandRoots /\ Root(prog, v) \in IC!Colored
         /\ \/ /\ Standing(v) \in DOMAIN general_reg_color \ DOMAIN vector_reg_color
               /\ general_reg_color[Standing(v)] \in 1..general_num_colors
               /\ Banks[Standing(v)] = "general"
            \/ /\ Standing(v) \in DOMAIN vector_reg_color \ DOMAIN general_reg_color
               /\ vector_reg_color[Standing(v)] \in 1..vector_num_colors
               /\ Banks[Standing(v)] = "vector"
<1> DEFINE r == Root(prog, v)
           s == Standing(v)
<1>1. IsFunction(prog) /\ MovesEnd(prog)
  BY DEF Allocatable, Ready, Sound
<1>2. r \in Kept
  BY <1>1, RegisterRoots DEF Kept
<1>3. s = IC!Representative(r) /\ s \in Kept \ PhiOperandRoots
  <2>1. s = IF r \in PhiOperandRoots THEN PhiInto[r] ELSE r
    BY DEF Standing
  <2> QED
    BY <1>2, <2>1, PhiMerges DEF IC!Representative
<1>4. r \in DOMAIN MovesMerged
  BY <1>2, MovesMergedIsGraph
<1> HIDE DEF r, s
<1>5. Banks[s] \in {"general", "vector"}
  <2>1. s \in Insts(prog) /\ s \in Nat
    BY <1>1, <1>3 DEF Kept, Regs, IsFunction
  <2> QED
    BY <2>1 DEF Banks, bank, Bank
<1>6. IC!PhaseInv
  BY DEF IC!PhaseInv
<1>7. IC!Done
  BY DEF GC!Done, IC!Done
<1>8. r \in IC!Colored
  <2>1. IC!NothingLeftOut
    BY <1>6, IC!ColoringLeavesNothingOut
  <2> QED
    BY <1>3, <1>4, <1>5, <1>7, <2>1 DEF IC!NothingLeftOut
<1>9. /\ IC!ColorMap(general_reg_color, "general") /\ IC!ColorMap(vector_reg_color, "vector")
      /\ IC!NoGaps(general_reg_color, general_num_colors)
      /\ IC!NoGaps(vector_reg_color, vector_num_colors)
  BY DEF IC!WhileColoring, IC!ColorInv, IC!ColorTypeOK, IC!ColorsAreContiguous
<1>10. s \in DOMAIN general_reg_color \cup DOMAIN vector_reg_color
  BY <1>3, <1>8 DEF IC!Colored
<1>11. s \in DOMAIN general_reg_color => Banks[s] = "general"
  BY <1>9 DEF IC!ColorMap
<1>12. s \in DOMAIN vector_reg_color => Banks[s] = "vector"
  BY <1>9 DEF IC!ColorMap
<1>13. s \in DOMAIN general_reg_color => general_reg_color[s] \in 1..general_num_colors
  BY <1>9 DEF IC!NoGaps
<1>14. s \in DOMAIN vector_reg_color => vector_reg_color[s] \in 1..vector_num_colors
  BY <1>9 DEF IC!NoGaps
<1> QED
  BY <1>2, <1>3, <1>8, <1>10, <1>11, <1>12, <1>13, <1>14 DEF r, s

\* propagatePHINodeColors gives a register the colour of what stands for it.
LEMMA PropagatedColor ==
  ASSUME Allocatable(prog), NEW color, DOMAIN color \subseteq Kept \ PhiOperandRoots,
         NEW v \in Regs(prog), Root(prog, v) \in Kept
  PROVE  /\ Root(prog, v) \in DOMAIN Propagated(color) <=> Standing(v) \in DOMAIN color
         /\ Standing(v) \in DOMAIN color => Propagated(color)[Root(prog, v)] = color[Standing(v)]
<1> DEFINE r == Root(prog, v)
           s == Standing(v)
           given(V) == {phi \in AllPhis(prog) \cap DOMAIN color :
                          \E i \in DOMAIN prog.args[phi] : Parent(phi, i) = V}
           V2 == {V \in PhiOperandRoots : given(V) # {}}
<1>1. Propagated(color) = [V \in DOMAIN color \cup V2 |->
                             IF V \in V2 THEN color[CHOOSE phi \in given(V) : TRUE] ELSE color[V]]
  BY DEF Propagated
<1>2. s = IF r \in PhiOperandRoots THEN PhiInto[r] ELSE r
  BY DEF Standing
<1>3. CASE r \in PhiOperandRoots
  <2>1. s \in AllPhis(prog) /\ \E i \in DOMAIN prog.args[s] : Parent(s, i) = r
    BY <1>2, <1>3, PhiMerges
  <2>2. ASSUME NEW phi \in given(r) PROVE phi = s
    BY <1>2, <1>3, <2>2, PhiMerges
  <2>3. s \in given(r) <=> s \in DOMAIN color
    BY <2>1
  <2>4. r \notin DOMAIN color
    BY <1>3
  <2>5. r \in V2 <=> s \in DOMAIN color
    BY <1>3, <2>2, <2>3
  <2>6. s \in DOMAIN color => (CHOOSE phi \in given(r) : TRUE) = s
    BY <2>2, <2>3
  <2> HIDE DEF V2, given, r, s
  <2> QED
    BY <1>1, <2>4, <2>5, <2>6 DEF r, s
<1>4. CASE r \notin PhiOperandRoots
  <2>1. s = r /\ r \notin V2
    BY <1>2, <1>4
  <2> HIDE DEF V2, given, r, s
  <2> QED
    BY <1>1, <2>1 DEF r, s
<1> QED
  BY <1>3, <1>4

\* So when all are coloured, a register's place is the colour of what stands for it.
ColorPlace(v) ==
  IF Standing(v) \in DOMAIN general_reg_color THEN <<"r", general_reg_color[Standing(v)]>>
                                              ELSE <<"v", vector_reg_color[Standing(v)]>>

\* And so it stays when the colours of phis are handed on to their operands.
LEMMA PropagatedPlaces ==
  ASSUME Allocatable(prog), LiveKnown, IC!Interfering, IC!WhileColoring, PropagateColors
  PROVE  /\ \A v \in Regs(prog) : place'[v] = ColorPlace(v) /\ Standing(v)' = Standing(v)
         /\ \A v \in Insts(prog) \ Regs(prog) : place'[v] = <<>>
         /\ general_num_colors \in Nat /\ vector_num_colors \in Nat
<1>1. /\ phase = "color" /\ GC!Done
      /\ general_reg_color' = Propagated(general_reg_color)
      /\ vector_reg_color' = Propagated(vector_reg_color)
      /\ UNCHANGED <<prog, graphVars, inst2num>>
  BY DEF PropagateColors
<1>2. UNCHANGED <<PhiInto, PhiOperandRoots, prog>>
  BY <1>1, InputsKeep
<1>3. /\ DOMAIN general_reg_color \subseteq Kept \ PhiOperandRoots
      /\ DOMAIN vector_reg_color \subseteq Kept \ PhiOperandRoots
      /\ general_num_colors \in Nat /\ vector_num_colors \in Nat
  <2>1. /\ DOMAIN general_reg_color \subseteq DOMAIN inter_graph
        /\ DOMAIN vector_reg_color \subseteq DOMAIN inter_graph
        /\ general_num_colors \in Nat /\ vector_num_colors \in Nat
    BY DEF IC!WhileColoring, IC!ColorInv, IC!ColorTypeOK, IC!ColorMap
  <2>2. DOMAIN inter_graph = Kept \ PhiOperandRoots
    <3>1. inter_graph = IC!Handed
      BY DEF IC!WhileColoring
    <3> QED
      BY <3>1, IC!HandedIsInput, MovesMergedIsGraph, PhiMerges
  <2> QED
    BY <2>1, <2>2
<1> DEFINE g == general_reg_color
           w == vector_reg_color
<1>4. ASSUME NEW v \in Regs(prog)
      PROVE  place'[v] = ColorPlace(v) /\ Standing(v)' = Standing(v)
  <2>1. v \in Insts(prog)
    BY DEF Regs
  <2>2. Standing(v)' = Standing(v)
    BY <1>2 DEF Standing
  <2>3. place'[v] = CASE Root(prog, v) \in DOMAIN general_reg_color' ->
                           <<"r", general_reg_color'[Root(prog, v)]>>
                      [] Root(prog, v) \in DOMAIN vector_reg_color' ->
                           <<"v", vector_reg_color'[Root(prog, v)]>>
                      [] OTHER -> <<>>
    BY <1>2, <2>1 DEF place
  <2>4. /\ Root(prog, v) \in Kept
        /\ \/ Standing(v) \in DOMAIN g \ DOMAIN w
           \/ Standing(v) \in DOMAIN w \ DOMAIN g
    BY <1>1, StandingIsColored
  <2>5. /\ Root(prog, v) \in DOMAIN Propagated(g) <=> Standing(v) \in DOMAIN g
        /\ Standing(v) \in DOMAIN g => Propagated(g)[Root(prog, v)] = g[Standing(v)]
    BY <1>3, <2>4, PropagatedColor
  <2>6. /\ Root(prog, v) \in DOMAIN Propagated(w) <=> Standing(v) \in DOMAIN w
        /\ Standing(v) \in DOMAIN w => Propagated(w)[Root(prog, v)] = w[Standing(v)]
    BY <1>3, <2>4, PropagatedColor
  <2> QED
    BY <1>1, <2>2, <2>3, <2>4, <2>5, <2>6 DEF ColorPlace
<1>5. ASSUME NEW v \in Insts(prog) \ Regs(prog) PROVE place'[v] = <<>>
  <2>1. IsFunction(prog) /\ MovesEnd(prog) /\ v \in Int
    BY DEF Allocatable, Ready, Sound, IsFunction
  <2>2. Root(prog, v) \notin Kept
    <3>1. Root(prog, Root(prog, v)) = Root(prog, v)
      BY <2>1, Roots
    <3> QED
      BY <1>5, <3>1 DEF Kept, Regs, isReg
  <2>3. DOMAIN Propagated(g) \subseteq Kept /\ DOMAIN Propagated(w) \subseteq Kept
    <3>1. \A color : DOMAIN Propagated(color) \subseteq DOMAIN color \cup PhiOperandRoots
      BY DEF Propagated
    <3>2. PhiOperandRoots \subseteq Kept
      BY PhiMerges
    <3> QED
      BY <1>3, <3>1, <3>2
  <2>4. place'[v] = CASE Root(prog, v) \in DOMAIN general_reg_color' ->
                           <<"r", general_reg_color'[Root(prog, v)]>>
                      [] Root(prog, v) \in DOMAIN vector_reg_color' ->
                           <<"v", vector_reg_color'[Root(prog, v)]>>
                      [] OTHER -> <<>>
    BY <1>2 DEF place
  <2> QED
    BY <1>1, <2>2, <2>3, <2>4
<1> QED
  BY <1>3, <1>4, <1>5

\* When no more colours are used than there are registers, registers are kept apart.
LEMMA PropagatedKeepApart ==
  ASSUME Allocatable(prog), LiveKnown, IC!Interfering, IC!WhileColoring, PropagateColors
  PROVE  /\ phase' \in {"done", "spill"} /\ Allocatable(prog)'
         /\ phase' = "done" => Apart'
<1>1. /\ phase = "color" /\ GC!Done
      /\ phase' = IF general_num_colors <= MAX_REGISTER /\ vector_num_colors <= MAX_VECTOR_REGISTER
                  THEN "done" ELSE "spill"
      /\ UNCHANGED <<prog, graphVars, inst2num>>
  BY DEF PropagateColors
<1>2. /\ UNCHANGED <<MovesMerged, PhiInto, PhiOperandRoots, Banks, in, out, prog>>
      /\ Allocatable(prog)'
  BY <1>1, InputsKeep
<1>3. SUFFICES ASSUME phase' = "done" PROVE Apart'
  BY <1>1, <1>2
<1>4. general_num_colors <= MAX_REGISTER /\ vector_num_colors <= MAX_VECTOR_REGISTER
  BY <1>1, <1>3
<1>5. general_num_colors \in Nat /\ vector_num_colors \in Nat
  BY PropagatedPlaces
<1> DEFINE g == general_reg_color
           w == vector_reg_color
<1>6. \A v \in Regs(prog) : place'[v] = ColorPlace(v) /\ Standing(v)' = Standing(v)
  BY PropagatedPlaces
<1>7. ASSUME NEW v \in Regs(prog)
      PROVE  ColorPlace(v) \in ({"r"} \X (1..MAX_REGISTER)) \cup ({"v"} \X (1..MAX_VECTOR_REGISTER))
  <2>1. \/ Standing(v) \in DOMAIN g \ DOMAIN w /\ g[Standing(v)] \in 1..general_num_colors
        \/ Standing(v) \in DOMAIN w \ DOMAIN g /\ w[Standing(v)] \in 1..vector_num_colors
    BY <1>1, StandingIsColored
  <2>2. \A c \in 1..general_num_colors : c \in 1..MAX_REGISTER
    BY <1>4, <1>5, RegisterCounts
  <2>3. \A c \in 1..vector_num_colors : c \in 1..MAX_VECTOR_REGISTER
    BY <1>4, <1>5, RegisterCounts
  <2> QED
    BY <2>1, <2>2, <2>3 DEF ColorPlace
<1>8. ASSUME NEW u \in Regs(prog), NEW v \in Regs(prog), ColorPlace(u) = ColorPlace(v),
             Standing(u) # Standing(v)
      PROVE  ~NeededTogether(u, v)
  <2>1. SUFFICES ASSUME NeededTogether(u, v) PROVE FALSE
    OBVIOUS
  <2>2. /\ u \in Insts(prog) /\ v \in Insts(prog) /\ IsFunction(prog) /\ WellFormed(prog)
    BY DEF Regs, Allocatable, Ready, Sound
  <2>3. v \in Neighbours(u)
    <3>1. u # v
      BY <1>8
    <3>2. u \in out[v] \/ v \in out[u]
      <4>1. SUFFICES ASSUME NEW I \in Points(prog),
                            isPotentiallyReachable(prog, BlockOf(prog, I)), {u, v} \subseteq in[I]
                     PROVE  u \in out[v] \/ v \in out[u]
        BY <2>1 DEF NeededTogether
      <4>2. in[I] = LiveBefore(prog, I)
        BY DEF LiveKnown, Points
      <4>3. v \in LiveOut(prog, u) \/ u \in LiveOut(prog, v)
        BY <2>2, <4>1, <4>2, LiveTogether
      <4> QED
        BY <2>2, <4>3 DEF LiveKnown
    <3> QED
      BY <3>1, <3>2 DEF Neighbours
  <2> DEFINE r == Root(prog, u)
             t == Root(prog, v)
  <2>4. /\ r \in Kept /\ t \in Kept /\ r \in IC!Colored /\ t \in IC!Colored
        /\ Standing(u) = IC!Representative(r) /\ Standing(v) = IC!Representative(t)
    BY <1>1, StandingIsColored
  <2>5. r # t
    BY <1>8, <2>4
  <2>6. t \in MovesMerged[r]
    BY <2>3, <2>5, MovesMergedIsGraph
  <2>7. /\ \/ Standing(u) \in DOMAIN g \ DOMAIN w /\ Banks[Standing(u)] = "general"
           \/ Standing(u) \in DOMAIN w \ DOMAIN g /\ Banks[Standing(u)] = "vector"
        /\ \/ Standing(v) \in DOMAIN g \ DOMAIN w /\ Banks[Standing(v)] = "general"
           \/ Standing(v) \in DOMAIN w \ DOMAIN g /\ Banks[Standing(v)] = "vector"
    BY <1>1, StandingIsColored
  <2>8. /\ Standing(u) \in DOMAIN g <=> Standing(v) \in DOMAIN g
        /\ Standing(u) \in DOMAIN g => g[Standing(u)] = g[Standing(v)]
        /\ Standing(u) \notin DOMAIN g => w[Standing(u)] = w[Standing(v)]
    BY <1>8 DEF ColorPlace
  <2>9. IC!LiveValuesKeptApart
    BY IC!ColoringKeepsApart DEF IC!PhaseInv
  <2>10. IC!ColorOf(r) # IC!ColorOf(t)
    BY <1>8, <2>4, <2>6, <2>7, <2>8, <2>9 DEF IC!LiveValuesKeptApart
  <2> QED
    BY <2>4, <2>7, <2>8, <2>10 DEF IC!ColorOf
<1>9. /\ Regs(prog)' = Regs(prog)
      /\ \A u, v : NeededTogether(u, v)' <=> NeededTogether(u, v)
  BY <1>2 DEF NeededTogether
<1> QED
  BY <1>6, <1>7, <1>8, <1>9 DEF Apart

-----------------------------------------------------------------------------
\* The inductive invariant: in each phase what the algorithm at work needs, and what it
\* hands on.
Phases == {"collect", "solve", "built", "resolve", "order", "color", "spill", "done", "crash"}

AllocInv ==
  /\ Allocatable(prog) /\ phase \in Phases
  /\ phase \in {"collect", "solve", "built"} => NumberInv
  /\ phase \in {"resolve", "order", "color"} => LiveKnown
  /\ phase = "resolve" => inter_graph = MovesMerged
  /\ phase = "order" => IC!Interfering /\ inter_graph = IC!Handed /\ IC!OrderInv
  /\ phase = "color" => IC!Interfering /\ IC!WhileColoring
  /\ phase = "done" => Apart

\* makeInterferenceGraph begins.
LEMMA BuildingStarts == Allocatable(prog) /\ Fresh(prog) => AllocInv
<1> SUFFICES ASSUME Allocatable(prog), Fresh(prog) PROVE AllocInv
  OBVIOUS
<1>1. BuildInit /\ phase = "collect"
  BY DEF BuildInit, Fresh, Allocatable, Ready, Sound
<1>2. NumberInv
  BY <1>1, NumberStarts
<1> QED
  BY <1>1, <1>2 DEF AllocInv, Phases

\* It begins again with whatever function the copies and the spilling leave.
LEMMA BuildingStartsAgain ==
  ASSUME Allocatable(prog)', NEW p, BuildAgain(p) PROVE AllocInv'
<1>1. Fresh(prog)'
  BY DEF BuildAgain, Fresh
<1>2. Allocatable(prog)' /\ Fresh(prog)' => AllocInv'
  BY BuildingStarts, PTL
<1> QED
  BY <1>1, <1>2

\* The allocation starts in the invariant ...
LEMMA AllocationStarts == Allocatable(prog) /\ StartAllocation(prog) => AllocInv
  BY BuildingStarts DEF StartAllocation

\* ... and each of its steps keeps it: the two ends of the loop, CopyPhiOperand and Spill,
\* by CopyingKeepsAllocatable and SpillingKeepsAllocatable.
LEMMA AllocationSteps == AllocInv /\ [Next]_apVars => AllocInv'
<1> SUFFICES ASSUME AllocInv, [Next]_apVars PROVE AllocInv'
  OBVIOUS
<1>1. Allocatable(prog) /\ phase \in Phases
  BY DEF AllocInv
<1>2. CASE BuildGraph
  <2>1. NumberInv
    BY <1>2 DEF AllocInv, BuildGraph, BuildNext, Descend, Retreat, CollectUnreachable,
                InitialSets, Visit, NextPass, Connect
  <2>2. NumberInv' /\ Allocatable(prog)'
    BY <1>1, <1>2, <2>1, BuildingKeeps
  <2>3. phase' \in {"collect", "solve", "built"}
    BY <2>2 DEF NumberInv, BuildInv
  <2> QED
    BY <2>2, <2>3 DEF AllocInv, Phases
<1>3. CASE CoalesceMoves
  <2>1. NumberInv
    BY <1>3 DEF AllocInv, CoalesceMoves
  <2> QED
    BY <1>1, <1>3, <2>1, MovesAreCoalesced DEF AllocInv, Phases
<1>4. CASE CopyPhiOperand
  <2>1. \E p : BuildAgain(p)
    BY <1>4 DEF CopyPhiOperand
  <2> QED
    BY <1>1, <1>4, <2>1, CopyingKeepsAllocatable, BuildingStartsAgain
<1>5. CASE CoalescePhis
  <2>1. phase = "resolve"
    BY <1>5 DEF CoalescePhis
  <2> QED
    BY <1>1, <1>5, <2>1, PhisAreCoalesced DEF AllocInv, Phases
<1>6. CASE OrderVertices
  <2>1. phase = "order"
    BY <1>6 DEF OrderVertices
  <2> QED
    BY <1>1, <1>6, <2>1, OrderingKeeps DEF AllocInv, Phases
<1>7. CASE ReverseOrder
  <2>1. phase = "order"
    BY <1>7 DEF ReverseOrder
  <2> QED
    BY <1>1, <1>7, <2>1, OrderIsReversed DEF AllocInv, Phases
<1>8. CASE ColorVertices
  <2>1. phase = "color"
    BY <1>8 DEF ColorVertices
  <2> QED
    BY <1>1, <1>8, <2>1, ColoringKeeps DEF AllocInv, Phases
<1>9. CASE PropagateColors
  <2>1. phase = "color"
    BY <1>9 DEF PropagateColors
  <2>2. /\ phase' \in {"done", "spill"} /\ Allocatable(prog)'
        /\ phase' = "done" => Apart'
    BY <1>1, <1>9, <2>1, PropagatedKeepApart DEF AllocInv
  <2> QED
    BY <2>2 DEF AllocInv, Phases
<1>10. CASE Spill
  <2>1. \E p : BuildAgain(p)
    BY <1>10 DEF Spill
  <2> QED
    BY <1>1, <1>10, <2>1, SpillingKeepsAllocatable, BuildingStartsAgain
<1>11. CASE CopyVectorOperand \/ SpillWithoutLiteral
  BY <1>1, <1>11 DEF CopyVectorOperand, SpillWithoutLiteral, AllocInv, Phases
<1>12. CASE UNCHANGED raVars
  <2>1. UNCHANGED <<prog, phase, stack, bbVisit, bbNext, insts, in, out, pos, updated, inter_graph, inst2num,
                    adj, C, Q, visit, rest, size, order, next, general_reg_color,
                    vector_reg_color, general_num_colors, vector_num_colors>>
    BY <1>12 DEF raVars, graphVars, orderVars, colorVars
  <2>2. CASE phase \in {"collect", "solve", "built"}
    <3>1. NumberInv'
      BY <2>1, <2>2, NumberSteps DEF AllocInv, igVars
    <3> QED
      BY <1>1, <2>1, <2>2, <3>1 DEF AllocInv
  <2>3. CASE phase \in {"resolve", "order", "color"}
    <3>1. /\ UNCHANGED <<MovesMerged, PhiInto, Banks>> /\ LiveKnown'
      BY <2>1, <2>3, InputsKeep DEF AllocInv, graphVars
    <3>2. CASE phase = "resolve"
      BY <1>1, <2>1, <3>1, <3>2 DEF AllocInv
    <3>3. CASE phase = "order"
      <4>1. IC!Interfering' /\ inter_graph' = IC!Handed'
        BY <2>1, <3>1, <3>3 DEF AllocInv, IC!Interfering, IC!Handed, IC!Quotient, IC!Class
      <4>2. IC!OrderInv'
        BY <2>1, <3>3, IC!OrderingSteps DEF AllocInv, IC!eoVars
      <4> QED
        BY <1>1, <2>1, <3>1, <3>3, <4>1, <4>2 DEF AllocInv
    <3>4. CASE phase = "color"
      <4>1. UNCHANGED IC!icVars
        BY <2>1, <3>1 DEF IC!icVars, IC!coVars, IC!eoVars, IC!gcVars, IC!inputVars, IC!colorVars
      <4>2. IC!WhileColoring' /\ IC!Interfering'
        BY <3>4, <4>1, IC!ColoringPhase, IC!InputsStay DEF AllocInv
      <4> QED
        BY <1>1, <2>1, <3>1, <3>4, <4>2 DEF AllocInv
    <3> QED
      BY <2>3, <3>2, <3>3, <3>4
  <2>4. CASE phase = "done"
    <3>1. UNCHANGED place
      BY <2>1 DEF place
    <3>2. UNCHANGED <<PhiOperandRoots, PhiInto>>
      BY <2>1 DEF PhiOperandRoots, PhiInto, Parent
    <3>3. /\ \A v : Standing(v)' = Standing(v)
          /\ \A u, v : NeededTogether(u, v)' <=> NeededTogether(u, v)
      BY <2>1, <3>2 DEF Standing, NeededTogether
    <3>4. Apart'
      BY <2>1, <2>4, <3>1, <3>3 DEF AllocInv, Apart
    <3> QED
      BY <1>1, <2>1, <2>4, <3>4 DEF AllocInv
  <2>5. CASE phase \in {"spill", "crash"}
    BY <1>1, <2>1, <2>5 DEF AllocInv
  <2> QED
    BY <1>1, <2>2, <2>3, <2>4, <2>5 DEF Phases
<1>13. Next => AllocateNext \/ UNCHANGED raVars
  BY DEF Next, Allocate, Run
<1>14. UNCHANGED apVars => UNCHANGED raVars
  BY DEF apVars
<1> QED
  BY <1>2, <1>3, <1>4, <1>5, <1>6, <1>7, <1>8, <1>9, <1>10, <1>11, <1>12, <1>13, <1>14
     DEF AllocateNext

\* So it always holds.
LEMMA AllocInvHolds == Spec => []AllocInv
  BY AllocationStarts, AllocationSteps, PTL DEF Spec

\* The property the allocator exists for, for every function and every number of registers:
\* when allocation is done each value has a register the machine has, and values needed
\* together have different ones unless a phi merged them, however often the loop of run()
\* went round for copies and spilling.
THEOREM DifferentRegisters == Spec => []RegistersKeptApart
<1>1. AllocInv => RegistersKeptApart
  BY DEF AllocInv, RegistersKeptApart, Apart
<1> QED
  BY <1>1, AllocInvHolds, PTL

\* Each round of either loop of run() begins with a function in legal SSA form, with
\* prepared phis, its constants and $decr_sp where every use can have them: insertLoadStore,
\* the copies of resolvePHIInterference and resolve_constant never break what the next
\* makeInterferenceGraph takes for granted.
THEOREM LoopsBeginWithSSA == Spec => []StaysAllocatable
<1>1. AllocInv => StaysAllocatable
  BY DEF AllocInv, StaysAllocatable
<1> QED
  BY <1>1, AllocInvHolds, PTL

-----------------------------------------------------------------------------
\* The allocated function at work.

\* Control comes to the successors of blocks it comes to.
LEMMA SuccessorReachable ==
  ASSUME NEW p, IsFunction(p)
  PROVE  /\ isPotentiallyReachable(p, 1)
         /\ \A b \in Blocks(p) : isPotentiallyReachable(p, b) =>
              \A s \in Range(p.succ[b]) : isPotentiallyReachable(p, s)
<1>1. IsFlow(p.succ) /\ {1} \in SUBSET DOMAIN p.succ
  BY BlocksFlow
<1> QED
  BY <1>1, ReachedIsLeast DEF isPotentiallyReachable, ReachableFrom

\* What dominates a block control can come to is such a block.
LEMMA DominatorReachable ==
  ASSUME NEW p, IsFunction(p), NEW a \in Blocks(p), NEW b \in Blocks(p), Dominates(p, a, b),
         isPotentiallyReachable(p, b)
  PROVE  isPotentiallyReachable(p, a)
<1> DEFINE seen == Reached(NotThrough(p, a), {1})
           S == {c \in seen : isPotentiallyReachable(p, c)}
<1>1. SUFFICES ASSUME ~isPotentiallyReachable(p, a) PROVE FALSE
  OBVIOUS
<1>2. isPotentiallyReachable(p, 1)
  BY SuccessorReachable
<1>3. b \notin seen
  BY <1>1, <1>2 DEF Dominates
<1>4. 1 \in seen /\ seen \subseteq Blocks(p) /\ \A c \in seen \ {a} : Range(p.succ[c]) \subseteq seen
  BY ReachedNotThrough
<1> HIDE DEF seen
<1>5. S \in SUBSET Blocks(p) /\ 1 \in S
  BY <1>2, <1>4
<1>6. \A c \in S : Range(p.succ[c]) \subseteq S
  BY <1>1, <1>4, SuccessorReachable
<1>7. b \in S
  <2> HIDE DEF S
  <2> QED
    BY <1>5, <1>6, ReachableWithin
<1> QED
  BY <1>3, <1>7

\* The numbers of registers in reachable code follow dominance.
Numbered ==
  \A a, b \in Found : a # b /\ DefDominates(prog, a, b) => inst2num[b] < inst2num[a]

\* The definition of what is dominated by a value is in reachable code if that is.
LEMMA DefinitionReachable ==
  ASSUME IsFunction(prog), NEW v \in Insts(prog), NEW I \in Insts(prog),
         DefDominates(prog, v, I), isPotentiallyReachable(prog, BlockOf(prog, I))
  PROVE  isPotentiallyReachable(prog, BlockOf(prog, v)) /\ v # I
<1>1. /\ BlockOf(prog, v) \in Blocks(prog) /\ BlockOf(prog, I) \in Blocks(prog)
      /\ IndexOf(prog, v) \in Nat
  BY Places
<1>2. v # I
  BY <1>1 DEF DefDominates
<1>3. BlockOf(prog, v) = BlockOf(prog, I) \/ Dominates(prog, BlockOf(prog, v), BlockOf(prog, I))
  BY DEF DefDominates
<1> QED
  BY <1>1, <1>2, <1>3, DominatorReachable

\* What a register that is a move copies is a register, and an operand of the move.
LEMMA CopiedRegister ==
  ASSUME Allocatable(prog), NEW I \in Regs(prog), isMoveInst(prog, I)
  PROVE  /\ Root(prog, I) = Root(prog, prog.args[I][1])
         /\ prog.args[I][1] \in Regs(prog) /\ prog.args[I][1] \in Operands(prog, I)
<1> DEFINE w == prog.args[I][1]
<1>1. IsFunction(prog) /\ MovesEnd(prog) /\ I \in Insts(prog)
  BY DEF Allocatable, Ready, Sound, Regs
<1>2. I \in Int /\ w \in Int /\ prog.args[I] # <<>>
  BY <1>1 DEF MovesEnd, IsFunction
<1>3. Root(prog, I) = Root(prog, w)
  BY <1>1, <1>2, RootSteps
<1>4. w \in Regs(prog) /\ w \in Insts(prog)
  <2>1. isReg(prog, w)
    BY <1>3 DEF Regs, isReg
  <2>2. w \notin Insts(prog) => Root(prog, w) = w
    BY <1>1, <1>2, RootSteps DEF isMoveInst
  <2>3. w \in Insts(prog)
    BY <2>1, <2>2 DEF isReg
  <2> QED
    BY <2>1, <2>3 DEF Regs
<1>5. w \in Operands(prog, I)
  <2>1. prog.args[I] \in Seq(Int)
    BY <1>1 DEF Allocatable, Ready, Sound, HasFields, HasRecords
  <2>2. 1 \in DOMAIN prog.args[I]
    BY <1>2, <2>1, EmptySeq, LenProperties
  <2>3. w \in Range(prog.args[I])
    BY <2>2 DEF Range
  <2>4. IsInst(w)
    BY <1>1, <1>4 DEF IsFunction
  <2> QED
    BY <2>3, <2>4 DEF Operands
<1> QED
  BY <1>3, <1>4, <1>5

\* A copy a chain of moves makes has a smaller number than what the chain begins with.
LEMMA CopiesNumberedBefore ==
  ASSUME Allocatable(prog), LiveKnown, Numbered, NEW m \in Found
  PROVE  Root(prog, m) \in Found /\ (Root(prog, m) # m => inst2num[m] < inst2num[Root(prog, m)])
<1> DEFINE Fine(w) == w \in Found =>
             /\ Root(prog, w) \in Found
             /\ Root(prog, w) # w => inst2num[w] < inst2num[Root(prog, w)]
           T == {w \in Insts(prog) : Fine(w)}
<1>1. IsFunction(prog) /\ MovesEnd(prog) /\ WellFormed(prog)
  BY DEF Allocatable, Ready, Sound
<1>2. \A I \in Insts(prog) : ~isMoveInst(prog, I) => I \in T
  <2>1. \A I \in Insts(prog) : I \in Int
    BY <1>1 DEF IsFunction
  <2> QED
    BY <1>1, <2>1, RootSteps
<1>3. ASSUME NEW I \in Insts(prog), isMoveInst(prog, I),
             prog.args[I][1] \notin Insts(prog) \ T, I \in Found
      PROVE  /\ Root(prog, I) \in Found
             /\ Root(prog, I) # I => inst2num[I] < inst2num[Root(prog, I)]
  <2> DEFINE w == prog.args[I][1]
  <2>1. Root(prog, I) = Root(prog, w) /\ w \in Regs(prog) /\ w \in Operands(prog, I)
    BY <1>3, CopiedRegister DEF Found
  <2>2. w \in Insts(prog) /\ ~IsPhi(prog, I)
    BY <1>3, <2>1 DEF Regs, isMoveInst, IsPhi
  <2>4. isPotentiallyReachable(prog, BlockOf(prog, I)) /\ I \in Regs(prog)
    BY <1>3 DEF Found
  <2>5. DefDominates(prog, w, I)
    BY <1>1, <1>3, <2>1, <2>2, <2>4 DEF WellFormed
  <2>6. w \in Found /\ w # I
    BY <1>1, <2>1, <2>2, <2>4, <2>5, DefinitionReachable DEF Found
  <2>7. inst2num[I] < inst2num[w]
    BY <1>3, <2>5, <2>6 DEF Numbered
  <2>8. Fine(w)
    BY <1>3, <2>1, <2>2
  <2>9. /\ inst2num[I] \in Nat /\ inst2num[w] \in Nat /\ Root(prog, w) \in Found
        /\ inst2num[Root(prog, w)] \in Nat
    <3>1. Root(prog, w) \in Found
      BY <2>6, <2>8
    <3> QED
      BY <1>3, <2>1, <3>1 DEF LiveKnown, Found
  <2> HIDE DEF w
  <2> QED
    BY <2>1, <2>6, <2>7, <2>8, <2>9
<1>4. T = Insts(prog)
  <2>1. T \in SUBSET Insts(prog)
    OBVIOUS
  <2>2. \A I \in Insts(prog) : isMoveInst(prog, I) /\ prog.args[I][1] \notin Insts(prog) \ T => I \in T
    BY <1>3
  <2> HIDE DEF T
  <2> QED
    BY <1>1, <1>2, <2>1, <2>2, MovesReachAll
<1>5. m \in Insts(prog)
  BY DEF Found, Regs
<1>6. m \in T
  BY <1>4, <1>5
<1> QED
  BY <1>6

\* So when an instruction is executed once more, no copy of its old result is live.
LEMMA OldCopyIsDead ==
  ASSUME Allocatable(prog), LiveKnown, Numbered, NEW I \in Found, ~IsPhi(prog, I),
         NEW v \in Regs(prog), v \in LiveOut(prog, I), v # I
  PROVE  Root(prog, v) # I
<1>1. IsFunction(prog) /\ WellFormed(prog)
  BY DEF Allocatable, Ready, Sound
<1>2. I \in Insts(prog) /\ v \in Insts(prog) /\ isPotentiallyReachable(prog, BlockOf(prog, I))
  BY DEF Found, Regs
<1>3. DefDominates(prog, v, I)
  BY <1>1, <1>2, LiveAfterIsDominated
<1>4. v \in Found
  BY <1>1, <1>2, <1>3, DefinitionReachable DEF Found
<1>5. inst2num[I] < inst2num[v]
  BY <1>3, <1>4 DEF Numbered
<1>6. inst2num[I] \in Nat /\ inst2num[v] \in Nat
  BY DEF LiveKnown, Found
<1>7. Root(prog, v) # v => inst2num[v] < inst2num[Root(prog, v)]
  BY <1>4, CopiesNumberedBefore
<1> QED
  BY <1>5, <1>6, <1>7

\* No phi operand interferes with its phi or another operand of it.
NoneTolerated ==
  \A phi \in AllPhis(prog) : \A i \in DOMAIN prog.args[phi] :
    /\ Parent(phi, i) \notin MovesMerged[phi]
    /\ \A j \in DOMAIN prog.args[phi] : Parent(phi, i) \notin MovesMerged[Parent(phi, j)]

\* The register an instruction writes holds nothing that is live afterwards.
LEMMA WritesNothingLive ==
  ASSUME Allocatable(prog), LiveKnown, Numbered, Apart, NoneTolerated,
         NEW I \in Found, prog.kind[I] \in {"op", "const"},
         NEW v \in Regs(prog), v \in LiveOut(prog, I), v # I
  PROVE  place[v] # place[I]
<1>1. IsFunction(prog) /\ MovesEnd(prog)
  BY DEF Allocatable, Ready, Sound
<1>2. I \in Insts(prog) /\ I \in Regs(prog) /\ v \in Insts(prog)
  BY DEF Found, Regs
<1>3. Root(prog, I) = I /\ ~IsPhi(prog, I)
  BY <1>1, <1>2, RegisterRoots DEF IsPhi
<1>4. Root(prog, v) # I
  BY <1>3, OldCopyIsDead
<1>5. v \in out[I]
  BY <1>2 DEF LiveKnown
<1>6. v \in Neighbours(I) /\ I \in Neighbours(v)
  BY <1>2, <1>5 DEF Neighbours
<1>7. I \in MovesMerged[Root(prog, v)]
  BY <1>2, <1>3, <1>4, <1>6, MovesMergedIsGraph
<1>8. SUFFICES ASSUME place[v] = place[I] PROVE FALSE
  OBVIOUS
<1>9. Standing(v) = Standing(I)
  BY <1>2, <1>5, <1>8 DEF Apart, NeededTogether
<1> DEFINE r == Root(prog, v)
<1>10. /\ Standing(v) = IF r \in PhiOperandRoots THEN PhiInto[r] ELSE r
       /\ Standing(I) = IF I \in PhiOperandRoots THEN PhiInto[I] ELSE I
  BY <1>3 DEF Standing
<1>11. I \notin AllPhis(prog)
  BY <1>3 DEF AllPhis
<1> HIDE DEF r
<1>12. I \in PhiOperandRoots
  <2>1. \A V \in PhiOperandRoots : PhiInto[V] \in AllPhis(prog)
    BY PhiMerges
  <2>2. r # I
    BY <1>4 DEF r
  <2> QED
    BY <1>9, <1>10, <1>11, <2>1, <2>2
<1>13. PICK i \in DOMAIN prog.args[PhiInto[I]] : Parent(PhiInto[I], i) = I
  BY <1>12, PhiMerges
<1>14. PhiInto[I] \in AllPhis(prog)
  BY <1>12, PhiMerges
<1>15. CASE r \in PhiOperandRoots
  <2>1. PhiInto[r] = PhiInto[I]
    BY <1>9, <1>10, <1>12, <1>15
  <2>2. PICK j \in DOMAIN prog.args[PhiInto[I]] : Parent(PhiInto[I], j) = r
    BY <1>15, <2>1, PhiMerges
  <2> QED
    BY <1>7, <1>13, <1>14, <2>2 DEF NoneTolerated, r
<1>16. CASE r \notin PhiOperandRoots
  <2>1. r = PhiInto[I]
    BY <1>9, <1>10, <1>12, <1>16
  <2> QED
    BY <1>7, <1>13, <1>14, <2>1 DEF NoneTolerated, r
<1> QED
  BY <1>15, <1>16

\* The operators of SSAProgram mean the same in the machine.
LEMMA MachineOperators ==
  /\ RM!NoValue = NoValue
  /\ \A p, I : RM!IsPhi(p, I) = IsPhi(p, I) /\ RM!BlockOf(p, I) = BlockOf(p, I)
                /\ RM!getNextNode(p, I) = getNextNode(p, I)
                /\ RM!Operands(p, I) = Operands(p, I)
  /\ \A p : RM!Insts(p) = Insts(p)
  /\ \A p, b : RM!getFirstNonPHI(p, b) = getFirstNonPHI(p, b) /\ RM!Phis(p, b) = Phis(p, b)
  /\ \A p, phi, b : RM!Incoming(p, phi, b) = Incoming(p, phi, b)
  /\ \A s : RM!Range(s) = Range(s)
<1>1. RM!NoValue = NoValue /\ \A p : RM!Insts(p) = Insts(p) /\ RM!Blocks(p) = Blocks(p)
  BY DEF RM!NoValue, NoValue, RM!Insts, Insts, RM!Blocks, Blocks
<1>2. \A p, I : RM!IsPhi(p, I) = IsPhi(p, I)
  BY DEF RM!IsPhi, IsPhi
<1>3. \A s, x : RM!Contains(s, x) = Contains(s, x)
  BY DEF RM!Contains, Contains
<1>4. \A p, I : RM!BlockOf(p, I) = BlockOf(p, I)
  BY <1>1, <1>3 DEF RM!BlockOf, BlockOf
<1>5. \A p, I : RM!IndexOf(p, I) = IndexOf(p, I)
  BY <1>4 DEF RM!IndexOf, IndexOf
<1>6. \A p, I : RM!getNextNode(p, I) = getNextNode(p, I)
  BY <1>1, <1>4, <1>5 DEF RM!getNextNode, getNextNode
<1>7. \A s : RM!Range(s) = Range(s)
  BY DEF RM!Range, Range
<1>8. \A p, I : RM!Operands(p, I) = Operands(p, I)
  BY <1>7 DEF RM!Operands, Operands, RM!IsInst, IsInst
<1>9. \A p, b : RM!getFirstNonPHI(p, b) = getFirstNonPHI(p, b)
  BY <1>2 DEF RM!getFirstNonPHI, getFirstNonPHI
<1>10. \A p, b : RM!Phis(p, b) = Phis(p, b)
  BY <1>2, <1>7 DEF RM!Phis, Phis
<1>11. \A S : RM!Min(S) = Min(S)
  BY DEF RM!Min, Min
<1>12. \A p, phi, b : RM!Incoming(p, phi, b) = Incoming(p, phi, b)
  BY <1>11 DEF RM!Incoming, Incoming
<1> QED
  BY <1>1, <1>2, <1>4, <1>6, <1>7, <1>8, <1>9, <1>10, <1>12

\* What stands for the same has the same register, and what is no register has none.
Placed ==
  /\ \A u, v \in Regs(prog) : Standing(u) = Standing(v) => place[u] = place[v]
  /\ \A v \in Insts(prog) \ Regs(prog) : place[v] = <<>>

\* Before I is executed the registers h hold whatever is live.
Holding(I, h) ==
  /\ I \in Points(prog) /\ isPotentiallyReachable(prog, BlockOf(prog, I))
  /\ DOMAIN h = RM!Places
  /\ \A v \in Regs(prog) : I \in LivePoints(prog, v) => v \in h[place[v]]

\* The places are those of registers and spill slots.
LEMMA PlacesOfRegisters ==
  ASSUME Apart, Placed
  PROVE  /\ \A v \in Regs(prog) : place[v] \in RM!Places /\ place[v] # <<>>
         /\ \A v \in Regs(prog) : \A n : place[v] # RM!Slot(n)
         /\ \A v \in Insts(prog) : place[v] # <<>> => v \in Regs(prog)
<1>1. \A v \in Regs(prog) : place[v] # <<>> /\ \A n : place[v] # <<"slot", n>>
  BY DEF Apart
<1>2. \A v \in Insts(prog) : place[v] # <<>> => place[v] \in RM!Places
  BY MachineOperators DEF RM!Places
<1>3. \A v \in Insts(prog) : place[v] # <<>> => v \in Regs(prog)
  BY DEF Placed
<1> QED
  BY <1>1, <1>2, <1>3 DEF RM!Slot, Regs

\* What is live at the point behind I was live at I.
LEMMA LiveBehind ==
  ASSUME IsFunction(prog), NEW I \in Points(prog), getNextNode(prog, I) # NoValue,
         NEW v \in Insts(prog), getNextNode(prog, I) \in LivePoints(prog, v)
  PROVE  v \in LiveOut(prog, I) /\ (v # I => I \in LivePoints(prog, v))
<1>1. getNextNode(prog, I) \in Follows(prog, I)
  BY DEF Follows
<1>2. ~RedefinedOn(prog, I, getNextNode(prog, I), v)
  BY DEF RedefinedOn
<1>3. v \in LiveOut(prog, I)
  BY <1>1, <1>2 DEF LiveOut, Points
<1> QED
  BY <1>3, LiveValuesSolve DEF LiveBefore

\* Behind an instruction that does not end its block comes another.
LEMMA GoesOn ==
  ASSUME IsFunction(prog), WellFormed(prog), NEW I \in Points(prog),
         prog.kind[I] \notin Terminators, isPotentiallyReachable(prog, BlockOf(prog, I))
  PROVE  /\ getNextNode(prog, I) # NoValue /\ getNextNode(prog, I) \in Points(prog)
         /\ isPotentiallyReachable(prog, BlockOf(prog, getNextNode(prog, I)))
<1>1. I \in Insts(prog) /\ BlockOf(prog, I) \in Blocks(prog)
  BY Places DEF Points
<1>2. I # getTerminator(prog, BlockOf(prog, I))
  BY <1>1 DEF WellFormed
<1>3. getNextNode(prog, I) # NoValue
  <2>1. IndexOf(prog, I) # Len(prog.body[BlockOf(prog, I)])
    BY <1>1, <1>2, Places DEF getTerminator, Last
  <2> QED
    BY <1>1, <2>1, NoNextInst
<1> QED
  BY <1>1, <1>3, NextInst

\* Nothing has been computed at the entry, and nothing is live there.
LEMMA EnterHolds ==
  ASSUME Allocatable(prog), RM!Enter
  PROVE  Holding(at', holds')
<1>1. IsFunction(prog) /\ WellFormed(prog) /\ 1 \in Blocks(prog)
  BY BlocksFlow DEF Allocatable, Ready, Sound
<1>2. at' = getFirstNonPHI(prog, 1) /\ holds' = [q \in RM!Places |-> {}]
  BY MachineOperators DEF RM!Enter
<1>3. at' \in Points(prog) /\ BlockOf(prog, at') = 1
  BY <1>1, <1>2, FirstPoint
<1>4. \A v \in Regs(prog) : at' \notin LivePoints(prog, v)
  BY <1>1, <1>2, NothingLiveAtEntry DEF Regs
<1> QED
  BY <1>1, <1>2, <1>3, <1>4, SuccessorReachable DEF Holding

\* What running an allocated function takes for granted.
Runnable ==
  Allocatable(prog) /\ LiveKnown /\ Numbered /\ Apart /\ Placed /\ NoneTolerated

\* What an instruction computes is in its register, and no live value was there.
LEMMA DefinitionHolds ==
  ASSUME Runnable, Holding(at, holds), RM!ExecuteDefinition
  PROVE  Holding(at', holds')
<1>1. IsFunction(prog) /\ WellFormed(prog) /\ MovesEnd(prog)
  BY DEF Runnable, Allocatable, Ready, Sound
<1>2. /\ at \in Points(prog) /\ at \in Insts(prog) /\ DOMAIN holds = RM!Places
      /\ isPotentiallyReachable(prog, BlockOf(prog, at))
  BY DEF Holding, Points
<1>3. /\ prog.kind[at] \in {"op", "const"} /\ at' = getNextNode(prog, at)
      /\ holds' = [r \in RM!Places |-> IF r = place[at] THEN {at} ELSE holds[r] \ {at}]
  BY MachineOperators DEF RM!ExecuteDefinition, RM!Write
<1>4. /\ at' # NoValue /\ at' \in Points(prog)
      /\ isPotentiallyReachable(prog, BlockOf(prog, at'))
  BY <1>1, <1>2, <1>3, GoesOn DEF Terminators
<1>5. at \in Found
  <2>1. at \in Int /\ ~isMoveInst(prog, at)
    BY <1>1, <1>2, <1>3 DEF IsFunction, isMoveInst
  <2>2. Root(prog, at) = at
    BY <1>1, <2>1, RootSteps
  <2> QED
    BY <1>2, <1>3, <2>2 DEF Found, Regs, isReg
<1>6. ASSUME NEW v \in Regs(prog), at' \in LivePoints(prog, v)
      PROVE  v \in holds'[place[v]]
  <2>1. v \in Insts(prog) /\ place[v] \in RM!Places
    BY PlacesOfRegisters DEF Runnable, Regs
  <2>2. v \in LiveOut(prog, at) /\ (v # at => at \in LivePoints(prog, v))
    BY <1>1, <1>2, <1>3, <1>4, <1>6, <2>1, LiveBehind
  <2>3. CASE v = at
    BY <1>3, <2>1, <2>3
  <2>4. CASE v # at
    <3>1. place[v] # place[at]
      BY <1>3, <1>5, <2>2, <2>4, WritesNothingLive DEF Runnable
    <3>2. v \in holds[place[v]]
      BY <2>2, <2>4 DEF Holding
    <3> QED
      BY <1>3, <2>1, <2>4, <3>1, <3>2
  <2> QED
    BY <2>3, <2>4
<1> QED
  BY <1>3, <1>4, <1>6 DEF Holding

\* A move leaves its own value in its register, beside the ones it shares it with.
LEMMA MoveHolds ==
  ASSUME Runnable, Holding(at, holds), RM!ExecuteMove
  PROVE  Holding(at', holds')
<1>1. IsFunction(prog) /\ WellFormed(prog) /\ MovesEnd(prog)
  BY DEF Runnable, Allocatable, Ready, Sound
<1>2. /\ at \in Points(prog) /\ at \in Insts(prog) /\ DOMAIN holds = RM!Places
      /\ isPotentiallyReachable(prog, BlockOf(prog, at))
  BY DEF Holding, Points
<1> DEFINE w == prog.args[at][1]
<1>3. /\ prog.kind[at] = "move" /\ at' = getNextNode(prog, at)
      /\ holds' = [r \in RM!Places |-> IF w \in holds[r] THEN holds[r] \cup {at}
                                                        ELSE holds[r] \ {at}]
  BY MachineOperators DEF RM!ExecuteMove
<1>4. /\ at' # NoValue /\ at' \in Points(prog)
      /\ isPotentiallyReachable(prog, BlockOf(prog, at'))
  BY <1>1, <1>2, <1>3, GoesOn DEF Terminators
<1>5. isMoveInst(prog, at)
  BY <1>2, <1>3 DEF isMoveInst
<1>6. at \in Regs(prog) => at \in LivePoints(prog, w) /\ w \in Regs(prog) /\ place[w] = place[at]
  <2> SUFFICES ASSUME at \in Regs(prog)
               PROVE  at \in LivePoints(prog, w) /\ w \in Regs(prog) /\ place[w] = place[at]
    OBVIOUS
  <2>1. Root(prog, at) = Root(prog, w) /\ w \in Regs(prog) /\ w \in Operands(prog, at)
    BY <1>2, <1>5, CopiedRegister DEF Runnable
  <2>2. at \in LivePoints(prog, w)
    BY <1>1, <1>2, <2>1, LiveValuesSolve DEF LiveBefore
  <2>3. Standing(at) = Standing(w)
    BY <2>1 DEF Standing
  <2> QED
    BY <2>1, <2>2, <2>3 DEF Runnable, Placed
<1>7. ASSUME NEW v \in Regs(prog), at' \in LivePoints(prog, v)
      PROVE  v \in holds'[place[v]]
  <2>1. v \in Insts(prog) /\ place[v] \in RM!Places
    BY PlacesOfRegisters DEF Runnable, Regs
  <2>2. CASE v = at
    <3>1. w \in holds[place[v]]
      BY <1>6, <2>2 DEF Holding
    <3> HIDE DEF w
    <3> QED
      BY <1>3, <2>1, <2>2, <3>1
  <2>3. CASE v # at
    <3>1. at \in LivePoints(prog, v)
      BY <1>1, <1>2, <1>3, <1>4, <1>7, <2>1, <2>3, LiveBehind
    <3>2. v \in holds[place[v]]
      BY <3>1 DEF Holding
    <3> HIDE DEF w
    <3> QED
      BY <1>3, <2>1, <2>3, <3>2
  <2> QED
    BY <2>2, <2>3
<1> HIDE DEF w
<1> QED
  BY <1>3, <1>4, <1>7 DEF Holding

\* Storing to the stack leaves the registers what they hold.
LEMMA StoreHolds ==
  ASSUME Runnable, Holding(at, holds), RM!ExecuteStore
  PROVE  Holding(at', holds')
<1>1. IsFunction(prog) /\ WellFormed(prog) /\ MovesEnd(prog)
  BY DEF Runnable, Allocatable, Ready, Sound
<1>2. /\ at \in Points(prog) /\ at \in Insts(prog) /\ DOMAIN holds = RM!Places
      /\ isPotentiallyReachable(prog, BlockOf(prog, at))
  BY DEF Holding, Points
<1>3. /\ prog.kind[at] \in {"noreg", "sp"} /\ at' = getNextNode(prog, at)
  BY MachineOperators DEF RM!ExecuteStore
<1>4. \/ holds' = holds
      \/ \E n : holds' = [r \in RM!Places |-> IF r = RM!Slot(n) THEN holds[place[prog.args[at][1]]]
                                                              ELSE holds[r] \ {at}]
  BY DEF RM!ExecuteStore, RM!Write
<1>5. /\ at' # NoValue /\ at' \in Points(prog)
      /\ isPotentiallyReachable(prog, BlockOf(prog, at'))
  BY <1>1, <1>2, <1>3, GoesOn DEF Terminators
<1>6. at \notin Regs(prog)
  <2>1. at \in Int /\ ~isMoveInst(prog, at)
    BY <1>1, <1>2, <1>3 DEF IsFunction, isMoveInst
  <2>2. Root(prog, at) = at
    BY <1>1, <2>1, RootSteps
  <2> QED
    BY <1>3, <2>2 DEF Regs, isReg
<1>7. ASSUME NEW v \in Regs(prog), at' \in LivePoints(prog, v)
      PROVE  v \in holds'[place[v]]
  <2>1. v \in Insts(prog) /\ place[v] \in RM!Places /\ \A n : place[v] # RM!Slot(n)
    BY PlacesOfRegisters DEF Runnable, Regs
  <2>2. v # at
    BY <1>6
  <2>3. at \in LivePoints(prog, v)
    BY <1>1, <1>2, <1>3, <1>5, <1>7, <2>1, <2>2, LiveBehind
  <2>4. v \in holds[place[v]]
    BY <2>3 DEF Holding
  <2> QED
    BY <1>4, <2>1, <2>2, <2>4
<1>8. DOMAIN holds' = RM!Places
  BY <1>2, <1>4
<1> QED
  BY <1>5, <1>7, <1>8 DEF Holding

\* A terminator ends its block.
LEMMA TerminatorsLast ==
  ASSUME IsFunction(prog), WellFormed(prog), NEW I \in Points(prog), prog.kind[I] \in Terminators
  PROVE  getNextNode(prog, I) = NoValue
<1> DEFINE b == BlockOf(prog, I)
           k == IndexOf(prog, I)
<1>1. I \in Insts(prog) /\ b \in Blocks(prog) /\ k \in 1..Len(prog.body[b]) /\ prog.body[b][k] = I
  BY Places DEF Points
<1>2. Len(prog.body[b]) \in Nat
  BY <1>1, CodeOf
<1>3. k \notin 1..(Len(prog.body[b]) - 1)
  BY <1>1 DEF WellFormed
<1>4. k = Len(prog.body[b])
  <2> HIDE DEF b, k
  <2> QED
    BY <1>1, <1>2, <1>3
<1> QED
  BY <1>1, <1>4, NoNextInst

\* On an edge the phis become names of what their operands are in, which is the same
\* register; all else stays where it is.
LEMMA BranchHolds ==
  ASSUME Runnable, Holding(at, holds), RM!ExecuteBranch
  PROVE  Holding(at', holds')
<1>1. IsFunction(prog) /\ WellFormed(prog) /\ MovesEnd(prog) /\ PhisReadRegisters(prog)
  BY DEF Runnable, Allocatable, Ready, Sound
<1> DEFINE b == BlockOf(prog, at)
<1>2. /\ at \in Points(prog) /\ at \in Insts(prog) /\ DOMAIN holds = RM!Places
      /\ isPotentiallyReachable(prog, b) /\ b \in Blocks(prog)
  BY <1>1, Places DEF Holding, Points
<1>3. prog.kind[at] = "term"
  BY DEF RM!ExecuteBranch
<1>4. PICK s \in Range(prog.succ[b]) :
        /\ at' = getFirstNonPHI(prog, s)
        /\ holds' = [r \in RM!Places |->
             (holds[r] \ Phis(prog, s))
               \cup {phi \in Phis(prog, s) : Incoming(prog, phi, b) \in holds[r]}]
  BY MachineOperators DEF RM!ExecuteBranch
<1>5. /\ s \in Blocks(prog) /\ isPotentiallyReachable(prog, s)
      /\ at' \in Points(prog) /\ BlockOf(prog, at') = s
  BY <1>1, <1>2, <1>4, FollowsPoints, SuccessorReachable, FirstPoint
<1>6. getNextNode(prog, at) = NoValue
  BY <1>1, <1>2, <1>3, TerminatorsLast DEF Terminators
<1>7. at \notin Regs(prog)
  <2>1. at \in Int /\ ~isMoveInst(prog, at)
    BY <1>1, <1>2, <1>3 DEF IsFunction, isMoveInst
  <2>2. Root(prog, at) = at
    BY <1>1, <2>1, RootSteps
  <2> QED
    BY <1>3, <2>2 DEF Regs, isReg
<1>8. \A r \in RM!Places : \A x :
        \/ x \in holds[r] /\ x \notin Phis(prog, s)
        \/ x \in Phis(prog, s) /\ Incoming(prog, x, b) \in holds[r]
        => x \in holds'[r]
  BY <1>4
<1> HIDE DEF b
<1>9. ASSUME NEW v \in Regs(prog), at' \in LivePoints(prog, v)
      PROVE  v \in holds'[place[v]]
  <2>1. v \in Insts(prog) /\ place[v] \in RM!Places
    BY PlacesOfRegisters DEF Runnable, Regs
  <2>2. CASE v \in Phis(prog, s)
    <3> DEFINE w == Incoming(prog, v, b)
    <3>1. w \in Insts(prog) /\ \E k \in DOMAIN prog.args[v] : prog.args[v][k] = w
      BY <1>1, <1>2, <1>4, <1>5, <2>2, IncomingOperand, IncomingPlace
    <3>2. v \in AllPhis(prog)
      BY <1>1, <1>5, <2>2, PhisAreInsts DEF AllPhis
    <3>3. PICK k \in DOMAIN prog.args[v] : prog.args[v][k] = w
      BY <3>1
    <3>4. w \in Regs(prog)
      BY <3>1, <3>2, <3>3 DEF Runnable, Allocatable, Ready, Sound, IncomingInRegisters, Regs, Range
    <3>5. Standing(w) = v
      <4>1. Root(prog, w) = Parent(v, k)
        BY <3>3 DEF Parent
      <4> QED
        BY <3>2, <4>1, PhiMerges DEF Standing, Runnable
    <3>6. Standing(v) = v
      <4>1. Root(prog, v) = v
        BY <1>1, <3>2, RegisterRoots DEF AllPhis, IsPhi
      <4> QED
        BY <3>2, <4>1, PhiMerges DEF Standing, Runnable
    <3>7. place[w] = place[v]
      BY <3>4, <3>5, <3>6 DEF Runnable, Placed
    <3>8. ReadOnEdge(prog, at, w)
      BY <1>4, <1>6, <2>2 DEF ReadOnEdge, b
    <3>9. at \in LivePoints(prog, w)
      <4>1. w \in LiveOut(prog, at) /\ w # at
        BY <1>2, <1>7, <3>1, <3>4, <3>8 DEF LiveOut, Points
      <4> QED
        BY <1>1, <1>2, <4>1, LiveValuesSolve DEF LiveBefore
    <3>10. w \in holds[place[v]]
      BY <3>4, <3>7, <3>9 DEF Holding
    <3> QED
      BY <1>8, <2>1, <2>2, <3>10
  <2>3. CASE v \notin Phis(prog, s)
    <3>1. at' \in Follows(prog, at)
      BY <1>4, <1>6 DEF Follows, b
    <3>2. ~RedefinedOn(prog, at, at', v)
      BY <1>5, <2>3 DEF RedefinedOn
    <3>3. at \in LivePoints(prog, v)
      BY <1>1, <1>2, <1>7, <1>9, <3>1, <3>2, LivePointsAreLeast
    <3>4. v \in holds[place[v]]
      BY <3>3 DEF Holding
    <3> QED
      BY <1>8, <2>1, <2>3, <3>4
  <2> QED
    BY <2>2, <2>3
<1>10. DOMAIN holds' = RM!Places
  BY <1>4
<1> QED
  BY <1>5, <1>9, <1>10 DEF Holding

\* Whatever the machine executes, the registers go on holding what is live.
LEMMA MachineHolds ==
  ASSUME Runnable, at # NoValue => Holding(at, holds), RM!MachineNext
  PROVE  Holding(at', holds')
<1>1. CASE RM!Enter
  BY <1>1, EnterHolds DEF Runnable
<1>2. CASE RM!ExecuteMove
  BY <1>2, MoveHolds, MachineOperators DEF RM!ExecuteMove
<1>3. CASE RM!ExecuteDefinition
  BY <1>3, DefinitionHolds, MachineOperators DEF RM!ExecuteDefinition
<1>4. CASE RM!ExecuteStore
  BY <1>4, StoreHolds, MachineOperators DEF RM!ExecuteStore
<1>5. CASE RM!ExecuteBranch
  BY <1>5, BranchHolds, MachineOperators DEF RM!ExecuteBranch
<1> QED
  BY <1>1, <1>2, <1>3, <1>4, <1>5 DEF RM!MachineNext

\* Then the registers hold what the next instruction reads.
LEMMA HoldingIsRead ==
  ASSUME Runnable, at # NoValue => Holding(at, holds)
  PROVE  RM!OperandsInRegisters
<1> SUFFICES ASSUME at # NoValue, NEW v \in Operands(prog, at), place[v] # <<>>
             PROVE  v \in holds[place[v]]
  BY MachineOperators DEF RM!OperandsInRegisters
<1>1. at \in Points(prog) /\ at \in Insts(prog) /\ IsFunction(prog)
  BY DEF Holding, Points, Runnable, Allocatable, Ready, Sound
<1>2. v \in Insts(prog)
  BY <1>1 DEF IsFunction
<1>3. v \in Regs(prog)
  BY <1>2, PlacesOfRegisters DEF Runnable
<1>4. at \in LivePoints(prog, v)
  BY <1>1, LiveValuesSolve DEF LiveBefore
<1> QED
  BY <1>3, <1>4 DEF Holding

-----------------------------------------------------------------------------
\* Allocating, then running.

\* What the machine takes for granted, phase by phase: the numbers go on following
\* dominance, and once the phis are merged nothing is tolerated that is not recorded.
ReadInv ==
  /\ AllocInv
  /\ phase \in {"resolve", "order", "color", "done"} => Numbered
  /\ phase \in {"order", "color", "spill", "done"} /\ tolerated = {} => NoneTolerated
  /\ phase = "done" => LiveKnown /\ Placed
  /\ phase # "done" => at = NoValue
  /\ phase = "done" /\ tolerated = {} /\ at # NoValue => Holding(at, holds)

\* It does not depend on anything but the function, the liveness sets and the numbers.
LEMMA NumbersStay ==
  ASSUME UNCHANGED <<prog, graphVars, inst2num>>
  PROVE  /\ Numbered => Numbered'
         /\ NoneTolerated => NoneTolerated'
<1>1. UNCHANGED <<prog, inst2num, MovesMerged>>
  BY InputsKeep
<1>2. \A phi, i : Parent(phi, i)' = Parent(phi, i)
  BY <1>1 DEF Parent
<1> QED
  BY <1>1, <1>2 DEF Numbered, NoneTolerated, Found

\* Nor do the places.
LEMMA PlacesStay ==
  ASSUME UNCHANGED raVars
  PROVE  /\ UNCHANGED place /\ UNCHANGED RM!Places
         /\ LiveKnown => LiveKnown'
         /\ Placed => Placed'
<1>1. UNCHANGED <<prog, graphVars, inst2num, general_reg_color, vector_reg_color>>
  BY DEF raVars, colorVars
<1>2. UNCHANGED <<prog, PhiOperandRoots, PhiInto>> /\ (LiveKnown => LiveKnown')
  BY <1>1, InputsKeep
<1>3. UNCHANGED place
  BY <1>1, <1>2 DEF place
<1>4. \A v : Standing(v)' = Standing(v)
  BY <1>2 DEF Standing
<1>5. UNCHANGED RM!Places
  BY <1>2, <1>3 DEF RM!Places, RM!Insts, RM!Slot
<1> QED
  BY <1>2, <1>3, <1>4, <1>5 DEF Placed

\* Holding is about the point and the registers alone as long as the function stays.
LEMMA HoldingStays ==
  ASSUME UNCHANGED raVars, Holding(at', holds')
  PROVE  Holding(at, holds)'
<1>1. UNCHANGED <<prog, place>> /\ UNCHANGED RM!Places
  BY PlacesStay DEF raVars
<1> QED
  BY <1>1 DEF Holding

\* CoalescePhis records every operand it tolerates.
LEMMA ToleratedIsRecorded ==
  ASSUME Allocatable(prog), inter_graph = MovesMerged, CoalescePhis, tolerated' = {}
  PROVE  NoneTolerated
<1>1. ASSUME NEW phi \in AllPhis(prog), NEW i \in DOMAIN prog.args[phi]
      PROVE  ~Interferes(phi, i)
  <2> DEFINE All == {{<<psi, k>> : k \in {j \in DOMAIN prog.args[psi] : Interferes(psi, j)}} :
                        psi \in AllPhis(prog)}
  <2>1. tolerated' = tolerated \cup UNION All
    BY DEF CoalescePhis
  <2>2. Interferes(phi, i) => <<phi, i>> \in UNION All
    OBVIOUS
  <2> HIDE DEF All
  <2> QED
    BY <2>1, <2>2
<1> QED
  BY <1>1 DEF NoneTolerated, Interferes, Inter

\* propagatePHINodeColors gives the operands of a phi its register.
LEMMA PlacedByPropagation ==
  ASSUME Allocatable(prog), LiveKnown, IC!Interfering, IC!WhileColoring, PropagateColors
  PROVE  Placed'
<1>1. prog' = prog
  BY DEF PropagateColors
<1>2. /\ \A v \in Regs(prog) : place'[v] = ColorPlace(v) /\ Standing(v)' = Standing(v)
      /\ \A v \in Insts(prog) \ Regs(prog) : place'[v] = <<>>
  BY PropagatedPlaces
<1>3. \A u, v : Standing(u) = Standing(v) => ColorPlace(u) = ColorPlace(v)
  BY DEF ColorPlace
<1> QED
  BY <1>1, <1>2, <1>3 DEF Placed

\* The machine stands still until there is something to run.
LEMMA ReadingStarts == Allocatable(prog) /\ StartAllocation(prog) /\ RM!StartMachine => ReadInv
  BY AllocationStarts, MachineOperators DEF StartAllocation, Fresh, RM!StartMachine, ReadInv

\* Allocation ...
LEMMA AllocatingKeepsReads ==
  ASSUME ReadInv, Allocate PROVE ReadInv'
<1>1. /\ AllocInv /\ AllocInv' /\ UNCHANGED <<at, holds>> /\ AllocateNext
  BY AllocationSteps DEF ReadInv, Next, Allocate
<1>2. CASE BuildGraph
  <2>1. phase \in {"collect", "solve", "built"} /\ phase' \in {"collect", "solve", "built"}
    BY <1>2 DEF BuildGraph, BuildNext, Descend, Retreat, CollectUnreachable, InitialSets, Visit,
                NextPass, Connect
  <2> QED
    BY <1>1, <2>1 DEF ReadInv
<1>3. CASE CoalesceMoves
  <2>1. /\ phase = "built" /\ phase' = "resolve" /\ UNCHANGED <<prog, graphVars, inst2num>>
    BY <1>3 DEF CoalesceMoves
  <2>2. Numbered
    BY <1>1, <2>1, NumberedByDominance DEF AllocInv, NumberedAfterDominated, Numbered
  <2>3. Numbered'
    BY <2>1, <2>2, NumbersStay
  <2> QED
    BY <1>1, <2>1, <2>3 DEF ReadInv
<1>4. CASE CopyPhiOperand \/ Spill
  <2>1. phase \in {"resolve", "spill"} /\ phase' = "collect"
    BY <1>4 DEF CopyPhiOperand, Spill, BuildAgain
  <2> QED
    BY <1>1, <2>1 DEF ReadInv
<1>5. CASE CopyVectorOperand \/ SpillWithoutLiteral
  <2>1. phase \in {"resolve", "spill"} /\ phase' = "crash"
    BY <1>5 DEF CopyVectorOperand, SpillWithoutLiteral
  <2> QED
    BY <1>1, <2>1 DEF ReadInv
<1>6. CASE CoalescePhis
  <2>1. phase = "resolve" /\ phase' = "order" /\ UNCHANGED <<prog, graphVars, inst2num>>
    BY <1>6 DEF CoalescePhis
  <2>2. Numbered /\ Allocatable(prog) /\ inter_graph = MovesMerged
    BY <1>1, <2>1 DEF ReadInv, AllocInv
  <2>3. tolerated' = {} => NoneTolerated
    BY <1>6, <2>2, ToleratedIsRecorded
  <2>4. Numbered' /\ (tolerated' = {} => NoneTolerated')
    BY <2>1, <2>2, <2>3, NumbersStay
  <2> QED
    BY <1>1, <2>1, <2>4 DEF ReadInv
<1>7. CASE OrderVertices \/ ReverseOrder \/ ColorVertices
  <2>1. /\ phase \in {"order", "color"} /\ phase' \in {"order", "color"}
        /\ UNCHANGED <<prog, graphVars, inst2num, tolerated>>
    <3>1. CASE OrderVertices
      BY <3>1, OrderingIsIC DEF OrderVertices
    <3>2. CASE ReverseOrder
      BY <3>2 DEF ReverseOrder
    <3>3. CASE ColorVertices
      BY <3>3 DEF ColorVertices
    <3> QED
      BY <1>7, <3>1, <3>2, <3>3
  <2>2. Numbered /\ (tolerated = {} => NoneTolerated)
    BY <2>1 DEF ReadInv
  <2>3. Numbered' /\ (tolerated' = {} => NoneTolerated')
    BY <2>1, <2>2, NumbersStay
  <2> QED
    BY <1>1, <2>1, <2>3 DEF ReadInv
<1>8. CASE PropagateColors
  <2>1. /\ phase = "color" /\ phase' \in {"done", "spill"}
        /\ UNCHANGED <<prog, graphVars, inst2num, tolerated>>
    BY <1>8 DEF PropagateColors
  <2>2. /\ Numbered /\ (tolerated = {} => NoneTolerated) /\ LiveKnown /\ Allocatable(prog)
        /\ IC!Interfering /\ IC!WhileColoring
    BY <1>1, <2>1 DEF ReadInv, AllocInv
  <2>3. Numbered' /\ (tolerated' = {} => NoneTolerated')
    BY <2>1, <2>2, NumbersStay
  <2>4. LiveKnown' /\ Placed'
    BY <1>8, <2>1, <2>2, InputsKeep, PlacedByPropagation
  <2>5. at' = NoValue
    BY <1>1, <2>1 DEF ReadInv
  <2> QED
    BY <1>1, <2>1, <2>3, <2>4, <2>5 DEF ReadInv
<1> QED
  BY <1>1, <1>2, <1>3, <1>4, <1>5, <1>6, <1>7, <1>8 DEF AllocateNext

\* ... running ...
LEMMA RunningKeepsReads ==
  ASSUME ReadInv, Run PROVE ReadInv'
<1>1. /\ AllocInv' /\ phase = "done" /\ UNCHANGED raVars /\ RM!MachineNext
  BY AllocationSteps DEF ReadInv, Next, Run
<1>2. /\ UNCHANGED <<phase, tolerated>> /\ UNCHANGED <<prog, graphVars, inst2num>>
  BY <1>1 DEF raVars
<1>3. /\ Numbered /\ LiveKnown /\ Placed /\ Apart /\ Allocatable(prog)
      /\ (tolerated = {} => NoneTolerated)
  BY <1>1 DEF ReadInv, AllocInv
<1>4. /\ Numbered' /\ LiveKnown' /\ Placed' /\ (tolerated' = {} => NoneTolerated')
  <2>1. Numbered' /\ (NoneTolerated => NoneTolerated')
    BY <1>2, <1>3, NumbersStay
  <2>2. LiveKnown' /\ Placed'
    BY <1>1, <1>3, PlacesStay
  <2> QED
    BY <1>2, <1>3, <2>1, <2>2
<1>5. ASSUME tolerated = {} PROVE Holding(at, holds)'
  <2>1. Runnable
    BY <1>3, <1>5 DEF Runnable
  <2>2. Holding(at', holds')
    BY <1>1, <1>5, <2>1, MachineHolds DEF ReadInv
  <2> QED
    BY <1>1, <2>2, HoldingStays
<1> QED
  BY <1>1, <1>2, <1>4, <1>5 DEF ReadInv

\* ... and standing still.
LEMMA ReadingSteps == ReadInv /\ [Next]_apVars => ReadInv'
<1>1. ASSUME ReadInv, UNCHANGED apVars PROVE ReadInv'
  <2>1. AllocInv' /\ UNCHANGED raVars /\ UNCHANGED <<at, holds>>
    BY <1>1, AllocationSteps DEF ReadInv, apVars
  <2>2. UNCHANGED <<phase, tolerated>> /\ UNCHANGED <<prog, graphVars, inst2num>>
    BY <2>1 DEF raVars
  <2>3. (Numbered => Numbered') /\ (NoneTolerated => NoneTolerated')
    BY <2>2, NumbersStay
  <2>4. (LiveKnown => LiveKnown') /\ (Placed => Placed')
    BY <2>1, PlacesStay
  <2>5. Holding(at, holds) => Holding(at, holds)'
    <3> SUFFICES ASSUME Holding(at, holds) PROVE Holding(at, holds)'
      OBVIOUS
    <3>1. Holding(at', holds')
      BY <2>1
    <3> QED
      BY <2>1, <3>1, HoldingStays
  <2> QED
    BY <1>1, <2>1, <2>2, <2>3, <2>4, <2>5 DEF ReadInv
<1> QED
  BY <1>1, AllocatingKeepsReads, RunningKeepsReads DEF Next

\* Whatever path the emitted program takes, every instruction it comes to finds in
\* the registers it reads the operands it names, for every function and every number
\* of registers: the registers assign() and propagateColors() choose, the edges
\* interferenceGraph() adds and the merging of the phis fit together.  As in the run
\* `allocate`, functions in which a phi operand was given up for uncopied are left
\* out.  The hypothesis is about a reload alone, and holds of every other instruction:
\* that the slot it reads holds the value that was spilled.
THEOREM RegistersReadCorrectly == Spec => [](RM!ReloadsFindValues => ReadsCorrectUnlessTolerated)
<1>1. ReadInv => (RM!ReloadsFindValues => ReadsCorrectUnlessTolerated)
  <2> SUFFICES ASSUME ReadInv, tolerated = {}, phase = "done" PROVE RM!OperandsInRegisters
    BY DEF ReadsCorrectUnlessTolerated, ReadsCorrect, RM!ReadsItsOperands
  <2> QED
    BY HoldingIsRead DEF ReadInv, Runnable, AllocInv
<1>2. Spec => []ReadInv
  BY ReadingStarts, ReadingSteps, PTL DEF Spec
<1> QED
  BY <1>1, <1>2, PTL

-----------------------------------------------------------------------------
\* The order in which the registers are coloured.

\* Where two values interfere, so do the definitions their chains of moves begin with: going
\* back along the chains, what the earlier of the two stands for is live where the later one
\* is computed.
LEMMA MergedNeighbour ==
  ASSUME Allocatable(prog), LiveKnown, Numbered, HasOnlyMoves(prog),
         NEW c \in Kept, NEW a \in MovesMerged[c], inst2num[c] < inst2num[a]
  PROVE  \E x \in Regs(prog) : Root(prog, x) = a /\ x \in LiveOut(prog, c)
<1> DEFINE num(I) == inst2num[I]
           Near(x, y) == y \in LiveOut(prog, x) \/ x \in LiveOut(prog, y)
           Pairs == {e \in Regs(prog) \X Regs(prog) :
                       Root(prog, e[1]) = c /\ Root(prog, e[2]) = a /\ Near(e[1], e[2])}
           Sums == {num(e[1]) + num(e[2]) : e \in Pairs}
<1>1. /\ IsFunction(prog) /\ MovesEnd(prog) /\ WellFormed(prog)
      /\ \A I \in Insts(prog) : ~IsPhi(prog, I) /\ isPotentiallyReachable(prog, BlockOf(prog, I))
  <2>1. IsFunction(prog) /\ MovesEnd(prog) /\ WellFormed(prog)
    BY DEF Allocatable, Ready, Sound
  <2>2. \A I \in Insts(prog) : BlockOf(prog, I) \in Blocks(prog)
    BY <2>1, Places
  <2> QED
    BY <2>1, <2>2 DEF HasOnlyMoves, AllPhis
<1>2. /\ Regs(prog) = Found /\ Regs(prog) \subseteq Insts(prog)
      /\ \A I \in Regs(prog) : num(I) \in Nat
  BY <1>1 DEF Found, Regs, LiveKnown
<1>3. a \in Kept /\ a # c /\ Pairs # {}
  <2>1. IC!IsGraph(MovesMerged) /\ DOMAIN MovesMerged = Kept
    BY MovesMergedIsGraph
  <2>2. a \in Kept /\ a # c
    BY <2>1 DEF IC!IsGraph
  <2>3. PICK u \in CO!Class(MoveRoots, c) : NeighbourGraph[u] \cap CO!Class(MoveRoots, a) # {}
    BY <2>1 DEF MovesMerged, CO!Quotient
  <2>4. PICK v \in CO!Class(MoveRoots, a) : v \in NeighbourGraph[u]
    BY <2>3
  <2>5. ASSUME NEW k \in Kept, NEW w \in CO!Class(MoveRoots, k)
        PROVE  w \in Regs(prog) /\ Root(prog, w) = k
    <3>1. CASE w = k
      BY <1>1, <3>1, RegisterRoots DEF Kept
    <3>2. CASE w \in DOMAIN MoveRoots /\ MoveRoots[w] = k
      BY <3>2 DEF MoveRoots
    <3> QED
      BY <2>5, <3>1, <3>2 DEF CO!Class
  <2>6. u \in Regs(prog) /\ v \in Regs(prog) /\ Root(prog, u) = c /\ Root(prog, v) = a
    BY <2>2, <2>3, <2>4, <2>5
  <2>7. Near(u, v)
    BY <1>2, <2>4, <2>6 DEF NeighbourGraph, Neighbours, LiveKnown
  <2>8. <<u, v>> \in Pairs
    BY <2>6, <2>7
  <2> HIDE DEF Pairs
  <2> QED
    BY <2>2, <2>8
<1>4. PICK x \in Regs(prog), y \in Regs(prog) :
        /\ Root(prog, x) = c /\ Root(prog, y) = a /\ Near(x, y)
        /\ \A u, v \in Regs(prog) : Root(prog, u) = c /\ Root(prog, v) = a /\ Near(u, v) =>
             num(u) + num(v) <= num(x) + num(y)
  <2>1. Sums \in SUBSET Nat /\ Sums # {}
    BY <1>2, <1>3
  <2>2. IsFiniteSet(Sums)
    <3>1. IsFiniteSet(Regs(prog))
      BY <1>1, <1>2, FS_Subset DEF IsFunction
    <3>2. IsFiniteSet(Regs(prog) \X Regs(prog))
      BY <3>1, FS_Product
    <3>3. IsFiniteSet(Pairs)
      BY <3>2, FS_Subset
    <3> HIDE DEF Pairs
    <3> DEFINE sum == [e \in Pairs |-> num(e[1]) + num(e[2])]
    <3>4. Sums = {sum[e] : e \in Pairs}
      OBVIOUS
    <3>5. sum \in [Pairs -> Sums] /\ \A m \in Sums : \E e \in Pairs : sum[e] = m
      OBVIOUS
    <3> HIDE DEF sum, Sums
    <3> QED
      BY <3>3, <3>5, FS_Surjection DEF Surjection
  <2>3. Max(Sums) \in Sums /\ \A n \in Sums : n <= Max(Sums)
    BY <2>1, <2>2, GreatestNatural
  <2>4. PICK e \in Pairs : Max(Sums) = num(e[1]) + num(e[2])
    BY <2>3
  <2>5. ASSUME NEW u \in Regs(prog), NEW v \in Regs(prog),
               Root(prog, u) = c, Root(prog, v) = a, Near(u, v)
        PROVE  num(u) + num(v) <= num(e[1]) + num(e[2])
    <3>1. <<u, v>> \in Pairs
      BY <2>5
    <3>2. num(u) + num(v) \in Sums
      BY <3>1
    <3> QED
      BY <2>3, <2>4, <3>2
  <2> QED
    BY <2>4, <2>5
<1> HIDE DEF Pairs, Sums
<1>5. ASSUME NEW u \in Regs(prog), NEW v \in Regs(prog), v \in LiveOut(prog, u), u # v,
             prog.kind[u] = "move"
      PROVE  \E w \in Regs(prog) : Root(prog, w) = Root(prog, u) /\ num(u) < num(w) /\ Near(w, v)
  <2> DEFINE w == prog.args[u][1]
  <2>1. /\ Root(prog, u) = Root(prog, w) /\ w \in Regs(prog) /\ w \in Operands(prog, u)
    BY <1>2, <1>5, CopiedRegister DEF isMoveInst
  <2>2. u \in Insts(prog) /\ u \in Points(prog) /\ v \in Insts(prog) /\ w \in Insts(prog)
    BY <1>1, <1>2, <2>1 DEF Points
  <2>3. w \in LiveBefore(prog, u) /\ v \in LiveBefore(prog, u)
    BY <1>1, <1>5, <2>1, <2>2, LiveValuesSolve
  <2>4. Near(w, v)
    BY <1>1, <2>2, <2>3, LiveTogether
  <2>5. DefDominates(prog, w, u)
    BY <1>1, <2>1, <2>2 DEF WellFormed
  <2>6. w # u
    BY <1>1, <2>2, <2>5, DefinitionReachable
  <2>7. num(u) < num(w)
    BY <1>2, <2>1, <2>5, <2>6 DEF Numbered
  <2> QED
    BY <2>1, <2>4, <2>7
<1>6. x # y
  BY <1>3, <1>4
<1>7. /\ num(x) \in Nat /\ num(y) \in Nat /\ num(c) \in Nat /\ num(a) \in Nat
  BY <1>2, <1>3 DEF Kept
<1>8. CASE y \in LiveOut(prog, x)
  <2>1. prog.kind[x] # "move"
    <3> SUFFICES ASSUME prog.kind[x] = "move" PROVE FALSE
      OBVIOUS
    <3>1. PICK w \in Regs(prog) : Root(prog, w) = c /\ num(x) < num(w) /\ Near(w, y)
      BY <1>4, <1>5, <1>6, <1>8
    <3>2. num(w) + num(y) <= num(x) + num(y) /\ num(w) \in Nat
      BY <1>2, <1>4, <3>1
    <3> QED
      BY <1>7, <3>1, <3>2
  <2>2. x = c
    BY <1>1, <1>4, <2>1, RegisterRoots
  <2> QED
    BY <1>4, <1>8, <2>2
<1>9. CASE x \in LiveOut(prog, y)
  <2>1. prog.kind[y] # "move"
    <3> SUFFICES ASSUME prog.kind[y] = "move" PROVE FALSE
      OBVIOUS
    <3>1. PICK w \in Regs(prog) : Root(prog, w) = a /\ num(y) < num(w) /\ Near(w, x)
      BY <1>4, <1>5, <1>6, <1>9
    <3>2. num(x) + num(w) <= num(x) + num(y) /\ num(w) \in Nat
      BY <1>2, <1>4, <3>1
    <3> QED
      BY <1>7, <3>1, <3>2
  <2>2. y = a
    BY <1>1, <1>4, <2>1, RegisterRoots
  <2>3. DefDominates(prog, x, y)
    BY <1>1, <1>2, <1>6, <1>9, LiveAfterIsDominated
  <2>4. num(a) < num(x)
    BY <1>2, <1>6, <2>2, <2>3 DEF Numbered
  <2>5. x = c \/ num(x) < num(c)
    BY <1>2, <1>4, CopiesNumberedBefore
  <2> QED
    BY <1>7, <2>4, <2>5
<1> QED
  BY <1>4, <1>8, <1>9

\* So the numbers are perfect for the graph the moves are merged in.
LEMMA MergedNumbersPerfect ==
  ASSUME Allocatable(prog), LiveKnown, Numbered, HasOnlyMoves(prog)
  PROVE  IC!PerfectlyNumbered(MovesMerged, inst2num)
<1>1. IC!IsGraph(MovesMerged) /\ DOMAIN MovesMerged = Kept
  BY MovesMergedIsGraph
<1> SUFFICES ASSUME NEW c \in Kept, NEW a \in MovesMerged[c], NEW b \in MovesMerged[c],
                    inst2num[c] < inst2num[a], inst2num[c] < inst2num[b], a # b
             PROVE  b \in MovesMerged[a]
  BY <1>1 DEF IC!PerfectlyNumbered
<1>2. IsFunction(prog) /\ WellFormed(prog) /\ MovesEnd(prog)
  BY DEF Allocatable, Ready, Sound
<1>3. PICK x \in Regs(prog) : Root(prog, x) = a /\ x \in LiveOut(prog, c)
  BY MergedNeighbour
<1>4. PICK y \in Regs(prog) : Root(prog, y) = b /\ y \in LiveOut(prog, c)
  BY MergedNeighbour
<1>5. c \in Insts(prog) /\ Root(prog, c) = c /\ a # c /\ b # c
  BY <1>1, <1>2, RegisterRoots DEF Kept, IC!IsGraph
<1>6. isPotentiallyReachable(prog, BlockOf(prog, c))
  BY <1>2, <1>5, Places DEF HasOnlyMoves
<1>7. y \in LiveOut(prog, x) \/ x \in LiveOut(prog, y)
  BY <1>2, <1>3, <1>4, <1>5, <1>6, LiveAfterTogether
<1>8. y \in Neighbours(x)
  BY <1>3, <1>4, <1>7 DEF Neighbours, LiveKnown, Regs
<1> QED
  BY <1>3, <1>4, <1>8, MovesMergedIsGraph

\* Reversed, an order in which each vertex leaves a clique is perfect.
LEMMA ReversedIsPerfect ==
  ASSUME IC!OrderedPerfectly, NEW S, order \in Seq(S), IC!NoRepeats(order)
  PROVE  IsPerfectOrder(inter_graph, Reverse(order))
<1> DEFINE n == Len(order)
           s == Reverse(order)
<1>1. n \in Nat /\ s = [i \in 1..n |-> order[(n - i) + 1]]
  BY DEF Reverse
<1>2. Len(s) = n /\ \A i \in 1..n : s[i] = order[(n - i) + 1] /\ (n - i) + 1 \in 1..n
  BY <1>1
<1> HIDE DEF s
<1> SUFFICES ASSUME NEW i \in 1..n, NEW j \in 1..n, NEW k \in 1..n, i < j, j < k,
                    s[i] \in inter_graph[s[k]], s[j] \in inter_graph[s[k]]
             PROVE  s[i] \in inter_graph[s[j]]
  BY <1>2 DEF IsPerfectOrder, s
<1> DEFINE K == (n - k) + 1
           J == (n - j) + 1
           L == (n - i) + 1
           gone == {order[h] : h \in 1..K}
<1>3. /\ K \in 1..n /\ J \in 1..n /\ L \in 1..n /\ K < J /\ J < L
      /\ s[k] = order[K] /\ s[j] = order[J] /\ s[i] = order[L]
  BY <1>1, <1>2
<1> HIDE DEF K, J, L
<1>4. order[J] \notin gone /\ order[L] \notin gone /\ order[J] # order[L]
  <2>1. \A h, m \in 1..n : order[h] = order[m] => h = m
    BY DEF IC!NoRepeats
  <2>2. ASSUME NEW h \in 1..K PROVE h \in 1..n /\ h # J /\ h # L
    <3>1. K \in Int /\ J \in Int /\ L \in Int /\ n \in Int /\ K < J /\ J < L /\ K <= n
      BY <1>1, <1>3
    <3> QED
      BY <3>1
  <2>3. J # L
    BY <1>3
  <2> QED
    BY <1>3, <2>1, <2>2, <2>3
<1>5. IC!LeavesClique(order[K], gone)
  BY <1>3 DEF IC!OrderedPerfectly
<1> QED
  BY <1>3, <1>4, <1>5 DEF IC!LeavesClique

\* What follows from the numbers as the phases go by.
PerfectInv ==
  /\ ReadInv
  /\ HasOnlyMoves(prog) => /\ phase = "order" => IC!Perfecting
                           /\ phase = "color" => IsPerfectOrder(inter_graph, order)

\* Without phis PerfectEliminationOrdering starts on the graph of the merged moves.
LEMMA PerfectingBegins ==
  ASSUME Allocatable(prog), LiveKnown, Numbered, inter_graph = MovesMerged, CoalescePhis,
         HasOnlyMoves(prog)
  PROVE  IC!Perfecting'
<1>1. /\ UNCHANGED <<prog, graphVars, inst2num>>
      /\ adj' = inter_graph' /\ Q' = <<>> /\ order' = <<>>
  BY DEF CoalescePhis
<1>2. /\ IC!IsGraph(MovesMerged) /\ DOMAIN MovesMerged = Kept /\ Kept \subseteq Regs(prog)
      /\ UNCHANGED <<MovesMerged, inst2num>>
  BY <1>1, InputsKeep, MovesMergedIsGraph DEF Kept
<1>3. inter_graph' = MovesMerged
  <2>1. PhiOperandRoots = {}
    BY DEF HasOnlyMoves, PhiOperandRoots
  <2>2. DOMAIN PhiInto = {}
    BY <2>1 DEF PhiInto
  <2>3. inter_graph' = IC!Handed'
    BY PhisAreCoalesced
  <2>4. IC!Handed' = IC!Handed
    BY <1>1, InputsKeep DEF IC!Handed, IC!Quotient, IC!Class
  <2>5. IC!Handed = MovesMerged
    BY <2>2 DEF IC!Handed
  <2> QED
    BY <2>3, <2>4, <2>5
<1>4. IC!PerfectlyNumbered(inter_graph', inst2num')
  BY <1>2, <1>3, MergedNumbersPerfect
<1>5. \A I, J \in DOMAIN inter_graph' : inst2num'[I] = inst2num'[J] => I = J
  BY <1>2, <1>3 DEF LiveKnown
<1>6. IC!Entries(Q') = {} /\ 1..Len(order') = {}
  BY <1>1 DEF IC!Entries
<1> QED
  BY <1>1, <1>4, <1>5, <1>6 DEF IC!Perfecting, IC!OrderedPerfectly, IC!PerfectlyNumbered,
                                IC!Vertices, IC!Entries, IC!LeavesClique

\* The allocation keeps the order perfect.
LEMMA PerfectAllocation ==
  ASSUME PerfectInv, AllocateNext, ReadInv', HasOnlyMoves(prog)'
  PROVE  /\ phase' = "order" => IC!Perfecting'
         /\ phase' = "color" => IsPerfectOrder(inter_graph', order')
<1>1. ReadInv /\ AllocInv /\ AllocInv'
  BY DEF PerfectInv, ReadInv
<1>2. CASE BuildGraph
  <2>1. phase' \in {"collect", "solve", "built"}
    BY <1>2 DEF BuildGraph, BuildNext, Descend, Retreat, CollectUnreachable, InitialSets, Visit,
                NextPass, Connect
  <2> QED
    BY <2>1
<1>3. CASE CoalesceMoves
  BY <1>3 DEF CoalesceMoves
<1>4. CASE CopyPhiOperand \/ Spill
  BY <1>4 DEF CopyPhiOperand, Spill, BuildAgain
<1>5. CASE CopyVectorOperand \/ SpillWithoutLiteral
  BY <1>5 DEF CopyVectorOperand, SpillWithoutLiteral
<1>6. CASE CoalescePhis
  <2>1. phase = "resolve" /\ phase' = "order" /\ prog' = prog
    BY <1>6 DEF CoalescePhis
  <2>2. /\ Allocatable(prog) /\ LiveKnown /\ Numbered /\ inter_graph = MovesMerged
        /\ HasOnlyMoves(prog)
    BY <1>1, <2>1 DEF ReadInv, AllocInv
  <2> QED
    BY <1>6, <2>1, <2>2, PerfectingBegins
<1>7. CASE OrderVertices
  <2>1. /\ phase = "order" /\ prog' = prog /\ phase' = phase /\ IC!OrderNext
    BY <1>7, OrderingIsIC DEF OrderVertices
  <2>2. IC!OrderInv /\ IC!OrderInv' /\ IC!Perfecting
    BY <1>1, <2>1 DEF AllocInv, PerfectInv
  <2> QED
    BY <2>1, <2>2, IC!PerfectingSteps
<1>8. CASE ReverseOrder
  <2>1. /\ phase = "order" /\ phase' = "color" /\ EO!Ordered /\ order' = Reverse(order)
        /\ UNCHANGED <<prog, inter_graph>>
    BY <1>8 DEF ReverseOrder
  <2>2. IC!OrderInv /\ IC!Perfecting
    BY <1>1, <2>1 DEF AllocInv, PerfectInv
  <2>3. IC!NoRepeats(order) /\ order \in Seq(IC!Vertices)
    BY <2>2, IC!Distinct DEF IC!OrderInv, IC!OrderTypeOK
  <2>4. IC!OrderedPerfectly
    BY <2>2 DEF IC!Perfecting
  <2> QED
    BY <2>1, <2>3, <2>4, ReversedIsPerfect
<1>9. CASE ColorVertices
  <2>1. phase = "color" /\ phase' = "color" /\ prog' = prog
    BY <1>9 DEF ColorVertices
  <2>2. UNCHANGED <<inter_graph, order>>
    BY <1>9 DEF ColorVertices, GC!ColorNext, GC!ColorGeneral, GC!ColorVector, GC!ColorNone,
                GC!inputVars
  <2> QED
    BY <2>1, <2>2 DEF PerfectInv
<1>10. CASE PropagateColors
  BY <1>10 DEF PropagateColors
<1> QED
  BY <1>2, <1>3, <1>4, <1>5, <1>6, <1>7, <1>8, <1>9, <1>10 DEF AllocateNext

\* Every step keeps PerfectInv.
LEMMA PerfectSteps == PerfectInv /\ [Next]_apVars => PerfectInv'
<1> SUFFICES ASSUME PerfectInv, [Next]_apVars PROVE PerfectInv'
  OBVIOUS
<1>1. ReadInv /\ ReadInv'
  BY ReadingSteps DEF PerfectInv
<1>2. CASE AllocateNext
  BY <1>1, <1>2, PerfectAllocation DEF PerfectInv
<1>3. CASE UNCHANGED raVars
  <2>1. UNCHANGED <<prog, phase, inter_graph, inst2num, adj, C, Q, visit, rest, size, order>>
    BY <1>3 DEF raVars, orderVars
  <2>2. phase = "order" /\ IC!Perfecting => IC!Perfecting'
    <3> SUFFICES ASSUME phase = "order", IC!Perfecting PROVE IC!Perfecting'
      OBVIOUS
    <3>1. IC!OrderInv /\ IC!OrderInv'
      BY <1>1, <2>1 DEF ReadInv, AllocInv
    <3> QED
      BY <2>1, <3>1, IC!PerfectingSteps DEF IC!eoVars
  <2> QED
    BY <1>1, <2>1, <2>2 DEF PerfectInv
<1> QED
  BY <1>2, <1>3 DEF Next, Allocate, Run, apVars

\* So it holds throughout.
LEMMA PerfectInvHolds == Spec => []PerfectInv
<1>1. Allocatable(prog) /\ StartAllocation(prog) /\ RM!StartMachine => PerfectInv
  BY ReadingStarts DEF StartAllocation, Fresh, PerfectInv
<1> QED
  BY <1>1, PerfectSteps, PTL DEF Spec

\* A function without phis all of whose code can be reached is coloured along a perfect
\* order.  makeInterferenceGraph numbers a value after whatever its definition dominates, so
\* the numbers are a perfect elimination order by themselves, and merging the moves keeps
\* them one; PerfectEliminationOrdering lists a vertex only when what it leaves behind is a
\* clique, be it because its count is 0 or because its number is the lowest.
THEOREM PerfectColoringOrder == Spec => []PerfectWithoutPhis
<1>1. PerfectInv => PerfectWithoutPhis
  BY DEF PerfectInv, PerfectWithoutPhis
<1> QED
  BY <1>1, PerfectInvHolds, PTL

\* Then GreedyColoring wastes no register: a value gets its colour only when as many values
\* of the bank, itself among them, interfere with one another.
NoRegisterWasted ==
  phase = "color" /\ HasOnlyMoves(prog) =>
    /\ \A I \in DOMAIN general_reg_color :
         GC!InClique(general_reg_color, I, general_reg_color[I])
    /\ \A I \in DOMAIN vector_reg_color :
         GC!InClique(vector_reg_color, I, vector_reg_color[I])

\* In a function without phis no colour is wasted.
THEOREM RegistersAreNeeded == Spec => []NoRegisterWasted
<1>1. PerfectInv => NoRegisterWasted
  <2> SUFFICES ASSUME PerfectInv, phase = "color", HasOnlyMoves(prog) PROVE NoRegisterWasted
    BY DEF NoRegisterWasted
  <2>1. IC!OptimalOnPerfectOrder
    BY DEF PerfectInv, ReadInv, AllocInv, IC!WhileColoring
  <2>2. IC!PerfectOrder
    <3>1. order \in Seq(DOMAIN inter_graph)
      BY DEF PerfectInv, ReadInv, AllocInv, IC!WhileColoring, IC!ColorInv, IC!ColorTypeOK, IC!Inputs
    <3>2. IsPerfectOrder(inter_graph, order)
      BY DEF PerfectInv
    <3> QED
      BY <3>1, <3>2 DEF IsPerfectOrder, IC!PerfectOrder
  <2>3. \A color, I, c : IC!InClique(color, I, c) => GC!InClique(color, I, c)
    BY SameOperators DEF IC!InClique, GC!InClique
  <2> QED
    BY <2>1, <2>2, <2>3 DEF IC!OptimalOnPerfectOrder, NoRegisterWasted
<1> QED
  BY <1>1, PerfectInvHolds, PTL

-----------------------------------------------------------------------------
\* Rounds of spilling.

\* What settles has no more values to spill.
LEMMA SettledSpillsLess ==
  ASSUME NEW p, NEW q, Legal(p), Legal(q), Grown(p, q), Settles(p, q)
  PROVE  /\ CanBeSpilled(q) \subseteq CanBeSpilled(p)
         /\ \A I \in q.noSpill : I \notin CanBeSpilled(q)
<1>1. ASSUME NEW I \in CanBeSpilled(q) PROVE I \in CanBeSpilled(p) /\ I \notin q.noSpill
  <2>1. I \in Regs(q) /\ I \notin q.noSpill /\ (Stored(q, I) \/ Users(q, I) # {})
    BY <1>1 DEF CanBeSpilled, HasCost
  <2>2. I \in Insts(p) /\ I \notin p.noSpill
    BY <2>1 DEF Settles, Regs
  <2>3. I \in Regs(p) /\ q.kind[I] = p.kind[I]
    BY <2>1, <2>2 DEF Grown, Regs
  <2>4. Users(q, I) \subseteq Users(p, I)
    BY <2>1, <2>3 DEF Settles
  <2>5. Stored(q, I) => Stored(p, I)
    BY <2>2, <2>3 DEF Stored
  <2> QED
    BY <2>1, <2>2, <2>3, <2>4, <2>5 DEF CanBeSpilled, HasCost
<1> QED
  BY <1>1

\* Every register has a colour, itself or through what it copies.
AllColored ==
  \A v \in Regs(prog) :
    Root(prog, v) \in DOMAIN general_reg_color \cup DOMAIN vector_reg_color

\* Where something can be spilled and all is coloured, some colour is worth spilling.
LEMMA SomethingIsSpilled ==
  ASSUME AllColored, NEW I \in CanBeSpilled(prog),
         NEW general \in Spillable(general_reg_color), NEW vector \in Spillable(vector_reg_color)
  PROVE  \E J \in general \cup vector : J \in CanBeSpilled(prog)
<1>1. ASSUME NEW color, Root(prog, I) \in DOMAIN color, NEW S \in Spillable(color)
      PROVE  \E J \in S : J \in CanBeSpilled(prog)
  <2> DEFINE classes == {ColorClass(color, c) : c \in Range(color)}
             costly  == {X \in classes : HasCost(prog, X)}
             T == ColorClass(color, color[Root(prog, I)])
  <2>1. I \in Regs(prog) /\ HasCost(prog, {I})
    BY DEF CanBeSpilled
  <2>2. color[Root(prog, I)] \in Range(color) /\ I \in T
    BY <1>1, <2>1 DEF Range, ColorClass
  <2>3. HasCost(prog, T)
    BY <2>1, <2>2 DEF HasCost
  <2>4. T \in costly
    BY <2>2, <2>3
  <2>5. S \in costly
    BY <1>1, <2>4 DEF Spillable
  <2>6. HasCost(prog, S) /\ S \subseteq Regs(prog)
    BY <2>5 DEF ColorClass
  <2> QED
    BY <2>6 DEF HasCost, CanBeSpilled
<1> QED
  BY <1>1 DEF AllColored, CanBeSpilled

\* A round of spilling leaves less to spill.
LEMMA SpillingSpills ==
  ASSUME Allocatable(prog), AllColored, Spill, CanBeSpilled(prog) # {}
  PROVE  Cardinality(CanBeSpilled(prog')) < Cardinality(CanBeSpilled(prog))
<1>1. PICK general \in Spillable(general_reg_color), vector \in Spillable(vector_reg_color) :
         BuildAgain(SpillColors(prog, general, vector))
  BY DEF Spill
<1>2. StackPointers(prog) = {} \/ LiteralFrame(prog)
  BY DEF Spill, SpillCrashes
<1>3. general \subseteq Regs(prog) /\ vector \subseteq Regs(prog)
  BY DEF Spillable, ColorClass
<1> DEFINE p == WithStackPointer(prog)
           q == InsertLoadStore(p, general, 8)
           r == InsertLoadStore(q, vector, 32)
<1>4. Framed(p) /\ Grown(prog, p) /\ Settles(prog, p)
  BY <1>2, StackPointerComes
<1> HIDE DEF p
<1>5. Framed(q) /\ Grown(p, q) /\ Settles(p, q) /\ general \subseteq q.noSpill
  <2>1. general \subseteq Regs(p)
    BY <1>3, <1>4, GrownRegs
  <2> QED
    BY <1>4, <2>1, SlotsKeep
<1> HIDE DEF q
<1>6. Framed(r) /\ Grown(q, r) /\ Settles(q, r) /\ vector \subseteq r.noSpill
  <2>1. vector \subseteq Regs(q)
    BY <1>3, <1>4, <1>5, GrownRegs
  <2> QED
    BY <1>5, <2>1, SlotsKeep
<1>7. prog' = r
  BY <1>1 DEF BuildAgain, SpillColors, p, q
<1> HIDE DEF r
<1>8. Grown(prog, r) /\ Settles(prog, r)
  BY <1>4, <1>5, <1>6, GrownTransitive, SettlesTransitive
<1>9. Legal(prog) /\ Legal(r)
  BY <1>6 DEF Framed, Allocatable, Ready, Sound, Legal
<1>10. PICK J \in general \cup vector : J \in CanBeSpilled(prog)
  BY <1>1, SomethingIsSpilled
<1>11. J \in r.noSpill
  BY <1>5, <1>6 DEF Settles
<1>12. CanBeSpilled(r) \subseteq CanBeSpilled(prog) /\ J \notin CanBeSpilled(r)
  BY <1>8, <1>9, <1>11, SettledSpillsLess
<1>13. IsFiniteSet(CanBeSpilled(prog))
  <2>1. IsFiniteSet(Insts(prog)) /\ CanBeSpilled(prog) \subseteq Insts(prog)
    BY <1>9 DEF Legal, Sound, IsFunction, CanBeSpilled, Regs
  <2> QED
    BY <2>1, FS_Subset
<1>14. /\ Cardinality(CanBeSpilled(r)) <= Cardinality(CanBeSpilled(prog))
       /\ Cardinality(CanBeSpilled(r)) # Cardinality(CanBeSpilled(prog))
       /\ Cardinality(CanBeSpilled(r)) \in Nat /\ Cardinality(CanBeSpilled(prog)) \in Nat
  <2>1. IsFiniteSet(CanBeSpilled(r))
    BY <1>12, <1>13, FS_Subset
  <2> QED
    BY <1>10, <1>12, <1>13, <2>1, FS_Subset, FS_CardinalityType
<1> QED
  BY <1>7, <1>14

\* When registers do not suffice every value has been coloured.
LEMMA PropagationColorsAll ==
  ASSUME Allocatable(prog), LiveKnown, IC!Interfering, IC!WhileColoring, PropagateColors
  PROVE  AllColored'
<1>1. UNCHANGED prog
  BY DEF PropagateColors
<1>2. SUFFICES ASSUME NEW v \in Regs(prog)
               PROVE  Root(prog, v) \in DOMAIN general_reg_color' \cup DOMAIN vector_reg_color'
  BY <1>1 DEF AllColored
<1>3. place'[v] # <<>>
  <2>1. place'[v] = ColorPlace(v)
    BY <1>2, PropagatedPlaces
  <2>2. \A a, b : <<a, b>> # <<>>
    OBVIOUS
  <2> QED
    BY <2>1, <2>2 DEF ColorPlace
<1>4. v \in Insts(prog)
  BY DEF Regs
<1>5. place'[v] = CASE Root(prog, v) \in DOMAIN general_reg_color' ->
                         <<"r", general_reg_color'[Root(prog, v)]>>
                    [] Root(prog, v) \in DOMAIN vector_reg_color' ->
                         <<"v", vector_reg_color'[Root(prog, v)]>>
                    [] OTHER -> <<>>
  BY <1>1, <1>4 DEF place
<1> QED
  BY <1>3, <1>5

SpillInv == AllocInv /\ (phase = "spill" => AllColored)

\* Every step keeps SpillInv.
LEMMA SpillSteps == SpillInv /\ [Next]_apVars => SpillInv'
<1> SUFFICES ASSUME SpillInv, [Next]_apVars, phase' = "spill" PROVE AllColored'
  BY AllocationSteps DEF SpillInv
<1>1. CASE PropagateColors
  <2>1. Allocatable(prog) /\ LiveKnown /\ IC!Interfering /\ IC!WhileColoring
    BY <1>1 DEF SpillInv, AllocInv, PropagateColors
  <2> QED
    BY <1>1, <2>1, PropagationColorsAll
<1>2. CASE AllocateNext /\ ~PropagateColors
  BY <1>2 DEF AllocateNext, BuildGraph, BuildNext, Descend, Retreat, CollectUnreachable,
              InitialSets, Visit, NextPass, Connect, CoalesceMoves, CopyPhiOperand, BuildAgain,
              CopyVectorOperand, CoalescePhis, OrderVertices, ReverseOrder, ColorVertices, Spill,
              SpillWithoutLiteral, AllocInv, SpillInv
<1>3. CASE UNCHANGED raVars
  BY <1>3 DEF SpillInv, raVars, colorVars, AllColored
<1> QED
  BY <1>1, <1>2, <1>3 DEF Next, Allocate, Run, apVars

\* While spilling some colour is worth something, each round of spillColors leaves fewer
\* values that could be spilled: what insertLoadStore inserts is never spilled itself, and
\* none of it reads a value that may still be.  So there are only finitely many such rounds.
THEOREM SpillingShrinks == Spec => SpillingProgresses
<1>1. SpillInv /\ [Next]_apVars =>
        [phase = "spill" /\ phase' = "collect" /\ CanBeSpilled(prog) # {} =>
           Cardinality(CanBeSpilled(prog')) < Cardinality(CanBeSpilled(prog))]_apVars
  <2> SUFFICES ASSUME SpillInv, [Next]_apVars, phase = "spill", phase' = "collect",
                      CanBeSpilled(prog) # {}
               PROVE  Cardinality(CanBeSpilled(prog')) < Cardinality(CanBeSpilled(prog))
    OBVIOUS
  <2>1. Spill
    BY DEF Next, Allocate, Run, apVars, raVars, AllocateNext, BuildGraph, BuildNext, Descend,
           Retreat, CollectUnreachable, InitialSets, Visit, NextPass, Connect, CoalesceMoves,
           CopyPhiOperand, CopyVectorOperand, CoalescePhis, OrderVertices, ReverseOrder,
           ColorVertices, PropagateColors, SpillWithoutLiteral
  <2> QED
    BY <2>1, SpillingSpills DEF SpillInv, AllocInv
<1>2. Allocatable(prog) /\ StartAllocation(prog) => SpillInv
  BY AllocationStarts DEF SpillInv, StartAllocation, Fresh
<1> QED
  BY <1>1, <1>2, SpillSteps, PTL DEF Spec, SpillingProgresses
=============================================================================
