---------------------------- MODULE AddressLayout ----------------------------
(***************************************************************************)
(* What laying out variables in one block of memory promises.  Both        *)
(* gv_eliminate.cpp and alloca_eliminate.cpp do it: variable after         *)
(* variable is put at the end of what is laid out, and the end goes up to  *)
(* the next multiple of eight.  LowerModule implements this module.        *)
(***************************************************************************)
EXTENDS Integers, Sequences, TLAPS

VARIABLES
  sizes,      \* of the variables, in bytes
  offset,     \* where those laid out so far begin
  acc         \* where the next one will

vars == <<sizes, offset, acc>>

Init == sizes \in Seq(Nat) /\ offset = <<>> /\ acc = 0

Place ==
  /\ Len(offset) < Len(sizes)
  /\ offset' = Append(offset, acc)
  /\ \E padding \in 0..7 : acc' = acc + sizes[Len(offset) + 1] + padding
  /\ acc' % 8 = 0
  /\ UNCHANGED sizes

Spec == Init /\ [][Place]_vars

-----------------------------------------------------------------------------
TypeOK ==
  /\ sizes \in Seq(Nat) /\ offset \in Seq(Nat) /\ acc \in Nat
  /\ Len(offset) <= Len(sizes)

\* No variable reaches into one laid out later, each begins at a multiple of
\* eight, and the block that is then asked for, acc bytes long, holds them all.
End(n) == offset[n] + sizes[n]

Apart   == \A n \in DOMAIN offset : \A m \in 1..n - 1 : End(m) <= offset[n]
Aligned == \A n \in DOMAIN offset : offset[n] % 8 = 0
Inside  == \A n \in DOMAIN offset : End(n) <= acc

Disjoint == Apart /\ Aligned /\ Inside

-----------------------------------------------------------------------------
IInv == TypeOK /\ acc % 8 = 0 /\ Disjoint

\* The start: nothing is laid out.
LEMMA InitEstablishes == Init => IInv
  BY DEF Init, IInv, TypeOK, Disjoint, Apart, Aligned, Inside

\* Placing one more variable keeps the others apart from it and inside the block.
LEMMA PlacePreserves == IInv /\ Place => IInv'
<1> SUFFICES ASSUME IInv, Place PROVE IInv'
  OBVIOUS
<1> PICK n : n = Len(offset) + 1
  OBVIOUS
<1>0. acc \in Nat /\ offset \in Seq(Nat) /\ sizes \in Seq(Nat)
  BY DEF IInv, TypeOK
<1>1. n \in 1..Len(sizes) /\ sizes[n] \in Nat
  <2>1. Len(offset) \in Nat /\ Len(sizes) \in Nat
    BY <1>0
  <2>2. n \in 1..Len(sizes)
    BY <2>1 DEF Place
  <2> QED BY <1>0, <2>2
<1>2. acc' \in Nat /\ acc + sizes[n] <= acc'
  <2>1. PICK padding \in 0..7 : acc' = acc + sizes[n] + padding
    BY DEF Place
  <2> QED BY <1>0, <1>1, <2>1
<1>3. /\ offset' \in Seq(Nat) /\ Len(offset') = n
      /\ DOMAIN offset' = 1..n /\ DOMAIN offset = 1..n - 1 /\ n \in Nat
      /\ offset'[n] = acc /\ sizes' = sizes
      /\ \A m \in 1..n - 1 : offset'[m] = offset[m] /\ offset[m] \in Nat
  <2>1. offset' = Append(offset, acc) /\ sizes' = sizes
    BY DEF Place
  <2>2. Len(offset) \in Nat /\ DOMAIN offset = 1..Len(offset)
    BY <1>0
  <2>3. offset' \in Seq(Nat) /\ Len(offset') = n /\ offset'[n] = acc
    BY <1>0, <2>1, <2>2
  <2>4. DOMAIN offset' = 1..n
    BY <2>3
  <2>5. \A m \in 1..n - 1 : offset'[m] = offset[m] /\ offset[m] \in Nat
    BY <1>0, <2>1, <2>2
  <2> QED BY <1>0, <2>1, <2>2, <2>3, <2>4, <2>5
<1>4. TypeOK'
  BY <1>0, <1>1, <1>2, <1>3 DEF TypeOK
<1>5. \A m \in 1..n - 1 : End(m)' = End(m) /\ End(m) <= acc /\ End(m) \in Nat
  <2> SUFFICES ASSUME NEW m \in 1..n - 1 PROVE End(m)' = End(m) /\ End(m) <= acc /\ End(m) \in Nat
    OBVIOUS
  <2>1. sizes[m] \in Nat /\ offset[m] \in Nat
    <3>1. Len(sizes) \in Nat
      BY <1>0
    <3>2. m \in 1..Len(sizes)
      BY <1>1, <1>3, <3>1
    <3> QED BY <1>0, <1>3, <3>2
  <2>2. End(m)' = End(m) /\ End(m) \in Nat
    BY <1>3, <2>1 DEF End
  <2>3. End(m) <= acc
    BY <1>3 DEF IInv, Disjoint, Inside
  <2> QED BY <2>2, <2>3
<1>6. End(n)' = acc + sizes[n]
  <2>1. End(n)' = offset'[n] + sizes'[n]
    BY DEF End
  <2> QED BY <1>3, <2>1
<1>7. Apart'
  <2> SUFFICES ASSUME NEW k \in DOMAIN offset', NEW m \in 1..k - 1 PROVE End(m)' <= offset'[k]
    BY DEF Apart
  <2>1. CASE k = n
    BY <1>3, <1>5, <2>1
  <2>2. CASE k \in 1..n - 1
    <3>1. m \in 1..n - 1 /\ End(m) <= offset[k]
      BY <1>1, <1>3, <2>2 DEF IInv, Disjoint, Apart
    <3> QED BY <1>3, <1>5, <2>2, <3>1
  <2> QED BY <1>3, <2>1, <2>2
<1>8. Aligned'
  BY <1>3 DEF Aligned, IInv, Disjoint
<1>9. Inside'
  <2> SUFFICES ASSUME NEW k \in DOMAIN offset' PROVE End(k)' <= acc'
    BY DEF Inside
  <2>1. CASE k = n
    BY <1>2, <1>6, <2>1
  <2>2. CASE k \in 1..n - 1
    <3>1. End(k)' = End(k) /\ End(k) <= acc /\ End(k) \in Nat
      BY <1>5, <2>2
    <3>2. End(k) <= acc'
      BY <1>0, <1>1, <1>2, <3>1
    <3> QED BY <3>1, <3>2
  <2> QED BY <1>3, <2>1, <2>2
<1>10. (acc % 8 = 0)'
  BY DEF Place
<1> QED
  BY <1>4, <1>10, <1>7, <1>8, <1>9 DEF IInv, Disjoint

\* The addresses gv_eliminate.cpp gives to global variables, and the offsets
\* alloca_eliminate.cpp gives to variables that are no arrays, are disjoint, aligned,
\* and inside what is allocated, whatever the variables are.
THEOREM LayoutIsDisjoint == Spec => []Disjoint
<1>1. IInv /\ UNCHANGED vars => IInv'
  BY DEF IInv, TypeOK, Disjoint, Apart, Aligned, Inside, End, vars
<1> QED
  BY InitEstablishes, PlacePreserves, <1>1, PTL DEF Spec, IInv
=============================================================================
