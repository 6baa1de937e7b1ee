----------------------------- MODULE TextMachine ------------------------------
(***************************************************************************)
(* A machine that runs the assembly, and what the functions it came from   *)
(* are taken to mean.  The machine is not part of the compiler: what a     *)
(* line does is read off the uses the compiler makes of it.  Scalars are   *)
(* computed; vectors are not, a vector is known by the operation that made *)
(* it, so operations on vectors are observed in their order, with their    *)
(* operands, like calls.                                                   *)
(***************************************************************************)
EXTENDS IRValues, Assembly

CONSTANT CalleeFrame      \* what a called function needs of the stack

ASSUME TextMachineAssumption == CalleeFrame \in 0..StackTop

VectorOpcode ==
  [vadd |-> "add", vsub |-> "sub", vmul |-> "mul", vudiv |-> "udiv", vsdiv |-> "sdiv",
   vurem |-> "urem", vsrem |-> "srem", vand |-> "and", vor |-> "or", vxor |-> "xor",
   vshl |-> "shl", vlshr |-> "lshr", vashr |-> "ashr", vextct |-> "extractelement",
   vupdate |-> "insertelement", vload |-> "load", vstore |-> "store"]

\* An event: the operation with its width or predicate, and the operands' values.
Event(s, event, v) ==
  [s EXCEPT !.out = Append(@, event), !.env = (v :> Len(s.out)) @@ @]

-----------------------------------------------------------------------------
\* The section of a function; labels are looked for in it only.

Section(text, name) ==
  LET start == CHOOSE k \in DOMAIN text : text[k].op = "start" /\ text[k].args[1] = <<"name", name>>
      end   == Min({k \in start..Len(text) : text[k].op = "end"})
  IN  SubSeq(text, start, end)

Goto(section, s, label) ==
  LET at == {k \in DOMAIN section : section[k].op = "label" /\ section[k].args = <<label>>}
  IN  IF at = {} THEN Stop(s, "trap") ELSE [s EXCEPT !.at = Min(at)]

Registers(section) ==
  {t \in UNION {{section[k].target} \cup ToSet(section[k].args) : k \in DOMAIN section} :
     t[1] \in {"r", "sp", "arg", "v"}}

\* Where it begins: arguments in their registers, the others hold anything.
Entered(section, input) ==
  [Start([gvs |-> <<>>]) EXCEPT !.env =
     [t \in Registers(section) \cup {SP} |->
        CASE t[1] = "arg" /\ t[2] \in DOMAIN input -> input[t[2]]
          [] t[1] = "sp"                           -> StackTop
          [] OTHER                                 -> 0]]

ScaledBits(w) == IF w = 1 THEN 1 ELSE (w \div 8) * ByteBits

\* Below the old stack pointer and above the new one lies the frame.
SetStackPointer(s, a) ==
  LET old == s.env[SP]
      t == [s EXCEPT !.env[SP] = a]
  IN  IF a < old THEN Reserve(t, a, old - a) ELSE t

RunLine(section, name, s) ==
  LET l == section[s.at]
      value(t) == IF t[1] \in {"r", "sp", "arg", "v"} THEN s.env[t] ELSE t[2]
      x == [k \in DOMAIN l.args |-> value(l.args[k])]
      n == Len(x)
      w == ScaledBits(x[n])
      step == [s EXCEPT !.at = @ + 1]
      set(t, a) == IF l.target = SP THEN SetStackPointer(t, a)
                                    ELSE [t EXCEPT !.env = (l.target :> a) @@ @]
  IN  CASE l.op \in {"start", "label", ";"} -> step
        [] l.op = "end"    -> Stop(s, "trap")
        [] l.op \in IntOps ->
             IF UndefinedOp(l.op, x[2] % 2^w, w) THEN Stop(s, "ub")
             ELSE set(step, Compute(l.op, x[1] % 2^w, x[2] % 2^w, w))
        [] l.op = "icmp"   -> set(step, Compare(x[1], x[2] % 2^w, x[3] % 2^w, w))
        [] l.op = "select" -> set(step, IF x[1] # 0 THEN x[2] ELSE x[3])
        [] l.op = "incr"   -> set(step, (x[1] + 1) % 2^w)
        [] l.op = "decr"   -> set(step, (x[1] - 1) % 2^w)
        [] l.op = "const"  -> set(step, x[1])
        [] l.op \in {"load", "aload"} -> Load(step, x[2], x[1], set)
        [] l.op = "store"  -> Store(step, x[3], x[1], x[2] % 2^ScaledBits(8 * x[1]))
        [] l.op = "malloc" -> set([Reserve(step, s.heap, x[1]) EXCEPT !.heap = @ + alignUp(x[1])], s.heap)
        [] l.op = "free"   ->
             IF \E block \in s.blocks : block[1] = x[1]
             THEN [step EXCEPT !.blocks = {block \in @ : block[1] # x[1]}] ELSE Stop(s, "ub")
        [] l.op = "call"   -> IF s.env[SP] < CalleeFrame THEN Stop(s, "trap")
                              ELSE Event(step, <<x[1], Tail(x)>>, l.target)
        [] l.op = "rcall"  -> Event(step, <<name, x>>, l.target)
        [] l.op = "assert_eq" -> Event(step, <<"assert_eq", x>>, l.target)
        [] l.op = "ret"    -> [Stop(s, "ret") EXCEPT !.val = IF n = 0 THEN 0 ELSE x[1]]
        [] l.op = "br"     -> Goto(section, s, IF n = 1 THEN l.args[1]
                                               ELSE IF x[1] # 0 THEN l.args[2] ELSE l.args[3])
        [] l.op = "switch" ->
             LET hit == {k \in 2..n - 1 : k % 2 = 0 /\ x[k] = x[1]}
             IN  Goto(section, s, l.args[IF hit = {} THEN n ELSE Min(hit) + 1])
        [] l.op \in {"vload", "vstore"} -> Event(step, <<VectorOpcode[l.op], x, 32>>, l.target)
        [] l.op \in DOMAIN VectorOpcode -> Event(step, <<VectorOpcode[l.op], Front(x), x[n]>>, l.target)
        [] OTHER           -> Event(step, <<l.op, Front(x), x[n]>>, l.target)

RunText(text, name, input, maxLines) ==
  LET section == Section(text, name)
      end == FoldLeft(LAMBDA s, k : IF s.status = "run" THEN RunLine(section, name, s) ELSE s,
                      Entered(section, input), [k \in 1..maxLines |-> k])
  IN  [status |-> IF end.status = "run" THEN "slow" ELSE end.status,
       val |-> end.val, out |-> end.out]

-----------------------------------------------------------------------------
\* The function as IRValues executes it: operations on vectors and intrinsics become
\* events, or the instruction they abbreviate.

OnVectors(p, I) ==
  \/ IsVector(p.type[I])
  \/ p.kind[I] \in {"store", "extractelement"} /\ IsVector(TypeOf(p, p.args[I][1]))

Abbreviated(p, I) ==
  LET name == p.info[I][1]   type == p.info[I][2]
      event(e, w) == <<"event", <<e, w, <<>>>>>>
      vector == IF IsVector(p.type[I]) THEN p.type[I] ELSE TypeOf(p, p.args[I][1])
  IN  CASE p.kind[I] # "intrinsic" /\ OnVectors(p, I) ->
             event(p.kind[I], IF p.kind[I] \in {"load", "store"} THEN 32 ELSE VectorBits[vector])
        [] p.kind[I] # "intrinsic"         -> <<p.kind[I], p.info[I]>>
        [] name \in {"incr", "decr"}       -> <<"call", name>>
        [] name = "aload"                  -> <<"load", "">>
        [] name = "const"                  -> <<"freeze", "">>
        [] name = "assert_eq"              -> <<"call", name>>
        [] name = "int_sum"                -> event("sum", IntBits[type])
        [] name \in {"vicmp", "vpicmp"}    -> <<"event", <<name, VectorBits[type], <<p.info[I][3]>>>>>>
        [] OTHER                           -> event(name, VectorBits[type])

Abbreviate(p) ==
  [p EXCEPT !.kind = [I \in Insts(p) |-> Abbreviated(p, I)[1]],
            !.info = [I \in Insts(p) |-> Abbreviated(p, I)[2]]]
=============================================================================
