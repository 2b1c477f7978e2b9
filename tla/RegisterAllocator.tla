-------------------------- MODULE RegisterAllocator --------------------------
(***************************************************************************)
(* What the three register allocators of lib/codegen/register_allocators/  *)
(* share: the preference among physical registers, renaming the operands   *)
(* of an instruction, and the spill code the driver's load and store       *)
(* callbacks emit.                                                         *)
(***************************************************************************)
EXTENDS LiveVariableAnalysis, SequencesExt

CONSTANTS
  Preserved,   \* the callee-saved registers among PhysRegs
  Idx          \* PhysicalRegister::idx()

ASSUME RegsAssumption ==
  /\ VirtRegs \cap PhysRegs = {} /\ IsFiniteSet(PhysRegs)
  /\ Preserved \subseteq PhysRegs
  /\ Idx \in [PhysRegs -> Nat]
  /\ \A p, q \in PhysRegs : Idx[p] = Idx[q] => p = q

\* The code an allocator is given. Only the terminator of a block names blocks,
\* and it writes nothing; an instruction has at most one destination, and a call
\* has none besides the registers it does not preserve; a move has one source and
\* nothing implicit; and there is no spill code yet. A virtual register may be read
\* that nothing has written: it stands for poison.
IsCode(G) ==
  \A p \in Points(G) :
    LET I == At(G, p)
    IN  /\ I.mem = "none"
        /\ Len(I.dsts) <= 1
        /\ I.implicitDsts # {} => I.dsts = <<>>
        /\ I.blockOps # {} => p[2] = Len(G.code[p[1]]) /\ I.dsts = <<>>
        /\ I.coalescent => /\ Len(I.srcs) = 1 /\ Len(I.dsts) = 1
                           /\ I.implicitSrcs = {} /\ I.implicitDsts = {}

ASSUME CodeAssumption == \A G \in Funcs : IsCode(G)

\* Caller-saved registers first, then the lower index.
isBetter(p, q) ==
  \/ p \notin Preserved /\ q \in Preserved
  \/ (p \in Preserved <=> q \in Preserved) /\ Idx[p] < Idx[q]

\* The same, with the registers of T before all others.
isBetterFor(T, p, q) ==
  \/ p \in T /\ q \notin T
  \/ (p \in T <=> q \in T) /\ isBetter(p, q)

\* The n best registers of S in the order a greedy loop picks them, and the
\* set that is left when a loop removes the best one until n are left.
BestOf(n, S) == {p \in S : Cardinality({q \in S : isBetter(q, p)}) < n}
WorstOf(n, S) == {p \in S : Cardinality({q \in S : isBetter(p, q)}) < n}

\* HashMap::put.
Put(f, k, x) == [j \in DOMAIN f \cup {k} |-> IF j = k THEN x ELSE f[j]]

\* The map two loops build that put different keys.
Joined(f, g) ==
  [j \in DOMAIN f \cup DOMAIN g |-> IF j \in DOMAIN f THEN f[j] ELSE g[j]]

\* The maps that give the operands of an instruction that reads S and writes D
\* registers: those it reads and writes the registers in both, those it only
\* reads the ones in src, those it only writes the ones in dst.
Borrowed(S, D, both, src, dst) ==
  {Joined(b, Joined(s, d)) :
     b \in Bijection(S \cap D, both), s \in Bijection(S \ D, src), d \in Bijection(D \ S, dst)}

\* Replace the sources of an instruction that in maps and the destinations
\* that to maps, as RegisterOperand::set does. Implicit registers are not
\* operands.
RenameSeq(s, m) == [k \in DOMAIN s |-> IF s[k] \in DOMAIN m THEN m[s[k]] ELSE s[k]]

Rename(I, in, to) ==
  [I EXCEPT !.srcs = RenameSeq(@, in), !.dsts = RenameSeq(@, to)]

\* The code of G with every operand m maps replaced.
RenameAll(G, m) ==
  [b \in BlocksOf(G) |-> [i \in InstrsOf(G, b) |-> Rename(G.code[b][i], m, m)]]

\* The points of G in layout order.
LayoutPoints(G) ==
  FlattenSeq([k \in DOMAIN G.layout |->
    [i \in InstrsOf(G, G.layout[k]) |-> <<G.layout[k], i>>]])

\* s lists points of G, those of a block next to each other and in order.
BlockByBlock(G, s) ==
  \A m \in DOMAIN s : \A j \in InstrsOf(G, s[m][1]) :
    m - s[m][2] + j \in DOMAIN s /\ s[m - s[m][2] + j] = <<s[m][1], j>>

\* The virtual registers of W among the operands of I.
SrcsIn(I, W) == Range(I.srcs) \cap W
DstsIn(I, W) == Range(I.dsts) \cap W

\* Spill code. The stack slot of a spilled register is named by it. The real
\* sequence computes the slot's address in t6, which is not allocatable here.
LoadFrom(v, r) ==
  [srcs |-> <<>>, dsts |-> <<r>>, implicitSrcs |-> {}, implicitDsts |-> {},
   coalescent |-> FALSE, blockOps |-> {}, mem |-> "load", slot |-> v]
StoreTo(v, r) ==
  [srcs |-> <<r>>, dsts |-> <<>>, implicitSrcs |-> {}, implicitDsts |-> {},
   coalescent |-> FALSE, blockOps |-> {}, mem |-> "store", slot |-> v]

\* Mutant: a register I both reads and writes is loaded and not stored back.
SpilledNoWriteBack(I, in, to, W) ==
  LET load(v)  == LoadFrom(v, in[v])
      store(v) == StoreTo(v, to[v])
      srcs == SetToSeq(SrcsIn(I, W))
      dsts == SetToSeq(DstsIn(I, W) \ SrcsIn(I, W))
  IN  [k \in DOMAIN srcs |-> load(srcs[k])]
      \o <<Rename(I, in, to)>>
      \o [k \in DOMAIN dsts |-> store(dsts[k])]

\* The code instruction I becomes when its spilled sources are put in the
\* registers in gives and its spilled destinations in those to gives: load
\* the sources, run I on the registers, store the destinations.
Spilled(I, in, to, W) ==
  LET load(v)  == LoadFrom(v, in[v])
      store(v) == StoreTo(v, to[v])
      srcs == SetToSeq(SrcsIn(I, W))
      dsts == SetToSeq(DstsIn(I, W))
  IN  [k \in DOMAIN srcs |-> load(srcs[k])]
      \o <<Rename(I, in, to)>>
      \o [k \in DOMAIN dsts |-> store(dsts[k])]

\* Registers moved into or out of v by a coalescent move.
MovedWith(G, v) ==
  LET moves == {At(G, p) : p \in {q \in Points(G) : At(G, q).coalescent}}
  IN  {I.srcs[1] : I \in {J \in moves : J.dsts[1] = v}}
      \cup {I.dsts[1] : I \in {J \in moves : J.srcs[1] = v}}

-----------------------------------------------------------------------------
\* Pairs of a virtual register and a register that must be kept apart: one is
\* written where the other's value is still needed, that is, where some path
\* reads it before writing it. A move's source and destination hold the same
\* value and may share a register.
PassesOn(p, r) == At(F, p).coalescent /\ r \in Range(At(F, p).srcs)

WrittenWhileNeeded(r) ==
  UNION {def(At(F, p)) : p \in {q \in PointsBefore(F, ReadWithin(F, r)) : ~PassesOn(q, r)}
                                 \cup {q \in Points(F) : r \in def(At(F, q))}}

Clashes ==
  LET pairs == UNION {{r} \X WrittenWhileNeeded(r) : r \in Regs}
  IN  {c \in pairs \cup {<<c[2], c[1]>> : c \in pairs} : c[1] \in VirtRegs /\ c[1] # c[2]}
=============================================================================
