------------------------------- MODULE TypedIr -------------------------------
(***************************************************************************)
(* The IR with its types: types, operands, instructions, functions and     *)
(* global variables (include/mini-llvm/ir/, lib/ir/), when a module is well*)
(* formed, and what it does when it is run. The widths of the types are    *)
(* small: IntBits stands for 32, and an address is 2 * IntBits wide. Sizes *)
(* in bytes are those of the source.                                       *)
(***************************************************************************)
EXTENDS IntegerOps, SequencesExt

CONSTANT IntBits

ASSUME WidthsAssumption == IntBits \in Nat /\ IntBits > 4 /\ IntBits % 2 = 0

I1 == <<"i1">>
I8 == <<"i8">>
I16 == <<"i16">>
I32 == <<"i32">>
I64 == <<"i64">>
Ptr == <<"ptr">>
Float == <<"float">>
Double == <<"double">>
Void == <<"void">>
BasicBlockType == <<"label">>
ArrayType(element, n) == <<"array", element, n>>
FunctionType(return, params, varArgs) == <<"function", return, params, varArgs>>

IntegerTypes == {I1, I8, I16, I32, I64}
IntegerOrPointerTypes == IntegerTypes \cup {Ptr}
FloatingTypes == {Float, Double}
IsArray(t) == t[1] = "array"
IsFunctionType(t) == t[1] = "function"
isVarArgs(ft) == ft[4]

bitSize(t) ==
  CASE t = I1 -> 1           [] t = I8 -> IntBits \div 2 [] t = I16 -> IntBits - 1
    [] t \in {I32, Float} -> IntBits [] t \in {I64, Ptr, Double} -> 2 * IntBits

RECURSIVE sizeOf(_)
sizeOf(t) ==
  CASE t \in {I1, I8} -> 1 [] t = I16 -> 2 [] t \in {I32, Float} -> 4
    [] t \in {I64, Ptr, Double} -> 8 [] IsArray(t) -> t[3] * sizeOf(t[2])

RECURSIVE ArrayDepth(_)
ArrayDepth(t) == IF IsArray(t) THEN 1 + ArrayDepth(t[2]) ELSE 0

(***************************************************************************)
(* An operand is <<what it is, its type, ...>>: the value of an argument or*)
(* an instruction, the address of a global, a constant. Undefined is the   *)
(* parser's placeholder for a value whose definition it has not read yet.  *)
(***************************************************************************)
Value(t, id) == <<"value", t, id>>
Global(id) == <<"global", Ptr, id>>
Constant(t, n) == <<"constant", t, Wrap(bitSize(t), n)>>
Poison(t) == <<"poison", t, 0>>
NullPtr == <<"null", Ptr, 0>>
ArrayConstant(t, elements) == <<"elements", t, elements>>
VoidValue == <<"nothing", Void, 0>>
Undefined(t, id) == <<"undefined", t, id>>
typeOf(v) == v[2]
IsValue(v) == v[1] = "value"

RECURSIVE zeroValue(_)
zeroValue(t) ==
  IF t = Ptr THEN NullPtr
  ELSE IF IsArray(t) THEN ArrayConstant(t, [k \in 1 .. t[3] |-> zeroValue(t[2])])
  ELSE Constant(t, 0)

(***************************************************************************)
(* An instruction: its operation, the value it defines ("" when it defines *)
(* none) and its type, operands, blocks, and what else it is made with: the*)
(* condition of a comparison, the type of an alloca or an address, the type*)
(* of an indirect callee. The first operand of a call is the callee.       *)
(***************************************************************************)
Instruction(op, id, type, args, labels, aux) ==
  [op |-> op, id |-> id, type |-> type, args |-> args, labels |-> labels, aux |-> aux]

FloatingArithmetic == {"fadd", "fsub", "fmul", "fdiv", "frem"}
FloatingRelations == {"oeq", "one", "olt", "ogt", "ole", "oge"}
IntegerCasts == {"trunc", "sext", "zext"}
FloatingCasts == {"fptrunc", "fpext"}
ToFloating == {"sitofp", "uitofp"}
ToInteger == {"fptosi", "fptoui"}
CastOperations == IntegerCasts \cup FloatingCasts \cup ToFloating \cup ToInteger
                    \cup {"ptrtoint", "inttoptr", "bitcast"}
CallOps == {"call", "indirectcall"}
Terminators == {"br", "condbr", "ret"}

Functions(M) == {F.id : F \in ToSet(M.fns)}
FunctionNamed(M, id) == SelectSeq(M.fns, LAMBDA F : F.id = id)[1]
IsDeclaration(F) == F.blocks = <<>>
BlockNamed(F, b) == SelectSeq(F.blocks, LAMBDA B : B.label = b)[1]
functionType(M, I) == IF I.op = "call" THEN FunctionNamed(M, I.args[1][3]).type ELSE I.aux[1]

-----------------------------------------------------------------------------
(* isWellFormed.                                                           *)

ArithmeticWellFormed(I) ==
  typeOf(I.args[1]) = typeOf(I.args[2]) /\ typeOf(I.args[1]) \in IntegerTypes
RelationWellFormed(I) ==
  typeOf(I.args[1]) = typeOf(I.args[2]) /\ typeOf(I.args[1]) \in IntegerOrPointerTypes
FloatingWellFormed(I) ==
  typeOf(I.args[1]) \in FloatingTypes /\ \A v \in ToSet(I.args) : typeOf(v) = typeOf(I.args[1])

IntegerCastWellFormed(I) ==
  LET from == typeOf(I.args[1])
  IN  /\ from \in IntegerTypes
      /\ I.op = "trunc" => bitSize(I.type) < bitSize(from)
      /\ I.op # "trunc" => bitSize(I.type) > bitSize(from)

FloatingCastWellFormed(I) ==
  LET from == typeOf(I.args[1])
  IN  /\ from \in FloatingTypes
      /\ I.op = "fptrunc" => bitSize(I.type) < bitSize(from)
      /\ I.op = "fpext" => bitSize(I.type) > bitSize(from)

BitCastWellFormed(I) ==
  /\ {typeOf(I.args[1]), I.type} \cap {Void, BasicBlockType} = {}
  /\ (typeOf(I.args[1]) = Ptr) = (I.type = Ptr)

GetElementPtrWellFormed(I) ==
  /\ I.aux[1] \notin {Void, BasicBlockType} /\ typeOf(I.args[1]) = Ptr
  /\ \A k \in 2 .. Len(I.args) : typeOf(I.args[k]) \in IntegerTypes
  /\ Len(I.args) - 1 <= 1 + ArrayDepth(I.aux[1])

CallWellFormed(M, I) ==
  LET ft == functionType(M, I)
      n == Len(ft[3])
  IN  /\ typeOf(I.args[1]) = Ptr
      /\ Len(I.args) - 1 >= n /\ (isVarArgs(ft) \/ Len(I.args) - 1 = n)
      /\ \A k \in 1 .. n : typeOf(I.args[k + 1]) = ft[3][k]

SelectWellFormed(I) == typeOf(I.args[1]) = I1 /\ typeOf(I.args[2]) = typeOf(I.args[3])
PhiWellFormed(I) ==
  I.type \notin {Void, BasicBlockType} /\ \A v \in ToSet(I.args) : typeOf(v) = I.type

\* No operand is the instruction itself, but for a phi.
InstructionWellFormed(M, I) ==
  /\ I.op # "phi" => \A v \in ToSet(I.args) : IsValue(v) => v[3] # I.id
  /\ CASE I.op \in Arithmetic -> ArithmeticWellFormed(I)
       [] I.op = "icmp" -> RelationWellFormed(I)
       [] I.op \in FloatingArithmetic \cup {"fcmp", "fneg"} -> FloatingWellFormed(I)
       [] I.op \in IntegerCasts -> IntegerCastWellFormed(I)
       [] I.op \in FloatingCasts \cup ToInteger -> FloatingCastWellFormed(I)
       [] I.op \in ToFloating \cup {"inttoptr"} -> typeOf(I.args[1]) \in IntegerTypes
       [] I.op \in {"ptrtoint", "load"} -> typeOf(I.args[1]) = Ptr
       [] I.op = "bitcast" -> BitCastWellFormed(I)
       [] I.op = "alloca" -> I.aux[1] \notin {Void, BasicBlockType}
       [] I.op = "store" -> /\ typeOf(I.args[1]) \notin {Void, BasicBlockType}
                            /\ typeOf(I.args[2]) = Ptr
       [] I.op = "getelementptr" -> GetElementPtrWellFormed(I)
       [] I.op \in CallOps -> CallWellFormed(M, I)
       [] I.op = "select" -> SelectWellFormed(I)
       [] I.op = "phi" -> PhiWellFormed(I)
       [] I.op = "condbr" -> typeOf(I.args[1]) = I1
       [] I.op \in {"br", "ret"} -> TRUE

BlockWellFormed(M, B) ==
  /\ B.code # <<>> /\ Last(B.code).op \in Terminators
  /\ \A k \in DOMAIN B.code : /\ InstructionWellFormed(M, B.code[k])
                              /\ k < Len(B.code) => B.code[k].op \notin Terminators

successors(B) == ToSet(Last(B.code).labels)

\* The blocks reachable from the block from, without passing through without.
Reached(F, from, without) ==
  LET reach[k \in 0 .. Len(F.blocks)] ==
        IF k = 0 THEN {from} \ {without}
        ELSE UNION {near \cup {b \in UNION {successors(BlockNamed(F, a)) : a \in near} :
                                 b # without} : near \in {reach[k - 1]}}
  IN  reach[Len(F.blocks)]

\* Function::isWellFormed: definitions dominate uses, and a phi has an incoming
\* value for each predecessor.
FunctionWellFormed(M, F) ==
  LET entry == F.blocks[1].label
      sites == {<<b, k>> \in (DOMAIN F.blocks) \X (1 .. Max({Len(B.code) : B \in ToSet(F.blocks)})) :
                  k \in DOMAIN F.blocks[b].code}
      at(s) == F.blocks[s[1]].code[s[2]]
      label(s) == F.blocks[s[1]].label
      predecessors(b) == {B.label : B \in {C \in ToSet(F.blocks) : b \in successors(C)}}
  IN  /\ \A B \in ToSet(F.blocks) : BlockWellFormed(M, B)
      /\ \A s \in sites : at(s).op = "ret" => typeOf(at(s).args[1]) = F.type[2]
      /\ predecessors(entry) = {}
      /\ \A s \in sites : at(s).op = "phi" =>
           IsInjective(at(s).labels) /\ ToSet(at(s).labels) = predecessors(label(s))
      /\ \A s \in sites : at(s).op = "alloca" => s[1] = 1
      /\ LET visited == Reached(F, entry, "")
             dominates(a, b) == b \notin Reached(F, entry, a)
             Visible(d, b, k) ==
               IF label(d) = b THEN d[2] < k ELSE label(d) \in visited /\ dominates(label(d), b)
         IN  \A s \in {t \in sites : label(t) \in visited} :
               \A k \in DOMAIN at(s).args : IsValue(at(s).args[k]) =>
                 LET defs == {d \in sites : at(d).id = at(s).args[k][3]}
                 IN  \A d \in defs :
                       IF at(s).op # "phi" THEN Visible(d, label(s), s[2])
                       ELSE at(s).labels[k] \in visited =>
                              Visible(d, at(s).labels[k], Len(BlockNamed(F, at(s).labels[k]).code) + 1)

ModuleWellFormed(M) == \A F \in ToSet(M.fns) : IsDeclaration(F) \/ FunctionWellFormed(M, F)

-----------------------------------------------------------------------------
(***************************************************************************)
(* Floating-point values of w bits: a sign and a magnitude. The magnitudes *)
(* are the integers up to Infinity(w), and NaN above it.                   *)
(***************************************************************************)
Infinity(w) == 2^(w - 1) - 2
NaN(w) == 2^(w - 1) - 1
Magnitude(w, x) == x % 2^(w - 1)
Negative(w, x) == x >= 2^(w - 1)
IsNaN(w, x) == Magnitude(w, x) = NaN(w)
IsInfinite(w, x) == Magnitude(w, x) = Infinity(w)
FloatValue(w, x) == IF Negative(w, x) THEN -Magnitude(w, x) ELSE Magnitude(w, x)
Signed(w, negative, m) == (IF negative THEN 2^(w - 1) ELSE 0) + Min({m, Infinity(w)})
FloatOf(w, v) == Signed(w, v < 0, Abs(v))

FNeg(w, x) == (x + 2^(w - 1)) % 2^w

FloatingAdd(w, x, y) ==
  IF ~IsInfinite(w, x) /\ ~IsInfinite(w, y) THEN FloatOf(w, FloatValue(w, x) + FloatValue(w, y))
  ELSE IF IsInfinite(w, x) /\ IsInfinite(w, y) /\ x # y THEN NaN(w)
  ELSE IF IsInfinite(w, x) THEN x ELSE y

FloatingOp(op, w, x, y) ==
  LET a == FloatValue(w, x)
      b == FloatValue(w, y)
      opposite == Negative(w, x) # Negative(w, y)
  IN  CASE IsNaN(w, x) \/ IsNaN(w, y) -> NaN(w)
        [] op = "fsub" /\ ~IsNaN(w, x) /\ ~IsNaN(w, y) -> FloatingAdd(w, x, FNeg(w, y))
        [] op = "fadd" /\ ~IsNaN(w, x) /\ ~IsNaN(w, y) -> FloatingAdd(w, x, y)
        [] op = "fmul" /\ ~IsNaN(w, x) /\ ~IsNaN(w, y) ->
             IF (IsInfinite(w, x) /\ b = 0) \/ (IsInfinite(w, y) /\ a = 0) THEN NaN(w)
             ELSE Signed(w, opposite, Abs(a * b))
        [] op = "fdiv" /\ ~IsNaN(w, x) /\ ~IsNaN(w, y) ->
             IF (a = 0 /\ b = 0) \/ (IsInfinite(w, x) /\ IsInfinite(w, y)) THEN NaN(w)
             ELSE IF b = 0 \/ IsInfinite(w, x) THEN Signed(w, opposite, Infinity(w))
             ELSE Signed(w, opposite, IF IsInfinite(w, y) THEN 0 ELSE Abs(a) \div Abs(b))
        [] op = "frem" /\ ~IsNaN(w, x) /\ ~IsNaN(w, y) ->
             IF b = 0 \/ IsInfinite(w, x) THEN NaN(w)
             ELSE IF IsInfinite(w, y) THEN x ELSE Signed(w, a < 0, Abs(a) % Abs(b))

FloatingRelation(op, w, x, y) ==
  LET a == FloatValue(w, x)
      b == FloatValue(w, y)
  IN  /\ ~IsNaN(w, x) /\ ~IsNaN(w, y)
      /\ CASE op = "oeq" -> a = b [] op = "one" -> a # b [] op = "olt" -> a < b
           [] op = "ogt" -> a > b [] op = "ole" -> a <= b [] op = "oge" -> a >= b

\* fpext and fptrunc, from from to w bits.
FloatingCast(from, w, x) ==
  LET m == Magnitude(from, x)
  IN  IF IsNaN(from, x) THEN NaN(w)
      ELSE Signed(w, Negative(from, x), IF IsInfinite(from, x) THEN Infinity(w) ELSE m)

\* true is 1.0 for both conversions of bool.
SIToFP(from, w, x) == FloatOf(w, IF from = 1 THEN x ELSE SignedValue(from, x))
UIToFP(w, x) == FloatOf(w, x)

InRange(w, v, low, high) == IF v \in low .. high THEN Wrap(w, v) ELSE PoisonBits
FPToSI(from, w, x) ==
  IF IsNaN(from, x) THEN PoisonBits
  ELSE InRange(w, FloatValue(from, x), -(2^(w - 1)), 2^(w - 1) - 1)
FPToUI(from, w, x) ==
  IF IsNaN(from, x) THEN PoisonBits ELSE InRange(w, FloatValue(from, x), 0, 2^w - 1)

\* What an operation without memory computes of the operands xs of from bits.
Compute(op, cond, from, w, xs) ==
  CASE op \in Arithmetic \cup IntegerCasts \cup {"select"} -> FoldOp(op, from, w, xs)
    [] op \notin Arithmetic \cup IntegerCasts \cup {"select"} /\ PoisonBits \in ToSet(xs) -> PoisonBits
    [] op \notin Arithmetic \cup IntegerCasts \cup {"select"} /\ PoisonBits \notin ToSet(xs) ->
         CASE op = "icmp" -> IF RelationHolds(cond, from, xs[1], xs[2]) THEN 1 ELSE 0
           [] op = "fcmp" -> IF FloatingRelation(cond, from, xs[1], xs[2]) THEN 1 ELSE 0
           [] op = "fneg" -> FNeg(w, xs[1])
           [] op \in FloatingArithmetic -> FloatingOp(op, w, xs[1], xs[2])
           [] op \in FloatingCasts -> FloatingCast(from, w, xs[1])
           [] op = "sitofp" -> SIToFP(from, w, xs[1])
           [] op = "uitofp" -> UIToFP(w, xs[1])
           [] op = "fptosi" -> FPToSI(from, w, xs[1])
           [] op = "fptoui" -> FPToUI(from, w, xs[1])
           [] op \in {"ptrtoint", "inttoptr", "bitcast"} -> Wrap(w, xs[1])

Pure == Arithmetic \cup CastOperations \cup FloatingArithmetic \cup {"icmp", "fcmp", "fneg", "select"}

-----------------------------------------------------------------------------
(***************************************************************************)
(* Memory: an address holds <<v, n, k>>, byte k of a value v of n bytes, so*)
(* a load of n bytes reads what a store of n bytes has written there. The  *)
(* global variables lie from GlobalBase on; a function is called through   *)
(* an address of its own.                                                  *)
(***************************************************************************)
GlobalBase == 512
AllocaBase == 1024
FunctionBase == 256
ZeroByte == <<0, 0, 0>>

Padded(n) == 8 * ((n + 7) \div 8)

Write(mem, a, n, v) == [b \in a .. (a + n - 1) |-> <<v, n, b - a>>] @@ mem

Read(mem, a, n, otherwise) ==
  IF ~(a .. (a + n - 1)) \subseteq DOMAIN mem THEN otherwise
  ELSE IF \A b \in a .. (a + n - 1) : mem[b] = ZeroByte THEN 0
  ELSE IF \A k \in 0 .. (n - 1) : mem[a + k] = <<mem[a][1], n, k>> THEN mem[a][1]
  ELSE otherwise

GlobalAddress(M, id) ==
  LET k == CHOOSE j \in 1 .. Len(M.vars) : M.vars[j].id = id
  IN  GlobalBase + MapThenSumSet(LAMBDA j : Padded(sizeOf(M.vars[j].type)), 1 .. (k - 1))

FunctionAddress(M, id) == FunctionBase + 8 * (CHOOSE k \in DOMAIN M.fns : M.fns[k].id = id)

AddressOf(M, id) == IF id \in Functions(M) THEN FunctionAddress(M, id) ELSE GlobalAddress(M, id)

\* The value of a constant.
ConstantValue(M, c) ==
  CASE c[1] = "constant" -> c[3] [] c[1] = "null" -> 0 [] c[1] = "poison" -> PoisonBits
    [] c[1] = "global" -> AddressOf(M, c[3])

RECURSIVE WriteConstant(_, _, _, _)
WriteConstant(M, mem, a, c) ==
  IF c[1] = "elements"
  THEN FoldLeft(LAMBDA m, k : WriteConstant(M, m, a + (k - 1) * sizeOf(c[2][2]), c[3][k]),
                mem, [k \in 1 .. Len(c[3]) |-> k])
  ELSE Write(mem, a, sizeOf(c[2]), ConstantValue(M, c))

\* Bytes that hold nothing yet: reading them gives no value.
Fresh(mem, a, n) == mem @@ [b \in a .. (a + n - 1) |-> <<PoisonBits, 0, 0>>]

InitialMemory(M) ==
  FoldLeft(LAMBDA mem, k : LET G == M.vars[k] IN
             IF G.init[1] = "none" THEN mem ELSE WriteConstant(M, mem, GlobalAddress(M, G.id), G.init),
           <<>>, [k \in DOMAIN M.vars |-> k])

(***************************************************************************)
(* The state of an execution: the frames of the active calls, memory, the  *)
(* calls of declared functions so far. An execution that ends in           *)
(* "undefined" allows the program to do anything.                          *)
(***************************************************************************)
NewFrame(F, args, into) ==
  [fn |-> F.id, env |-> [id \in {p[3] : p \in ToSet(F.params)} |->
                           args[CHOOSE k \in DOMAIN F.params : F.params[k][3] = id]],
   block |-> F.blocks[1].label, prev |-> "", at |-> 1, into |-> into]

StartRun(M, F, args) ==
  [frames |-> <<NewFrame(F, args, "")>>, mem |-> InitialMemory(M), top |-> AllocaBase,
   events |-> <<>>, status |-> "running", result |-> 0]

\* What a declared function returns: something that depends on all its arguments.
ExternalResult(t, args) ==
  IF t = Void THEN 0 ELSE Wrap(bitSize(t), 3 + FoldLeft(LAMBDA a, x : (2 * a + x) % 2^(2 * IntBits), 0, args))

Top(s) == Last(s.frames)
WithTop(s, frame) == [s EXCEPT !.frames = Front(@) \o <<frame>>]
Stop(s, status, result) == [s EXCEPT !.status = status, !.result = result]
Next1(f) == [f EXCEPT !.at = @ + 1]
Define(f, id, x) == [f EXCEPT !.env = (id :> x) @@ @]

Operand(M, f, v) == IF IsValue(v) THEN f.env[v[3]] ELSE ConstantValue(M, v)

\* The phis of a block read their values before any is written.
Jump(M, f, b) ==
  LET F == FunctionNamed(M, f.fn)
      phis == SelectSeq(BlockNamed(F, b).code, LAMBDA I : I.op = "phi")
      incoming(I) == I.args[CHOOSE k \in DOMAIN I.labels : I.labels[k] = f.block]
      defined == {I.id : I \in ToSet(phis)}
  IN  [f EXCEPT !.block = b, !.prev = f.block, !.at = 1,
         !.env = [id \in defined |->
                    Operand(M, f, incoming(SelectSeq(phis, LAMBDA I : I.id = id)[1]))] @@ @]

CallFunction(M, s, I, target, args) ==
  IF IsDeclaration(target)
  THEN WithTop([s EXCEPT !.events = Append(@, <<target.id, args>>)],
               IF I.id = "" THEN Next1(Top(s))
               ELSE Define(Next1(Top(s)), I.id, ExternalResult(target.type[2], args)))
  ELSE [WithTop(s, Next1(Top(s))) EXCEPT !.frames = Append(@, NewFrame(target, args, I.id))]

ReturnValue(s, x) ==
  IF Len(s.frames) = 1 THEN Stop(s, "returned", x)
  ELSE LET t == [s EXCEPT !.frames = Front(@)]
       IN  IF Top(s).into = "" THEN t ELSE WithTop(t, Define(Top(t), Top(s).into, x))

\* The bytes the indices xs, from the k-th on, stand for in a source type t.
RECURSIVE Offset(_, _, _)
Offset(t, xs, k) ==
  IF k > Len(xs) THEN 0
  ELSE xs[k] * sizeOf(t) + (IF k = Len(xs) THEN 0 ELSE Offset(t[2], xs, k + 1))

StepIr(M, s) ==
  LET f == Top(s)
      I == BlockNamed(FunctionNamed(M, f.fn), f.block).code[f.at]
      xs == [k \in DOMAIN I.args |-> IF I.args[k][1] = "nothing" THEN 0 ELSE Operand(M, f, I.args[k])]
      from == bitSize(typeOf(I.args[1]))
      goOn(x) == WithTop(s, Define(Next1(f), I.id, x))
      undefined == Stop(s, "undefined", 0)
  IN  CASE I.op \in Pure ->
             goOn(Compute(I.op, IF I.aux = <<>> THEN "" ELSE I.aux[1], from, bitSize(I.type), xs))
        [] I.op = "phi" -> WithTop(s, Next1(f))
        [] I.op = "alloca" ->
             [goOn(s.top) EXCEPT !.top = @ + Padded(sizeOf(I.aux[1])),
                                 !.mem = Fresh(@, s.top, sizeOf(I.aux[1]))]
        [] I.op = "load" ->
             IF ~(xs[1] .. (xs[1] + sizeOf(I.type) - 1)) \subseteq DOMAIN s.mem THEN undefined
             ELSE goOn(Read(s.mem, xs[1], sizeOf(I.type), PoisonBits))
        [] I.op = "store" ->
             LET n == sizeOf(typeOf(I.args[1]))
             IN  IF ~(xs[2] .. (xs[2] + n - 1)) \subseteq DOMAIN s.mem THEN undefined
                 ELSE [WithTop(s, Next1(f)) EXCEPT !.mem = Write(@, xs[2], n, xs[1])]
        [] I.op = "getelementptr" ->
             IF PoisonBits \in ToSet(xs) THEN goOn(PoisonBits)
             ELSE LET index == [k \in 1 .. (Len(xs) - 1) |->
                                  SignedValue(bitSize(typeOf(I.args[k + 1])), xs[k + 1])]
                  IN  goOn(Wrap(bitSize(Ptr), xs[1] + Offset(I.aux[1], index, 1)))
        [] I.op \in CallOps ->
             LET targets == {F \in ToSet(M.fns) : FunctionAddress(M, F.id) = xs[1]}
             IN  IF targets = {} THEN undefined
                 ELSE CallFunction(M, s, I, CHOOSE F \in targets : TRUE, Tail(xs))
        [] I.op = "br" -> WithTop(s, Jump(M, f, I.labels[1]))
        [] I.op = "condbr" ->
             IF xs[1] = PoisonBits THEN undefined
             ELSE WithTop(s, Jump(M, f, I.labels[IF xs[1] = 1 THEN 1 ELSE 2]))
        [] I.op = "ret" -> ReturnValue(s, xs[1])

\* The state after at most n steps: half of them, then the other half.
RECURSIVE RunIr(_, _, _)
RunIr(M, s, n) ==
  IF s.status # "running" THEN s ELSE IF n = 1 THEN StepIr(M, s)
  ELSE CHOOSE r \in {RunIr(M, h, n - n \div 2) : h \in {RunIr(M, s, n \div 2)}} : TRUE
=============================================================================
