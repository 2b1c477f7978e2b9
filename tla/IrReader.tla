------------------------------ MODULE IrReader ------------------------------
(***************************************************************************)
(* IR as text: what a module is printed as (the format methods of lib/ir/) *)
(* and how the parser reads it back (lib/ir_reader/). A text is a sequence *)
(* of lines; a line has the tokens the parser tells apart: the operation,  *)
(* the name it defines, the types and the operands in the order they are   *)
(* written, the labels. One action is one global variable, header, label or*)
(* instruction read. The parser stops at the first error; here a line is   *)
(* rejected when any of its checks fails.                                  *)
(***************************************************************************)
EXTENDS TypedIr

VARIABLES
  text,       \* the lines
  reading,    \* "lex", "headers", "rest", "body", "accepted" or "rejected"
  at,         \* the line the parser is at
  table,      \* symbolTable_: what the names read so far stand for
  module,     \* the module read so far
  waiting     \* the initializers and bodies that are skipped at first

readerVars == <<text, reading, at, table, module, waiting>>

Line(op, id, aux, types, vals, labels) ==
  [op |-> op, id |-> id, aux |-> aux, types |-> types, vals |-> vals, labels |-> labels]

-----------------------------------------------------------------------------
(* Printing.                                                               *)

Number(n) == <<"number", n>>
EmptyLiteral == <<"0x">>

(***************************************************************************)
(* A float is printed as the bits of the double of its value, in a field of*)
(* 16 characters that is filled up with spaces. Only the bits of 0.0 have  *)
(* no digit at the front: the number ends behind its 0x.                   *)
(***************************************************************************)
FloatToken(x) ==
  LET bits == FloatingCast(bitSize(Float), bitSize(Double), x)
  IN  IF bits = 0 THEN EmptyLiteral ELSE Number(bits)

RECURSIVE Token(_)

\* The element of an I8 array is taken for an I8Constant, whatever it is.
CharacterOf(c) == IF c[1] = "constant" THEN SignedValue(bitSize(I8), c[3]) ELSE 1

ArrayToken(v) ==
  IF v = zeroValue(typeOf(v)) THEN <<"zeroinitializer">>
  ELSE IF typeOf(v)[2] = I8 THEN <<"string", [k \in DOMAIN v[3] |-> CharacterOf(v[3][k])]>>
  ELSE <<"list", [k \in DOMAIN v[3] |-> typeOf(v[3][k])], [k \in DOMAIN v[3] |-> Token(v[3][k])]>>

Token(v) ==
  CASE v[1] \in {"value", "undefined"} -> <<"%", v[3]>>
    [] v[1] = "global" -> <<"@", v[3]>>
    [] v[1] = "poison" -> <<"poison">>
    [] v[1] = "null" -> <<"null">>
    [] v[1] = "elements" -> ArrayToken(v)
    [] v[1] = "constant" ->
         CASE typeOf(v) = I1 -> IF v[3] = 1 THEN <<"true">> ELSE <<"false">>
           [] typeOf(v) = Float -> FloatToken(v[3])
           [] typeOf(v) = Double -> Number(v[3])
           [] OTHER -> Number(SignedValue(bitSize(typeOf(v)), v[3]))

Mnemonic == [op \in {"condbr", "indirectcall"} |-> IF op = "condbr" THEN "br" ELSE "call"]

PrintedTypes(M, I) ==
  LET types == [k \in DOMAIN I.args |-> typeOf(I.args[k])]
  IN  CASE I.op \in Arithmetic \cup FloatingArithmetic \cup {"icmp", "fcmp", "fneg"} -> <<types[1]>>
        [] I.op \in CastOperations -> <<types[1], I.type>>
        [] I.op = "alloca" -> <<I.aux[1]>>
        [] I.op = "load" -> <<I.type, Ptr>>
        [] I.op = "getelementptr" -> <<I.aux[1]>> \o types
        [] I.op \in CallOps -> <<functionType(M, I)>> \o Tail(types)
        [] I.op = "phi" -> <<I.type>>
        [] I.op = "br" -> <<BasicBlockType>>
        [] I.op = "condbr" -> <<I1, BasicBlockType, BasicBlockType>>
        [] I.op \in {"store", "select", "ret"} -> types

PrintedInstruction(M, I) ==
  Line(IF I.op \in DOMAIN Mnemonic THEN Mnemonic[I.op] ELSE I.op, I.id,
       IF I.op \in {"icmp", "fcmp"} THEN I.aux ELSE <<>>, PrintedTypes(M, I),
       IF I.args = <<VoidValue>> THEN <<>> ELSE [k \in DOMAIN I.args |-> Token(I.args[k])], I.labels)

PrintedGlobalVar(G) ==
  LET declared == G.init[1] = "none"
  IN  Line("globalvar", G.id,
           <<IF declared THEN "external" ELSE "", G.linkage, IF G.constant THEN "constant" ELSE "global">>,
           <<G.type>>, IF declared THEN <<>> ELSE <<Token(G.init)>>, <<>>)

PrintedFunction(M, F) ==
  LET header == Line(IF IsDeclaration(F) THEN "declare" ELSE "define", F.id, <<F.linkage, F.attrs>>,
                     <<F.type>>, IF IsDeclaration(F) THEN <<>> ELSE
                                 [k \in DOMAIN F.params |-> Token(F.params[k])], <<>>)
      lines(B) == <<Line("label", B.label, <<>>, <<>>, <<>>, <<>>)>>
                    \o [k \in DOMAIN B.code |-> PrintedInstruction(M, B.code[k])]
  IN  <<header>> \o (IF IsDeclaration(F) THEN <<>> ELSE
        FlattenSeq([k \in DOMAIN F.blocks |-> lines(F.blocks[k])])
          \o <<Line("}", "", <<>>, <<>>, <<>>, <<>>)>>)

Printed(M) == [k \in DOMAIN M.vars |-> PrintedGlobalVar(M.vars[k])]
                \o FlattenSeq([k \in DOMAIN M.fns |-> PrintedFunction(M, M.fns[k])])

-----------------------------------------------------------------------------
(* Values.                                                                 *)

ErrorValue == <<"error", Void, 0>>
Label(b) == <<"block", BasicBlockType, b>>
IsUndefined(v) == v[1] = "undefined"
\* Mutant: whatever the type of the name is.
LookedUpAnyType(symbols, s, t) == IF s \in DOMAIN symbols THEN symbols[s] ELSE ErrorValue

LookedUp(symbols, s, t) ==
  IF s \in DOMAIN symbols /\ typeOf(symbols[s]) = t THEN symbols[s] ELSE ErrorValue

RECURSIVE parseConstant(_, _, _)
parseArrayConstant(symbols, t, token) ==
  CASE token[1] = "list" ->
         LET elements == [k \in DOMAIN token[3] |-> parseConstant(symbols, t[2], token[3][k])]
         IN  IF /\ \A k \in DOMAIN token[2] : token[2][k] = t[2]
                /\ Len(elements) = t[3] /\ ErrorValue \notin ToSet(elements)
             THEN ArrayConstant(t, elements) ELSE ErrorValue
    [] token[1] = "string" ->
         IF t[2] = I8 /\ Len(token[2]) = t[3]
         THEN ArrayConstant(t, [k \in DOMAIN token[2] |-> Constant(I8, token[2][k])]) ELSE ErrorValue
    [] OTHER -> ErrorValue

\* Numbers lose the bits their type has no room for.
parseConstant(symbols, t, token) ==
  CASE token[1] = "zeroinitializer" -> zeroValue(t)
    [] token[1] = "poison" -> Poison(t)
    [] token[1] \notin {"zeroinitializer", "poison"} ->
         CASE t = I1 /\ token[1] \in {"true", "false"} -> Constant(I1, IF token[1] = "true" THEN 1 ELSE 0)
           [] t \in (IntegerTypes \ {I1}) \cup {Double} /\ token[1] = "number" -> Constant(t, token[2])
           [] t = Float /\ token[1] = "number" ->
                Constant(Float, FloatingCast(bitSize(Double), bitSize(Float), token[2]))
           [] t = Ptr /\ token[1] = "null" -> NullPtr
           [] t = Ptr /\ token[1] = "@" -> LookedUp(symbols, token, Ptr)
           [] IsArray(t) -> parseArrayConstant(symbols, t, token)
           [] OTHER -> ErrorValue

(***************************************************************************)
(* p is what has been read of a line: the values and the table, to which a *)
(* local name that is not defined yet is added as a placeholder of the type*)
(* it is used with.                                                        *)
(***************************************************************************)
parseIdentifier(p, t, token) ==
  LET v == IF token \in DOMAIN p.table THEN LookedUp(p.table, token, t)
           ELSE IF t = BasicBlockType THEN ErrorValue ELSE Undefined(t, token[2])
  IN  [table |-> [s \in DOMAIN p.table \cup (IF v = ErrorValue THEN {} ELSE {token}) |->
                    IF s \in DOMAIN p.table THEN p.table[s] ELSE v],
       vals |-> Append(p.vals, v)]

parseValue(p, t, token) ==
  IF token[1] = "%" THEN parseIdentifier(p, t, token)
  ELSE [p EXCEPT !.vals = Append(@, parseConstant(p.table, t, token))]

parseValues(types, tokens) ==
  FoldLeft(LAMBDA p, k : parseValue(p, types[k], tokens[k]),
           [table |-> table, vals |-> <<>>], [k \in DOMAIN tokens |-> k])

-----------------------------------------------------------------------------
(* Instructions.                                                           *)

L == text[at]

Defining == Arithmetic \cup FloatingArithmetic \cup CastOperations
              \cup {"fneg", "icmp", "fcmp", "alloca", "load", "select", "getelementptr", "phi"}

ReturnTypeOf(line) == IF IsFunctionType(line.types[1]) THEN line.types[1][2] ELSE line.types[1]

CastTypesOk(op, from, to) ==
  /\ op \in IntegerCasts \cup ToFloating \cup {"inttoptr"} => from \in IntegerTypes
  /\ op \in FloatingCasts \cup ToInteger => from \in FloatingTypes
  /\ op = "ptrtoint" => from = Ptr
  /\ op \in IntegerCasts \cup ToInteger \cup {"ptrtoint"} => to \in IntegerTypes
  /\ op \in FloatingCasts \cup ToFloating => to \in FloatingTypes
  /\ op = "inttoptr" => to = Ptr
  /\ op = "bitcast" => (from = Ptr) = (to = Ptr)

\* The type of a select's last operand is read and not looked at.
TypesOk(line) ==
  LET t == line.types
  IN  CASE line.op \in Arithmetic -> t[1] \in IntegerTypes
        [] line.op \in FloatingArithmetic \cup {"fneg", "fcmp"} -> t[1] \in FloatingTypes
        [] line.op = "icmp" -> t[1] \in IntegerOrPointerTypes
        [] line.op \in CastOperations -> CastTypesOk(line.op, t[1], t[2])
        [] line.op \in {"load", "store"} -> t[2] = Ptr
        [] line.op = "select" -> t[1] = I1
        [] line.op = "getelementptr" ->
             /\ t[1] \notin {Void, BasicBlockType} /\ t[2] = Ptr
             /\ \A k \in 3 .. Len(t) : t[k] \in IntegerTypes
             /\ Len(t) - 3 <= ArrayDepth(t[1])
        [] line.op = "call" -> (line.id = "") = (ReturnTypeOf(line) = Void)
        [] line.op = "br" -> t \in {<<BasicBlockType>>, <<I1, BasicBlockType, BasicBlockType>>}
        [] line.op \in {"alloca", "phi", "ret"} -> TRUE

\* The types the operands of a line are read with.
OperandTypes(line) ==
  LET t == line.types
  IN  CASE line.op \in {"load"} -> <<Ptr>>
        [] line.op = "select" -> <<I1, t[2], t[2]>>
        [] line.op = "getelementptr" -> Tail(t)
        [] line.op = "call" -> <<Ptr>> \o Tail(t)
        [] line.op \in {"store", "br"} -> t
        [] OTHER -> [k \in DOMAIN line.vals |-> t[1]]

LabelsOk(line) ==
  /\ \A b \in ToSet(line.labels) : LookedUp(table, <<"%", b>>, BasicBlockType) # ErrorValue
  /\ line.op = "phi" => line.labels # <<>> /\ IsInjective(line.labels)

CallsFunction(callee) == callee[1] = "global" /\ callee[3] \in Functions(module)

\* A call names the type of the function, or its return type only.
CalleeOk(line, callee) ==
  LET ft == FunctionNamed(module, callee[3]).type
  IN  CallsFunction(callee) => line.types[1] = IF IsFunctionType(line.types[1]) THEN ft ELSE ft[2]

Parsed(line, vals) ==
  LET t == line.types
      is(op, type, aux) == Instruction(op, line.id, type, vals, line.labels, aux)
      named == IF IsFunctionType(t[1]) THEN t[1] ELSE FunctionType(t[1], Tail(t), FALSE)
  IN  CASE line.op \in {"icmp", "fcmp"} -> is(line.op, I1, line.aux)
        [] line.op \in CastOperations -> is(line.op, t[2], <<>>)
        [] line.op = "alloca" -> is("alloca", Ptr, t)
        [] line.op = "getelementptr" -> is("getelementptr", Ptr, <<t[1]>>)
        [] line.op = "select" -> is("select", t[2], <<>>)
        [] line.op = "store" -> is("store", Void, <<>>)
        [] line.op = "br" -> is(IF t[1] = I1 THEN "condbr" ELSE "br", Void, <<>>)
        [] line.op = "ret" -> [is("ret", Void, <<>>) EXCEPT !.args = IF @ = <<>> THEN <<VoidValue>> ELSE @]
        [] line.op = "call" ->
             IF CallsFunction(vals[1]) THEN is("call", ReturnTypeOf(line), <<>>)
             ELSE is("indirectcall", ReturnTypeOf(line), <<named>>)
        [] OTHER -> is(line.op, t[1], <<>>)

\* Mutant: the uses in the first block only.
replaceUsesInFirstBlock(blocks, v, w) ==
  [blocks EXCEPT ![1].code =
     [k \in DOMAIN @ |-> [@[k] EXCEPT !.args = [j \in DOMAIN @ |-> IF @[j] = v THEN w ELSE @[j]]]]]

replaceAllUsesWith(blocks, v, w) ==
  [b \in DOMAIN blocks |-> [blocks[b] EXCEPT !.code =
     [k \in DOMAIN @ |-> [@[k] EXCEPT !.args = [j \in DOMAIN @ |-> IF @[j] = v THEN w ELSE @[j]]]]]]

\* Does the instruction that defines id use its own value, not through a phi?
Circular(blocks, id) ==
  LET code == UNION {ToSet(B.code) : B \in ToSet(blocks)}
      named == {I \in code : I.op # "phi" /\ I.id # ""}
      users(ids) == {I.id : I \in {J \in named : \E v \in ToSet(J.args) : IsValue(v) /\ v[3] \in ids}}
      reach[n \in 0 .. Cardinality(named)] ==
        IF n = 0 THEN users({id}) ELSE UNION {near \cup users(near) : near \in {reach[n - 1]}}
  IN  id \in reach[Cardinality(named)]

-----------------------------------------------------------------------------
(* The parser.                                                             *)

Current == Head(waiting)[2]              \* the variable or function that is read now
Blocks == module.fns[Current].blocks
Grown(blocks) == [module EXCEPT !.fns[Current].blocks = blocks]

WithSymbol(symbols, s, v) == [x \in DOMAIN symbols \cup {s} |-> IF x = s THEN v ELSE symbols[x]]

Reject == reading' = "rejected" /\ UNCHANGED <<text, at, table, module, waiting>>

RECURSIVE HasEmptyLiteral(_)
HasEmptyLiteral(token) ==
  token = EmptyLiteral \/ (token[1] = "list" /\ \E k \in DOMAIN token[3] : HasEmptyLiteral(token[3][k]))

\* The lexer reads the whole text first. 0x needs a digit.
Lex ==
  /\ reading = "lex"
  /\ IF \E k \in DOMAIN text : \E token \in ToSet(text[k].vals) : HasEmptyLiteral(token)
     THEN Reject
     ELSE reading' = "headers" /\ UNCHANGED <<text, at, table, module, waiting>>

InHeaders == reading = "headers" /\ at <= Len(text)

\* A redefinition is an error, and so is a declaration with a linkage.
ReadGlobalVar ==
  /\ InHeaders /\ L.op = "globalvar"
  /\ LET declared == L.aux[1] = "external"
         G == [id |-> L.id, linkage |-> L.aux[2], constant |-> ~declared /\ L.aux[3] = "constant",
               type |-> L.types[1], init |-> <<"none", L.types[1], 0>>]
     IN  IF \/ <<"@", L.id>> \in DOMAIN table
            \/ declared # (L.vals = <<>>) \/ (declared /\ L.aux[2] # "external")
         THEN Reject
         ELSE /\ module' = [module EXCEPT !.vars = Append(@, G)]
              /\ table' = WithSymbol(table, <<"@", L.id>>, Global(L.id))
              /\ waiting' = IF declared THEN waiting
                            ELSE Append(waiting, <<"initializer", Len(module.vars) + 1, at>>)
              /\ at' = at + 1 /\ UNCHANGED <<text, reading>>

\* The body is skipped, up to the next }.
ReadFunctionHeader ==
  /\ InHeaders /\ L.op \in {"define", "declare"}
  /\ LET declared == L.op = "declare"
         type == L.types[1]
         ends == {k \in (at + 1) .. Len(text) : text[k].op = "}"}
         H == [id |-> L.id, linkage |-> L.aux[1], attrs |-> L.aux[2], type |-> type, blocks |-> <<>>,
               params |-> [k \in DOMAIN type[3] |->
                             Value(type[3][k], IF declared THEN "" ELSE L.vals[k][2])]]
     IN  IF \/ <<"@", L.id>> \in DOMAIN table
            \/ declared /\ L.aux[1] # "external"
            \/ type[2] = BasicBlockType \/ {Void, BasicBlockType} \cap ToSet(type[3]) # {}
            \/ ~declared /\ ~(IsInjective(L.vals) /\ ends # {})
         THEN Reject
         ELSE /\ module' = [module EXCEPT !.fns = Append(@, H)]
              /\ table' = WithSymbol(table, <<"@", L.id>>, Global(L.id))
              /\ waiting' = IF declared THEN waiting
                            ELSE Append(waiting, <<"body", Len(module.fns) + 1, at>>)
              /\ at' = IF declared THEN at + 1 ELSE Min(ends) + 1
              /\ UNCHANGED <<text, reading>>

RejectHeader ==
  InHeaders /\ L.op \notin {"globalvar", "define", "declare"} /\ Reject

EndHeaders ==
  /\ reading = "headers" /\ at > Len(text)
  /\ waiting' = SelectSeq(waiting, LAMBDA w : w[1] = "initializer")
                  \o SelectSeq(waiting, LAMBDA w : w[1] = "body")
  /\ reading' = "rest" /\ UNCHANGED <<text, at, table, module>>

ReadInitializer ==
  /\ reading = "rest" /\ waiting # <<>> /\ Head(waiting)[1] = "initializer"
  /\ LET line == text[Head(waiting)[3]]
         v == IF line.vals[1][1] = "%" THEN ErrorValue
              ELSE parseConstant(table, line.types[1], line.vals[1])
     IN  IF v = ErrorValue THEN Reject
         ELSE /\ module' = [module EXCEPT !.vars[Current].init = v]
              /\ waiting' = Tail(waiting)
              /\ UNCHANGED <<text, reading, at, table>>

\* Parameters and labels are entered into the table before the body is read.
EnterBody ==
  /\ reading = "rest" /\ waiting # <<>> /\ Head(waiting)[1] = "body"
  /\ LET start == Head(waiting)[3]
         end == Min({k \in (start + 1) .. Len(text) : text[k].op = "}"})
         labels == SelectSeq([k \in 1 .. (end - start) |-> text[start + k]], LAMBDA l : l.op = "label")
         names == [k \in DOMAIN labels |-> labels[k].id]
         params == ToSet(module.fns[Current].params)
     IN  IF ~IsInjective(names) \/ ToSet(names) \cap {v[3] : v \in params} # {} THEN Reject
         ELSE /\ table' = [s \in DOMAIN table \cup {<<"%", v[3]>> : v \in params}
                                    \cup {<<"%", b>> : b \in ToSet(names)} |->
                             IF s \in DOMAIN table THEN table[s]
                             ELSE IF s[2] \in ToSet(names) THEN Label(s[2])
                             ELSE CHOOSE v \in params : v[3] = s[2]]
              /\ reading' = "body" /\ at' = start + 1
              /\ UNCHANGED <<text, module, waiting>>

ReadLabel ==
  /\ reading = "body" /\ L.op = "label"
  /\ module' = Grown(Append(Blocks, [label |-> L.id, code |-> <<>>]))
  /\ at' = at + 1 /\ UNCHANGED <<text, reading, table, waiting>>

\* The instruction joins the last block and, if it was used before, its users.
Joined(I) ==
  LET grown == [Blocks EXCEPT ![Len(Blocks)].code = Append(@, I)]
  IN  IF I.id = "" THEN grown
      ELSE replaceAllUsesWith(grown, Undefined(I.type, I.id), Value(I.type, I.id))

ReadInstruction ==
  /\ reading = "body" /\ L.op \notin {"label", "}"}
  /\ IF \/ Blocks = <<>> \/ L.op \notin Defining \cup {"store", "call", "br", "ret"}
        \/ (L.op \in Defining /\ L.id = "") \/ (L.op \in {"store", "br", "ret"} /\ L.id # "")
        \/ ~TypesOk(L) \/ ~LabelsOk(L)
     THEN Reject
     ELSE LET p == parseValues(OperandTypes(L), L.vals)
              s == <<"%", L.id>>
              I == Parsed(L, p.vals)
              before == s \in DOMAIN p.table
          IN  IF \/ ErrorValue \in ToSet(p.vals)
                 \/ L.op = "call" /\ ~CalleeOk(L, p.vals[1])
                 \/ L.id # "" /\ before /\ ~(IsUndefined(p.table[s]) /\ typeOf(p.table[s]) = I.type)
                 \/ L.id # "" /\ before /\ Circular(Joined(I), L.id)
              THEN Reject
              ELSE /\ module' = Grown(Joined(I))
                   /\ table' = IF L.id = "" THEN p.table ELSE WithSymbol(p.table, s, Value(I.type, L.id))
                   /\ at' = at + 1 /\ UNCHANGED <<text, reading, waiting>>

\* Every name must be defined; then the local names are forgotten.
EndBody ==
  /\ reading = "body" /\ L.op = "}"
  /\ IF Blocks = <<>> \/ \E s \in DOMAIN table : IsUndefined(table[s]) THEN Reject
     ELSE /\ table' = [s \in {x \in DOMAIN table : x[1] = "@"} |-> table[s]]
          /\ waiting' = Tail(waiting)
          /\ reading' = "rest" /\ UNCHANGED <<text, at, module>>

EndOfText ==
  /\ reading = "rest" /\ waiting = <<>>
  /\ reading' = "accepted" /\ UNCHANGED <<text, at, table, module, waiting>>

ReaderNext ==
  \/ Lex \/ ReadGlobalVar \/ ReadFunctionHeader \/ RejectHeader \/ EndHeaders
  \/ ReadInitializer \/ EnterBody \/ ReadLabel \/ ReadInstruction \/ EndBody \/ EndOfText
=============================================================================
