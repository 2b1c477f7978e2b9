----------------------------- MODULE MCMem2Reg -----------------------------
EXTENDS Mem2Reg

I(op, id, args) == [op |-> op, id |-> id, args |-> args, dests |-> <<>>]
AllocaI(v) == I("alloca", v, <<>>)
StoreI(value, ptr) == I("store", "none", <<value, ptr>>)
LoadI(id, ptr) == I("load", id, <<ptr>>)
CallI(id, args) == I("call", id, args)
CondBr(v, t, e) == [op |-> "condbr", id |-> "none", args |-> <<v>>, dests |-> <<t, e>>]
Ret == I("ret", "none", <<>>)

Names == <<"b0", "b1", "b2", "b3", "b4">>

\* The variables x and y are in memory; x begins as the argument.
Fn(bodies, terms) ==
  LET names == SelectSeq(Names, LAMBDA b : b \in DOMAIN terms)
      head(b) == IF b = "b0" THEN <<AllocaI("x"), AllocaI("y"), StoreI("arg", "x")>> ELSE <<>>
      body(b) == IF b \in DOMAIN bodies THEN bodies[b] ELSE <<>>
  IN  [layout |-> names,
       code |-> [b \in DOMAIN terms |-> head(b) \o body(b) \o <<terms[b]>>]]

\* What a block may do; n tells its values from those of other blocks.
Set == <<StoreI("true", "x")>>
UseOf(v, n) == <<LoadI("use" \o n, v), CallI("call" \o n, <<"use" \o n>>)>>
Flip(n) == <<LoadI("old" \o n, "x"), I("not", "new" \o n, <<"old" \o n>>),
             StoreI("new" \o n, "x")>>
Copy(n) == <<LoadI("from" \o n, "x"), StoreI("from" \o n, "y")>>
Swap(n) == <<LoadI("x" \o n, "x"), LoadI("y" \o n, "y"),
             StoreI("y" \o n, "x"), StoreI("x" \o n, "y")>>

(* A chain of five blocks in which b1, b2 and b3 may also branch to another*)
(* block: joins, nested and overlapping loops, with one or two entries.    *)
Second == [b0 |-> {"b1", "b2", "b3"}, b1 |-> {"b2", "b3", "b4"},
           b2 |-> {"b1", "b3", "b4"}, b3 |-> {"b1", "b2", "b4"},
           b4 |-> {"ret", "b1", "b3"}]
Chain(b) == CASE b = "b0" -> "b1" [] b = "b1" -> "b2" [] b = "b2" -> "b3" [] b = "b3" -> "b4"

Graphs ==
  {[b \in Range(Names) |->
      IF second[b] = "ret" THEN Ret
      ELSE IF b = "b4" THEN Br(second[b])
      ELSE IF second[b] = Chain(b) THEN Br(Chain(b))
      ELSE CondBr("arg", Chain(b), second[b])] :
     second \in {s \in [Range(Names) -> Range(Names) \cup {"ret"}] :
                   \A b \in Range(Names) : s[b] \in Second[b]}}

GraphFuncs ==
  {Fn([b1 |-> UseOf("x", "1"), b2 |-> Flip("2"), b3 |-> Set, b4 |-> UseOf("x", "4")], terms) :
     terms \in Graphs}

(* A loop around a diamond, with all choices of what its blocks do; the    *)
(* branches depend on x itself.                                            *)
Bodies(n) == {<<>>, Set, Flip(n), Copy(n), Swap(n)}
Diamond ==
  [b0 |-> Br("b1"), b1 |-> CondBr("old1", "b2", "b3"), b2 |-> Br("b4"), b3 |-> Br("b4"),
   b4 |-> CondBr("use4", "b1", "b4")]
LoopFuncs ==
  {Fn([b1 |-> Flip("1"), b2 |-> body2, b3 |-> body3,
       b4 |-> UseOf("x", "4") \o UseOf("y", "5")], Diamond) :
     body2 \in Bodies("2"), body3 \in Bodies("3")}

\* Variables that may not be promoted: a call gets the address of x, x is read
\* as another type, the address of x is stored in y or in x itself.
EscapeFuncs ==
  {Fn([b0 |-> escape, b1 |-> <<LoadI("p", "y")>> \o Flip("1"), b2 |-> Set,
       b3 |-> UseOf("x", "3") \o <<CallI("end", <<"p">>)>>],
      [b0 |-> Br("b1"), b1 |-> CondBr("arg", "b2", "b3"), b2 |-> Br("b3"), b3 |-> Ret]) :
     escape \in {<<CallI("take", <<"x">>)>>, <<I("peek", "bits", <<"x">>)>>,
                 <<StoreI("x", "y")>>, <<StoreI("x", "x"), StoreI("arg", "x")>>}}

\* A block that cannot be reached stores to x and is a predecessor of b2.
UnreachableFunc ==
  Fn([b1 |-> Set, b2 |-> UseOf("x", "2"), b3 |-> Set],
     [b0 |-> CondBr("arg", "b1", "b2"), b1 |-> Br("b2"), b2 |-> Ret, b3 |-> Br("b2")])

\* A phi of the program's own, of values loaded on both sides of a branch.
PhiFunc ==
  Fn([b1 |-> Flip("1"), b2 |-> Flip("2") \o Copy("3"),
      b3 |-> <<[op |-> "phi", id |-> "q", args |-> <<"old1", "from3">>, dests |-> <<"b1", "b2">>],
               CallI("end", <<"q">>)>>],
     [b0 |-> CondBr("arg", "b1", "b2"), b1 |-> Br("b3"), b2 |-> Br("b3"), b3 |-> Ret])

MCFuncs ==
  {G \in GraphFuncs \cup LoopFuncs \cup EscapeFuncs \cup {UnreachableFunc, PhiFunc} :
     isWellFormed(G)}
=============================================================================
