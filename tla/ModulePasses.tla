---------------------------- MODULE ModulePasses ----------------------------
(***************************************************************************)
(* The passes of ir::PassManager::run that look at more than one function: *)
(* AttributeDeduction, FunctionInlining and GlobalDeadCodeElimination.     *)
(***************************************************************************)
EXTENDS IrPass

callees(P, f) == {callee(I) : I \in {J \in instructions(P.functions[f]) : IsCall(J)}}

-----------------------------------------------------------------------------
(* AttributeDeduction. The pass finds the strongly connected components of *)
(* the call graph and goes through them, callees first; a component is not *)
(* pure if a function of it is not, or a component it calls. That is: a    *)
(* function is not pure if a call can lead to one that is not.             *)

accessesOutside(G, I, ops) ==
  I.op \in ops /\ ~(defines(G, pointer(I)) /\ definition(G, pointer(I)).op = "alloca")

impure(P, f, attr, ops) ==
  LET G == P.functions[f]
  IN  /\ ~HasAttr(P, f, attr)
      /\ \/ isDeclaration(G)
         \/ \E I \in instructions(G) : accessesOutside(G, I, ops) \/ I.op = "icall"

notPure(P, attr, ops) ==
  LET fs == DOMAIN P.functions
      next == [f \in fs |-> callees(P, f)]
  IN  {f \in fs : \E g \in Closure({f}, next, Cardinality(fs)) : impure(P, g, attr, ops)}

Deduced(P) ==
  LET notReadNone == notPure(P, "ReadNone", Stores \cup Loads)
      notReadOnly == notPure(P, "ReadOnly", Stores)
      attrs(f) ==
        LET old == P.functions[f].attrs
        IN  IF f \notin notReadNone THEN (old \ {"ReadOnly"}) \cup {"ReadNone"}
            ELSE IF "ReadNone" \notin old /\ f \notin notReadOnly THEN old \cup {"ReadOnly"}
            ELSE old
      new == [f \in DOMAIN P.functions |->
                IF HasAttr(P, f, "ReadNone") THEN P.functions[f].attrs ELSE attrs(f)]
  IN  [P EXCEPT !.functions = [f \in DOMAIN @ |-> [@[f] EXCEPT !.attrs = new[f]]]]

AttributeDeduction ==
  /\ pass = "attributes"
  /\ LET P == Deduced(prog) IN FinishModule(P, P # prog)

-----------------------------------------------------------------------------
(* FunctionInlining. A block is left after its first call that is inlined; *)
(* what followed the call is in a new block at the end of the function,    *)
(* which is visited in its turn, as are the blocks of the callee.          *)

size(G) == FoldLeft(LAMBDA n, c : n + Len(G.code[c]), 0, G.layout)
isRecursive(f) == f \in callees(prog, f)

\* I is a call in the function G.
shouldInline(G, I) ==
  LET F == prog.functions[callee(I)]
  IN  /\ IsCall(I) /\ ~isDeclaration(F)
      /\ "NoInline" \notin F.attrs
      /\ \/ "AlwaysInline" \in F.attrs
         \/ /\ ~isRecursive(callee(I))
            /\ size(F) <= CalleeThreshold
            /\ size(G) <= CallerThreshold

\* The call at index k of block c replaced by the body of the callee F.
Inlined(G, c, k, F) ==
  LET call == G.code[c][k]
      mark == Mark(G, {c \o "."} \cup BlocksOf(F) \cup {I.id : I \in instructions(F)})
      Map(v) == IF v \in Range(F.params)
                THEN actuals(call)[CHOOSE j \in DOMAIN F.params : F.params[j] = v]
                ELSE IF defines(F, v) THEN mark[v] ELSE v
      rest == mark[c \o "."]
      cloned(x) ==
        LET body == SelectSeq(F.code[x], LAMBDA I : I.op \notin {"ret", "alloca"})
        IN  [j \in DOMAIN body |->
               [body[j] EXCEPT !.id = IF @ = "none" THEN @ ELSE mark[@],
                               !.args = [m \in DOMAIN @ |-> Map(@[m])],
                               !.dests = [m \in DOMAIN @ |-> mark[@[m]]]]]
            \o IF Terminator(F, x).op = "ret" THEN <<Br(rest)>> ELSE <<>>
      exits == SelectSeq(F.layout, LAMBDA x : Terminator(F, x).op = "ret")
      result == [op |-> "phi", id |-> call.id,
                 args |-> [j \in DOMAIN exits |-> Map(Terminator(F, exits[j]).args[1])],
                 dests |-> [j \in DOMAIN exits |-> mark[exits[j]]]]
      after == (IF F.void THEN <<>> ELSE <<result>>)
                 \o SubSeq(G.code[c], k + 1, Len(G.code[c]))
      \* The phis behind the block come from the new one.
      MovedPhi(x, I) ==
        IF IsPhi(I) /\ x \in successors(G, c) /\ hasIncomingBlock(I, c)
        THEN addIncoming(removeIncomingBlock(I, c), rest, getIncomingValue(I, c)) ELSE I
      before == SubSeq(G.code[c], 1, k - 1) \o <<Br(mark[Entry(F)])>>
      slots == Reverse(FoldLeft(LAMBDA seq, x : seq \o
                 SelectSeq(F.code[x], LAMBDA I : I.op = "alloca"), <<>>, F.layout))
      clonedSlots == [j \in DOMAIN slots |-> [slots[j] EXCEPT !.id = mark[@]]]
      H == [x \in BlocksOf(G) \cup {rest} |->
              IF x = rest THEN after ELSE IF x = c THEN before ELSE G.code[x]]
      phisMoved == [x \in DOMAIN H |-> [j \in DOMAIN H[x] |-> MovedPhi(x, H[x][j])]]
      callerCode == [phisMoved EXCEPT ![Entry(G)] = clonedSlots \o @]
  IN  [G EXCEPT
        !.layout = @ \o <<rest>> \o [j \in DOMAIN F.layout |-> mark[F.layout[j]]],
        !.code = [x \in DOMAIN callerCode \cup {mark[y] : y \in BlocksOf(F)} |->
                    IF x \in DOMAIN callerCode THEN callerCode[x]
                    ELSE cloned(CHOOSE y \in BlocksOf(F) : mark[y] = x)]]

StartInline == Start("inline", <<>>)

InlineInBlock ==
  /\ Scanning("inline")
  /\ LET body == fn.code[b]
         inlineable == {k \in DOMAIN body : shouldInline(fn, body[k])}
         k == CHOOSE j \in inlineable : \A i \in inlineable : j <= i
     IN  IF inlineable = {} THEN Advance(fn, FALSE)
         ELSE Advance(Inlined(fn, b, k, prog.functions[callee(body[k])]), TRUE)

EndInline == Swept("inline") /\ Finish(fn, swept)

-----------------------------------------------------------------------------
(* GlobalDeadCodeElimination: keep what external definitions lead to.      *)

names(P, g) ==
  Globals(P) \cap
    IF g \in DOMAIN P.vars THEN Range(P.vars[g].init)
    ELSE UNION {Range(I.args) : I \in instructions(P.functions[g])}

Used(P) ==
  LET roots == {f \in DOMAIN P.functions :
                  P.functions[f].linkage = "external" /\ ~isDeclaration(P.functions[f])}
               \cup {g \in DOMAIN P.vars : P.vars[g].linkage = "external" /\ P.vars[g].init # <<>>}
  IN  Closure(roots, [g \in Globals(P) |-> names(P, g)], Cardinality(Globals(P)))

GlobalDeadCodeElimination ==
  /\ pass = "gdce"
  /\ LET used == Used(prog)
         P == [prog EXCEPT
                 !.order = SelectSeq(@, LAMBDA f : f \in used),
                 !.functions = [f \in DOMAIN @ \cap used |-> @[f]],
                 !.vars = [g \in DOMAIN @ \cap used |-> @[g]]]
     IN  FinishModule(P, P # prog)

ModulePassesNext ==
  \/ AttributeDeduction
  \/ StartInline \/ InlineInBlock \/ EndInline
  \/ GlobalDeadCodeElimination
=============================================================================
