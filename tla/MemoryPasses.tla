---------------------------- MODULE MemoryPasses ----------------------------
(***************************************************************************)
(* The passes of ir::PassManager::run that work on memory, and the alias   *)
(* analysis they ask: TailCallElimination, which makes a function reuse its*)
(* stack slots, DeadStoreElimination, RedundantLoadElimination and         *)
(* ArrayFlattening. DeadStoreElimination and RedundantLoadElimination do   *)
(* one block in one action, as nothing else reads what they keep of it.    *)
(***************************************************************************)
EXTENDS IrPass

-----------------------------------------------------------------------------
(* AliasAnalysis.                                                          *)

isAlloca(G, v) == defines(G, v) /\ definition(G, v).op = "alloca"
isObject(G, v) == (v \in Globals(prog) \cup Range(G.params)) \/ isAlloca(G, v)

\* What a pointer is computed from: a gep's base, the only incoming value of a phi.
base(I) ==
  IF I.op \in {"gep", "gep8"} \/ (IsPhi(I) /\ Len(I.args) = 1) THEN I.args[1] ELSE "none"

\* The objects pointers are known to point into, found in dominance order.
Objects(G) ==
  LET ids == ValuesInOrder(G)
      next(objects, id) ==
        LET ptr == IF defines(G, id) THEN base(definition(G, id)) ELSE "none"
        IN  CASE ptr # "none" /\ isObject(G, ptr) -> (id :> ptr) @@ objects
              [] ptr \in DOMAIN objects -> (id :> objects[ptr]) @@ objects
              [] OTHER -> objects
      found[k \in 0 .. Len(ids)] ==
        IF k = 0 THEN <<>> ELSE The({next(objects, ids[k]) : objects \in {found[k - 1]}})
  IN  found[Len(ids)]

objectOf(objects, ptr) == IF ptr \in DOMAIN objects THEN objects[ptr] ELSE ptr

distinct(G, o1, o2) ==
  LET isGlobal(o) == o \in Globals(prog)
      isArgument(o) == o \in Range(G.params)
      isSlot(o) == isAlloca(G, o)
  IN  \/ o1 # o2 /\ isGlobal(o1) /\ isGlobal(o2)
      \/ o1 # o2 /\ isSlot(o1) /\ isSlot(o2)
      \/ \E one \in {o1, o2} : \E other \in {o1, o2} \ {one} :
           isSlot(one) /\ (isGlobal(other) \/ isArgument(other))

noAlias(G, objects, p1, p2) ==
  p1 = "null" \/ p2 = "null" \/ distinct(G, objectOf(objects, p1), objectOf(objects, p2))

aliasSized(G, objects, p1, size1, p2, size2) ==
  CASE p1 = "null" \/ p2 = "null" -> "no"
    [] p1 # "null" /\ p1 = p2 -> IF size1 = size2 THEN "must" ELSE "partial"
    [] OTHER -> IF noAlias(G, objects, p1, p2) THEN "no" ELSE "may"

\* How what instruction J accesses is related to what I accesses.
aliasOf(G, objects, I, J) ==
  aliasSized(G, objects, pointer(I), accessSize(I), pointer(J), accessSize(J))

\* Of the accesses in S, those that a call cannot touch. (An integer among the
\* arguments of such a call is a constant.)
Untouched(G, objects, I, S) ==
  IF callsWith(prog, I, {"ArgMemOnly", "InaccessibleMemOrArgMemOnly"})
  THEN {J \in S : \A v \in Range(actuals(I)) : isLiteral(v) \/ noAlias(G, objects, v, pointer(J))}
  ELSE {}

-----------------------------------------------------------------------------
(* DeadStoreElimination: a store is removed when the block stores to the   *)
(* same place again and nothing between them may read it.                  *)

StartDeadStore == Start("deadstore", Objects(fn))

\* Mutant: a load leaves the stores open that it may read.
NotReadAny(G, objects, I, open) == open

NotRead(G, objects, I, open) == {s \in open : aliasOf(G, objects, I, s[2]) = "no"}

\* The indices of the stores of block c that are dead. Open are those that may
\* still turn out to be, each with its index.
DeadStores(G, objects, c) ==
  LET body == G.code[c]
      pure(I) == callsWith(prog, I, {"ReadNone", "ReadOnly", "InaccessibleMemOnly"})
      visit(s, k) ==
        LET I == body[k]
            untouched == Untouched(G, objects, I, {j[2] : j \in s.open})
        IN  CASE I.op \in Stores ->
                   [open |-> {j \in s.open : aliasOf(G, objects, I, j[2]) = "no"} \cup {<<k, I>>},
                    dead |-> s.dead \cup {j[1] : j \in {o \in s.open : aliasOf(G, objects, I, o[2]) = "must"}}]
              [] I.op \in Loads -> [s EXCEPT !.open = NotRead(G, objects, I, @)]
              [] IsCall(I) /\ ~pure(I) -> [s EXCEPT !.open = {j \in @ : j[2] \in untouched}]
              [] I.op = "icall" -> [s EXCEPT !.open = {}]
              [] OTHER -> s
      visited[k \in 0 .. Len(body)] ==
        IF k = 0 THEN [open |-> {}, dead |-> {}]
        ELSE The({visit(s, k) : s \in {visited[k - 1]}})
  IN  visited[Len(body)].dead

DeadStoreElimination ==
  /\ Scanning("deadstore")
  /\ LET dead == DeadStores(fn, snapshot, b)
         kept == SelectSeq([k \in DOMAIN fn.code[b] |-> k], LAMBDA k : k \notin dead)
     IN  Advance([fn EXCEPT !.code[b] = [j \in DOMAIN kept |-> @[kept[j]]]], dead # {})

EndDeadStore == Swept("deadstore") /\ Finish(fn, swept)

-----------------------------------------------------------------------------
(* RedundantLoadElimination: a load gives what the block has stored to or  *)
(* loaded from the same place, if nothing since then may have changed it.  *)
(* Which of several such accesses is taken is not determined; they hold    *)
(* the same value.                                                         *)

StartRedundantLoad == Start("deadload", Objects(fn))

\* The stores and loads of the block, as they were met, are kept in open.
VisitLoad(s, objects, I) ==
  LET G == s.fn
      same == {J \in s.open : /\ aliasOf(G, objects, I, J) = "must"
                              /\ accessType(I) = accessType(J)}
      stored == {J \in same : J.op \in Stores}
      J == The(IF stored # {} THEN stored ELSE same)
  IN  IF same = {} THEN [s EXCEPT !.open = @ \cup {I}]
      ELSE [s EXCEPT !.fn = ReplaceBy(G, I.id, IF J.op \in Stores THEN J.args[1] ELSE J.id)]

RedundantLoads(G, objects, c) ==
  LET visit(s, k) ==
        LET I == s.fn.code[c][k - s.gone]
            next == VisitLoad(s, objects, I)
        IN  CASE I.op \in Stores ->
                   [s EXCEPT !.open = {J \in @ : aliasOf(s.fn, objects, I, J) = "no"} \cup {I}]
              [] I.op \in Loads -> IF next.fn = s.fn THEN next ELSE [next EXCEPT !.gone = @ + 1]
              [] callsWith(prog, I, {"ReadNone", "ReadOnly", "InaccessibleMemOnly"}) -> s
              [] IsCall(I) /\ ~callsWith(prog, I, {"ReadNone", "ReadOnly", "InaccessibleMemOnly"}) ->
                   [s EXCEPT !.open = Untouched(s.fn, objects, I, @)]
              [] I.op = "icall" -> [s EXCEPT !.open = {}]
              [] OTHER -> s
      visited[k \in 0 .. Len(G.code[c])] ==
        IF k = 0 THEN [fn |-> G, open |-> {}, gone |-> 0]
        ELSE The({visit(s, k) : s \in {visited[k - 1]}})
  IN  visited[Len(G.code[c])].fn

RedundantLoadElimination ==
  /\ Scanning("deadload")
  /\ LET G == RedundantLoads(fn, snapshot, b) IN Advance(G, G # fn)

EndRedundantLoad == Swept("deadload") /\ Finish(fn, swept)

-----------------------------------------------------------------------------
(* ArrayFlattening: a gep of arrays counts in bytes instead. An index that *)
(* is not a constant is narrower than 64 bits, and is extended.            *)

GepI(op, id, args) == [op |-> op, id |-> id, args |-> args, dests |-> <<>>]

\* The instructions that replace the gep I; mark names the new values.
Flattened(I, mark) ==
  LET n == Len(I.args) - 1
      name(what, k) == mark \o what \o ToString(k)
      index(k) == I.args[k + 1]
      wide(k) == IF isLiteral(index(k)) THEN index(k) ELSE name("x", k)
      extend(k) == IF isLiteral(index(k)) THEN <<>> ELSE <<GepI("sext", wide(k), <<index(k)>>)>>
      term(k) == extend(k) \o <<GepI("mul", name("m", k), <<wide(k), ToString(indexSizes(I)[k])>>)>>
      sum(k) == IF k = 1 THEN name("m", 1) ELSE name("s", k)
      add(k) == <<GepI("add", sum(k), <<sum(k - 1), name("m", k)>>)>>
      upTo(f(_), i, j) == FoldLeft(LAMBDA seq, k : IF k < i THEN seq ELSE seq \o f(k),
                                   <<>>, [k \in 1 .. j |-> k])
  IN  upTo(term, 1, n) \o upTo(add, 2, n)
        \o <<GepI("gep8", name("g", 0), <<I.args[1]>> \o IF n > 0 THEN <<sum(n)>> ELSE <<>>)>>

FlattenGep(G, id) ==
  IF ~defines(G, id) \/ definition(G, id).op # "gep" THEN G
  ELSE LET I == definition(G, id)
           new == Flattened(I, Mark(G, {id})[id])
           replaced == ReplaceUses(G, id, Last(new).id)
       IN  [replaced EXCEPT !.code = [c \in BlocksOf(G) |->
              FoldLeft(LAMBDA seq, J : seq \o IF J.id = id THEN new ELSE <<J>>,
                       <<>>, replaced.code[c])]]

ArrayFlattening ==
  /\ pass = "flatten"
  /\ LET G == Walked(fn, ValuesInOrder(fn), FlattenGep) IN Finish(G, G # fn)

-----------------------------------------------------------------------------
(* TailCallElimination: a call of the function itself whose result is at   *)
(* once returned becomes a jump to the old entry block.                    *)

isEliminable(G, c) ==
  LET n == Len(G.code[c])
      ret == G.code[c][n]
      call == G.code[c][n - 1]
  IN  /\ n >= 2 /\ ret.op = "ret"
      /\ IsCall(call) /\ callee(call) = defined[at]
      /\ G.void \/ ret.args = <<call.id>>

TailCallToJump(G) ==
  LET eliminable == SelectSeq(G.layout, LAMBDA c : isEliminable(G, c))
      oldEntry == Entry(G)
      name == Mark(G, Range(G.params) \cup {oldEntry})
      newEntry == name[oldEntry]
      renamed == UpdateAll(G, LAMBDA I : [I EXCEPT !.args =
                   [k \in DOMAIN @ |-> IF @[k] \in Range(G.params) THEN name[@[k]] ELSE @[k]]])
      call(c) == renamed.code[c][Len(renamed.code[c]) - 1]
      \* Each phi is put in front of those made before it.
      phi(k) == [op |-> "phi", id |-> name[G.params[k]],
                 args |-> <<G.params[k]>> \o
                          [j \in DOMAIN eliminable |-> actuals(call(eliminable[j]))[k]],
                 dests |-> <<newEntry>> \o eliminable]
      Jumping(c) == IF c \in Range(eliminable)
                    THEN SubSeq(renamed.code[c], 1, Len(renamed.code[c]) - 2) \o <<Br(oldEntry)>>
                    ELSE renamed.code[c]
      isSlot(I) == I.op = "alloca"
      n == Len(G.params)
  IN  [G EXCEPT
        !.layout = <<newEntry>> \o @,
        !.code = [c \in BlocksOf(G) \cup {newEntry} |->
          IF c = newEntry THEN Append(SelectSeq(renamed.code[oldEntry], isSlot), Br(oldEntry))
          ELSE IF c = oldEntry
          THEN [k \in 1 .. n |-> phi(n + 1 - k)]
                 \o SelectSeq(Jumping(c), LAMBDA I : ~isSlot(I))
          ELSE Jumping(c)]]

TailCallElimination ==
  /\ pass = "tailcall"
  /\ IF \A c \in BlocksOf(fn) : ~isEliminable(fn, c) THEN Finish(fn, FALSE)
     ELSE Finish(TailCallToJump(fn), TRUE)

MemoryPassesNext ==
  \/ StartDeadStore \/ DeadStoreElimination \/ EndDeadStore
  \/ StartRedundantLoad \/ RedundantLoadElimination \/ EndRedundantLoad
  \/ ArrayFlattening
  \/ TailCallElimination
=============================================================================
