--------------------------- MODULE BlockPlacement ---------------------------
(***************************************************************************)
(* BasicBlockReordering::runOnFunction with BranchPredictionAnalysis: the  *)
(* order in which blocks are printed. Blocks are numbered by their place   *)
(* in the old layout.                                                      *)
(***************************************************************************)
EXTENDS MirCode, TLC

CONSTANT ExactLimit   \* up to so many blocks the best order is computed

-----------------------------------------------------------------------------
(* BranchPredictionAnalysis: the edges back to a block that the depth-first*)
(* search is still in. order is the order of each block's successors.      *)

RECURSIVE Search(_, _, _)
Search(order, u, found) ==
  LET visit(s, v) ==
        CASE v \in s.gray  -> [s EXCEPT !.backEdges = @ \cup {<<u, v>>}]
          [] v \in s.black -> s
          [] OTHER         -> Search(order, v, s)
      s == FoldLeft(visit, [found EXCEPT !.gray = @ \cup {u}], order[u])
  IN  [s EXCEPT !.gray = @ \ {u}, !.black = @ \cup {u}]

BackEdges(G, order) ==
  LET visit(s, b) == IF b \in s.black THEN s ELSE Search(order, b, s)
  IN  FoldLeft(visit, [gray |-> {}, black |-> {}, backEdges |-> {}], G.layout).backEdges

predictions(G, backEdges, b) ==
  LET back == {c \in successors(G, b) : <<b, c>> \in backEdges}
  IN  IF back = {} THEN successors(G, b) ELSE back

-----------------------------------------------------------------------------
(* The cost of putting one block after another, and of an order.           *)

Far == 1000

Costs(G, backEdges) ==
  LET n == Len(G.layout)
      cost(b, c) == CASE c \in predictions(G, backEdges, b) -> 0
                      [] c \in successors(G, b) \ predictions(G, backEdges, b) -> 1
                      [] OTHER -> Far
  IN  [i \in 1 .. n |-> [j \in 1 .. n |-> cost(G.layout[i], G.layout[j])]]

PathCost(D, path) ==
  FoldLeft(LAMBDA sum, i : sum + D[path[i]][path[i + 1]], 0, [i \in 1 .. Len(path) - 1 |-> i])

\* The orders of n blocks that start with the first.
Paths(n) ==
  {p \in [1 .. n -> 1 .. n] : p[1] = 1 /\ IsInjective(p)}

-----------------------------------------------------------------------------
(* Held-Karp: Shortest(D, S, v) is the length of the shortest path from    *)
(* the first block through those of S to v. Of equal choices the lowest is *)
(* taken, at the end of the path first.                                    *)

RECURSIVE Shortest(_, _, _)
Shortest(D, S, v) ==
  IF S = {} THEN D[1][v]
            ELSE Min({Shortest(D, S \ {u}, u) + D[u][v] : u \in S})

\* The lowest of the blocks of S that is best to come before t, or at the end.
BestBefore(S, cost) == Min({u \in S : \A w \in S : cost[u] <= cost[w]})

RECURSIVE PathTo(_, _, _)
PathTo(D, S, t) ==
  IF S = {} THEN <<1, t>>
  ELSE LET u == BestBefore(S, [w \in S |-> Shortest(D, S \ {w}, w) + D[w][t]])
       IN  Append(PathTo(D, S \ {u}, u), t)

\* Mutant: ends with the first block instead of the best.
HeldKarpAnyEnd(D) ==
  LET rest == 2 .. Len(D) IN PathTo(D, rest \ {Min(rest)}, Min(rest))

HeldKarp(D) ==
  LET rest == 2 .. Len(D)
      t == BestBefore(rest, [v \in rest |-> Shortest(D, rest \ {v}, v)])
  IN  PathTo(D, rest \ {t}, t)

\* Ant colony optimisation: the old order, or one of the paths it tries.
AntColony(D) ==
  LET initial == [i \in 1 .. Len(D) |-> i]
  IN  {p \in Paths(Len(D)) : p = initial \/ PathCost(D, p) < PathCost(D, initial)}

Orders(D) == IF Len(D) <= ExactLimit THEN {HeldKarp(D)} ELSE AntColony(D)

-----------------------------------------------------------------------------
(* A branch whose false target comes next is inverted.                     *)

SwapOperands(I) ==
  [I EXCEPT !.cond = inverted[@], !.dests = <<@[2], @[1]>>]

InvertBranches(G) ==
  LET next(b) == {G.layout[k + 1] : k \in {i \in 1 .. Len(G.layout) - 1 : G.layout[i] = b}}
      last(b) ==
        LET I == Terminator(G, b)
        IN  IF I.op = "cmpbr" /\ I.dests[2] \in next(b) THEN SwapOperands(I) ELSE I
  IN  [G EXCEPT !.code = [b \in BlocksOf(G) |-> Append(Front(@[b]), last(b))]]

\* The iteration orders of the blocks' sets of successors.
SuccessorOrders(G) ==
  LET flips == SUBSET {b \in BlocksOf(G) : Cardinality(successors(G, b)) = 2}
      order(flip, b) == LET s == SetToSeq(successors(G, b))
                        IN  IF b \in flip THEN Reverse(s) ELSE s
  IN  {[b \in BlocksOf(G) |-> order(flip, b)] : flip \in flips}

Matrices(G) == {Costs(G, E) : E \in {BackEdges(G, order) : order \in SuccessorOrders(G)}}

Reordered(G, path) ==
  InvertBranches([G EXCEPT !.layout = [i \in DOMAIN @ |-> @[path[i]]]])

Placements(G) ==
  IF Len(G.layout) <= 2 THEN {G}
  ELSE {Reordered(G, path) : path \in UNION {Orders(D) : D \in Matrices(G)}}
=============================================================================
