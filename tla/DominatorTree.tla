--------------------------- MODULE DominatorTree ---------------------------
(***************************************************************************)
(* DominatorTreeAnalysis::runOnFunction (lib/opt/ir/passes/                *)
(* DominatorTreeAnalysis.cpp): the algorithm of Lengauer and Tarjan, then  *)
(* a walk over the tree that gives every block an interval. One action is  *)
(* one call or return of a depth-first search or one iteration of a loop.  *)
(* Iteration over an unordered set (the successors of a block, the blocks  *)
(* reached) is a nondeterministic choice.                                  *)
(***************************************************************************)
EXTENDS IrFunction

VARIABLES
  fn,        \* the function
  dtStep,    \* the part of the analysis that is running
  path,      \* calls of dfs, innermost first: a block and what it has still to visit
  vertex,    \* blocks in the order of their discovery; its length is timer
  semi, parent, label, ancestor, idom,   \* as in the code
  pred, bucket,
  cursor,    \* i, the index in vertex of the loops
  compressing,   \* calls of compress, innermost first
  todo,      \* what the inner loop has still to visit
  discover, finish

dtVars == <<dtStep, path, vertex, semi, parent, label, ancestor, idom, pred, bucket,
            cursor, compressing, todo, discover, finish>>

DTInit ==
  /\ dtStep = "number"
  /\ path = <<>> /\ vertex = <<>> /\ cursor = 0 /\ compressing = <<>> /\ todo = <<>>
  /\ semi = <<>> /\ parent = <<>> /\ label = <<>> /\ ancestor = <<>> /\ idom = <<>>
  /\ pred = <<>> /\ bucket = <<>>
  /\ discover = <<>> /\ finish = <<>>

Put(f, x, y) == [z \in DOMAIN f \cup {x} |-> IF z = x THEN y ELSE f[z]]

Frame(b, left) == [block |-> b, left |-> left]
Visiting == Head(path)

\* The innermost call goes on with b.
Call(b, left) ==
  path' = <<Frame(b, left), [Visiting EXCEPT !.left = @ \ {b}]>> \o Tail(path)
Skip(b) == path' = <<[Visiting EXCEPT !.left = @ \ {b}]>> \o Tail(path)

-----------------------------------------------------------------------------
(* dfs: number the blocks and collect the predecessors that are reached.   *)

\* The beginning of dfs(b).
Number(b) ==
  /\ vertex' = Append(vertex, b)
  /\ semi' = Put(semi, b, Len(vertex) + 1)
  /\ label' = Put(label, b, b)

NumberEntry ==
  /\ dtStep = "number" /\ path = <<>>
  /\ pred' = [b \in BlocksOf(fn) |-> <<>>] /\ bucket' = [b \in BlocksOf(fn) |-> <<>>]
  /\ Number(Entry(fn))
  /\ path' = <<Frame(Entry(fn), successors(fn, Entry(fn)))>>
  /\ UNCHANGED <<dtStep, parent, ancestor, idom, cursor, todo,
                 discover, finish, compressing>>

VisitSuccessor ==
  /\ dtStep = "number" /\ path # <<>>
  /\ \E b \in Visiting.left :
       \/ /\ b \notin DOMAIN semi
          /\ parent' = Put(parent, b, Visiting.block)
          /\ Number(b)
          /\ Call(b, successors(fn, b))
          /\ UNCHANGED pred
       \/ /\ b \in DOMAIN semi
          /\ pred' = [pred EXCEPT ![b] = Append(@, Visiting.block)]
          /\ Skip(b)
          /\ UNCHANGED <<parent, vertex, semi, label>>
  /\ UNCHANGED <<dtStep, ancestor, idom, bucket, cursor, todo,
                 discover, finish, compressing>>

\* The loops from timer down to 2 begin with vertex k, or are over.
StartVertex(k) ==
  IF k >= 2 THEN dtStep' = "semi" /\ cursor' = k
            ELSE dtStep' = "resolve" /\ cursor' = 2

\* dfs(b) returns to the call that has just found w.
LeaveNumbered ==
  /\ dtStep = "number" /\ path # <<>> /\ Visiting.left = {}
  /\ path' = Tail(path)
  /\ IF Len(path) > 1
     THEN /\ pred' = [pred EXCEPT ![Visiting.block] = Append(@, path[2].block)]
          /\ UNCHANGED <<dtStep, cursor, todo>>
     ELSE /\ StartVertex(Len(vertex))
          /\ todo' = pred[Last(vertex)]
          /\ UNCHANGED pred
  /\ UNCHANGED <<vertex, semi, parent, label, ancestor, idom, bucket,
                 discover, finish, compressing>>

-----------------------------------------------------------------------------
(* Semidominators and, for most blocks, immediate dominators.              *)

w == vertex[cursor]

\* compress(v) has nothing to do: the ancestor of v has none itself.
isCompressed(v) == v \in DOMAIN ancestor => ancestor[v] \notin DOMAIN ancestor

\* eval(v), once v is compressed.
eval(v) == IF v \in DOMAIN ancestor THEN label[v] ELSE v

\* eval(v) calls compress(v) for the next v of the inner loop.
EvalCompress ==
  /\ dtStep \in {"semi", "bucket"} /\ compressing = <<>>
  /\ todo # <<>> /\ ~isCompressed(Head(todo))
  /\ compressing' = <<Head(todo)>>
  /\ UNCHANGED <<dtStep, path, vertex, semi, parent, label, ancestor, idom, pred, bucket,
                 cursor, todo, discover, finish>>

\* compress(v) calls compress(ancestor[v]).
CompressAncestor ==
  /\ compressing # <<>> /\ ~isCompressed(ancestor[Head(compressing)])
  /\ compressing' = <<ancestor[Head(compressing)]>> \o compressing
  /\ UNCHANGED <<dtStep, path, vertex, semi, parent, label, ancestor, idom, pred, bucket,
                 cursor, todo, discover, finish>>

\* Mutant: paths are compressed, labels are not.
CompressVertexUnlabelled ==
  /\ compressing # <<>>
  /\ LET v == Head(compressing)
     IN  /\ ~isCompressed(v) /\ isCompressed(ancestor[v])
         /\ ancestor' = [ancestor EXCEPT ![v] = ancestor[ancestor[v]]]
  /\ compressing' = Tail(compressing)
  /\ UNCHANGED <<dtStep, path, vertex, semi, parent, label, idom, pred, bucket, cursor, todo,
                 discover, finish>>

\* compress(ancestor[v]) has returned to compress(v), which returns.
CompressVertex ==
  /\ compressing # <<>>
  /\ LET v == Head(compressing)
         a == ancestor[v]
     IN  /\ ~isCompressed(v) /\ isCompressed(a)
         /\ label' = IF semi[label[a]] < semi[label[v]] THEN [label EXCEPT ![v] = label[a]]
                                                        ELSE label
         /\ ancestor' = [ancestor EXCEPT ![v] = ancestor[a]]
  /\ compressing' = Tail(compressing)
  /\ UNCHANGED <<dtStep, path, vertex, semi, parent, idom, pred, bucket, cursor, todo,
                 discover, finish>>

EvalPredecessor ==
  /\ dtStep = "semi" /\ todo # <<>> /\ compressing = <<>> /\ isCompressed(Head(todo))
  /\ LET u == eval(Head(todo))
     IN  semi' = IF semi[u] < semi[w] THEN [semi EXCEPT ![w] = semi[u]] ELSE semi
  /\ todo' = Tail(todo)
  /\ UNCHANGED <<dtStep, path, vertex, parent, label, ancestor, idom, pred, bucket, cursor,
                 compressing, discover, finish>>

\* Mutant: the vertex goes into the bucket of its parent.
LinkVertexToParent ==
  /\ dtStep = "semi" /\ todo = <<>>
  /\ bucket' = [bucket EXCEPT ![parent[w]] = Append(@, w)]
  /\ ancestor' = Put(ancestor, w, parent[w])
  /\ dtStep' = "bucket" /\ todo' = bucket'[parent[w]]
  /\ UNCHANGED <<path, vertex, semi, parent, label, idom, pred, cursor,
                 discover, finish, compressing>>

LinkVertex ==
  /\ dtStep = "semi" /\ todo = <<>>
  /\ bucket' = [bucket EXCEPT ![vertex[semi[w]]] = Append(@, w)]
  /\ ancestor' = Put(ancestor, w, parent[w])
  /\ dtStep' = "bucket" /\ todo' = bucket'[parent[w]]
  /\ UNCHANGED <<path, vertex, semi, parent, label, idom, pred, cursor,
                 discover, finish, compressing>>

\* The bucket is not emptied: what is in it is evaluated again for the next
\* child of the same parent.
EvalBucket ==
  /\ dtStep = "bucket" /\ todo # <<>> /\ compressing = <<>> /\ isCompressed(Head(todo))
  /\ LET v == Head(todo)
         u == eval(v)
     IN  idom' = Put(idom, v, IF semi[u] < semi[v] THEN u ELSE parent[w])
  /\ todo' = Tail(todo)
  /\ UNCHANGED <<dtStep, path, vertex, semi, parent, label, ancestor, pred, bucket, cursor,
                 compressing, discover, finish>>

NextVertex ==
  /\ dtStep = "bucket" /\ todo = <<>>
  /\ StartVertex(cursor - 1)
  /\ todo' = pred[vertex[cursor - 1]]
  /\ UNCHANGED <<path, vertex, semi, parent, label, ancestor, idom, pred, bucket,
                 discover, finish, compressing>>

\* Mutant: the loop only goes on from blocks it changes.
ResolveStuck ==
  /\ dtStep = "resolve" /\ cursor <= Len(vertex)
  /\ idom' = IF idom[w] # vertex[semi[w]] THEN [idom EXCEPT ![w] = idom[idom[w]]] ELSE idom
  /\ cursor' = IF idom' # idom THEN cursor + 1 ELSE cursor
  /\ UNCHANGED <<dtStep, path, vertex, semi, parent, label, ancestor, pred, bucket, todo,
                 discover, finish, compressing>>

\* A block that has the immediate dominator of another one.
Resolve ==
  /\ dtStep = "resolve" /\ cursor <= Len(vertex)
  /\ idom' = IF idom[w] # vertex[semi[w]] THEN [idom EXCEPT ![w] = idom[idom[w]]] ELSE idom
  /\ cursor' = cursor + 1
  /\ UNCHANGED <<dtStep, path, vertex, semi, parent, label, ancestor, pred, bucket, todo,
                 discover, finish, compressing>>

-----------------------------------------------------------------------------
(* The tree and its intervals. The variables of LengauerTarjan are gone.   *)

children(b) == {v \in Reachable(fn) \ {Entry(fn)} : idom[v] = b}

time == Cardinality(DOMAIN discover) + Cardinality(DOMAIN finish) + 1

DiscoverEntry ==
  /\ dtStep = "resolve" /\ cursor > Len(vertex)
  /\ dtStep' = "tree"
  /\ discover' = Put(discover, Entry(fn), time)
  /\ path' = <<Frame(Entry(fn), children(Entry(fn)))>>
  /\ vertex' = <<>> /\ semi' = <<>> /\ parent' = <<>> /\ label' = <<>> /\ ancestor' = <<>>
  /\ pred' = <<>> /\ bucket' = <<>> /\ cursor' = 0
  /\ UNCHANGED <<idom, todo, finish, compressing>>

VisitChild ==
  /\ dtStep = "tree"
  /\ \E v \in Visiting.left :
       /\ discover' = Put(discover, v, time)
       /\ Call(v, children(v))
  /\ UNCHANGED <<dtStep, vertex, semi, parent, label, ancestor, idom, pred, bucket, cursor,
                 todo, finish, compressing>>

LeaveChild ==
  /\ dtStep = "tree" /\ Visiting.left = {}
  /\ finish' = Put(finish, Visiting.block, time)
  /\ path' = Tail(path)
  /\ dtStep' = IF Len(path) = 1 THEN "done" ELSE dtStep
  /\ UNCHANGED <<vertex, semi, parent, label, ancestor, idom, pred, bucket, cursor, todo,
                 discover, compressing>>

DTNext ==
  \/ NumberEntry \/ VisitSuccessor \/ LeaveNumbered
  \/ EvalCompress \/ CompressAncestor \/ CompressVertex
  \/ EvalPredecessor \/ LinkVertex \/ EvalBucket \/ NextVertex
  \/ Resolve
  \/ DiscoverEntry \/ VisitChild \/ LeaveChild

\* The queries of the finished analysis.
treeParent(b) == idom[b]

\* The first of the children S. Their order in node->children is that in which
\* they were discovered.
nextChild(S) == CHOOSE u \in S : \A v \in S : discover[u] <= discover[v]
treeDominates(u, v) == discover[u] <= discover[v] /\ finish[u] >= finish[v]

-----------------------------------------------------------------------------
number(b) == CHOOSE n \in DOMAIN vertex : vertex[n] = b

\* The least number of a block from which some path leads to b through blocks
\* with greater numbers than b's.
sources(b) ==
  LET greater(c) == {d \in predecessors(fn, c) \cap Range(vertex) : number(d) > number(b)}
      reach == Closure({b}, [c \in Range(vertex) |-> greater(c)], Len(vertex))
  IN  UNION {predecessors(fn, c) \cap Range(vertex) : c \in reach}
Semidominator(b) ==
  CHOOSE n \in {number(c) : c \in sources(b)} : \A c \in sources(b) : n <= number(c)

(* Once a block has been linked, semi holds its semidominator, although    *)
(* eval looks at labels that earlier calls compressed.                     *)
SemidominatorsFound ==
  dtStep \in {"semi", "bucket", "resolve"} =>
    \A n \in 2 .. Len(vertex) :
      (dtStep = "semi" => n > cursor) /\ (dtStep = "bucket" => n >= cursor) =>
        semi[vertex[n]] = Semidominator(vertex[n])

(* The intervals of the tree say what dominance means: u dominates v if no *)
(* path from the entry reaches v without u.                                *)
TreeMeansDominance ==
  dtStep = "done" =>
    \A u, v \in Reachable(fn) : treeDominates(u, v) <=> dominates(fn, u, v)
=============================================================================
