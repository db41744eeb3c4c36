------------------------------- MODULE TreeViews -------------------------------
(***************************************************************************)
(* What people and models are shown of the evolution tree: the ranking,    *)
(* the dead ends and the markers of the text that goes to the frontier     *)
(* reviewer (queries and to_summary of evolution/tree.py, and the prompt   *)
(* of evolution/frontier.py), the Graphviz rendering (tools/view_tree.py)  *)
(* and the layout of the HTML page (visualize_evolution_tree.py).          *)
(*                                                                         *)
(* A view is an operator on a tree value.  The properties state them of    *)
(* the trees a session reaches: a view is read between two rounds, when    *)
(* the saved tree is the one in memory.  Wording, colours, and rounding of *)
(* coordinates to three decimals are left out.                             *)
(***************************************************************************)
EXTENDS EvolutionLoop, Fractions, SequencesExt

(* get_branch: from the root to a node. *)
BranchTo(t, n) ==
  LET path[i \in Ids(t)] ==
        IF t.nodes[i].parent = NoNode THEN <<i>> ELSE Append(path[t.nodes[i].parent], i)
  IN  path[n]

(* get_ancestors: from a node to its root. *)
Ancestors(t, n) == Reverse(BranchTo(t, n))

(* Mutant of RanksBefore: a sort that turns ties around. *)
RanksBeforeTurned(t, i, j) ==
  IF t.nodes[i].score = t.nodes[j].score THEN j < i ELSE t.nodes[i].score > t.nodes[j].score

(* By score alone, of roots and failed nodes too; the sort is stable. *)
RanksBefore(t, i, j) ==
  IF t.nodes[i].score = t.nodes[j].score THEN i < j ELSE t.nodes[i].score > t.nodes[j].score

(* get_best_nodes, of which a prompt shows the first few: every node has   *)
(* its place behind all that rank before it.                               *)
Place(t, n) == Cardinality({k \in Ids(t) : RanksBefore(t, k, n)}) + 1

BestNodes(t) == [i \in Ids(t) |-> CHOOSE n \in Ids(t) : Place(t, n) = i]

(* Mutant of Declines: one step down is enough. *)
DeclinesAtOnce(t, path) == Len(path) >= 2 /\ t.nodes[path[1]].score < t.nodes[path[2]].score

(* Two steps that do not rise, and one of them falls. *)
Declines(t, path) ==
  LET score(i) == t.nodes[path[i]].score IN
  Len(path) >= 3 /\ score(1) <= score(2) /\ score(2) <= score(3) /\ score(1) < score(3)

DeadEnds(t) ==
  {n \in Leaves(t) :
     LET path == Ancestors(t, n) IN
     \/ Declines(t, path)
     \/ Len(path) >= 2 /\ t.nodes[path[1]].error /\ t.nodes[path[2]].error}

(* The path to the best node, its seed and scores. *)
BestPath(t) == BranchTo(t, t.best)

(* The marker of a node in the branch structure of the summary. *)
Marker(t, n) ==
  CASE n = t.best -> "BEST" [] n # t.best /\ n = t.current -> "HERE" [] OTHER -> "none"

(* The fill colour of a node in the Graphviz rendering. *)
ColourFor(t, n) ==
  CASE t.nodes[n].error -> "errored"
    [] ~ t.nodes[n].error /\ n = t.best -> "best"
    [] ~ t.nodes[n].error /\ n # t.best /\ n = t.current -> "current"
    [] OTHER -> "plain"

(* The node the page puts its star on: the tree's best, or else the first  *)
(* of the highest scores, the shallowest first.                            *)
Star(t) ==
  IF t.best # NoNode THEN t.best
  ELSE LET ahead(i, j) ==
             \/ t.nodes[i].score > t.nodes[j].score
             \/ /\ t.nodes[i].score = t.nodes[j].score
                /\ \/ t.nodes[i].depth < t.nodes[j].depth
                   \/ t.nodes[i].depth = t.nodes[j].depth /\ i <= j
       IN  CHOOSE n \in Ids(t) : \A k \in Ids(t) : ahead(n, k)

-----------------------------------------------------------------------------
(* The layout of the page. *)

(* The walk from the roots meets a node before another if it takes the     *)
(* older child, or root, where their paths part.                           *)
WalkedBefore(t, m, n) ==
  LET p == BranchTo(t, m)
      q == BranchTo(t, n)
  IN  \E k \in DOMAIN p \cap DOMAIN q : p[k] < q[k] /\ \A j \in 1 .. k - 1 : p[j] = q[j]

RootOf(t, n) == BranchTo(t, n)[1]

(* Mutant of LeavesBefore: every lineage starts at the left. *)
LeavesBeforeInLineage(t, n) ==
  {m \in Leaves(t) : WalkedBefore(t, m, n) /\ RootOf(t, m) = RootOf(t, n)}

(* What the counter of leaves has counted when the walk meets a leaf. *)
LeavesBefore(t, n) == {m \in Leaves(t) : WalkedBefore(t, m, n)}

(* In leaf units: one for every leaf before, and half a one for every      *)
(* lineage before.                                                         *)
LeafPosition(t, n) ==
  Lowest[<<2 * Cardinality(LeavesBefore(t, n)) + Cardinality({r \in t.roots : r < RootOf(t, n)}), 2>>]

(* A node with children stands at their average. *)
Positions(t) ==
  LET x[n \in Ids(t)] ==
        LET kids == t.nodes[n].children
        IN  IF kids = {} THEN LeafPosition(t, n) ELSE Mean([c \in kids |-> x[c]], kids)
  IN  x

(* Pixels: the width of a leaf unit, and what the band behind a lineage    *)
(* adds on each side.                                                      *)
ColumnWidth == 110
BandMargin == 26

(* Two bands do not touch: twice the margin between the nodes at their edges. *)
Apart(x, y) == Below(Whole(2 * BandMargin), Times(Whole(ColumnWidth), Minus(y, x)))

-----------------------------------------------------------------------------
(* Properties. *)

(* The reviewer reads the tree at a checkpoint, the others read what was   *)
(* saved before it.                                                        *)
BetweenRounds == pc \in {"checkpoint", "round", "done"}

(* All views agree on the best: the same node is marked, coloured and      *)
(* starred, the best path ends at it and begins at the root of its seed,   *)
(* and the ranking has nothing above it but nodes that were not evaluated  *)
(* or failed, whose 0.0 beats a negative score.                            *)
OneBest ==
  BetweenRounds /\ tree.best # NoNode =>
    LET ranked == BestNodes(tree)
        place  == CHOOSE i \in DOMAIN ranked : ranked[i] = tree.best
        path   == BestPath(tree)
    IN  /\ \A n \in Ids(tree) :
             /\ Marker(tree, n) = "BEST" <=> n = Star(tree)
             /\ ColourFor(tree, n) = "best" <=> n = Star(tree)
        /\ tree.nodes[path[1]].seed = tree.nodes[path[Len(path)]].seed
        /\ \A i \in 1 .. place - 1 : ~ Eligible(tree.nodes[ranked[i]])

(* The reviewer, who is asked to kill dead ends, is never told that the    *)
(* best node is one, unless its parent failed: a failed node's 0.0 counts  *)
(* as a score in the decline.                                              *)
DeadEndsSpareBest ==
  BetweenRounds /\ tree.best \in DeadEnds(tree) =>
    tree.nodes[tree.nodes[tree.best].parent].error

(* The page of a finished session draws a tree: two nodes of one depth are *)
(* a leaf unit apart at least, a parent stands over its children, and the  *)
(* bands of two lineages do not touch.                                     *)
LayoutSound ==
  pc = "done" =>
    LET x       == Positions(tree)
        root(n) == RootOf(tree, n)
    IN  \A m, n \in Ids(tree) :
          /\ m # n /\ tree.nodes[m].depth = tree.nodes[n].depth =>
               AtMost(Whole(1), Minus(x[m], x[n])) \/ AtMost(Whole(1), Minus(x[n], x[m]))
          /\ root(m) < root(n) => Apart(x[m], x[n])
          /\ n \in tree.nodes[m].children =>
               \E l, r \in tree.nodes[m].children : AtMost(x[l], x[m]) /\ AtMost(x[m], x[r])
=============================================================================
