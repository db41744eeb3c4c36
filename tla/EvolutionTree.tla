---------------------------- MODULE EvolutionTree ----------------------------
(***************************************************************************)
(* The evolution tree of evolution/tree.py as a value: the record a tree   *)
(* object holds, what add_node makes of it, and its queries.  A uuid node  *)
(* id is modelled by the node's position in the insertion order of the     *)
(* `nodes` dict, so an id is fresh by being the next position, and the     *)
(* order in which get_frontier lists the leaves is the order of the ids.   *)
(* Code text, details, timestamps, strategies and tags are left out.       *)
(***************************************************************************)
EXTENDS Integers, Sequences, FiniteSets

CONSTANTS
  Scores,   (* the scores a step's result can carry (floats in the code)   *)
  Seeds     (* the seed policies of seeds_dir                              *)

ASSUME ScoresAssumption == Scores \subseteq Int

(* None, where the code stores an optional node id. *)
NoNode == 0

(* The score of a planted seed, which is never evaluated. *)
RootScore == 0

Node == [parent : Nat, children : SUBSET Nat, depth : Nat, error : BOOLEAN,
         score : Int, seed : Seeds]

Tree == [nodes : Seq(Node), roots : SUBSET Nat, current : Nat, best : Nat]

EmptyTree == [nodes |-> << >>, roots |-> {}, current |-> NoNode, best |-> NoNode]

Ids(t) == 1 .. Len(t.nodes)

Leaves(t) == {n \in Ids(t) : t.nodes[n].children = {}}

(* Only an evaluated, error-free node may be the best: a seed root has     *)
(* score 0 without having run, and so may a failed step.                   *)
Eligible(node) == node.depth > 0 /\ ~ node.error

(* Mutant of Improves: the error of the new node is not looked at. *)
ImprovesThoughFailed(t, node) ==
  node.depth > 0 /\ (t.best = NoNode \/ node.score > t.nodes[t.best].score)

(* A later node replaces the best only when strictly better. *)
Improves(t, node) ==
  /\ Eligible(node)
  /\ t.best = NoNode \/ node.score > t.nodes[t.best].score

NewNode(t, parent, score, error, seed) ==
  [parent |-> parent, children |-> {}, error |-> error, score |-> score, seed |-> seed,
   depth |-> IF parent = NoNode THEN 0 ELSE t.nodes[parent].depth + 1]

(* The nodes once their parent, if any, knows of the child `id`. *)
Linked(t, parent, id) ==
  IF parent = NoNode THEN t.nodes
  ELSE [t.nodes EXCEPT ![parent].children = @ \cup {id}]

AddNode(t, parent, score, error, seed) ==
  LET id   == Len(t.nodes) + 1
      node == NewNode(t, parent, score, error, seed)
  IN  [nodes   |-> Append(Linked(t, parent, id), node),
       roots   |-> IF parent = NoNode THEN t.roots \cup {id} ELSE t.roots,
       current |-> id,
       best    |-> IF Improves(t, node) THEN id ELSE t.best]

-----------------------------------------------------------------------------
(* What a sound tree is.  These are predicates on a tree value; the modules *)
(* whose state holds a tree state them of it as invariants.                 *)

(* A parent is older than its children, so no walk to the root can loop,   *)
(* and the parent's list, the child's link and the root list agree.        *)
WellLinked(t) ==
  \A n \in Ids(t) :
    LET node == t.nodes[n] IN
    /\ node.parent \in 0 .. n - 1
    /\ node.parent = NoNode <=> n \in t.roots
    /\ node.children = {c \in Ids(t) : t.nodes[c].parent = n}

(* A depth counts the steps to a root. *)
DepthsCount(t) ==
  \A n \in Ids(t) :
    t.nodes[n].depth = IF t.nodes[n].parent = NoNode THEN 0
                       ELSE t.nodes[t.nodes[n].parent].depth + 1

(* The best node is the earliest of the eligible nodes of highest score,   *)
(* and there is one as soon as any node is eligible.                       *)
BestIsChampion(t) ==
  /\ t.best = NoNode <=> \A n \in Ids(t) : ~ Eligible(t.nodes[n])
  /\ t.best # NoNode =>
       /\ t.best \in Ids(t)
       /\ Eligible(t.nodes[t.best])
       /\ \A n \in Ids(t) :
            Eligible(t.nodes[n]) =>
              /\ t.nodes[n].score <= t.nodes[t.best].score
              /\ t.nodes[n].score = t.nodes[t.best].score => t.best <= n

(* A mutation belongs to the seed its lineage started from. *)
SeedsInherited(t) ==
  \A n \in Ids(t) :
    t.nodes[n].parent # NoNode => t.nodes[n].seed = t.nodes[t.nodes[n].parent].seed

SoundTree(t) ==
  /\ t.roots \subseteq Ids(t)
  /\ t.current = Len(t.nodes)
  /\ WellLinked(t)
  /\ DepthsCount(t)
  /\ BestIsChampion(t)
  /\ SeedsInherited(t)
=============================================================================
