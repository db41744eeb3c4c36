------------------------ MODULE EvolutionLoop_proofs ------------------------
(****************************************************************************)
(* add_node keeps a sound tree sound; and TypeOK, TreeSound, BranchesSound *)
(* and ResultsCurrent hold for any number of branches, rounds, spawns and  *)
(* crashes, by the inductive invariant IInv.  Then the planned coordinator *)
(* is one of EvolutionLoop, so that these theorems carry over, and plants  *)
(* exactly what was assigned, for any number of seeds.                     *)
(****************************************************************************)
EXTENDS PlannedLoop, SequenceTheorems, TLAPS

LEMMA EmptyTreeSound == EmptyTree \in Tree /\ SoundTree(EmptyTree)
  BY DEF EmptyTree, Tree, Node, SoundTree, WellLinked, DepthsCount, BestIsChampion,
         SeedsInherited, Ids, NoNode

(* A node that gains a child keeps everything else. *)
LEMMA WithChild ==
  ASSUME NEW r \in Node, NEW kids \in SUBSET Nat, NEW m,
         m = [r EXCEPT !.children = kids]
  PROVE  /\ m \in Node
         /\ m.parent = r.parent /\ m.depth = r.depth /\ m.error = r.error
         /\ m.score = r.score /\ m.seed = r.seed /\ m.children = kids
<1>1. m = [parent |-> r.parent, children |-> kids, depth |-> r.depth, error |-> r.error,
           score |-> r.score, seed |-> r.seed]
  BY DEF Node
<1> QED BY <1>1 DEF Node

(* u is t with `node` added under `parent`: one node more at the end, one  *)
(* child more in its parent, and nothing else changed.                     *)
Grown(t, u, parent, node) ==
  LET id == Len(t.nodes) + 1 IN
  /\ u \in Tree
  /\ Len(u.nodes) = id
  /\ u.nodes[id] = node
  /\ \A n \in Ids(t) :
       /\ u.nodes[n].parent = t.nodes[n].parent
       /\ u.nodes[n].depth = t.nodes[n].depth
       /\ u.nodes[n].error = t.nodes[n].error
       /\ u.nodes[n].score = t.nodes[n].score
       /\ u.nodes[n].seed = t.nodes[n].seed
       /\ u.nodes[n].children = IF n = parent THEN t.nodes[n].children \cup {id}
                                ELSE t.nodes[n].children

LEMMA AddNodeGrows ==
  ASSUME NEW t \in Tree, NEW parent \in Ids(t) \cup {NoNode}, NEW score \in Int,
         NEW error \in BOOLEAN, NEW seed \in Seeds
  PROVE  Grown(t, AddNode(t, parent, score, error, seed), parent,
               NewNode(t, parent, score, error, seed))
<1> DEFINE id == Len(t.nodes) + 1
           u == AddNode(t, parent, score, error, seed)
           node == NewNode(t, parent, score, error, seed)
           linked == Linked(t, parent, id)
<1>1. t.nodes \in Seq(Node) /\ Len(t.nodes) \in Nat /\ \A n \in Ids(t) : t.nodes[n] \in Node
  BY DEF Tree, Ids
<1>2. node \in Node
  BY <1>1 DEF NewNode, Node, Ids, NoNode
<1>3. /\ linked \in Seq(Node) /\ Len(linked) = Len(t.nodes)
      /\ \A n \in Ids(t) : linked[n] = IF n = parent
                                       THEN [t.nodes[n] EXCEPT !.children = @ \cup {id}]
                                       ELSE t.nodes[n]
  <2>1. CASE parent = NoNode
    BY <1>1, <2>1 DEF Linked, Ids, NoNode
  <2>2. CASE parent # NoNode
    <3> DEFINE m == [t.nodes[parent] EXCEPT !.children = @ \cup {id}]
    <3>1. parent \in 1 .. Len(t.nodes) /\ t.nodes[parent] \in Node
      BY <1>1, <2>2 DEF Ids
    <3>2. m \in Node
      <4>1. t.nodes[parent].children \cup {id} \in SUBSET Nat
        BY <1>1, <3>1 DEF Node
      <4> HIDE DEF id
      <4> QED BY <3>1, <4>1, WithChild
    <3>3. linked = [t.nodes EXCEPT ![parent] = m]
      BY <2>2 DEF Linked
    <3> HIDE DEF m
    <3>4. /\ linked \in Seq(Node) /\ Len(linked) = Len(t.nodes)
          /\ \A n \in 1 .. Len(t.nodes) : linked[n] = IF n = parent THEN m ELSE t.nodes[n]
      <4> HIDE DEF linked, id
      <4> QED BY <1>1, <3>1, <3>2, <3>3, ExceptSeq
    <3> QED BY <3>4 DEF m, Ids
  <2> QED BY <2>1, <2>2
<1>4. /\ u.nodes \in Seq(Node) /\ Len(u.nodes) = id /\ u.nodes[id] = node
      /\ \A n \in Ids(t) : u.nodes[n] = linked[n]
  BY <1>1, <1>2, <1>3 DEF AddNode, Ids
<1>5. u \in Tree
  BY <1>1, <1>4 DEF Tree, AddNode
<1>6. ASSUME NEW n \in Ids(t)
      PROVE  /\ u.nodes[n].parent = t.nodes[n].parent
             /\ u.nodes[n].depth = t.nodes[n].depth
             /\ u.nodes[n].error = t.nodes[n].error
             /\ u.nodes[n].score = t.nodes[n].score
             /\ u.nodes[n].seed = t.nodes[n].seed
             /\ u.nodes[n].children = IF n = parent THEN t.nodes[n].children \cup {id}
                                      ELSE t.nodes[n].children
  <2>1. t.nodes[n] \in Node /\ t.nodes[n].children \cup {id} \in SUBSET Nat
    BY <1>1 DEF Node
  <2> HIDE DEF linked, u, id
  <2>2. CASE n = parent
    <3>1. u.nodes[n] = [t.nodes[n] EXCEPT !.children = t.nodes[n].children \cup {id}]
      BY <2>2, <1>3, <1>4
    <3> HIDE <1>3, <1>4
    <3> QED BY <2>1, <2>2, <3>1, WithChild
  <2>3. CASE n # parent
    BY <2>3, <1>3, <1>4
  <2> QED BY <2>2, <2>3
<1> HIDE DEF u, node
<1>7. Grown(t, u, parent, node)
  BY <1>4, <1>5, <1>6 DEF Grown
<1> QED BY <1>7 DEF u, node

(* add_node keeps a tree sound, provided the new node's seed is its        *)
(* parent's: links, depths, the champion and the inherited seeds.          *)
THEOREM AddNodeSound ==
  ASSUME NEW t \in Tree, SoundTree(t), NEW parent \in Ids(t) \cup {NoNode},
         NEW score \in Int, NEW error \in BOOLEAN, NEW seed \in Seeds,
         parent # NoNode => seed = t.nodes[parent].seed
  PROVE  SoundTree(AddNode(t, parent, score, error, seed))
<1> DEFINE u == AddNode(t, parent, score, error, seed)
           id == Len(t.nodes) + 1
           node == NewNode(t, parent, score, error, seed)
<1> HIDE DEF u, id, node
<1>0. /\ u = AddNode(t, parent, score, error, seed) /\ id = Len(t.nodes) + 1
      /\ node = NewNode(t, parent, score, error, seed)
  BY DEF u, id, node
<1>1. /\ u \in Tree
      /\ Len(u.nodes) = id
      /\ u.nodes[id] = node
      /\ \A n \in Ids(t) :
           /\ u.nodes[n].parent = t.nodes[n].parent
           /\ u.nodes[n].depth = t.nodes[n].depth
           /\ u.nodes[n].error = t.nodes[n].error
           /\ u.nodes[n].score = t.nodes[n].score
           /\ u.nodes[n].seed = t.nodes[n].seed
           /\ u.nodes[n].children = IF n = parent THEN t.nodes[n].children \cup {id}
                                    ELSE t.nodes[n].children
  <2>1. Grown(t, u, parent, node)
    BY AddNodeGrows DEF u, node
  <2> QED BY <1>0, <2>1 DEF Grown
<1>2. /\ u.roots = IF parent = NoNode THEN t.roots \cup {id} ELSE t.roots
      /\ u.current = id
      /\ u.best = IF Improves(t, node) THEN id ELSE t.best
  BY <1>0 DEF AddNode
<1>3. /\ node.parent = parent /\ node.children = {} /\ node.error = error
      /\ node.score = score /\ node.seed = seed
      /\ node.depth = IF parent = NoNode THEN 0 ELSE t.nodes[parent].depth + 1
  BY <1>0 DEF NewNode
<1>4. /\ Len(t.nodes) \in Nat /\ Ids(u) = Ids(t) \cup {id} /\ id \notin Ids(t) /\ id \in Nat
      /\ id # NoNode /\ Ids(t) = 1 .. Len(t.nodes) /\ NoNode = 0
      /\ \A n \in Ids(t) : n < id
      /\ \A n \in Ids(t) : t.nodes[n] \in Node
  BY <1>0, <1>1 DEF Tree, Ids, NoNode
<1>5. u.roots \subseteq Ids(u) /\ u.current = Len(u.nodes)
  BY <1>1, <1>2, <1>4 DEF SoundTree
<1>6. WellLinked(u)
  <2>1. ASSUME NEW n \in Ids(u)
        PROVE  /\ u.nodes[n].parent \in 0 .. n - 1
               /\ u.nodes[n].parent = NoNode <=> n \in u.roots
    <3>1. CASE n = id
      <4>1. id \notin t.roots
        BY <1>4 DEF SoundTree
      <4> QED BY <1>1, <1>2, <1>3, <1>4, <3>1, <4>1
    <3>2. CASE n \in Ids(t)
      <4>1. t.nodes[n].parent \in 0 .. n - 1 /\ (t.nodes[n].parent = NoNode <=> n \in t.roots)
        BY <3>2 DEF SoundTree, WellLinked
      <4>2. n \in u.roots <=> n \in t.roots
        BY <1>2, <1>4, <3>2
      <4> QED BY <1>1, <3>2, <4>1, <4>2
    <3> QED BY <1>4, <2>1, <3>1, <3>2
  <2>2. ASSUME NEW n \in Ids(u)
        PROVE  u.nodes[n].children = {c \in Ids(u) : u.nodes[c].parent = n}
    <3>1. CASE n = id
      <4>1. ASSUME NEW c \in Ids(u) PROVE u.nodes[c].parent # id
        <5>1. CASE c = id
          BY <1>1, <1>3, <1>4, <5>1
        <5>2. CASE c \in Ids(t)
          <6>1. u.nodes[c].parent \in 0 .. c - 1
            BY <1>1, <5>2 DEF SoundTree, WellLinked
          <6> QED BY <1>4, <5>2, <6>1
        <5> QED BY <1>4, <5>1, <5>2
      <4> QED BY <1>1, <1>3, <3>1, <4>1
    <3>2. CASE n \in Ids(t)
      <4>1. t.nodes[n].children = {c \in Ids(t) : t.nodes[c].parent = n}
        BY <3>2 DEF SoundTree, WellLinked
      <4>2. {c \in Ids(u) : u.nodes[c].parent = n}
              = {c \in Ids(t) : t.nodes[c].parent = n} \cup (IF n = parent THEN {id} ELSE {})
        BY <1>1, <1>3, <1>4, <3>2
      <4> QED BY <1>1, <3>2, <4>1, <4>2
    <3> QED BY <1>4, <2>2, <3>1, <3>2
  <2> QED BY <2>1, <2>2 DEF WellLinked
<1>7. DepthsCount(u)
  <2> SUFFICES ASSUME NEW n \in Ids(u)
               PROVE  u.nodes[n].depth = IF u.nodes[n].parent = NoNode THEN 0
                                         ELSE u.nodes[u.nodes[n].parent].depth + 1
    BY DEF DepthsCount
  <2>1. CASE n = id
    BY <1>1, <1>3, <1>4, <2>1
  <2>2. CASE n \in Ids(t)
    <3>1. t.nodes[n].parent = NoNode \/ t.nodes[n].parent \in Ids(t)
      BY <1>4, <2>2 DEF SoundTree, WellLinked
    <3>2. /\ u.nodes[n].parent = t.nodes[n].parent /\ u.nodes[n].depth = t.nodes[n].depth
          /\ \A p \in Ids(t) : u.nodes[p].depth = t.nodes[p].depth
      BY <1>1, <2>2
    <3>3. DepthsCount(t)
      BY DEF SoundTree
    <3> QED BY <2>2, <3>1, <3>2, <3>3 DEF DepthsCount
  <2> QED BY <1>4, <2>1, <2>2
<1>8. SeedsInherited(u)
  <2> SUFFICES ASSUME NEW n \in Ids(u), u.nodes[n].parent # NoNode
               PROVE  u.nodes[n].seed = u.nodes[u.nodes[n].parent].seed
    BY DEF SeedsInherited
  <2>1. CASE n = id
    BY <1>1, <1>3, <1>4, <2>1
  <2>2. CASE n \in Ids(t)
    <3>1. t.nodes[n].parent = NoNode \/ t.nodes[n].parent \in Ids(t)
      BY <1>4, <2>2 DEF SoundTree, WellLinked
    <3>2. /\ u.nodes[n].parent = t.nodes[n].parent /\ u.nodes[n].seed = t.nodes[n].seed
          /\ \A p \in Ids(t) : u.nodes[p].seed = t.nodes[p].seed
      BY <1>1, <2>2
    <3>3. SeedsInherited(t)
      BY DEF SoundTree
    <3> QED BY <2>2, <3>1, <3>2, <3>3 DEF SeedsInherited
  <2> QED BY <1>4, <2>1, <2>2
<1>9. BestIsChampion(u)
  <2>1. \A n \in Ids(t) : Eligible(u.nodes[n]) <=> Eligible(t.nodes[n])
    BY <1>1 DEF Eligible
  <2>2. Eligible(u.nodes[id]) <=> Eligible(node)
    BY <1>1
  <2>3. node.score \in Int /\ \A n \in Ids(t) : t.nodes[n].score \in Int
    BY <1>3, <1>4 DEF Node
  <2>4. BestIsChampion(t)
    BY DEF SoundTree
  <2>5. CASE Improves(t, node)
    <3>1. u.best = id /\ Eligible(node)
      BY <1>2, <2>5 DEF Improves
    <3>2. \A n \in Ids(t) : Eligible(t.nodes[n]) => t.nodes[n].score < node.score
      BY <2>3, <2>4, <2>5 DEF Improves, BestIsChampion
    <3>3. \A n \in Ids(t) : u.nodes[n].score = t.nodes[n].score
      BY <1>1
    <3>4. ASSUME NEW n \in Ids(u), Eligible(u.nodes[n])
          PROVE  u.nodes[n].score <= node.score /\ (u.nodes[n].score = node.score => id <= n)
      BY <1>1, <1>4, <2>1, <2>3, <3>2, <3>3, <3>4
    <3>5. u.nodes[id] = node /\ id \in Ids(u) /\ id # NoNode
      BY <1>1, <1>4
    <3> QED BY <3>1, <3>4, <3>5 DEF BestIsChampion
  <2>6. CASE ~ Improves(t, node)
    <3>1. u.best = t.best
      BY <1>2, <2>6
    <3>2. CASE ~ Eligible(node)
      BY <1>1, <1>4, <2>1, <2>2, <2>4, <3>1, <3>2 DEF BestIsChampion
    <3>3. CASE Eligible(node)
      <4>1. t.best \in Ids(t) /\ Eligible(t.nodes[t.best]) /\ node.score <= t.nodes[t.best].score
        BY <2>3, <2>4, <2>6, <3>3 DEF Improves, BestIsChampion
      <4>2. u.nodes[t.best].score = t.nodes[t.best].score /\ Eligible(u.nodes[t.best])
            /\ t.best \in Ids(u) /\ t.best # NoNode
        <5>1. t.best \in Ids(t)
          BY <4>1
        <5>2. t.best \in Ids(u) /\ t.best # NoNode
          BY <1>4, <5>1
        <5>3. Eligible(u.nodes[t.best])
          BY <2>1, <4>1, <5>1
        <5>4. u.nodes[t.best].score = t.nodes[t.best].score
          BY <1>1, <5>1
        <5> QED BY <5>2, <5>3, <5>4
      <4>3. ASSUME NEW n \in Ids(u), Eligible(u.nodes[n])
            PROVE  /\ u.nodes[n].score <= t.nodes[t.best].score
                   /\ u.nodes[n].score = t.nodes[t.best].score => t.best <= n
        <5>1. CASE n = id
          BY <1>1, <1>4, <4>1, <5>1
        <5>2. CASE n \in Ids(t)
          BY <1>1, <2>1, <2>4, <4>1, <4>2, <4>3, <5>2 DEF BestIsChampion
        <5> QED BY <1>4, <5>1, <5>2
      <4> QED BY <3>1, <4>2, <4>3 DEF BestIsChampion
    <3> QED BY <3>2, <3>3
  <2> QED BY <2>5, <2>6
<1> QED BY <1>5, <1>6, <1>7, <1>8, <1>9 DEF SoundTree, u

-----------------------------------------------------------------------------
(* Nothing is known of a session that has not started. *)
NotStarted == pc = "starting" => tree = EmptyTree /\ branches = {}

(* While seeds are planted a branch's number is below the number of roots. *)
PlantedIds ==
  /\ pc \in {"planting", "notPlanted"} => \A b \in branches : b.id < Len(tree.nodes)
  /\ pc = "planting" => Len(tree.nodes) < NumBranches

(* Steps and results exist only within a round. *)
Quiet ==
  /\ pc # "running" => running = {}
  /\ pc \notin {"running", "stitching"} => results = << >>

(* A result is about a branch whose step is over, the branch still stands  *)
(* where the step began, and no branch has two results.                    *)
Pending ==
  /\ \A i \in 1 .. Len(results) : \E b \in branches \ running :
       b.id = results[i].branch /\ b.head = results[i].parent /\ b.seed = results[i].seed
  /\ \A i, j \in 1 .. Len(results) : results[i].branch = results[j].branch => i = j

(* There is a best node to write while it is written. *)
BestToWrite == pc = "writingBest" => tree.best # NoNode

IInv ==
  /\ TypeOK
  /\ SoundTree(tree)
  /\ SoundTree(treeFile.tree)
  /\ BranchesSound
  /\ NotStarted /\ PlantedIds /\ Quiet /\ Pending /\ BestToWrite

-----------------------------------------------------------------------------

LEMMA InitInv == Init => IInv
<1> SUFFICES ASSUME Init PROVE IInv
  OBVIOUS
<1>1. TypeOK
  BY EmptyTreeSound, LoopAssumption DEF Init, TypeOK, PCs, FileState
<1>2. branches = {} /\ tree = EmptyTree /\ treeFile.tree = EmptyTree /\ pc = "starting"
      /\ running = {} /\ results = << >>
  BY DEF Init
<1> QED
  BY <1>1, <1>2, EmptyTreeSound DEF IInv, BranchesSound, NotStarted, PlantedIds, Quiet, Pending,
         BestToWrite

(* A branch made on a node of a tree is a branch that stands there. *)
LEMMA MadeBranch ==
  ASSUME NEW t \in Tree, NEW idx \in Nat, NEW n \in Ids(t), NEW b, b = MakeBranch(t, idx, n)
  PROVE  b \in Branch /\ b.id = idx /\ b.head = n /\ b.seed = t.nodes[n].seed
<1>1. t.nodes[n] \in Node /\ n \in Nat
  BY DEF Tree, Ids
<1>2. t.nodes[n].seed \in Seeds
  BY <1>1 DEF Node
<1> QED BY <1>1, <1>2 DEF MakeBranch, Branch

(* A branch that moves its head keeps its number and its seed. *)
LEMMA MovedBranch ==
  ASSUME NEW b \in Branch, NEW h \in Nat, NEW c, c = [b EXCEPT !.head = h]
  PROVE  c \in Branch /\ c.id = b.id /\ c.head = h /\ c.seed = b.seed
<1>1. c = [id |-> b.id, head |-> h, seed |-> b.seed]
  BY DEF Branch
<1> QED BY <1>1 DEF Branch

(* The steps that change neither the tree nor the branches. *)
LEMMA MainThreadMoves ==
  ASSUME IInv,
         UNCHANGED <<round, tree, branches, nextIdx, running, results>>,
         bestScore' \in Int, policyFile' \in [state : FileState, score : Int],
         treeFile' \in [state : FileState, tree : Tree], SoundTree(treeFile.tree)',
         UNCHANGED crashes,
         pc' \in PCs \ {"starting"}, pc # "running" \/ running = {},
         pc \in {"stitching", "running"} => pc' = "stitching" \/ results = << >>,
         pc' = "planting" => pc = "starting",
         pc' = "notPlanted" => pc = "planting",
         pc' = "writingBest" => tree.best # NoNode,
         pc \in {"starting", "planting", "notPlanted"} =>
           pc' \in {"planting", "notPlanted"} \/ branches = {}
  PROVE  IInv'
<1>1. TypeOK'
  BY DEF IInv, TypeOK
<1>2. SoundTree(tree)'
  BY DEF IInv, SoundTree, WellLinked, DepthsCount, BestIsChampion, SeedsInherited
<1>3. BranchesSound'
  BY DEF IInv, BranchesSound
<1>4. NotStarted' /\ Quiet' /\ Pending' /\ BestToWrite'
  BY DEF IInv, NotStarted, Quiet, Pending, BestToWrite
<1>5. PlantedIds'
  <2>1. CASE pc = "starting"
    BY <2>1, LoopAssumption DEF IInv, PlantedIds, NotStarted, EmptyTree
  <2>2. CASE pc # "starting"
    BY <2>2 DEF IInv, PlantedIds
  <2> QED BY <2>1, <2>2
<1> QED BY <1>1, <1>2, <1>3, <1>4, <1>5 DEF IInv

LEMMA IdleMovesInv ==
  IInv /\ (StartFresh \/ StartUnreadable \/ PlantingFails \/ CollectRound \/ EndStitching
           \/ Write \/ CheckpointRaises \/ ReseedRaises \/ Finish)  =>  IInv'
<1> SUFFICES ASSUME IInv,
                    StartFresh \/ StartUnreadable \/ PlantingFails \/ CollectRound
                    \/ EndStitching \/ Write \/ CheckpointRaises \/ ReseedRaises \/ Finish
             PROVE  IInv'
  OBVIOUS
<1> USE DEF IInv, Goto, memory, files
<1>1. TypeOK /\ tree \in Tree /\ \A n \in Ids(tree) : tree.nodes[n] \in Node
  BY DEF TypeOK, Tree, Ids
<1>2. BestScoreOf(tree) \in Int
  <2>1. tree.best # NoNode => tree.nodes[tree.best] \in Node
    BY <1>1 DEF SoundTree, BestIsChampion
  <2> QED BY <2>1, LoopAssumption DEF BestScoreOf, Node
<1>3. UNCHANGED treeFile => SoundTree(treeFile.tree)'
  BY DEF SoundTree, WellLinked, DepthsCount, BestIsChampion, SeedsInherited
<1>4. CASE StartFresh
  BY <1>1, <1>3, <1>4, MainThreadMoves DEF StartFresh, TypeOK, PCs, NotStarted, Quiet
<1>5. CASE StartUnreadable
  BY <1>1, <1>3, <1>5, MainThreadMoves DEF StartUnreadable, TypeOK, PCs, Ended, Failures, NotStarted, Quiet
<1>6. CASE PlantingFails
  BY <1>1, <1>3, <1>6, MainThreadMoves DEF PlantingFails, TypeOK, PCs, Ended, Failures, Quiet
<1>7. CASE CollectRound
  BY <1>1, <1>3, <1>7, MainThreadMoves DEF CollectRound, RoundCollected, TypeOK, PCs
<1>8. CASE EndStitching
  BY <1>1, <1>3, <1>8, MainThreadMoves DEF EndStitching, TypeOK, PCs, Quiet
<1>9. CASE BeginBestWrite
  BY <1>1, <1>2, <1>3, <1>9, MainThreadMoves DEF BeginBestWrite, NewBest, TypeOK, PCs, FileState, Quiet
<1>10. CASE EndBestWrite
  <2>1. tree.nodes[WrittenNode] \in Node
    BY <1>1, <1>10 DEF EndBestWrite, BestToWrite, WrittenNode, SoundTree, BestIsChampion
  <2>2. tree.nodes[WrittenNode].score \in Int
    BY <2>1 DEF Node
  <2> QED BY <1>1, <1>3, <1>10, <2>2, MainThreadMoves DEF EndBestWrite, TypeOK, PCs, FileState, Quiet
<1>11. CASE KeepBest
  BY <1>1, <1>3, <1>11, MainThreadMoves DEF KeepBest, TypeOK, PCs, Quiet
<1>12. CASE BeginSave
  BY <1>1, <1>12, MainThreadMoves DEF BeginSave, TypeOK, PCs, FileState, Quiet
<1>13. CASE EndSave
  BY <1>1, <1>13, MainThreadMoves DEF EndSave, TypeOK, PCs, FileState, Quiet
<1>14. CASE CheckpointRaises
  BY <1>1, <1>3, <1>14, MainThreadMoves DEF CheckpointRaises, TypeOK, PCs, Ended, Failures, Quiet
<1>15. CASE ReseedRaises
  BY <1>1, <1>3, <1>15, MainThreadMoves DEF ReseedRaises, TypeOK, PCs, Ended, Failures, Quiet
<1>16. CASE Finish
  BY <1>1, <1>3, <1>16, MainThreadMoves DEF Finish, TypeOK, PCs, Ended, Quiet
<1> QED BY <1>4, <1>5, <1>6, <1>7, <1>8, <1>9, <1>10, <1>11, <1>12, <1>13, <1>14, <1>15, <1>16
        DEF Write

(* The steps after which no round is under way: the next session's tree    *)
(* and branches, or the reviewed ones.                                     *)
LEMMA MovesBetweenRounds ==
  ASSUME IInv, pc' \in PCs \ {"starting", "planting", "notPlanted", "writingBest"},
         round' = round, tree' \in Tree, SoundTree(tree)', branches' \subseteq Branch,
         nextIdx' \in Nat, running = {}, results = << >>, UNCHANGED <<running, results, files, crashes>>,
         bestScore' \in Int, BranchesSound'
  PROVE  IInv'
<1>1. TypeOK'
  BY DEF IInv, TypeOK, files
<1>2. SoundTree(treeFile.tree)'
  BY DEF IInv, files, SoundTree, WellLinked, DepthsCount, BestIsChampion, SeedsInherited
<1>3. NotStarted' /\ PlantedIds' /\ Quiet' /\ Pending' /\ BestToWrite'
  BY DEF NotStarted, PlantedIds, Quiet, Pending, BestToWrite
<1> QED BY <1>1, <1>2, <1>3 DEF IInv

(* What add_node does to a sound tree, in the words the steps need. *)
SoundlyGrown(t, u, parent, seed) ==
  /\ u \in Tree /\ SoundTree(u)
  /\ u.current = Len(t.nodes) + 1 /\ Len(u.nodes) = Len(t.nodes) + 1
  /\ Len(t.nodes) \in Nat /\ u.current \in Ids(u) /\ Ids(t) \subseteq Ids(u)
  /\ u.nodes[u.current].seed = seed /\ u.nodes[u.current].parent = parent
  /\ \A n \in Ids(t) : u.nodes[n].seed = t.nodes[n].seed

LEMMA GrownTree ==
  ASSUME NEW t \in Tree, SoundTree(t), NEW parent \in Ids(t) \cup {NoNode},
         NEW score \in Int, NEW error \in BOOLEAN, NEW seed \in Seeds,
         parent # NoNode => seed = t.nodes[parent].seed,
         NEW u, u = AddNode(t, parent, score, error, seed)
  PROVE  SoundlyGrown(t, u, parent, seed)
<1>1. Grown(t, u, parent, NewNode(t, parent, score, error, seed))
  BY AddNodeGrows
<1>2. SoundTree(u)
  BY AddNodeSound
<1>3. Len(t.nodes) \in Nat
  BY DEF Tree
<1>4. u.current = Len(t.nodes) + 1
  BY DEF AddNode
<1>5. /\ u \in Tree /\ Len(u.nodes) = Len(t.nodes) + 1
      /\ u.nodes[u.current] = NewNode(t, parent, score, error, seed)
      /\ \A n \in Ids(t) : u.nodes[n].seed = t.nodes[n].seed
  BY <1>1, <1>4 DEF Grown
<1>6. u.nodes[u.current].seed = seed /\ u.nodes[u.current].parent = parent
  BY <1>5 DEF NewNode
<1> QED BY <1>2, <1>3, <1>4, <1>5, <1>6 DEF Ids, SoundlyGrown

LEMMA PlantSeedInv ==
  ASSUME IInv, NEW seed \in Seeds, PlantSeed(seed)
  PROVE  IInv'
<1> DEFINE planted == AddNode(tree, NoNode, RootScore, FALSE, seed)
           root == MakeBranch(planted, Len(tree.nodes), planted.current)
<1>0. tree \in Tree /\ SoundTree(tree) /\ NoNode \in Ids(tree) \cup {NoNode} /\ RootScore \in Int
  BY DEF IInv, TypeOK, RootScore
<1>a. planted = AddNode(tree, NoNode, RootScore, FALSE, seed)
  OBVIOUS
<1> HIDE DEF planted
<1>b. SoundlyGrown(tree, planted, NoNode, seed)
  BY <1>0, <1>a, GrownTree
<1>1. /\ planted \in Tree /\ SoundTree(planted)
      /\ planted.current = Len(tree.nodes) + 1 /\ Len(planted.nodes) = Len(tree.nodes) + 1
      /\ Len(tree.nodes) \in Nat /\ planted.current \in Ids(planted) /\ Ids(tree) \subseteq Ids(planted)
      /\ \A n \in Ids(tree) : planted.nodes[n].seed = tree.nodes[n].seed
  BY <1>b DEF SoundlyGrown
<1>2. root \in Branch /\ root.id = Len(tree.nodes) /\ root.head = planted.current
      /\ root.seed = planted.nodes[planted.current].seed
  BY <1>1, MadeBranch
<1> HIDE DEF root
<1>3. /\ pc = "planting" /\ tree' = planted /\ branches' = branches \cup {root}
      /\ UNCHANGED <<round, running, results, bestScore, files, crashes>>
      /\ \/ pc' = "planting" /\ nextIdx' = nextIdx /\ Len(planted.nodes) < NumBranches
         \/ pc' = "round" /\ nextIdx' = NumBranches /\ ~ (Len(planted.nodes) < NumBranches)
  BY DEF PlantSeed, planted, root, Goto
<1>4. running = {} /\ results = << >> /\ Len(tree.nodes) < NumBranches
      /\ \A b \in branches : b.id < Len(tree.nodes) /\ b \in Branch
  BY <1>3 DEF IInv, Quiet, PlantedIds, TypeOK
<1>5. TypeOK'
  BY <1>1, <1>2, <1>3, LoopAssumption DEF IInv, TypeOK, PCs, files
<1>6. SoundTree(tree)' /\ SoundTree(treeFile.tree)'
  BY <1>1, <1>3 DEF IInv, files, SoundTree, WellLinked, DepthsCount, BestIsChampion, SeedsInherited
<1>7. BranchesSound'
  <2>1. ASSUME NEW b \in branches'
        PROVE  /\ b.head \in Ids(tree)' /\ b.seed = tree'.nodes[b.head].seed
               /\ b.id < nextIdx' \/ pc' \in {"planting", "notPlanted"}
    <3>1. CASE b = root
      BY <1>1, <1>2, <1>3, <1>4, <3>1, LoopAssumption
    <3>2. CASE b \in branches
      <4>1. b.head \in Ids(tree) /\ b.seed = tree.nodes[b.head].seed
        BY <3>2 DEF IInv, BranchesSound
      <4>2. b.id \in Nat
        BY <1>4, <3>2 DEF Branch
      <4> QED BY <1>1, <1>3, <1>4, <3>2, <4>1, <4>2, LoopAssumption
    <3> QED BY <1>3, <3>1, <3>2
  <2>2. ASSUME NEW b \in branches', NEW c \in branches', b.id = c.id
        PROVE  b = c
    <3>1. \A d \in branches : d.id \in Nat
      BY <1>4 DEF Branch
    <3> QED BY <1>1, <1>2, <1>3, <1>4, <2>2, <3>1 DEF IInv, BranchesSound
  <2> QED BY <2>1, <2>2 DEF BranchesSound
<1>8. PlantedIds'
  <2>1. \A b \in branches' : b.id < Len(tree'.nodes)
    <3>1. \A d \in branches : d.id \in Nat
      BY <1>4 DEF Branch
    <3> QED BY <1>1, <1>2, <1>3, <1>4, <3>1
  <2> QED BY <1>3, <2>1 DEF PlantedIds
<1>9. NotStarted' /\ Quiet' /\ Pending' /\ BestToWrite'
  BY <1>3, <1>4 DEF NotStarted, Quiet, Pending, BestToWrite
<1> QED BY <1>5, <1>6, <1>7, <1>8, <1>9 DEF IInv

LEMMA CrashInv ==
  ASSUME IInv, Crash
  PROVE  IInv'
<1>1. /\ pc' = "starting" /\ round' = 0 /\ tree' = EmptyTree /\ branches' = {} /\ nextIdx' = 0
      /\ running' = {} /\ results' = << >> /\ bestScore' = NegInfinity
      /\ crashes < MaxCrashes /\ crashes' = crashes + 1 /\ UNCHANGED files
  BY DEF Crash, Goto
<1>2. TypeOK'
  BY <1>1, EmptyTreeSound, LoopAssumption DEF IInv, TypeOK, PCs, files
<1>3. SoundTree(tree)' /\ SoundTree(treeFile.tree)'
  BY <1>1, EmptyTreeSound
     DEF IInv, files, SoundTree, WellLinked, DepthsCount, BestIsChampion, SeedsInherited
<1>4. BranchesSound' /\ NotStarted' /\ PlantedIds' /\ Quiet' /\ Pending' /\ BestToWrite'
  BY <1>1 DEF BranchesSound, NotStarted, PlantedIds, Quiet, Pending, BestToWrite
<1> QED BY <1>2, <1>3, <1>4 DEF IInv

LEMMA StutterInv ==
  ASSUME IInv, UNCHANGED vars
  PROVE  IInv'
BY DEF IInv, vars, memory, files, TypeOK, SoundTree, WellLinked, DepthsCount, BestIsChampion,
       SeedsInherited, BranchesSound, NotStarted, PlantedIds, Quiet, Pending, BestToWrite

LEMMA ReseedInv ==
  ASSUME IInv, Reseed
  PROVE  IInv'
<1> DEFINE b == MakeBranch(tree, nextIdx, tree.best)
<1>1. tree \in Tree /\ nextIdx \in Nat /\ tree.best \in Ids(tree) /\ SoundTree(tree)
  BY DEF IInv, TypeOK, Reseed, SoundTree, BestIsChampion
<1>2. b \in Branch /\ b.id = nextIdx /\ b.head = tree.best /\ b.seed = tree.nodes[tree.best].seed
  BY <1>1, MadeBranch
<1>3. /\ pc = "reseeding" /\ pc' = "round" /\ branches' = {b} /\ nextIdx' = nextIdx + 1
      /\ UNCHANGED <<round, tree, running, results, bestScore, files, crashes>>
  BY DEF Reseed, Goto
<1> HIDE DEF b
<1>4. running = {} /\ results = << >> /\ bestScore \in Int
  BY <1>3 DEF IInv, Quiet, TypeOK
<1>5. BranchesSound'
  BY <1>1, <1>2, <1>3 DEF BranchesSound
<1>6. SoundTree(tree)'
  BY <1>1, <1>3 DEF SoundTree, WellLinked, DepthsCount, BestIsChampion, SeedsInherited
<1> QED BY <1>1, <1>2, <1>3, <1>4, <1>5, <1>6, MovesBetweenRounds DEF PCs

LEMMA StartResumedInv ==
  ASSUME IInv, StartResumed
  PROVE  IInv'
<1>0. PICK last \in 0 .. NumBranches - 1 : \E heads \in [0 .. last -> Leaves(treeFile.tree)] :
        branches' = {MakeBranch(treeFile.tree, i, heads[i]) : i \in 0 .. last}
  BY DEF StartResumed
<1>1. PICK heads \in [0 .. last -> Leaves(treeFile.tree)] :
        branches' = {MakeBranch(treeFile.tree, i, heads[i]) : i \in 0 .. last}
  BY <1>0
<1>2. /\ pc = "starting" /\ pc' = "round" /\ tree' = treeFile.tree /\ nextIdx' = NumBranches
      /\ bestScore' = BestScoreOf(treeFile.tree)
      /\ UNCHANGED <<round, running, results, files, crashes>>
  BY DEF StartResumed, Goto
<1>3. treeFile.tree \in Tree /\ SoundTree(treeFile.tree)
  BY DEF IInv, TypeOK
<1>4. running = {} /\ results = << >>
  BY <1>2 DEF IInv, Quiet
<1>5. bestScore' \in Int
  <2>1. treeFile.tree.best # NoNode => treeFile.tree.nodes[treeFile.tree.best] \in Node
    BY <1>3 DEF SoundTree, BestIsChampion, Tree, Ids
  <2> QED BY <1>2, <2>1, LoopAssumption DEF BestScoreOf, Node
<1>6. ASSUME NEW i \in 0 .. last
      PROVE  LET b == MakeBranch(treeFile.tree, i, heads[i]) IN
             /\ b \in Branch /\ b.id = i /\ b.head \in Ids(treeFile.tree)
             /\ b.seed = treeFile.tree.nodes[b.head].seed
  <2>1. heads[i] \in Ids(treeFile.tree) /\ i \in Nat
    BY <1>1 DEF Leaves
  <2> QED BY <1>3, <2>1, MadeBranch
<1>7. branches' \subseteq Branch
  BY <1>1, <1>6
<1>8. BranchesSound'
  <2>1. ASSUME NEW b \in branches'
        PROVE  b.head \in Ids(tree') /\ b.seed = tree'.nodes[b.head].seed /\ b.id < nextIdx'
    BY <1>1, <1>2, <1>6, LoopAssumption
  <2>2. ASSUME NEW b \in branches', NEW c \in branches', b.id = c.id
        PROVE  b = c
    BY <1>1, <1>6, <2>2
  <2> QED BY <2>1, <2>2 DEF BranchesSound, Ids
<1>9. SoundTree(tree)'
  BY <1>2, <1>3 DEF SoundTree, WellLinked, DepthsCount, BestIsChampion, SeedsInherited
<1> QED BY <1>2, <1>3, <1>4, <1>5, <1>7, <1>8, <1>9, MovesBetweenRounds, LoopAssumption DEF PCs

(* A branch after its review: where it stood, or at the pivot with the     *)
(* pivot's seed.                                                           *)
LEMMA ReviewedBranch ==
  ASSUME tree \in Tree, NEW b \in Branch, b.head \in Ids(tree),
         b.seed = tree.nodes[b.head].seed, NEW verdict, NEW c, c = Reviewed(b, verdict)
  PROVE  /\ c \in Branch /\ c.id = b.id /\ c.head \in Ids(tree)
         /\ c.seed = tree.nodes[c.head].seed
<1>1. CASE verdict \in Ids(tree)
  <2>1. c = [id |-> b.id, head |-> verdict, seed |-> tree.nodes[verdict].seed]
    BY <1>1 DEF Reviewed, Branch
  <2>2. verdict \in Nat /\ tree.nodes[verdict] \in Node
    BY <1>1 DEF Tree, Ids
  <2>3. tree.nodes[verdict].seed \in Seeds
    BY <2>2 DEF Node
  <2> QED BY <1>1, <2>1, <2>2, <2>3 DEF Branch
<1>2. CASE verdict \notin Ids(tree)
  BY <1>2 DEF Reviewed
<1> QED BY <1>1, <1>2

LEMMA CheckpointInv ==
  ASSUME IInv, Checkpoint
  PROVE  IInv'
<1>0. PICK verdicts \in [branches -> {Kill, Continue} \cup Ids(tree)], spawns \in 0 .. MaxSpawn :
        \E targets \in [1 .. spawns -> Ids(tree)] :
          branches' = {Reviewed(b, verdicts[b]) : b \in {c \in branches : verdicts[c] # Kill}}
                        \cup Spawned(targets)
  BY DEF Checkpoint
<1>1. PICK targets \in [1 .. spawns -> Ids(tree)] :
        branches' = {Reviewed(b, verdicts[b]) : b \in {c \in branches : verdicts[c] # Kill}}
                      \cup Spawned(targets)
  BY <1>0
<1>2. /\ pc = "checkpoint" /\ pc' \in {"reseeding", "round"} /\ nextIdx' = NextIdxAfter(branches')
      /\ UNCHANGED <<round, tree, running, results, bestScore, files, crashes>>
  BY DEF Checkpoint, Goto
<1>3. /\ tree \in Tree /\ SoundTree(tree) /\ nextIdx \in Nat /\ branches \subseteq Branch
      /\ bestScore \in Int /\ running = {} /\ results = << >> /\ spawns \in Nat
  BY <1>2, LoopAssumption DEF IInv, TypeOK, Quiet
<1>4. ASSUME NEW b \in branches
      PROVE  b \in Branch /\ b.head \in Ids(tree) /\ b.seed = tree.nodes[b.head].seed /\ b.id < nextIdx
  BY <1>2, <1>3 DEF IInv, BranchesSound
<1>5. ASSUME NEW c \in branches'
      PROVE  /\ c \in Branch /\ c.head \in Ids(tree) /\ c.seed = tree.nodes[c.head].seed
             /\ \/ \E b \in branches : c = Reviewed(b, verdicts[b]) /\ c.id = b.id
                \/ \E i \in 1 .. spawns : c = MakeBranch(tree, nextIdx + i - 1, targets[i])
                                            /\ c.id = nextIdx + i - 1
  <2>1. CASE \E b \in branches : c = Reviewed(b, verdicts[b])
    <3>1. PICK b \in branches : c = Reviewed(b, verdicts[b])
      BY <2>1
    <3> QED BY <1>3, <1>4, <3>1, ReviewedBranch
  <2>2. CASE c \in Spawned(targets)
    <3>1. PICK i \in 1 .. spawns : c = MakeBranch(tree, nextIdx + i - 1, targets[i])
      BY <2>2 DEF Spawned
    <3>2. nextIdx + i - 1 \in Nat /\ targets[i] \in Ids(tree)
      BY <1>3
    <3> QED BY <1>3, <3>1, <3>2, MadeBranch
  <2> QED BY <1>1, <2>1, <2>2
<1>6. ASSUME NEW c \in branches'
      PROVE  c.id \in Nat /\ c.id < nextIdx + spawns
  BY <1>3, <1>4, <1>5 DEF Branch
<1>7. nextIdx' \in Nat /\ \A c \in branches' : c.id < nextIdx'
  <2> DEFINE bounds == {nextIdx} \cup {b.id + 1 : b \in branches'}
             top == nextIdx + spawns
  <2>1. top \in bounds
    <3>1. CASE spawns = 0
      BY <1>3, <3>1
    <3>2. CASE spawns # 0
      <4> DEFINE c == MakeBranch(tree, nextIdx + spawns - 1, targets[spawns])
      <4>1. c \in branches'
        BY <1>1, <1>3, <3>2 DEF Spawned
      <4>2. nextIdx + spawns - 1 \in Nat /\ targets[spawns] \in Ids(tree)
        BY <1>3, <3>2
      <4>3. c.id = nextIdx + spawns - 1
        BY <1>3, <4>2, MadeBranch
      <4> HIDE DEF c
      <4> QED BY <1>3, <4>1, <4>3
    <3> QED BY <3>1, <3>2
  <2>2. \A x \in bounds : x \in Nat /\ x <= top
    BY <1>3, <1>6
  <2>3. nextIdx' = CHOOSE m \in bounds : \A x \in bounds : x <= m
    BY <1>2 DEF NextIdxAfter
  <2> HIDE DEF bounds
  <2>4. nextIdx' \in bounds /\ \A x \in bounds : x <= nextIdx'
    BY <2>1, <2>2, <2>3
  <2>5. \A c \in branches' : c.id + 1 \in bounds
    BY DEF bounds
  <2> QED BY <1>6, <2>2, <2>4, <2>5
<1>8. BranchesSound'
  <2>1. ASSUME NEW b \in branches', NEW c \in branches', b.id = c.id
        PROVE  b = c
    <3>1. \A d \in branches : d.id \in Nat /\ d.id < nextIdx
      BY <1>4 DEF Branch
    <3>2. CASE \E d \in branches : b = Reviewed(d, verdicts[d]) /\ b.id = d.id
      <4>1. PICK d \in branches : b = Reviewed(d, verdicts[d]) /\ b.id = d.id
        BY <3>2
      <4>2. PICK e \in branches : c = Reviewed(e, verdicts[e]) /\ c.id = e.id
        BY <1>3, <1>5, <2>1, <3>1, <4>1
      <4>3. d = e
        BY <2>1, <4>1, <4>2 DEF IInv, BranchesSound
      <4> QED BY <4>1, <4>2, <4>3
    <3>3. CASE \E i \in 1 .. spawns : b = MakeBranch(tree, nextIdx + i - 1, targets[i])
                                        /\ b.id = nextIdx + i - 1
      <4>1. PICK i \in 1 .. spawns : b = MakeBranch(tree, nextIdx + i - 1, targets[i])
                                       /\ b.id = nextIdx + i - 1
        BY <3>3
      <4>2. PICK j \in 1 .. spawns : c = MakeBranch(tree, nextIdx + j - 1, targets[j])
                                       /\ c.id = nextIdx + j - 1
        BY <1>3, <1>5, <2>1, <3>1, <4>1
      <4>3. i = j
        BY <1>3, <2>1, <4>1, <4>2
      <4> QED BY <4>1, <4>2, <4>3
    <3> QED BY <1>5, <3>2, <3>3
  <2>2. ASSUME NEW b \in branches'
        PROVE  b.head \in Ids(tree') /\ b.seed = tree'.nodes[b.head].seed /\ b.id < nextIdx'
    BY <1>2, <1>5, <1>7
  <2> QED BY <2>1, <2>2 DEF BranchesSound, Ids
<1>9. SoundTree(tree)' /\ branches' \subseteq Branch
  BY <1>2, <1>3, <1>5 DEF SoundTree, WellLinked, DepthsCount, BestIsChampion, SeedsInherited
<1> QED BY <1>2, <1>3, <1>7, <1>8, <1>9, MovesBetweenRounds DEF PCs

LEMMA BeginRoundInv ==
  ASSUME IInv, BeginRound
  PROVE  IInv'
<1>1. /\ pc = "round" /\ pc' = "running" /\ round < Rounds /\ round' = round + 1
      /\ running' = branches /\ results' = << >>
      /\ UNCHANGED <<tree, branches, nextIdx, bestScore, files, crashes>>
  BY DEF BeginRound, Goto
<1>2. TypeOK'
  BY <1>1, LoopAssumption DEF IInv, TypeOK, PCs, files
<1>3. SoundTree(tree)' /\ SoundTree(treeFile.tree)'
  BY <1>1 DEF IInv, files, SoundTree, WellLinked, DepthsCount, BestIsChampion, SeedsInherited
<1>4. BranchesSound'
  BY <1>1 DEF IInv, BranchesSound
<1>5. NotStarted' /\ PlantedIds' /\ Quiet' /\ Pending' /\ BestToWrite'
  BY <1>1 DEF NotStarted, PlantedIds, Quiet, Pending, BestToWrite
<1> QED BY <1>2, <1>3, <1>4, <1>5 DEF IInv

LEMMA StepRaisesInv ==
  ASSUME IInv, NEW b \in running, StepRaises(b)
  PROVE  IInv'
<1>1. /\ pc = "running" /\ running' = running \ {b}
      /\ UNCHANGED <<pc, round, tree, branches, nextIdx, results, bestScore, files, crashes>>
  BY DEF StepRaises
<1>2. TypeOK'
  BY <1>1 DEF IInv, TypeOK, files
<1>3. SoundTree(tree)' /\ SoundTree(treeFile.tree)'
  BY <1>1 DEF IInv, files, SoundTree, WellLinked, DepthsCount, BestIsChampion, SeedsInherited
<1>4. BranchesSound'
  BY <1>1 DEF IInv, BranchesSound
<1>5. NotStarted' /\ PlantedIds' /\ Quiet' /\ BestToWrite'
  BY <1>1 DEF NotStarted, PlantedIds, Quiet, BestToWrite
<1>6. Pending'
  BY <1>1 DEF IInv, Pending
<1> QED BY <1>2, <1>3, <1>4, <1>5, <1>6 DEF IInv

LEMMA StepReturnsInv ==
  ASSUME IInv, NEW b \in running, StepReturns(b)
  PROVE  IInv'
<1>0. PICK score \in Scores, error \in BOOLEAN :
        results' = Append(results, StepResult(b, score, error))
  BY DEF StepReturns
<1> DEFINE r == StepResult(b, score, error)
           n == Len(results)
<1>1. /\ pc = "running" /\ running' = running \ {b} /\ results' = Append(results, r)
      /\ UNCHANGED <<pc, round, tree, branches, nextIdx, bestScore, files, crashes>>
  BY <1>0 DEF StepReturns
<1>2. b \in branches /\ b \in Branch /\ results \in Seq(Result) /\ n \in Nat
  BY DEF IInv, TypeOK
<1>3. r \in Result /\ r.branch = b.id /\ r.parent = b.head /\ r.seed = b.seed
  BY <1>2 DEF StepResult, Result, Branch
<1> HIDE DEF r
<1>4. TypeOK'
  BY <1>1, <1>2, <1>3 DEF IInv, TypeOK, files
<1>5. SoundTree(tree)' /\ SoundTree(treeFile.tree)'
  BY <1>1 DEF IInv, files, SoundTree, WellLinked, DepthsCount, BestIsChampion, SeedsInherited
<1>6. BranchesSound'
  BY <1>1 DEF IInv, BranchesSound
<1>7. NotStarted' /\ PlantedIds' /\ Quiet' /\ BestToWrite'
  BY <1>1 DEF IInv, NotStarted, PlantedIds, Quiet, BestToWrite
<1>8. /\ Len(results') = n + 1 /\ results'[n + 1] = r
      /\ \A i \in 1 .. n : results'[i] = results[i]
  BY <1>1, <1>2, <1>3
<1>9. Pending'
  <2>1. \A i \in 1 .. n : \E c \in branches \ running :
          c.id = results[i].branch /\ c.head = results[i].parent /\ c.seed = results[i].seed
    BY DEF IInv, Pending
  <2>2. \A i \in 1 .. n : results[i].branch # b.id
    BY <1>2, <2>1 DEF IInv, BranchesSound
  <2>3. \A i \in 1 .. n + 1 : \E c \in branches' \ running' :
          c.id = results'[i].branch /\ c.head = results'[i].parent /\ c.seed = results'[i].seed
    BY <1>1, <1>2, <1>3, <1>8, <2>1
  <2>4. \A i, j \in 1 .. n : results[i].branch = results[j].branch => i = j
    BY DEF IInv, Pending
  <2>5. \A i, j \in 1 .. n + 1 : results'[i].branch = results'[j].branch => i = j
    BY <1>2, <1>3, <1>8, <2>2, <2>4
  <2> HIDE DEF n
  <2> QED BY <1>8, <2>3, <2>5 DEF Pending
<1> QED BY <1>4, <1>5, <1>6, <1>7, <1>9 DEF IInv

LEMMA StitchInv ==
  ASSUME IInv, Stitch
  PROVE  IInv'
<1> DEFINE r == Head(results)
           grown == AddNode(tree, r.parent, r.score, r.error, r.seed)
<1>1. PICK b \in branches :
        MovesHead(r, b) /\ branches' = (branches \ {b}) \cup {[b EXCEPT !.head = grown.current]}
  BY DEF Stitch
<1>2. /\ pc = "stitching" /\ results # << >> /\ tree' = grown /\ results' = Tail(results)
      /\ UNCHANGED <<pc, round, nextIdx, running, bestScore, files, crashes>>
  BY DEF Stitch
<1>3. /\ tree \in Tree /\ SoundTree(tree) /\ branches \subseteq Branch /\ running = {}
      /\ results \in Seq(Result) /\ Len(results) \in Nat /\ Len(results) >= 1
      /\ r = results[1] /\ r \in Result
  BY <1>2 DEF IInv, TypeOK, Quiet
<1>4. r.branch = b.id /\ r.parent = b.head /\ r.seed = b.seed /\ b \in Branch
  <2>1. PICK c \in branches : c.id = r.branch /\ c.head = r.parent /\ c.seed = r.seed
    BY <1>3 DEF IInv, Pending
  <2>2. b = c
    BY <1>1, <2>1 DEF MovesHead, IInv, BranchesSound
  <2> QED BY <1>3, <2>1, <2>2
<1>5. /\ r.parent \in Ids(tree) /\ r.score \in Int /\ r.error \in BOOLEAN /\ r.seed \in Seeds
      /\ r.seed = tree.nodes[r.parent].seed
  BY <1>3, <1>4, ScoresAssumption DEF IInv, BranchesSound, Result
<1>6. grown = AddNode(tree, r.parent, r.score, r.error, r.seed)
  OBVIOUS
<1> HIDE DEF r, grown
<1>7. SoundlyGrown(tree, grown, r.parent, r.seed)
  BY <1>3, <1>5, <1>6, GrownTree
<1> DEFINE m == [b EXCEPT !.head = grown.current]
<1>8. grown.current \in Nat /\ grown.current \in Ids(grown)
      /\ grown.nodes[grown.current].seed = r.seed /\ grown \in Tree /\ SoundTree(grown)
      /\ Ids(tree) \subseteq Ids(grown)
      /\ \A n \in Ids(tree) : grown.nodes[n].seed = tree.nodes[n].seed
  BY <1>7 DEF SoundlyGrown
<1>9. m \in Branch /\ m.id = b.id /\ m.head = grown.current /\ m.seed = b.seed
  BY <1>4, <1>8, MovedBranch
<1> HIDE DEF m
<1>10. branches' = (branches \ {b}) \cup {m}
  BY <1>1 DEF m
<1>11. /\ results' \in Seq(Result) /\ Len(results') = Len(results) - 1
       /\ \A i \in 1 .. Len(results') : results'[i] = results[i + 1]
  BY <1>2, <1>3
<1>12. TypeOK'
  BY <1>2, <1>3, <1>8, <1>9, <1>10, <1>11 DEF IInv, TypeOK, files
<1>13. SoundTree(tree)' /\ SoundTree(treeFile.tree)'
  BY <1>2, <1>8 DEF IInv, files, SoundTree, WellLinked, DepthsCount, BestIsChampion, SeedsInherited
<1>14. BranchesSound'
  <2>1. ASSUME NEW c \in branches'
        PROVE  /\ c.head \in Ids(tree') /\ c.seed = tree'.nodes[c.head].seed
               /\ c.id < nextIdx' \/ pc' \in {"planting", "notPlanted"}
    <3>1. \A d \in branches : /\ d.head \in Ids(tree) /\ d.seed = tree.nodes[d.head].seed
                              /\ d.id < nextIdx
      BY <1>2 DEF IInv, BranchesSound
    <3>2. CASE c = m
      BY <1>2, <1>4, <1>8, <1>9, <3>1, <3>2
    <3>3. CASE c \in branches
      BY <1>2, <1>8, <3>1, <3>3
    <3> QED BY <1>10, <3>2, <3>3
  <2>2. ASSUME NEW c \in branches', NEW d \in branches', c.id = d.id
        PROVE  c = d
    BY <1>9, <1>10, <2>2 DEF IInv, BranchesSound
  <2> QED BY <2>1, <2>2 DEF BranchesSound, Ids
<1>15. NotStarted' /\ PlantedIds' /\ Quiet' /\ BestToWrite'
  BY <1>2 DEF IInv, NotStarted, PlantedIds, Quiet, BestToWrite
<1>16. Pending'
  <2>1. ASSUME NEW i \in 1 .. Len(results')
        PROVE  \E c \in branches' \ running' :
                 c.id = results'[i].branch /\ c.head = results'[i].parent /\ c.seed = results'[i].seed
    <3>1. i + 1 \in 1 .. Len(results) /\ 1 \in 1 .. Len(results) /\ i + 1 # 1
      BY <1>3, <1>11
    <3>2. results[i + 1].branch # results[1].branch
      BY <3>1 DEF IInv, Pending
    <3>3. PICK c \in branches : /\ c.id = results[i + 1].branch /\ c.head = results[i + 1].parent
                                /\ c.seed = results[i + 1].seed
      BY <3>1 DEF IInv, Pending
    <3>4. c \in branches'
      BY <1>3, <1>4, <1>10, <3>2, <3>3
    <3> QED BY <1>2, <1>3, <1>11, <3>3, <3>4
  <2>2. ASSUME NEW i \in 1 .. Len(results'), NEW j \in 1 .. Len(results'),
               results'[i].branch = results'[j].branch
        PROVE  i = j
    <3>1. i + 1 \in 1 .. Len(results) /\ j + 1 \in 1 .. Len(results)
      BY <1>3, <1>11
    <3>2. results[i + 1].branch = results[j + 1].branch
      BY <1>11, <2>2
    <3> QED BY <1>3, <1>11, <3>1, <3>2 DEF IInv, Pending
  <2> QED BY <2>1, <2>2 DEF Pending
<1> QED BY <1>12, <1>13, <1>14, <1>15, <1>16 DEF IInv

-----------------------------------------------------------------------------

LEMMA NextInv == IInv /\ [Next]_vars => IInv'
<1> SUFFICES ASSUME IInv, [Next]_vars PROVE IInv'
  OBVIOUS
<1>1. CASE StartFresh \/ StartUnreadable \/ PlantingFails \/ CollectRound \/ EndStitching
           \/ Write \/ CheckpointRaises \/ ReseedRaises \/ Finish
  BY <1>1, IdleMovesInv
<1>2. CASE StartResumed
  BY <1>2, StartResumedInv
<1>3. CASE \E seed \in Seeds : PlantSeed(seed)
  BY <1>3, PlantSeedInv
<1>4. CASE BeginRound
  BY <1>4, BeginRoundInv
<1>5. CASE Stitch
  BY <1>5, StitchInv
<1>6. CASE Checkpoint
  BY <1>6, CheckpointInv
<1>7. CASE Reseed
  BY <1>7, ReseedInv
<1>8. CASE \E b \in running : StepReturns(b)
  BY <1>8, StepReturnsInv
<1>9. CASE \E b \in running : StepRaises(b)
  BY <1>9, StepRaisesInv
<1>10. CASE Crash
  BY <1>10, CrashInv
<1>11. CASE Stopped \/ UNCHANGED vars
  BY <1>11, StutterInv DEF Stopped
<1> QED BY <1>1, <1>2, <1>3, <1>4, <1>5, <1>6, <1>7, <1>8, <1>9, <1>10, <1>11
        DEF Next, MainThread, Evolve, Start, Plant, Review, Step

(* The inductive invariant holds of every behaviour of the coordinator.    *)
THEOREM LoopInvariant == Spec => []IInv
<1> QED BY InitInv, NextInv, PTL DEF Spec

(* The variables of evolve() keep their types in every session.            *)
THEOREM TypeCorrect == Spec => []TypeOK
<1>1. IInv => TypeOK
  BY DEF IInv
<1> QED BY <1>1, LoopInvariant, PTL

(* For any number of branches, rounds and crashes, the tree in memory and  *)
(* the saved one are well linked, their depths are right, and the best     *)
(* kept by add_node is the earliest of the best error-free evaluations.    *)
THEOREM TreesStaySound == Spec => []TreeSound
<1>1. IInv => TreeSound
  BY DEF IInv, TreeSound
<1> QED BY <1>1, LoopInvariant, PTL

(* Whatever a reviewer kills, moves and spawns, the branch ids stay        *)
(* distinct and every branch stands on a node of its own seed.             *)
THEOREM BranchesStaySound == Spec => []BranchesSound
<1>1. IInv => BranchesSound
  BY DEF IInv
<1> QED BY <1>1, LoopInvariant, PTL

(* In whatever order the threads return, the stitching attaches a result   *)
(* to the branch that produced it, under the node it was mutated from.     *)
THEOREM ResultsStayCurrent == Spec => []ResultsCurrent
<1>1. IInv => ResultsCurrent
  BY DEF IInv, Pending, ResultsCurrent
<1> QED BY <1>1, LoopInvariant, PTL

-----------------------------------------------------------------------------
(* The planned coordinator. *)

LEMMA PlannedStep == [PlannedNext]_planVars => [Next]_vars
<1> SUFFICES ASSUME [PlannedNext]_planVars PROVE [Next]_vars
  OBVIOUS
<1>1. CASE Planting
  BY <1>1 DEF Planting, AskPlanner, CycleListed, PlanningRaises, PlantAssigned, Plant, MainThread, Next
<1>2. CASE (Start \/ Evolve) /\ UNCHANGED plan
  BY <1>2 DEF MainThread, Next
<1>3. CASE (\E b \in running : Step(b)) \/ Crash \/ Stopped
  BY <1>3 DEF Next
<1>4. CASE UNCHANGED planVars
  BY <1>4 DEF planVars
<1> QED BY <1>1, <1>2, <1>3, <1>4 DEF PlannedNext, PlannedMain

(* The planned coordinator implements EvolutionLoop.                       *)
THEOREM PlannedRefinesLoop == PlannedSpec => Spec
<1>1. PlanInit => Init
  BY DEF PlanInit
<1> QED BY <1>1, PlannedStep, PTL DEF PlannedSpec, Spec

-----------------------------------------------------------------------------

(* The round robin has NumBranches names, and so has every padded reply.   *)
LEMMA CycledLen ==
  ASSUME NEW names, NEW S, names \in Seq(S), names # << >>
  PROVE  /\ Cycled(names) \in [1 .. NumBranches -> S] /\ Cycled(names) # << >>
         /\ Len(Cycled(names)) = NumBranches
<1>1. ASSUME NEW i \in 1 .. NumBranches PROVE names[((i - 1) % Len(names)) + 1] \in S
  <2>1. Len(names) \in Nat \ {0}
    OBVIOUS
  <2>2. i - 1 \in Nat
    BY LoopAssumption
  <2>3. (i - 1) % Len(names) \in 0 .. Len(names) - 1
    BY <2>1, <2>2
  <2> QED BY <2>1, <2>3
<1>2. Cycled(names) \in [1 .. NumBranches -> S]
  BY <1>1 DEF Cycled
<1>3. Len(Cycled(names)) = NumBranches
  BY <1>2, LoopAssumption
<1> QED BY <1>2, <1>3, LoopAssumption

LEMMA ListedSeq == Listed \in Seq(NamesIn(SeedFiles) \cup NamesIn(ConfigSeeds))
<1> DEFINE names == NamesIn(SeedFiles) \cup NamesIn(ConfigSeeds)
           b == CHOOSE i \in 1 .. Len(SeedFiles) : SeedFiles[i] = Baseline
<1>1. SeedFiles \in Seq(names) /\ ConfigSeeds \in Seq(names)
  BY PlanAssumption
<1>2. Baseline \in NamesIn(SeedFiles) => b \in 1 .. Len(SeedFiles)
  BY DEF NamesIn
<1> HIDE DEF names, b
<1>3. b \in 1 .. Len(SeedFiles) =>
        SubSeq(SeedFiles, 1, b - 1) \o SubSeq(SeedFiles, b + 1, Len(SeedFiles)) \in Seq(names)
  BY <1>1
<1> QED BY <1>1, <1>2, <1>3 DEF Listed, names, b

LEMMA PaddedLen ==
  ASSUME NEW valid \in Valid
  PROVE  Padded(valid) # << >> /\ Len(Padded(valid)) = NumBranches
<1>1. PICK n \in 0 .. NumBranches : valid \in [1 .. n -> NamesIn(SeedFiles)]
  BY DEF Valid
<1>2. Len(valid) = n
  BY <1>1, LoopAssumption
<1>3. DOMAIN Padded(valid) = 1 .. NumBranches
  BY <1>2, LoopAssumption DEF Padded, Padding
<1>4. Padded(valid) \in [1 .. NumBranches -> {Padded(valid)[i] : i \in 1 .. NumBranches}]
  <2>1. Padded(valid) = [i \in 1 .. NumBranches |-> Padded(valid)[i]]
    BY <1>3 DEF Padded
  <2> DEFINE p == Padded(valid)
  <2>2. p = [i \in 1 .. NumBranches |-> p[i]]
    BY <2>1
  <2> HIDE DEF p
  <2>3. p \in [1 .. NumBranches -> {p[i] : i \in 1 .. NumBranches}]
    BY <2>2
  <2> QED BY <2>3 DEF p
<1> HIDE DEF Padded
<1> QED BY <1>4, LoopAssumption

(* Before the plan there is no root, after it one per assignment.          *)
PlanInv ==
  /\ pc = "starting" => plan = << >>
  /\ Unplanned => tree = EmptyTree
  /\ PlanFulfilled

LEMMA PlanInitInv == PlanInit => PlanInv
  BY DEF PlanInit, Init, PlanInv, Unplanned, PlanFulfilled

(* The plan as it is made. *)
LEMMA PlanMade ==
  ASSUME PlanInv, AskPlanner \/ CycleListed \/ PlanningRaises
  PROVE  PlanInv'
<1>1. CASE AskPlanner \/ CycleListed
  <2>1. plan' # << >> /\ Len(plan') = NumBranches
    <3>1. CASE AskPlanner
      BY <3>1, PaddedLen DEF AskPlanner
    <3>2. CASE CycleListed
      <4>1. Listed \in Seq(NamesIn(SeedFiles) \cup NamesIn(ConfigSeeds))
        BY PlanAssumption, ListedSeq
      <4> QED BY <3>2, <4>1, CycledLen DEF CycleListed
    <3> QED BY <1>1, <3>1, <3>2
  <2>2. pc = "planting" /\ tree = EmptyTree /\ UNCHANGED <<pc, tree>>
    BY <1>1 DEF AskPlanner, CycleListed, Unplanned, PlanInv, vars, memory
  <2>3. Ids(tree') = {}
    BY <2>2 DEF EmptyTree, Ids
  <2> QED BY <2>1, <2>2, <2>3 DEF PlanInv, PlanFulfilled, Unplanned
<1>2. CASE PlanningRaises
  BY <1>2 DEF PlanningRaises, PlantingFails, Unplanned, Goto, PlanInv, PlanFulfilled
<1> QED BY <1>1, <1>2

(* A root of the assigned seed, or none. *)
LEMMA PlantedAsAssigned ==
  ASSUME IInv, PlanInv, PlantAssigned
  PROVE  PlanInv'
<1>1. CASE Assigned \notin Seeds /\ PlantingFails
  BY <1>1 DEF PlantAssigned, PlantingFails, Goto, memory, PlanInv, PlanFulfilled, Unplanned, Ids
<1>2. CASE Assigned \in Seeds /\ PlantSeed(Assigned)
  <2> DEFINE id == Len(tree.nodes) + 1
             planted == AddNode(tree, NoNode, RootScore, FALSE, Assigned)
  <2>1. /\ tree' = planted /\ plan' = plan /\ plan # << >> /\ pc = "planting"
        /\ pc' = "planting" \/ (pc' = "round" /\ ~ (Len(planted.nodes) < NumBranches))
    BY <1>2 DEF PlantAssigned, PlantSeed, Goto
  <2>2. tree \in Tree /\ Len(tree.nodes) \in Nat /\ Len(tree.nodes) < NumBranches
        /\ tree.roots \subseteq Ids(tree)
    BY <2>1 DEF IInv, TypeOK, Tree, PlantedIds, SoundTree
  <2>3. planted = AddNode(tree, NoNode, RootScore, FALSE, Assigned) /\ SoundTree(tree) /\ RootScore \in Int
    BY DEF IInv, RootScore
  <2>4. planted.roots = tree.roots \cup {id}
    BY DEF AddNode
  <2> HIDE DEF planted
  <2>a. SoundlyGrown(tree, planted, NoNode, Assigned)
    BY <1>2, <2>2, <2>3, GrownTree
  <2>5. /\ Len(planted.nodes) = id /\ planted.nodes[id].seed = Assigned
        /\ \A n \in Ids(tree) : planted.nodes[n].seed = tree.nodes[n].seed
    BY <2>2, <2>3, <2>a DEF SoundlyGrown, AddNode
  <2>6. Assigned = plan[id]
    BY DEF Assigned
  <2>7. ASSUME NEW n \in Ids(planted)
        PROVE  /\ n \in planted.roots <=> n <= NumBranches
               /\ n <= NumBranches => planted.nodes[n].seed = plan[n]
    <3>1. CASE n = id
      BY <2>2, <2>4, <2>5, <2>6, <3>1, LoopAssumption
    <3>2. CASE n \in Ids(tree)
      BY <2>1, <2>2, <2>4, <2>5, <3>2, LoopAssumption DEF PlanInv, PlanFulfilled, Ids
    <3> QED BY <2>2, <2>5, <2>7, <3>1, <3>2 DEF Ids
  <2> QED BY <2>1, <2>2, <2>5, <2>7, LoopAssumption DEF PlanInv, PlanFulfilled, Unplanned
<1> QED BY <1>1, <1>2 DEF PlantAssigned

(* Results go below the roots. *)
LEMMA StitchedBelow ==
  ASSUME IInv, PlanInv, Stitch, UNCHANGED plan
  PROVE  PlanInv'
<1> DEFINE r == Head(results)
           id == Len(tree.nodes) + 1
           grown == AddNode(tree, r.parent, r.score, r.error, r.seed)
<1>1. pc = "stitching" /\ pc' = pc /\ tree' = grown /\ results # << >>
  BY DEF Stitch
<1>2. /\ tree \in Tree /\ Len(tree.nodes) \in Nat /\ tree.roots \subseteq Ids(tree)
      /\ results \in Seq(Result) /\ r = results[1] /\ 1 \in 1 .. Len(results)
  BY <1>1 DEF IInv, TypeOK, Tree, SoundTree
<1>3. r \in Result /\ r.parent \in Ids(tree)
  <2>1. PICK b \in branches : b.head = r.parent
    BY <1>2 DEF IInv, Pending
  <2> QED BY <1>2, <2>1 DEF IInv, BranchesSound
<1>4. r.score \in Int /\ r.error \in BOOLEAN /\ r.seed \in Seeds
  BY <1>3, ScoresAssumption DEF Result
<1> HIDE DEF r
<1>5. Grown(tree, grown, r.parent, NewNode(tree, r.parent, r.score, r.error, r.seed))
  BY <1>2, <1>3, <1>4, AddNodeGrows
<1>6. r.parent # NoNode
  BY <1>3 DEF Ids, NoNode
<1>7. grown.roots = tree.roots
  BY <1>6 DEF AddNode
<1> HIDE DEF grown
<1>8. Len(grown.nodes) = id /\ \A n \in Ids(tree) : grown.nodes[n].seed = tree.nodes[n].seed
  BY <1>5 DEF Grown
<1>9. ASSUME plan # << >> PROVE PlanFulfilled'
  <2>1. Len(tree.nodes) >= NumBranches
    BY <1>1, <1>9 DEF PlanInv, PlanFulfilled
  <2>2. ASSUME NEW n \in Ids(grown)
        PROVE  /\ n \in grown.roots <=> n <= NumBranches
               /\ n <= NumBranches => grown.nodes[n].seed = plan[n]
    <3>1. CASE n = id
      BY <1>2, <1>7, <2>1, <3>1, LoopAssumption DEF Ids
    <3>2. CASE n \in Ids(tree)
      BY <1>7, <1>8, <1>9, <3>2 DEF PlanInv, PlanFulfilled
    <3> QED BY <1>2, <1>8, <2>2, <3>1, <3>2 DEF Ids
  <2> QED BY <1>1, <1>2, <1>8, <1>9, <2>1, <2>2, LoopAssumption DEF PlanInv, PlanFulfilled
<1> QED BY <1>1, <1>9 DEF PlanInv, PlanFulfilled, Unplanned

(* The other steps leave the tree alone. *)
LEMMA TreeLeftAlone ==
  ASSUME IInv, PlanInv, UNCHANGED plan, ~ Stitch,
         Start \/ Evolve \/ (\E b \in running : Step(b)) \/ Stopped
  PROVE  PlanInv'
<1>1. CASE Start
  BY <1>1 DEF Start, StartFresh, StartResumed, StartUnreadable, Goto, memory, IInv, NotStarted,
     PlanInv, PlanFulfilled, Unplanned
<1>2. CASE Stopped
  BY <1>2 DEF Stopped, vars, memory, PlanInv, PlanFulfilled, Unplanned, Ids
<1>3. CASE Evolve \/ \E b \in running : Step(b)
  <2>1. UNCHANGED tree /\ pc \notin {"starting", "planting", "notPlanted"}
        /\ pc' \notin {"starting", "planting", "notPlanted"}
    BY <1>3 DEF Evolve, BeginRound, CollectRound, EndStitching, Write, BeginBestWrite, EndBestWrite,
       KeepBest, BeginSave, EndSave, Review, Checkpoint, CheckpointRaises, Reseed, ReseedRaises, Finish,
       Step, StepReturns, StepRaises, Goto, memory
  <2> QED BY <2>1 DEF PlanInv, PlanFulfilled, Unplanned, Ids
<1> QED BY <1>1, <1>2, <1>3

(* Whatever the planner answers, the rounds of a session start from one    *)
(* root per branch, of the seed assigned to it.                            *)
THEOREM PlansAreFulfilled == PlannedSpec => []PlanFulfilled
<1>1. PlanInv /\ IInv /\ [PlannedNext]_planVars => PlanInv'
  <2> SUFFICES ASSUME PlanInv, IInv, [PlannedNext]_planVars PROVE PlanInv'
    OBVIOUS
  <2>1. CASE Planting
    BY <2>1, PlanMade, PlantedAsAssigned DEF Planting
  <2>2. CASE Stitch /\ UNCHANGED plan
    BY <2>2, StitchedBelow
  <2>3. CASE ~ Stitch /\ UNCHANGED plan
             /\ (Start \/ Evolve \/ (\E b \in running : Step(b)) \/ Stopped)
    BY <2>3, TreeLeftAlone
  <2>4. CASE Crash /\ plan' = << >>
    BY <2>4 DEF Crash, Goto, PlanInv, PlanFulfilled, Unplanned
  <2>5. CASE UNCHANGED planVars
    BY <2>5 DEF planVars, vars, memory, PlanInv, PlanFulfilled, Unplanned, Ids
  <2> QED BY <2>1, <2>2, <2>3, <2>4, <2>5 DEF PlannedNext, PlannedMain
<1>2. PlanInv => PlanFulfilled
  BY DEF PlanInv
<1> QED BY <1>1, <1>2, PlanInitInv, PlannedRefinesLoop, LoopInvariant, PTL DEF PlannedSpec
=============================================================================
