------------------------- MODULE LoopOutputs_proofs -------------------------
(****************************************************************************)
(* What the coordinator leaves in its files and what is shown of its tree, *)
(* for any number of branches, rounds, spawns and crashes.  The files:     *)
(* best_policy.c is the best while nothing crashed, and never behind the   *)
(* saved tree; the saved tree only grows, its best the champion; a branch  *)
(* moves to children only.  By the inductive invariant FilesInv, on top of *)
(* IInv.  The views: all agree on the best node, which is listed among the *)
(* dead ends only below a failed parent, and the page draws a tree.  By    *)
(* IInv and the lemmas about rankings, paths and positions in a sound tree. *)
(****************************************************************************)
EXTENDS TreeViews, EvolutionLoop_proofs, Fractions_proofs

(* Every score that can make a node the best is one a step has reported.   *)
ScoresKnown(t) == \A n \in Ids(t) : Eligible(t.nodes[n]) => t.nodes[n].score \in Scores

Known == ScoresKnown(tree) /\ ScoresKnown(treeFile.tree)

(* best_score is the best node's, but while new results are stitched.      *)
Ranked ==
  /\ bestScore \in Scores \cup {NegInfinity}
  /\ bestScore <= BestScoreOf(tree)
  /\ pc \notin {"stitching", "ranking"} => bestScore = BestScoreOf(tree)

(* The first session finds no files and leaves the policy it wrote last.   *)
FirstSession ==
  crashes = 0 =>
    /\ pc = "starting" => treeFile.state = "absent"
    /\ pc # "writingBest" /\ bestScore # NegInfinity =>
         policyFile = [state |-> "whole", score |-> bestScore]

Rewriting ==
  /\ treeFile.state = "absent" => treeFile.tree = EmptyTree
  /\ pc = "writingBest" => policyFile.state = "torn"
  /\ pc = "writingTree" => treeFile.state = "torn"

PolicyAhead ==
  Resume /\ policyFile.state = "whole" =>
    bestScore <= policyFile.score /\ BestScoreOf(treeFile.tree) <= policyFile.score

(* Whoever knows u knows all of t, and a best node at least as good.       *)
Extends(t, u) ==
  /\ Len(t.nodes) <= Len(u.nodes)
  /\ \A n \in Ids(t) : /\ Eligible(t.nodes[n]) <=> Eligible(u.nodes[n])
                       /\ t.nodes[n].score = u.nodes[n].score
  /\ BestScoreOf(t) <= BestScoreOf(u)

(* A session that has started from the saved tree knows all of it. *)
Committed == Resume /\ pc \notin {"starting", "unreadableTree"} => Extends(treeFile.tree, tree)

FilesInv == Known /\ Ranked /\ FirstSession /\ Rewriting /\ PolicyAhead /\ Committed

-----------------------------------------------------------------------------

(* The best of a sound tree has no lower score than any node that may be   *)
(* best.                                                                   *)
LEMMA BestScoreBounds ==
  ASSUME NEW t \in Tree, SoundTree(t), ScoresKnown(t)
  PROVE  /\ BestScoreOf(t) \in Scores \cup {NegInfinity} /\ BestScoreOf(t) \in Int
         /\ NegInfinity <= BestScoreOf(t)
         /\ t.best = NoNode <=> BestScoreOf(t) = NegInfinity
<1>1. CASE t.best = NoNode
  BY <1>1, LoopAssumption DEF BestScoreOf
<1>2. CASE t.best # NoNode
  <2>1. t.best \in Ids(t) /\ Eligible(t.nodes[t.best])
    BY <1>2 DEF SoundTree, BestIsChampion
  <2>2. t.nodes[t.best].score \in Scores
    BY <2>1 DEF ScoresKnown
  <2>3. BestScoreOf(t) \in Scores
    BY <1>2, <2>2 DEF BestScoreOf
  <2>4. BestScoreOf(t) \in Int /\ NegInfinity < BestScoreOf(t) /\ NegInfinity \in Int
    BY <2>3, LoopAssumption, ScoresAssumption
  <2> QED BY <1>2, <2>3, <2>4
<1> QED BY <1>1, <1>2

(* Nothing is the best of the empty tree.                                  *)
LEMMA EmptyTreeKnown == ScoresKnown(EmptyTree) /\ BestScoreOf(EmptyTree) = NegInfinity
  BY DEF ScoresKnown, EmptyTree, Ids, BestScoreOf

(* Every tree extends the empty one.                                       *)
LEMMA EmptyExtended ==
  ASSUME NEW t \in Tree, SoundTree(t), ScoresKnown(t)
  PROVE  Extends(EmptyTree, t)
<1>1. Len(t.nodes) \in Nat /\ Len(EmptyTree.nodes) = 0 /\ Ids(EmptyTree) = {}
  BY DEF Tree, EmptyTree, Ids
<1>2. BestScoreOf(EmptyTree) <= BestScoreOf(t)
  BY EmptyTreeKnown, BestScoreBounds
<1> QED BY <1>1, <1>2 DEF Extends

(* Every tree extends itself.                                              *)
LEMMA ExtendsItself ==
  ASSUME NEW t \in Tree, SoundTree(t), ScoresKnown(t)
  PROVE  Extends(t, t)
<1>1. Len(t.nodes) \in Nat
  BY DEF Tree
<1>2. BestScoreOf(t) \in Int
  BY BestScoreBounds
<1> QED BY <1>1, <1>2 DEF Extends

(* A tree that grows by a node extends the tree it was, and whatever that  *)
(* tree extended; a root leaves the best where it is.                      *)
LEMMA GrownExtends ==
  ASSUME NEW t \in Tree, SoundTree(t), ScoresKnown(t), NEW parent \in Ids(t) \cup {NoNode},
         NEW score \in Int, parent # NoNode => score \in Scores,
         NEW error \in BOOLEAN, NEW seed \in Seeds,
         parent # NoNode => seed = t.nodes[parent].seed,
         NEW u, u = AddNode(t, parent, score, error, seed)
  PROVE  /\ u \in Tree /\ SoundTree(u) /\ ScoresKnown(u)
         /\ BestScoreOf(t) <= BestScoreOf(u)
         /\ parent = NoNode => BestScoreOf(u) = BestScoreOf(t)
         /\ Extends(t, u)
         /\ \A s \in Tree : SoundTree(s) /\ ScoresKnown(s) /\ Extends(s, t) => Extends(s, u)
<1> DEFINE node == NewNode(t, parent, score, error, seed)
           id == Len(t.nodes) + 1
<1>1. Grown(t, u, parent, node)
  BY AddNodeGrows
<1>2. u \in Tree /\ SoundTree(u)
  BY <1>1, AddNodeSound DEF Grown
<1>3. Len(t.nodes) \in Nat /\ Ids(u) = Ids(t) \cup {id} /\ Ids(t) = 1 .. Len(t.nodes)
  BY <1>1 DEF Tree, Ids, Grown
<1>4. node.score = score /\ (Eligible(node) => parent # NoNode)
  BY <1>3, <1>2 DEF NewNode, Eligible, Tree, Node
<1> HIDE DEF node
<1>5. \A n \in Ids(t) : /\ Eligible(t.nodes[n]) <=> Eligible(u.nodes[n])
                        /\ t.nodes[n].score = u.nodes[n].score
  BY <1>1 DEF Grown, Eligible
<1>6. ScoresKnown(u)
  BY <1>1, <1>3, <1>4, <1>5 DEF ScoresKnown, Grown
<1>7. u.best = IF Improves(t, node) THEN id ELSE t.best
  BY DEF AddNode, node
<1>8. BestScoreOf(t) <= BestScoreOf(u)
  <2>1. BestScoreOf(t) \in Int /\ BestScoreOf(u) \in Int
        /\ NegInfinity <= BestScoreOf(t) /\ NegInfinity <= BestScoreOf(u)
    BY <1>2, <1>6, BestScoreBounds
  <2>2. CASE Improves(t, node)
    <3>1. t.best = NoNode \/ node.score > t.nodes[t.best].score
      BY <2>2 DEF Improves
    <3>2. u.nodes[u.best].score = node.score /\ u.best # NoNode
      BY <1>1, <1>3, <1>7, <2>2 DEF Grown, NoNode
    <3>3. CASE t.best = NoNode
      BY <2>1, <3>3 DEF BestScoreOf
    <3>4. CASE t.best # NoNode /\ node.score > t.nodes[t.best].score
      BY <2>1, <3>2, <3>4 DEF BestScoreOf
    <3> QED BY <3>1, <3>3, <3>4
  <2>3. CASE ~ Improves(t, node)
    <3>1. t.best # NoNode => t.best \in Ids(t)
      BY DEF SoundTree, BestIsChampion
    <3> QED BY <1>5, <1>7, <2>1, <2>3, <3>1 DEF BestScoreOf
  <2> QED BY <2>2, <2>3
<1>9. parent = NoNode => BestScoreOf(u) = BestScoreOf(t)
  <2>1. t.best # NoNode => t.best \in Ids(t)
    BY DEF SoundTree, BestIsChampion
  <2> QED BY <1>4, <1>5, <1>7, <2>1 DEF BestScoreOf, Improves
<1>10. Extends(t, u)
  BY <1>1, <1>3, <1>5, <1>8 DEF Extends, Grown
<1>11. ASSUME NEW s \in Tree, SoundTree(s), ScoresKnown(s), Extends(s, t)
       PROVE  Extends(s, u)
  <2>1. Len(s.nodes) \in Nat /\ Len(u.nodes) \in Nat /\ Ids(s) \subseteq Ids(t)
    BY <1>2, <1>3, <1>11 DEF Tree, Extends, Ids
  <2>2. BestScoreOf(s) \in Int /\ BestScoreOf(t) \in Int /\ BestScoreOf(u) \in Int
    BY <1>2, <1>6, <1>11, BestScoreBounds
  <2>3. BestScoreOf(s) <= BestScoreOf(u)
    BY <1>8, <1>11, <2>2 DEF Extends
  <2>4. Len(s.nodes) <= Len(u.nodes)
    BY <1>10, <1>11, <1>3, <2>1 DEF Extends
  <2> QED BY <1>5, <1>11, <2>1, <2>3, <2>4 DEF Extends
<1> QED BY <1>2, <1>6, <1>8, <1>9, <1>10, <1>11

-----------------------------------------------------------------------------

(* Each step of the coordinator keeps FilesInv.                            *)
LEMMA FilesInit == Init => FilesInv
<1> SUFFICES ASSUME Init PROVE FilesInv
  OBVIOUS
<1>1. /\ tree = EmptyTree /\ bestScore = NegInfinity /\ pc = "starting"
      /\ policyFile = [state |-> "absent", score |-> 0]
      /\ treeFile = [state |-> "absent", tree |-> EmptyTree]
  BY DEF Init
<1>2. Ranked
  BY <1>1, EmptyTreeKnown, LoopAssumption DEF Ranked
<1> QED BY <1>1, <1>2, EmptyTreeKnown
        DEF FilesInv, Known, FirstSession, Rewriting, PolicyAhead, Committed

(* Facts about the two trees that every step needs. *)
LEMMA TreesKnown ==
  ASSUME IInv, FilesInv
  PROVE  /\ tree \in Tree /\ SoundTree(tree) /\ ScoresKnown(tree)
         /\ treeFile.tree \in Tree /\ SoundTree(treeFile.tree) /\ ScoresKnown(treeFile.tree)
         /\ treeFile \in [state : FileState, tree : Tree]
         /\ policyFile \in [state : FileState, score : Int]
         /\ BestScoreOf(tree) \in Scores \cup {NegInfinity} /\ BestScoreOf(tree) \in Int
         /\ NegInfinity <= BestScoreOf(tree)
         /\ tree.best = NoNode <=> BestScoreOf(tree) = NegInfinity
         /\ BestScoreOf(treeFile.tree) \in Int /\ NegInfinity <= BestScoreOf(treeFile.tree)
         /\ BestScoreOf(treeFile.tree) \in Scores \cup {NegInfinity}
         /\ bestScore \in Int /\ NegInfinity \in Int
<1>1. /\ tree \in Tree /\ SoundTree(tree) /\ ScoresKnown(tree)
      /\ treeFile.tree \in Tree /\ SoundTree(treeFile.tree) /\ ScoresKnown(treeFile.tree)
      /\ treeFile \in [state : FileState, tree : Tree]
      /\ policyFile \in [state : FileState, score : Int] /\ bestScore \in Int
  BY DEF IInv, TypeOK, FilesInv, Known
<1> QED BY <1>1, BestScoreBounds, LoopAssumption

(* The steps that change neither tree, best_score nor a file. *)
LEMMA FilesLeftAlone ==
  ASSUME IInv, FilesInv, UNCHANGED <<tree, bestScore, policyFile, treeFile, crashes>>,
         pc' \in PCs \ {"starting", "writingBest", "writingTree"}, pc # "writingBest",
         pc \in {"stitching", "ranking"} => pc' \in {"stitching", "ranking"}
                                            \/ bestScore = BestScoreOf(tree),
         pc \in {"starting", "unreadableTree"} =>
           pc' = "unreadableTree" \/ treeFile.state = "absent"
  PROVE  FilesInv'
<1>1. Known'
  BY DEF FilesInv, Known
<1>2. Ranked'
  BY DEF FilesInv, Ranked
<1>3. FirstSession' /\ Rewriting' /\ PolicyAhead'
  BY DEF FilesInv, FirstSession, Rewriting, PolicyAhead
<1>4. Committed'
  <2>1. treeFile.state = "absent" => Extends(treeFile.tree, tree)
    BY TreesKnown, EmptyExtended DEF FilesInv, Rewriting
  <2> QED BY <2>1 DEF FilesInv, Committed
<1> QED BY <1>1, <1>2, <1>3, <1>4 DEF FilesInv

LEMMA FilesStutter ==
  ASSUME FilesInv, UNCHANGED <<pc, tree, bestScore, files, crashes>>
  PROVE  FilesInv'
  BY DEF FilesInv, Known, Ranked, FirstSession, Rewriting, PolicyAhead, Committed, files

LEMMA FilesQuietSteps ==
  ASSUME IInv, FilesInv,
         \/ StartFresh \/ StartUnreadable \/ PlantingFails \/ BeginRound \/ CollectRound
         \/ EndStitching \/ KeepBest \/ Checkpoint \/ CheckpointRaises \/ Reseed
         \/ ReseedRaises \/ Finish
  PROVE  FilesInv'
<1> USE DEF Goto, memory, files, PCs, Ended, Failures
<1>1. CASE StartFresh
  <2>1. treeFile.state = "absent" \/ ~ Resume
    BY <1>1 DEF StartFresh, ResumesSavedTree
  <2>2. CASE treeFile.state = "absent"
    BY <1>1, <2>2, FilesLeftAlone DEF StartFresh
  <2>3. CASE ~ Resume
    BY <1>1, <2>3 DEF StartFresh, FilesInv, Known, Ranked, FirstSession, Rewriting,
       PolicyAhead, Committed
  <2> QED BY <2>1, <2>2, <2>3
<1>2. CASE StartUnreadable
  BY <1>2, FilesLeftAlone DEF StartUnreadable
<1>3. CASE PlantingFails
  BY <1>3, FilesLeftAlone DEF PlantingFails
<1>4. CASE BeginRound
  BY <1>4, FilesLeftAlone DEF BeginRound
<1>5. CASE CollectRound
  BY <1>5, FilesLeftAlone DEF CollectRound
<1>6. CASE EndStitching
  BY <1>6, FilesLeftAlone DEF EndStitching
<1>7. CASE KeepBest
  <2>1. bestScore = BestScoreOf(tree)
    BY <1>7, TreesKnown, LoopAssumption, ScoresAssumption DEF KeepBest, NewBest, FilesInv, Ranked
  <2> QED BY <1>7, <2>1, FilesLeftAlone DEF KeepBest
<1>8. CASE Checkpoint
  BY <1>8, FilesLeftAlone DEF Checkpoint
<1>9. CASE CheckpointRaises
  BY <1>9, FilesLeftAlone DEF CheckpointRaises
<1>10. CASE Reseed
  BY <1>10, FilesLeftAlone DEF Reseed
<1>11. CASE ReseedRaises
  BY <1>11, FilesLeftAlone DEF ReseedRaises
<1>12. CASE Finish
  BY <1>12, FilesLeftAlone DEF Finish
<1> QED BY <1>1, <1>2, <1>3, <1>4, <1>5, <1>6, <1>7, <1>8, <1>9, <1>10, <1>11, <1>12

(* The tree grows by a node. *)
LEMMA FilesGrown ==
  ASSUME IInv, FilesInv, NEW parent \in Ids(tree) \cup {NoNode},
         NEW score \in Int, parent # NoNode => score \in Scores,
         NEW error \in BOOLEAN, NEW seed \in Seeds,
         parent # NoNode => seed = tree.nodes[parent].seed,
         tree' = AddNode(tree, parent, score, error, seed),
         UNCHANGED <<bestScore, files, crashes>>,
         \/ pc = "planting" /\ parent = NoNode /\ pc' \in {"planting", "round"}
         \/ pc = "stitching" /\ pc' = "stitching"
  PROVE  FilesInv'
<1>1. /\ tree' \in Tree /\ SoundTree(tree') /\ ScoresKnown(tree')
      /\ BestScoreOf(tree) <= BestScoreOf(tree')
      /\ parent = NoNode => BestScoreOf(tree') = BestScoreOf(tree)
      /\ \A s \in Tree : SoundTree(s) /\ ScoresKnown(s) /\ Extends(s, tree) => Extends(s, tree')
  BY TreesKnown, GrownExtends
<1>2. BestScoreOf(tree') \in Int
  BY <1>1, BestScoreBounds
<1>3. Known'
  BY <1>1 DEF FilesInv, Known, files
<1>4. Ranked'
  BY <1>1, <1>2, TreesKnown DEF FilesInv, Ranked
<1>5. FirstSession' /\ Rewriting' /\ PolicyAhead'
  BY DEF FilesInv, FirstSession, Rewriting, PolicyAhead, files
<1>6. Committed'
  BY <1>1, TreesKnown DEF FilesInv, Committed, files
<1> QED BY <1>3, <1>4, <1>5, <1>6 DEF FilesInv

LEMMA FilesPlanted ==
  ASSUME IInv, FilesInv, NEW seed \in Seeds, PlantSeed(seed)
  PROVE  FilesInv'
<1>1. /\ pc = "planting" /\ pc' \in {"planting", "round"}
      /\ tree' = AddNode(tree, NoNode, RootScore, FALSE, seed)
      /\ UNCHANGED <<bestScore, files, crashes>>
  BY DEF PlantSeed, Goto
<1>2. RootScore \in Int /\ NoNode \in Ids(tree) \cup {NoNode}
  BY DEF RootScore
<1> QED BY <1>1, <1>2, FilesGrown

(* The result being stitched hangs its node under the head of its branch.  *)
LEMMA StitchedResult ==
  ASSUME IInv, pc = "stitching", results # << >>, NEW r, r = Head(results)
  PROVE  /\ r \in Result /\ r.parent \in Ids(tree) /\ r.score \in Scores /\ r.score \in Int
         /\ r.error \in BOOLEAN /\ r.seed \in Seeds /\ r.seed = tree.nodes[r.parent].seed
         /\ \A b \in branches : MovesHead(r, b) => b.head = r.parent
<1>1. results \in Seq(Result) /\ Len(results) \in Nat /\ Len(results) >= 1
      /\ r = results[1] /\ r \in Result
  BY DEF IInv, TypeOK
<1>2. PICK d \in branches : d.id = r.branch /\ d.head = r.parent /\ d.seed = r.seed
  BY <1>1 DEF IInv, Pending
<1>3. \A b \in branches : MovesHead(r, b) => b = d
  BY <1>2 DEF MovesHead, IInv, BranchesSound
<1> QED BY <1>1, <1>2, <1>3, ScoresAssumption DEF IInv, BranchesSound, Result

LEMMA FilesStitched ==
  ASSUME IInv, FilesInv, Stitch
  PROVE  FilesInv'
<1> DEFINE r == Head(results)
<1>1. /\ pc = "stitching" /\ pc' = "stitching" /\ results # << >>
      /\ tree' = AddNode(tree, r.parent, r.score, r.error, r.seed)
      /\ UNCHANGED <<bestScore, files, crashes>>
  BY DEF Stitch
<1>2. /\ r.parent \in Ids(tree) /\ r.score \in Scores /\ r.score \in Int /\ r.error \in BOOLEAN
      /\ r.seed \in Seeds /\ r.seed = tree.nodes[r.parent].seed
  BY <1>1, StitchedResult
<1> HIDE DEF r
<1> QED BY <1>1, <1>2, FilesGrown

LEMMA FilesResumed ==
  ASSUME IInv, FilesInv, StartResumed
  PROVE  FilesInv'
<1>1. /\ pc = "starting" /\ pc' = "round" /\ Resume /\ treeFile.state = "whole"
      /\ tree' = treeFile.tree /\ bestScore' = BestScoreOf(treeFile.tree)
      /\ UNCHANGED <<files, crashes>>
  BY DEF StartResumed, ResumesSavedTree, Goto
<1>2. Known' /\ Ranked'
  BY <1>1, TreesKnown DEF FilesInv, Known, Ranked, files
<1>3. FirstSession' /\ Rewriting' /\ PolicyAhead'
  BY <1>1, TreesKnown DEF FilesInv, FirstSession, Rewriting, PolicyAhead, files
<1>4. Committed'
  BY <1>1, TreesKnown, ExtendsItself DEF Committed, files
<1> QED BY <1>2, <1>3, <1>4 DEF FilesInv

LEMMA FilesCrashed ==
  ASSUME IInv, FilesInv, Crash
  PROVE  FilesInv'
<1>1. /\ pc' = "starting" /\ tree' = EmptyTree /\ bestScore' = NegInfinity
      /\ crashes' = crashes + 1 /\ crashes \in Nat /\ UNCHANGED files
  BY LoopAssumption DEF Crash, Goto, IInv, TypeOK
<1>2. Known' /\ Ranked'
  BY <1>1, TreesKnown, EmptyTreeKnown DEF FilesInv, Known, Ranked, files
<1>3. PolicyAhead'
  BY <1>1, TreesKnown DEF FilesInv, PolicyAhead, files
<1>4. FirstSession' /\ Rewriting' /\ Committed'
  BY <1>1 DEF FilesInv, FirstSession, Rewriting, Committed, files
<1> QED BY <1>2, <1>3, <1>4 DEF FilesInv

LEMMA FilesWritten ==
  ASSUME IInv, FilesInv, BeginBestWrite \/ EndBestWrite \/ BeginSave \/ EndSave
  PROVE  FilesInv'
<1>1. CASE BeginBestWrite
  <2>1. /\ pc = "ranking" /\ pc' = "writingBest" /\ bestScore' = BestScoreOf(tree)
        /\ policyFile' = [policyFile EXCEPT !.state = "torn"]
        /\ UNCHANGED <<tree, treeFile, crashes>>
    BY <1>1 DEF BeginBestWrite, Goto
  <2>2. policyFile'.state = "torn"
    BY <2>1, TreesKnown
  <2>3. Known' /\ Ranked'
    BY <2>1, TreesKnown DEF FilesInv, Known, Ranked
  <2>4. FirstSession' /\ Rewriting' /\ PolicyAhead' /\ Committed'
    BY <2>1, <2>2 DEF FilesInv, FirstSession, Rewriting, PolicyAhead, Committed
  <2> QED BY <2>3, <2>4 DEF FilesInv
<1>2. CASE EndBestWrite
  <2>1. /\ pc = "writingBest" /\ pc' = "saving"
        /\ policyFile' = [state |-> "whole", score |-> tree.nodes[WrittenNode].score]
        /\ UNCHANGED <<tree, bestScore, treeFile, crashes>>
    BY <1>2 DEF EndBestWrite, Goto, memory
  <2>2. policyFile' = [state |-> "whole", score |-> BestScoreOf(tree)] /\ bestScore = BestScoreOf(tree)
    BY <2>1 DEF WrittenNode, BestScoreOf, IInv, BestToWrite, FilesInv, Ranked
  <2>3. Known' /\ Ranked' /\ FirstSession' /\ Rewriting' /\ Committed'
    BY <2>1, <2>2 DEF FilesInv, Known, Ranked, FirstSession, Rewriting, Committed
  <2>4. PolicyAhead'
    BY <2>1, <2>2, TreesKnown DEF FilesInv, Committed, Extends, PolicyAhead
  <2> QED BY <2>3, <2>4 DEF FilesInv
<1>3. CASE BeginSave
  <2>1. /\ pc = "saving" /\ pc' = "writingTree" /\ treeFile' = [treeFile EXCEPT !.state = "torn"]
        /\ UNCHANGED <<tree, bestScore, policyFile, crashes>>
    BY <1>3 DEF BeginSave, Goto, memory
  <2>2. treeFile'.state = "torn" /\ treeFile'.tree = treeFile.tree
    BY <2>1, TreesKnown
  <2> QED BY <2>1, <2>2
          DEF FilesInv, Known, Ranked, FirstSession, Rewriting, PolicyAhead, Committed
<1>4. CASE EndSave
  <2>1. /\ pc = "writingTree" /\ pc' \in {"checkpoint", "round"}
        /\ treeFile' = [state |-> "whole", tree |-> tree]
        /\ UNCHANGED <<tree, bestScore, policyFile, crashes>>
    BY <1>4 DEF EndSave, Goto, memory
  <2>2. treeFile'.state = "whole" /\ treeFile'.tree = tree /\ bestScore = BestScoreOf(tree)
    BY <2>1 DEF FilesInv, Ranked
  <2>3. Committed'
    BY <2>1, <2>2, TreesKnown, ExtendsItself DEF Committed
  <2> QED BY <2>1, <2>2, <2>3
          DEF FilesInv, Known, Ranked, FirstSession, Rewriting, PolicyAhead
<1> QED BY <1>1, <1>2, <1>3, <1>4

(* So does any of them.                                                    *)
LEMMA FilesNext == IInv /\ FilesInv /\ [Next]_vars => FilesInv'
<1> SUFFICES ASSUME IInv, FilesInv, [Next]_vars PROVE FilesInv'
  OBVIOUS
<1>1. CASE \/ StartFresh \/ StartUnreadable \/ PlantingFails \/ BeginRound \/ CollectRound
           \/ EndStitching \/ KeepBest \/ Checkpoint \/ CheckpointRaises \/ Reseed
           \/ ReseedRaises \/ Finish
  BY <1>1, FilesQuietSteps
<1>2. CASE StartResumed
  BY <1>2, FilesResumed
<1>3. CASE \E seed \in Seeds : PlantSeed(seed)
  BY <1>3, FilesPlanted
<1>4. CASE Stitch
  BY <1>4, FilesStitched
<1>5. CASE BeginBestWrite \/ EndBestWrite \/ BeginSave \/ EndSave
  BY <1>5, FilesWritten
<1>6. CASE \E b \in running : StepReturns(b) \/ StepRaises(b)
  BY <1>6, FilesStutter DEF StepReturns, StepRaises
<1>7. CASE Crash
  BY <1>7, FilesCrashed
<1>8. CASE Stopped \/ UNCHANGED vars
  BY <1>8, FilesStutter DEF Stopped, vars, memory
<1> QED BY <1>1, <1>2, <1>3, <1>4, <1>5, <1>6, <1>7, <1>8
        DEF Next, MainThread, Evolve, Start, Plant, Review, Step, Write

(* FilesInv holds through every session, round and crash.                  *)
THEOREM FilesInvariant == Spec => []FilesInv
<1> QED BY LoopInvariant, FilesInit, FilesNext, PTL DEF Spec

(* As long as nothing crashed, best_policy.c holds the code of the best    *)
(* node whenever the coordinator is between rounds.                        *)
THEOREM BestIsWritten == Spec => []BestPolicyWritten
<1>1. IInv /\ FilesInv => BestPolicyWritten
  <2> SUFFICES ASSUME IInv, FilesInv, crashes = 0, tree.best # NoNode,
                      pc \in {"round", "checkpoint", "reseeding", "done"}
               PROVE  policyFile = [state |-> "whole", score |-> BestScoreOf(tree)]
    BY DEF BestPolicyWritten
  <2>1. bestScore = BestScoreOf(tree) /\ bestScore # NegInfinity
    BY TreesKnown DEF FilesInv, Ranked
  <2> QED BY <2>1 DEF FilesInv, FirstSession
<1> QED BY <1>1, LoopInvariant, FilesInvariant, PTL

(* Across crashes and resumed sessions a readable best_policy.c is never   *)
(* worse than the best node of the saved tree: of the two writes of        *)
(* evolve() that of the policy comes first.                                *)
THEOREM BestNeverBehind == Spec => []BestPolicyNotBehind
<1>1. IInv /\ FilesInv => BestPolicyNotBehind
  BY TreesKnown DEF FilesInv, PolicyAhead, BestPolicyNotBehind
<1> QED BY <1>1, LoopInvariant, FilesInvariant, PTL

(* Between reviews and restarts a branch leaves its head only for a child  *)
(* of it, however results are stitched.                                    *)
THEOREM HeadsStayOnLine == Spec => HeadsFollowChildren
<1> DEFINE Follows ==
      pc \notin {"starting", "planting", "checkpoint", "reseeding"} /\ pc' # "starting" =>
        \A b \in branches : \E c \in branches' :
          c.id = b.id /\ (c.head = b.head \/ tree'.nodes[c.head].parent = b.head)
<1>1. IInv /\ [Next]_vars => Follows
  <2> SUFFICES ASSUME IInv, [Next]_vars, pc' # "starting", NEW b \in branches,
                      pc \notin {"starting", "planting", "checkpoint", "reseeding"}
               PROVE  \E c \in branches' :
                        c.id = b.id /\ (c.head = b.head \/ tree'.nodes[c.head].parent = b.head)
    OBVIOUS
  <2>1. CASE Stitch
    <3> DEFINE r == Head(results)
               grown == AddNode(tree, r.parent, r.score, r.error, r.seed)
    <3>1. PICK a \in branches :
            MovesHead(r, a) /\ branches' = (branches \ {a}) \cup {[a EXCEPT !.head = grown.current]}
      BY <2>1 DEF Stitch
    <3>2. pc = "stitching" /\ results # << >> /\ tree' = grown
      BY <2>1 DEF Stitch
    <3>3. /\ tree \in Tree /\ SoundTree(tree) /\ a \in Branch /\ a.head = r.parent
          /\ r.parent \in Ids(tree) /\ r.score \in Int /\ r.error \in BOOLEAN
          /\ r.seed \in Seeds /\ r.seed = tree.nodes[r.parent].seed
      BY <3>1, <3>2, StitchedResult DEF IInv, TypeOK
    <3>7. grown = AddNode(tree, r.parent, r.score, r.error, r.seed)
      OBVIOUS
    <3> HIDE DEF r, grown
    <3>8. SoundlyGrown(tree, grown, r.parent, r.seed)
      BY <3>3, <3>7, GrownTree
    <3>9. grown.current \in Nat /\ grown.nodes[grown.current].parent = r.parent
      BY <3>8 DEF SoundlyGrown
    <3> DEFINE m == [a EXCEPT !.head = grown.current]
    <3>10. m.id = a.id /\ m.head = grown.current /\ m \in branches'
      BY <3>1, <3>3, <3>9, MovedBranch
    <3> HIDE DEF m
    <3>11. CASE b = a
      BY <3>2, <3>3, <3>9, <3>10, <3>11
    <3>12. CASE b # a
      BY <3>1, <3>12
    <3> QED BY <3>11, <3>12
  <2>2. CASE branches' = branches
    BY <2>2
  <2>3. Stitch \/ branches' = branches
    BY DEF Next, MainThread, Evolve, Start, Plant, Review, Step, Write, vars, memory, Goto,
       StartFresh, StartResumed, StartUnreadable, PlantSeed, PlantingFails, BeginRound, CollectRound,
       EndStitching, BeginBestWrite, EndBestWrite, KeepBest, BeginSave, EndSave, Checkpoint,
       CheckpointRaises, Reseed, ReseedRaises, Finish, StepReturns, StepRaises, Crash, Stopped
  <2> QED BY <2>1, <2>2, <2>3
<1>2. IInv /\ [Next]_vars => [Follows]_vars
  BY <1>1
<1> HIDE DEF Follows
<1>3. Spec => [][Follows]_vars
  BY <1>2, LoopInvariant, PTL DEF Spec
<1> QED BY <1>3 DEF Follows, HeadsFollowChildren

-----------------------------------------------------------------------------
-----------------------------------------------------------------------------
(* The log a tree stands for: an entry per node, in the order of the nodes. *)
LEMMA LogEntries ==
  ASSUME NEW t \in Tree
  PROVE  /\ Len(LogOf(t)) = Len(t.nodes) /\ Len(t.nodes) \in Nat
         /\ LogOf(t) \in Seq([score : Int, eligible : BOOLEAN])
         /\ \A n \in 1 .. Len(t.nodes) :
              /\ LogOf(t)[n].score = t.nodes[n].score
              /\ LogOf(t)[n].eligible = Eligible(t.nodes[n])
<1>1. Len(t.nodes) \in Nat /\ \A n \in Ids(t) : t.nodes[n] \in Node
  BY DEF Tree, Ids
<1>2. \A n \in Ids(t) : t.nodes[n].score \in Int /\ Eligible(t.nodes[n]) \in BOOLEAN
  BY <1>1 DEF Node, Eligible
<1>3. LogOf(t) = [n \in 1 .. Len(t.nodes) |->
                    [score |-> t.nodes[n].score, eligible |-> Eligible(t.nodes[n])]]
  BY DEF LogOf, Ids
<1> QED BY <1>1, <1>2, <1>3 DEF Ids

(* The best of a sound tree is the champion of its log. *)
LEMMA BestIsLogChampion ==
  ASSUME NEW t \in Tree, SoundTree(t)
  PROVE  t.best = Archive!ChampionOf(LogOf(t))
<1> DEFINE log0 == LogOf(t)
           C == Archive!Contenders(log0)
<1>1. Len(log0) = Len(t.nodes) /\ Len(t.nodes) \in Nat
      /\ \A n \in 1 .. Len(t.nodes) : /\ log0[n].score = t.nodes[n].score
                                      /\ log0[n].eligible = Eligible(t.nodes[n])
  BY LogEntries
<1> HIDE DEF log0
<1>2. C = {n \in Ids(t) : Eligible(t.nodes[n])}
  BY <1>1 DEF Archive!Contenders, Ids
<1>3. \A n \in Ids(t) : t.nodes[n].score \in Int /\ n \in Nat
  <2>1. \A n \in Ids(t) : t.nodes[n] \in Node /\ n \in Nat
    BY DEF Tree, Ids
  <2> QED BY <2>1 DEF Node
<1>4. \A i, j \in C : Archive!Beats(log0, i, j) <=>
        t.nodes[i].score > t.nodes[j].score \/ (t.nodes[i].score = t.nodes[j].score /\ i <= j)
  BY <1>1, <1>2 DEF Archive!Beats, Ids
<1>5. BestIsChampion(t)
  BY DEF SoundTree
<1> HIDE DEF C
<1>6. CASE t.best = NoNode
  <2>1. C = {}
    BY <1>2, <1>5, <1>6 DEF BestIsChampion
  <2> QED BY <2>1, <1>6 DEF C, log0, Archive!ChampionOf, NoNode
<1>7. CASE t.best # NoNode
  <2>1. t.best \in C
    BY <1>2, <1>5, <1>7 DEF BestIsChampion
  <2>2. \A j \in C : Archive!Beats(log0, t.best, j)
    BY <1>2, <1>3, <1>4, <1>5, <1>7, <2>1 DEF BestIsChampion
  <2>3. \A i \in C : (\A j \in C : Archive!Beats(log0, i, j)) => i = t.best
    BY <1>2, <1>3, <1>4, <2>1, <2>2
  <2>4. t.best = CHOOSE i \in C : \A j \in C : Archive!Beats(log0, i, j)
    BY <2>1, <2>2, <2>3
  <2> QED BY <2>1, <2>4 DEF C, log0, Archive!ChampionOf
<1> QED BY <1>6, <1>7

(* A tree that extends another stands for a log that begins with the       *)
(* other's.                                                                *)
LEMMA ExtendsLog ==
  ASSUME NEW t \in Tree, NEW u \in Tree, Extends(t, u)
  PROVE  Archive!IsPrefix(LogOf(t), LogOf(u))
<1> DEFINE s == LogOf(t)  r == LogOf(u)
           E == [score : Int, eligible : BOOLEAN]
<1>1. /\ Len(s) = Len(t.nodes) /\ s \in Seq(E) /\ Len(r) = Len(u.nodes) /\ r \in Seq(E)
      /\ Len(s) <= Len(r)
  BY LogEntries DEF Extends
<1>2. \A n \in 1 .. Len(s) : s[n] = r[n]
  <2> SUFFICES ASSUME NEW n \in 1 .. Len(s) PROVE s[n] = r[n]
    OBVIOUS
  <2>1. n \in Ids(t) /\ n \in Ids(u)
    BY <1>1, LogEntries DEF Ids
  <2>2. /\ s[n] = [score |-> t.nodes[n].score, eligible |-> Eligible(t.nodes[n])]
        /\ r[n] = [score |-> u.nodes[n].score, eligible |-> Eligible(u.nodes[n])]
    BY <2>1 DEF LogOf
  <2>3. Eligible(t.nodes[n]) \in BOOLEAN /\ Eligible(u.nodes[n]) \in BOOLEAN
    BY DEF Eligible
  <2>4. Eligible(t.nodes[n]) = Eligible(u.nodes[n]) /\ t.nodes[n].score = u.nodes[n].score
    BY <2>1, <2>3 DEF Extends
  <2> QED BY <2>2, <2>4
<1> HIDE DEF s, r, E
<1>3. Archive!IsPrefix(s, r)
  BY <1>1, <1>2 DEF Archive!IsPrefix
<1> QED BY <1>3 DEF s, r

(* The empty tree stands for the empty log.                                *)
LEMMA EmptyLog == LogOf(EmptyTree) = << >>
  BY DEF LogOf, Ids, EmptyTree

(* With sessions that resume, the coordinator is a ChampionArchive,        *)
(* crashes included: the tree grows entry by entry, its best is the        *)
(* champion of its entries, and a save puts the whole of it where a        *)
(* restart recovers it.                                                    *)
THEOREM LoopKeepsArchive ==
  ASSUME Resume
  PROVE  Spec => ArchiveKept
<1>1. Init => Archive!Init
  BY EmptyLog DEF Init, Archive!Init, EmptyTree, NoNode
<1>2. IInv /\ FilesInv /\ IInv' /\ FilesInv' /\ [Next]_vars => [Archive!Next]_(Archive!avars)
  <2> SUFFICES ASSUME IInv, FilesInv, IInv', FilesInv', [Next]_vars
               PROVE  Archive!Next \/ UNCHANGED Archive!avars
    OBVIOUS
  <2>0. /\ tree \in Tree /\ SoundTree(tree) /\ tree' \in Tree /\ SoundTree(tree')
        /\ treeFile \in [state : FileState, tree : Tree] /\ treeFile.tree \in Tree
    BY DEF IInv, TypeOK
  <2>1. CASE StartResumed
    <3>1. /\ pc = "starting" /\ tree' = treeFile.tree /\ treeFile.state = "whole"
          /\ UNCHANGED treeFile
      BY <2>1 DEF StartResumed, files
    <3>2. LogOf(tree) = << >>
      BY <3>1, EmptyLog DEF IInv, NotStarted
    <3>3. LogOf(tree') = LogOf(treeFile.tree) /\ tree'.best = Archive!ChampionOf(LogOf(treeFile.tree))
      BY <2>0, <3>1, BestIsLogChampion
    <3> QED BY <3>1, <3>2, <3>3 DEF Archive!Next, Archive!Recover
  <2>2. ASSUME NEW parent \in Ids(tree) \cup {NoNode}, NEW score \in Int,
               parent # NoNode => score \in Scores, NEW error \in BOOLEAN, NEW seed \in Seeds,
               parent # NoNode => seed = tree.nodes[parent].seed,
               tree' = AddNode(tree, parent, score, error, seed), UNCHANGED treeFile
        PROVE  Archive!Record
    <3>1. Extends(tree, tree') /\ Len(tree'.nodes) = Len(tree.nodes) + 1
      <4>1. Extends(tree, tree')
        BY <2>0, <2>2, TreesKnown, GrownExtends
      <4>2. Len(tree'.nodes) = Len(tree.nodes) + 1
        BY <2>0, <2>2, AddNodeGrows DEF Grown
      <4> QED BY <4>1, <4>2
    <3>2. Len(LogOf(tree')) = Len(LogOf(tree)) + 1
      BY <2>0, <3>1, LogEntries
    <3>3. Archive!IsPrefix(LogOf(tree), LogOf(tree'))
      BY <2>0, <3>1, ExtendsLog
    <3>4. tree'.best = Archive!ChampionOf(LogOf(tree'))
      BY <2>0, BestIsLogChampion
    <3> QED BY <2>2, <3>2, <3>3, <3>4 DEF Archive!Record
  <2>3. CASE \E seed \in Seeds : PlantSeed(seed)
    <3>1. PICK seed \in Seeds : PlantSeed(seed)
      BY <2>3
    <3>2. tree' = AddNode(tree, NoNode, RootScore, FALSE, seed) /\ UNCHANGED treeFile
      BY <3>1 DEF PlantSeed, files
    <3>3. RootScore \in Int /\ NoNode \in Ids(tree) \cup {NoNode}
      BY DEF RootScore
    <3> QED BY <2>2, <3>2, <3>3 DEF Archive!Next
  <2>4. CASE Stitch
    <3> DEFINE r == Head(results)
    <3>1. /\ pc = "stitching" /\ results # << >> /\ UNCHANGED treeFile
          /\ tree' = AddNode(tree, r.parent, r.score, r.error, r.seed)
      BY <2>4 DEF Stitch, files
    <3>2. /\ r.parent \in Ids(tree) /\ r.score \in Scores /\ r.score \in Int
          /\ r.error \in BOOLEAN /\ r.seed \in Seeds /\ r.seed = tree.nodes[r.parent].seed
      BY <3>1, StitchedResult
    <3> HIDE DEF r
    <3> QED BY <2>2, <3>1, <3>2 DEF Archive!Next
  <2>5. CASE BeginSave
    <3>1. treeFile'.state = "torn" /\ treeFile'.tree = treeFile.tree /\ UNCHANGED tree
      BY <2>0, <2>5 DEF BeginSave, memory
    <3> QED BY <3>1 DEF Archive!Next, Archive!BeginCommit
  <2>6. CASE EndSave
    <3>1. /\ pc = "writingTree" /\ UNCHANGED tree
          /\ treeFile'.state = "whole" /\ treeFile'.tree = tree
      BY <2>6 DEF EndSave, memory
    <3>2. treeFile.state = "torn" /\ Extends(treeFile.tree, tree)
      BY <3>1 DEF FilesInv, Rewriting, Committed
    <3>3. Archive!IsPrefix(LogOf(treeFile.tree), LogOf(tree))
      BY <2>0, <3>2, ExtendsLog
    <3> QED BY <3>1, <3>2, <3>3 DEF Archive!Next, Archive!EndCommit
  <2>7. CASE Crash
    <3>1. tree' = EmptyTree /\ UNCHANGED treeFile
      BY <2>7 DEF Crash, files
    <3> QED BY <3>1, EmptyLog DEF Archive!Next, Archive!Forget, EmptyTree, NoNode
  <2>8. CASE UNCHANGED <<tree, treeFile>>
    BY <2>8 DEF Archive!avars
  <2> QED BY <2>1, <2>3, <2>4, <2>5, <2>6, <2>7, <2>8
     DEF Next, MainThread, Evolve, Start, Plant, Review, Step, Write, vars, memory, files,
       StartFresh, StartUnreadable, PlantingFails, BeginRound, CollectRound,
       EndStitching, BeginBestWrite, EndBestWrite, KeepBest, Checkpoint,
       CheckpointRaises, Reseed, ReseedRaises, Finish, StepReturns, StepRaises, Stopped
<1> QED BY <1>1, <1>2, LoopInvariant, FilesInvariant, PTL DEF Spec, ArchiveKept, Archive!Spec

-----------------------------------------------------------------------------
(* What is true of a node as soon as it is of its parent is true of all. *)
LEMMA DownTheTree ==
  ASSUME NEW t \in Tree, SoundTree(t), NEW T,
         \A n \in Ids(t) : (t.nodes[n].parent = NoNode \/ t.nodes[n].parent \in T) => n \in T
  PROVE  Ids(t) \subseteq T
<1> SUFFICES ASSUME NEW x \in Ids(t), x \notin T PROVE FALSE
  OBVIOUS
<1>1. Ids(t) \subseteq Nat
  BY DEF Ids, Tree
<1>2. PICK m \in Ids(t) \ T : \A k \in Ids(t) \ T : m <= k
  <2>1. Ids(t) \ T \in SUBSET Nat /\ Ids(t) \ T # {}
    BY <1>1
  <2> QED BY <2>1, LeastNumber
<1> DEFINE parent == t.nodes[m].parent
<1>3. parent \in 0 .. m - 1 /\ m \in Ids(t)
  BY DEF SoundTree, WellLinked
<1> HIDE DEF parent
<1>4. parent # NoNode /\ parent \notin T
  BY <1>2 DEF parent
<1>5. parent \in Ids(t) /\ parent < m
  BY <1>3, <1>4 DEF Ids, NoNode, Tree
<1>6. m <= parent /\ m \in Nat /\ parent \in Nat
  BY <1>1, <1>2, <1>4, <1>5
<1> QED BY <1>5, <1>6

(* The paths of get_branch exist: a parent is older than its children. *)
LEMMA PathsSolved ==
  ASSUME NEW t \in Tree, SoundTree(t)
  PROVE  \E f : f = [i \in Ids(t) |->
                       IF t.nodes[i].parent = NoNode THEN <<i>> ELSE Append(f[t.nodes[i].parent], i)]
<1> DEFINE up(i) == t.nodes[i].parent
           Holds(f, n) ==
             \A k \in 1 .. n : f[k] = IF up(k) = NoNode THEN <<k>> ELSE Append(f[up(k)], k)
           N == Len(t.nodes)
           T == {n \in Nat : n <= N => \E f : Holds(f, n)}
<1>0. N \in Nat /\ \A i \in 1 .. N : up(i) \in 0 .. i - 1
  BY DEF Tree, SoundTree, WellLinked, Ids
<1> HIDE DEF up, N
<1>1. 0 \in T
  OBVIOUS
<1>2. ASSUME NEW n \in Nat, n \in T PROVE n + 1 \in T
  <2> SUFFICES ASSUME n + 1 <= N PROVE \E g : Holds(g, n + 1)
    OBVIOUS
  <2>1. PICK f : Holds(f, n)
    BY <1>0, <1>2
  <2> DEFINE next == IF up(n + 1) = NoNode THEN <<n + 1>> ELSE Append(f[up(n + 1)], n + 1)
             g == [k \in 1 .. n + 1 |-> IF k = n + 1 THEN next ELSE f[k]]
  <2>2. g[n + 1] = next /\ \A k \in 1 .. n : g[k] = f[k]
    OBVIOUS
  <2> HIDE DEF g, next
  <2>3. ASSUME NEW k \in 1 .. n + 1
        PROVE  g[k] = IF up(k) = NoNode THEN <<k>> ELSE Append(g[up(k)], k)
    <3>1. up(k) \in 0 .. k - 1 /\ (up(k) # NoNode => up(k) \in 1 .. n)
      BY <1>0 DEF NoNode
    <3>2. up(k) # NoNode => g[up(k)] = f[up(k)]
      BY <2>2, <3>1
    <3>3. CASE k = n + 1
      BY <2>2, <3>2, <3>3 DEF next
    <3>4. CASE k \in 1 .. n
      <4>1. g[k] = f[k]
        BY <2>2, <3>4
      <4> QED BY <2>1, <3>2, <3>4, <4>1
    <3> QED BY <3>3, <3>4
  <2> HIDE DEF Holds
  <2>4. Holds(g, n + 1)
    BY <2>3 DEF Holds
  <2> QED BY <2>4
<1> HIDE DEF T
<1>3. N \in T
  <2> SUFFICES ASSUME N \notin T PROVE FALSE
    OBVIOUS
  <2>1. PICK m \in Nat \ T : \A k \in Nat \ T : m <= k
    <3>1. Nat \ T \in SUBSET Nat /\ Nat \ T # {}
      BY <1>0
    <3> QED BY <3>1, LeastNumber
  <2>2. m # 0 /\ m - 1 \in Nat /\ m - 1 \notin Nat \ T
    BY <1>1, <2>1
  <2>3. m - 1 + 1 = m
    OBVIOUS
  <2> QED BY <1>2, <2>1, <2>2, <2>3
<1>4. PICK f : Holds(f, N)
  BY <1>0, <1>3 DEF T
<1> DEFINE g == [i \in 1 .. N |-> f[i]]
<1>5. ASSUME NEW i \in 1 .. N
      PROVE  g[i] = IF up(i) = NoNode THEN <<i>> ELSE Append(g[up(i)], i)
  <2>1. up(i) # NoNode => up(i) \in 1 .. N
    BY <1>0 DEF NoNode
  <2> QED BY <1>4, <2>1
<1>6. g = [i \in 1 .. N |-> g[i]]
  OBVIOUS
<1> HIDE DEF g
<1>7. g = [i \in 1 .. N |-> IF up(i) = NoNode THEN <<i>> ELSE Append(g[up(i)], i)]
  BY <1>5, <1>6
<1> QED BY <1>7 DEF up, N, Ids

(* get_branch of a node is that of its parent with the node behind it. *)
LEMMA PathGrows ==
  ASSUME NEW t \in Tree, SoundTree(t), NEW n \in Ids(t)
  PROVE  BranchTo(t, n) = IF t.nodes[n].parent = NoNode THEN <<n>>
                          ELSE Append(BranchTo(t, t.nodes[n].parent), n)
<1> DEFINE Def(f) == f = [i \in Ids(t) |->
                           IF t.nodes[i].parent = NoNode THEN <<i>>
                           ELSE Append(f[t.nodes[i].parent], i)]
           path == CHOOSE f : Def(f)
<1>1. \E f : Def(f)
  BY PathsSolved
<1>2. Def(path)
  <2> HIDE DEF Def
  <2> QED BY <1>1
<1>3. \A i : BranchTo(t, i) = path[i]
  BY DEF BranchTo
<1> HIDE DEF path
<1>4. path[n] = IF t.nodes[n].parent = NoNode THEN <<n>> ELSE Append(path[t.nodes[n].parent], n)
  BY <1>2
<1> HIDE <1>2
<1> QED BY <1>3, <1>4

(* It leads from the root of the node's seed to the node. *)
LEMMA PathLeads ==
  ASSUME NEW t \in Tree, SoundTree(t), NEW n \in Ids(t)
  PROVE  LET path == BranchTo(t, n)
         IN  /\ path \in Seq(Ids(t)) /\ Len(path) \in Nat \ {0} /\ path[Len(path)] = n
             /\ t.nodes[path[1]].seed = t.nodes[n].seed
<1> DEFINE b(k) == BranchTo(t, k)
           T == {k \in Ids(t) : /\ b(k) \in Seq(Ids(t)) /\ Len(b(k)) \in Nat \ {0} /\ b(k)[Len(b(k))] = k
                                /\ t.nodes[b(k)[1]].seed = t.nodes[k].seed}
<1>1. ASSUME NEW k \in Ids(t), t.nodes[k].parent = NoNode \/ t.nodes[k].parent \in T
      PROVE  k \in T
  <2>1. CASE t.nodes[k].parent = NoNode
    <3>1. b(k) = <<k>>
      BY <2>1, PathGrows
    <3>2. <<k>> \in Seq(Ids(t)) /\ Len(<<k>>) = 1 /\ <<k>>[1] = k
      OBVIOUS
    <3>3. b(k) \in Seq(Ids(t)) /\ Len(b(k)) = 1 /\ b(k)[1] = k
      BY <3>1, <3>2
    <3> HIDE DEF b
    <3>4. t.nodes[b(k)[1]].seed = t.nodes[k].seed /\ b(k)[Len(b(k))] = k
      BY <3>3
    <3>5. Len(b(k)) \in Nat \ {0}
      BY <3>3
    <3>6. k \in Ids(t)
      BY <1>1
    <3> QED BY ONLY <3>3, <3>4, <3>5, <3>6
  <2>2. CASE t.nodes[k].parent # NoNode
    <3> DEFINE p == t.nodes[k].parent
    <3>1. b(k) = Append(b(p), k)
      BY <2>2, PathGrows
    <3>2. t.nodes[k].seed = t.nodes[p].seed
      BY <2>2 DEF SoundTree, SeedsInherited
    <3>3. p \in T
      BY <1>1, <2>2
    <3> HIDE DEF b, p
    <3> QED BY <3>1, <3>2, <3>3
  <2> QED BY <2>1, <2>2
<1> HIDE DEF T
<1>2. n \in T
  BY <1>1, DownTheTree
<1> QED BY <1>2 DEF T

-----------------------------------------------------------------------------
(* The ranking is a strict order of the ids.                               *)
LEMMA RankingOrders ==
  ASSUME NEW t \in Tree
  PROVE  /\ \A i \in Ids(t) : ~ RanksBefore(t, i, i)
         /\ \A i, j \in Ids(t) : i = j \/ RanksBefore(t, i, j) \/ RanksBefore(t, j, i)
         /\ \A i, j, k \in Ids(t) : RanksBefore(t, i, j) /\ RanksBefore(t, j, k) => RanksBefore(t, i, k)
<1> DEFINE score(i) == t.nodes[i].score
<1>1. \A i \in Ids(t) : score(i) \in Int /\ i \in Int
  <2>1. \A i \in Ids(t) : t.nodes[i] \in Node /\ i \in Int
    BY DEF Tree, Ids
  <2> QED BY <2>1 DEF Node
<1>2. \A i, j : RanksBefore(t, i, j) <=> IF score(i) = score(j) THEN i < j ELSE score(i) > score(j)
  BY DEF RanksBefore
<1> HIDE DEF score
<1> QED BY <1>1, <1>2

(* A node that ranks before another has the earlier place.                 *)
LEMMA PlacesOrdered ==
  ASSUME NEW t \in Tree
  PROVE  /\ \A n \in Ids(t) : Place(t, n) \in Ids(t)
         /\ \A m, n \in Ids(t) : RanksBefore(t, m, n) <=> Place(t, m) < Place(t, n)
<1> DEFINE ahead(n) == {k \in Ids(t) : RanksBefore(t, k, n)}
<1>1. IsFiniteSet(Ids(t)) /\ Cardinality(Ids(t)) = Len(t.nodes) /\ Len(t.nodes) \in Nat
  <2>1. Len(t.nodes) \in Nat
    BY DEF Tree
  <2> QED BY <2>1, FS_Interval DEF Ids
<1>2. ASSUME NEW n \in Ids(t) PROVE IsFiniteSet(ahead(n)) /\ Cardinality(ahead(n)) \in Nat
  <2>1. ahead(n) \in SUBSET Ids(t)
    OBVIOUS
  <2> HIDE DEF ahead
  <2>2. IsFiniteSet(ahead(n))
    BY <1>1, <2>1, FS_Subset
  <2> QED BY <2>2, FS_CardinalityType
<1>3. ASSUME NEW n \in Ids(t) PROVE Cardinality(ahead(n)) < Len(t.nodes)
  <2>1. ahead(n) \in SUBSET Ids(t) /\ n \notin ahead(n)
    BY RankingOrders
  <2> HIDE DEF ahead
  <2>2. /\ Cardinality(ahead(n)) <= Cardinality(Ids(t))
        /\ Cardinality(Ids(t)) = Cardinality(ahead(n)) => Ids(t) = ahead(n)
    BY <1>1, <2>1, FS_Subset
  <2> QED BY <1>1, <1>2, <2>1, <2>2
<1>4. ASSUME NEW m \in Ids(t), NEW n \in Ids(t), RanksBefore(t, m, n)
      PROVE  Cardinality(ahead(m)) < Cardinality(ahead(n))
  <2>1. ahead(m) \in SUBSET ahead(n) /\ m \in ahead(n) /\ m \notin ahead(m)
    BY <1>4, RankingOrders
  <2> HIDE DEF ahead
  <2>2. /\ Cardinality(ahead(m)) <= Cardinality(ahead(n))
        /\ Cardinality(ahead(n)) = Cardinality(ahead(m)) => ahead(n) = ahead(m)
    BY <1>2, <2>1, FS_Subset
  <2> QED BY <1>2, <2>1, <2>2
<1>5. \A n : Place(t, n) = Cardinality(ahead(n)) + 1
  BY DEF Place
<1> HIDE DEF ahead
<1>6. \A n \in Ids(t) : Place(t, n) \in Ids(t)
  BY <1>1, <1>2, <1>3, <1>5 DEF Ids
<1>7. \A m, n \in Ids(t) : RanksBefore(t, m, n) => Place(t, m) < Place(t, n)
  BY <1>2, <1>4, <1>5
<1>8. ASSUME NEW m \in Ids(t), NEW n \in Ids(t), Place(t, m) < Place(t, n)
      PROVE  RanksBefore(t, m, n)
  <2>1. Place(t, m) \in Int /\ Place(t, n) \in Int
    BY <1>6 DEF Ids
  <2>2. m # n /\ ~ RanksBefore(t, n, m)
    BY <1>7, <1>8, <2>1
  <2> QED BY <2>2, RankingOrders
<1> QED BY <1>6, <1>7, <1>8

(* get_best_nodes lists every node, at its place.                          *)
LEMMA EveryNodeListed ==
  ASSUME NEW t \in Tree
  PROVE  /\ \A i \in Ids(t) : BestNodes(t)[i] \in Ids(t) /\ Place(t, BestNodes(t)[i]) = i
         /\ \A n \in Ids(t) : BestNodes(t)[Place(t, n)] = n
<1> DEFINE f == [n \in Ids(t) |-> Place(t, n)]
<1>1. \A m, n \in Ids(t) : Place(t, m) = Place(t, n) => m = n
  <2> SUFFICES ASSUME NEW m \in Ids(t), NEW n \in Ids(t), Place(t, m) = Place(t, n) PROVE m = n
    OBVIOUS
  <2>1. Place(t, m) \in Int
    BY PlacesOrdered DEF Ids
  <2>2. ~ RanksBefore(t, m, n) /\ ~ RanksBefore(t, n, m)
    BY <2>1, PlacesOrdered
  <2> QED BY <2>2, RankingOrders
<1>2. f \in Injection(Ids(t), Ids(t))
  BY <1>1, PlacesOrdered DEF Injection, IsInjective
<1>3. IsFiniteSet(Ids(t))
  <2>1. Len(t.nodes) \in Nat
    BY DEF Tree
  <2> QED BY <2>1, FS_Interval DEF Ids
<1> HIDE DEF f
<1>4. f \in Surjection(Ids(t), Ids(t))
  BY <1>2, <1>3, FS_Injection
<1>5. \A i \in Ids(t) : \E n \in Ids(t) : Place(t, n) = i
  BY <1>4 DEF Surjection, f
<1>6. \A i \in Ids(t) : BestNodes(t)[i] \in Ids(t) /\ Place(t, BestNodes(t)[i]) = i
  <2> SUFFICES ASSUME NEW i \in Ids(t) PROVE BestNodes(t)[i] \in Ids(t) /\ Place(t, BestNodes(t)[i]) = i
    OBVIOUS
  <2>1. BestNodes(t)[i] = CHOOSE n \in Ids(t) : Place(t, n) = i
    BY DEF BestNodes
  <2> QED BY <1>5, <2>1
<1>7. \A n \in Ids(t) : BestNodes(t)[Place(t, n)] = n
  BY <1>1, <1>6, PlacesOrdered
<1> QED BY <1>6, <1>7

-----------------------------------------------------------------------------
(* What the views of a sound tree say of its best node.                    *)

(* Nothing ranks above the best node that might be best.                   *)
LEMMA BestRanksFirst ==
  ASSUME NEW t \in Tree, SoundTree(t), t.best # NoNode
  PROVE  LET ranked == BestNodes(t)
             place  == CHOOSE i \in DOMAIN ranked : ranked[i] = t.best
         IN  \A i \in 1 .. place - 1 : ~ Eligible(t.nodes[ranked[i]])
<1> DEFINE ranked == BestNodes(t)
           place == CHOOSE i \in DOMAIN ranked : ranked[i] = t.best
<1>1. t.best \in Ids(t) /\ DOMAIN ranked = Ids(t)
  BY DEF SoundTree, BestIsChampion, BestNodes
<1>2. place \in Ids(t) /\ ranked[place] = t.best
  <2>1. Place(t, t.best) \in DOMAIN ranked /\ ranked[Place(t, t.best)] = t.best
    BY <1>1, EveryNodeListed, PlacesOrdered
  <2> HIDE DEF ranked
  <2> QED BY <1>1, <2>1
<1>3. place = Place(t, t.best)
  BY <1>2, EveryNodeListed
<1> HIDE DEF place
<1>4. SUFFICES ASSUME NEW i \in 1 .. place - 1, Eligible(t.nodes[ranked[i]]) PROVE FALSE
  BY DEF place
<1>5. i \in Ids(t) /\ i < place
  <2>1. Len(t.nodes) \in Nat
    BY DEF Tree
  <2> QED BY <1>2, <2>1 DEF Ids
<1> DEFINE n == ranked[i]
<1>6. n \in Ids(t) /\ Place(t, n) < Place(t, t.best)
  BY <1>3, <1>5, EveryNodeListed
<1> HIDE DEF n, ranked
<1>7. RanksBefore(t, n, t.best)
  BY <1>1, <1>6, PlacesOrdered
<1>8. t.nodes[n].score \in Int /\ t.nodes[t.best].score \in Int /\ n \in Int /\ t.best \in Int
  <2>1. \A k \in Ids(t) : t.nodes[k] \in Node /\ k \in Int
    BY DEF Tree, Ids
  <2> QED BY <1>1, <1>6, <2>1 DEF Node
<1>9. Eligible(t.nodes[n])
  BY <1>4 DEF n
<1> QED BY <1>6, <1>7, <1>8, <1>9 DEF RanksBefore, SoundTree, BestIsChampion

(* A best node has a parent, and its ancestors begin with itself and that. *)
LEMMA BestHasParent ==
  ASSUME NEW t \in Tree, SoundTree(t), t.best # NoNode
  PROVE  LET best   == t.best
             parent == t.nodes[best].parent
             path   == Ancestors(t, best)
         IN  /\ parent \in Ids(t) /\ parent < best
             /\ path[1] = best /\ path[2] = parent
             /\ Len(path) >= 3 => t.nodes[parent].depth > 0
<1> DEFINE best == t.best
           parent == t.nodes[best].parent
           path == Ancestors(t, best)
           down == BranchTo(t, parent)
<1>0. \A k \in Ids(t) : t.nodes[k] \in Node /\ t.nodes[k].depth \in Nat /\ k \in Nat
  <2>1. \A k \in Ids(t) : t.nodes[k] \in Node /\ k \in Nat
    BY DEF Tree, Ids
  <2> QED BY <2>1 DEF Node
<1>1. best \in Ids(t) /\ Eligible(t.nodes[best])
  BY DEF SoundTree, BestIsChampion
<1>2. parent # NoNode
  BY <1>1 DEF Eligible, SoundTree, DepthsCount
<1>3. parent \in Ids(t) /\ parent < best
  <2>1. parent \in 0 .. best - 1 /\ Len(t.nodes) \in Nat
    BY <1>1 DEF SoundTree, WellLinked, Tree
  <2> QED BY <1>1, <1>2, <2>1 DEF Ids, NoNode
<1>4. BranchTo(t, best) = Append(down, best)
  BY <1>1, <1>2, PathGrows
<1>5. down \in Seq(Ids(t)) /\ Len(down) \in Nat \ {0} /\ down[Len(down)] = parent
  BY <1>3, PathLeads
<1>6. path = Reverse(Append(down, best))
  BY <1>4 DEF Ancestors
<1> HIDE DEF down, path
<1>7. path[1] = best /\ path[2] = parent /\ Len(path) = Len(down) + 1
  <2> DEFINE whole == Append(down, best)
  <2>1. /\ Len(whole) = Len(down) + 1 /\ whole[Len(whole)] = best
        /\ whole[Len(whole) - 1] = parent
    BY <1>1, <1>5
  <2> HIDE DEF whole
  <2>2. path = [i \in 1 .. Len(whole) |-> whole[(Len(whole) - i) + 1]]
    BY <1>6 DEF Reverse, whole
  <2>3. Len(whole) \in Nat /\ Len(whole) >= 2
    BY <1>5, <2>1
  <2>4. path[1] = whole[Len(whole)] /\ path[2] = whole[Len(whole) - 1]
    <3>1. path[1] = whole[(Len(whole) - 1) + 1] /\ path[2] = whole[(Len(whole) - 2) + 1]
      BY <2>2, <2>3
    <3>2. (Len(whole) - 1) + 1 = Len(whole) /\ (Len(whole) - 2) + 1 = Len(whole) - 1
      BY <2>3
    <3> QED BY <3>1, <3>2
  <2>5. Len(path) = Len(whole)
    BY <2>2, <2>3
  <2> QED BY <2>1, <2>4, <2>5
<1>8. ASSUME Len(path) >= 3 PROVE t.nodes[parent].depth > 0
  <2>1. t.nodes[parent].parent # NoNode
    <3> SUFFICES ASSUME t.nodes[parent].parent = NoNode PROVE FALSE
      OBVIOUS
    <3>1. down = <<parent>>
      BY <1>3, PathGrows DEF down
    <3>2. Len(<<parent>>) = 1
      OBVIOUS
    <3> QED BY <1>7, <1>8, <3>1, <3>2
  <2> DEFINE above == t.nodes[parent].parent
  <2>2. above \in Ids(t)
    <3>1. above \in 0 .. parent - 1 /\ Len(t.nodes) \in Nat
      BY <1>3 DEF SoundTree, WellLinked, Tree
    <3> HIDE DEF parent, above
    <3>2. above # 0
      BY <2>1 DEF NoNode, above
    <3> QED BY <1>3, <3>1, <3>2 DEF Ids
  <2>3. t.nodes[parent].depth = t.nodes[above].depth + 1
    BY <1>3, <2>1 DEF SoundTree, DepthsCount
  <2> QED BY <1>0, <2>2, <2>3
<1> QED BY <1>3, <1>7, <1>8 DEF path

(* get_dead_ends lists it only when its parent failed: a parent that ran   *)
(* well and is not below the best would itself be the best.                *)
LEMMA BestNoDeadEnd ==
  ASSUME NEW t \in Tree, SoundTree(t), t.best # NoNode, t.best \in DeadEnds(t)
  PROVE  t.nodes[t.nodes[t.best].parent].error
<1> DEFINE best == t.best
           parent == t.nodes[best].parent
           path == Ancestors(t, best)
<1>1. best \in Ids(t) /\ Eligible(t.nodes[best])
  BY DEF SoundTree, BestIsChampion
<1>2. /\ parent \in Ids(t) /\ parent < best
      /\ path[1] = best /\ path[2] = parent
      /\ Len(path) >= 3 => t.nodes[parent].depth > 0
  BY BestHasParent
<1>3. Declines(t, path) \/ t.nodes[path[1]].error
  BY DEF DeadEnds
<1> HIDE DEF path
<1>4. Declines(t, path)
  BY <1>1, <1>2, <1>3 DEF Eligible
<1>5. t.nodes[best].score <= t.nodes[parent].score /\ t.nodes[parent].depth > 0
  BY <1>2, <1>4 DEF Declines
<1> SUFFICES ASSUME ~ t.nodes[parent].error PROVE FALSE
  OBVIOUS
<1>6. Eligible(t.nodes[parent])
  BY <1>5 DEF Eligible
<1>7. \A k \in Ids(t) : t.nodes[k].score \in Int /\ k \in Int
  <2>1. \A k \in Ids(t) : t.nodes[k] \in Node /\ k \in Int
    BY DEF Tree, Ids
  <2> QED BY <2>1 DEF Node
<1>8. /\ t.nodes[parent].score <= t.nodes[best].score
      /\ t.nodes[parent].score = t.nodes[best].score => best <= parent
  BY <1>2, <1>6 DEF SoundTree, BestIsChampion
<1> QED BY <1>1, <1>2, <1>5, <1>7, <1>8

-----------------------------------------------------------------------------
(* Every view of a tree a session reaches shows the same best node, whose  *)
(* path is of one seed, and the ranking puts nothing above it that could   *)
(* be best (to_summary and get_best_nodes of tree.py, view_tree.py,        *)
(* build_viz_payload).                                                     *)
THEOREM ViewsAgree == Spec => []OneBest
<1>1. IInv => OneBest
  <2> HAVE IInv
  <2>1. tree \in Tree /\ SoundTree(tree)
    BY DEF IInv, TypeOK
  <2> SUFFICES ASSUME tree.best # NoNode
      PROVE  LET ranked == BestNodes(tree)
                 place  == CHOOSE i \in DOMAIN ranked : ranked[i] = tree.best
                 path   == BestPath(tree)
             IN  /\ \A n \in Ids(tree) :
                      /\ Marker(tree, n) = "BEST" <=> n = Star(tree)
                      /\ ColourFor(tree, n) = "best" <=> n = Star(tree)
                 /\ tree.nodes[path[1]].seed = tree.nodes[path[Len(path)]].seed
                 /\ \A i \in 1 .. place - 1 : ~ Eligible(tree.nodes[ranked[i]])
    BY DEF OneBest
  <2>2. tree.best \in Ids(tree) /\ ~ tree.nodes[tree.best].error
    BY <2>1 DEF SoundTree, BestIsChampion, Eligible
  <2>3. Star(tree) = tree.best
    BY DEF Star
  <2>4. ASSUME NEW n \in Ids(tree) PROVE Marker(tree, n) = "BEST" <=> n = tree.best
    BY DEF Marker
  <2>5. ASSUME NEW n \in Ids(tree) PROVE ColourFor(tree, n) = "best" <=> n = tree.best
    BY <2>2 DEF ColourFor
  <2>6. LET path == BestPath(tree)
        IN  tree.nodes[path[1]].seed = tree.nodes[path[Len(path)]].seed
    BY <2>1, <2>2, PathLeads DEF BestPath
  <2> QED BY <2>1, <2>3, <2>4, <2>5, <2>6, BestRanksFirst
<1> QED BY <1>1, LoopInvariant, PTL

(* What get_dead_ends tells the reviewer spares the best node unless the   *)
(* node's parent failed.                                                   *)
THEOREM BestIsSpared == Spec => []DeadEndsSpareBest
<1>1. IInv => DeadEndsSpareBest
  <2> HAVE IInv
  <2>1. tree \in Tree /\ SoundTree(tree)
    BY DEF IInv, TypeOK
  <2>2. tree.best = NoNode => tree.best \notin DeadEnds(tree)
    BY DEF DeadEnds, Leaves, Ids, NoNode
  <2> QED BY <2>1, <2>2, BestNoDeadEnd DEF DeadEndsSpareBest
<1> QED BY <1>1, LoopInvariant, PTL

-----------------------------------------------------------------------------
(* Where a node stands on the page. *)

(* A path is as long as its node is deep, and one more.                    *)
LEMMA PathLength ==
  ASSUME NEW t \in Tree, SoundTree(t), NEW n \in Ids(t)
  PROVE  /\ t.nodes[n].depth \in Nat /\ Len(BranchTo(t, n)) = t.nodes[n].depth + 1
         /\ t.nodes[n].parent = NoNode => t.nodes[n].depth = 0
<1> DEFINE b(k) == BranchTo(t, k)
           depth(k) == t.nodes[k].depth
           T == {k \in Ids(t) : Len(b(k)) = depth(k) + 1}
<1>0. \A k \in Ids(t) : /\ depth(k) \in Nat
                        /\ depth(k) = IF t.nodes[k].parent = NoNode THEN 0
                                      ELSE depth(t.nodes[k].parent) + 1
  <2>1. \A k \in Ids(t) : t.nodes[k] \in Node
    BY DEF Tree, Ids
  <2> QED BY <2>1 DEF Node, SoundTree, DepthsCount
<1>1. ASSUME NEW k \in Ids(t), t.nodes[k].parent = NoNode \/ t.nodes[k].parent \in T
      PROVE  k \in T
  <2>1. CASE t.nodes[k].parent = NoNode
    <3>1. b(k) = <<k>>
      BY <2>1, PathGrows
    <3>2. Len(<<k>>) = 1 /\ depth(k) = 0
      BY <1>0, <2>1
    <3> HIDE DEF b, depth
    <3>3. Len(b(k)) = depth(k) + 1
      BY <3>1, <3>2
    <3> QED BY <3>3
  <2>2. CASE t.nodes[k].parent # NoNode
    <3> DEFINE p == t.nodes[k].parent
    <3>1. b(k) = Append(b(p), k)
      BY <2>2, PathGrows
    <3>2. p \in T /\ depth(k) = depth(p) + 1
      BY <1>0, <1>1, <2>2
    <3>3. b(p) \in Seq(Ids(t))
      BY <3>2, PathLeads
    <3>4. Len(b(p)) = depth(p) + 1 /\ depth(p) \in Nat
      BY <1>0, <3>2
    <3> HIDE DEF b, p, depth
    <3>5. Len(Append(b(p), k)) = Len(b(p)) + 1
      BY <3>3
    <3>6. Len(b(k)) = depth(k) + 1
      BY <3>1, <3>2, <3>4, <3>5
    <3> QED BY <3>6
  <2> QED BY <2>1, <2>2
<1> HIDE DEF T
<1>2. n \in T
  BY <1>1, DownTheTree
<1> QED BY <1>0, <1>2 DEF T

(* A path begins at a root. *)
LEMMA PathBegins ==
  ASSUME NEW t \in Tree, SoundTree(t), NEW n \in Ids(t)
  PROVE  RootOf(t, n) \in t.roots
<1> DEFINE b(k) == BranchTo(t, k)
           T == {k \in Ids(t) : RootOf(t, k) \in t.roots}
<1>1. ASSUME NEW k \in Ids(t), t.nodes[k].parent = NoNode \/ t.nodes[k].parent \in T
      PROVE  k \in T
  <2>1. CASE t.nodes[k].parent = NoNode
    <3>1. b(k) = <<k>>
      BY <2>1, PathGrows
    <3>2. k \in t.roots
      BY <2>1 DEF SoundTree, WellLinked
    <3> QED BY <3>1, <3>2 DEF RootOf
  <2>2. CASE t.nodes[k].parent # NoNode
    <3> DEFINE p == t.nodes[k].parent
    <3>1. b(k) = Append(b(p), k)
      BY <2>2, PathGrows
    <3>2. p \in Ids(t) /\ RootOf(t, p) \in t.roots
      BY <1>1, <2>2
    <3>3. b(p) \in Seq(Ids(t)) /\ Len(b(p)) \in Nat \ {0}
      BY <3>2, PathLeads
    <3> HIDE DEF b, p
    <3>4. Append(b(p), k)[1] = b(p)[1]
      BY <3>3
    <3>5. RootOf(t, k) = RootOf(t, p)
      BY <3>1, <3>4 DEF RootOf, b
    <3> QED BY <3>2, <3>5
  <2> QED BY <2>1, <2>2
<1> HIDE DEF T
<1>2. n \in T
  BY <1>1, DownTheTree
<1> QED BY <1>2 DEF T

(* A leaf is under a node when its path goes through it.                   *)
Under(t, a, l) ==
  LET p == BranchTo(t, a)
      q == BranchTo(t, l)
  IN  Len(p) <= Len(q) /\ \A j \in 1 .. Len(p) : q[j] = p[j]

(* What is under a child is under the node.                                *)
LEMMA UnderGrows ==
  ASSUME NEW t \in Tree, SoundTree(t), NEW a \in Ids(t), NEW c \in t.nodes[a].children, NEW l \in Ids(t),
         Under(t, c, l)
  PROVE  c \in Ids(t) /\ Under(t, a, l)
<1> DEFINE p == BranchTo(t, a)
           r == BranchTo(t, c)
           q == BranchTo(t, l)
<1>1. c \in Ids(t) /\ t.nodes[c].parent = a /\ a # NoNode
  BY DEF SoundTree, WellLinked, Ids, Tree, NoNode
<1>2. r = Append(p, c)
  BY <1>1, PathGrows
<1>3. p \in Seq(Ids(t)) /\ q \in Seq(Ids(t))
  BY PathLeads
<1>4. Len(r) <= Len(q) /\ \A j \in 1 .. Len(r) : q[j] = r[j]
  BY DEF Under
<1> HIDE DEF p, q, r
<1>5. Len(r) = Len(p) + 1 /\ Len(p) \in Nat /\ Len(q) \in Nat /\ \A j \in 1 .. Len(p) : r[j] = p[j]
  BY <1>2, <1>3
<1>6. Len(p) <= Len(q) /\ \A j \in 1 .. Len(p) : q[j] = p[j]
  BY <1>4, <1>5
<1> QED BY <1>1, <1>6 DEF Under, p, q

-----------------------------------------------------------------------------
(* The order of the walk. *)

(* The walk's order, by the place where two paths part.                    *)
LEMMA WalkedIs ==
  ASSUME NEW t \in Tree, SoundTree(t), NEW m \in Ids(t), NEW n \in Ids(t)
  PROVE  LET p == BranchTo(t, m)
             q == BranchTo(t, n)
         IN  /\ p \in Seq(Ids(t)) /\ q \in Seq(Ids(t)) /\ Len(p) \in Nat \ {0} /\ Len(q) \in Nat \ {0}
             /\ WalkedBefore(t, m, n) <=>
                  \E k \in Nat \ {0} : /\ k <= Len(p) /\ k <= Len(q) /\ p[k] < q[k]
                                       /\ \A j \in Nat \ {0} : j < k => p[j] = q[j]
<1> DEFINE p == BranchTo(t, m)
           q == BranchTo(t, n)
<1>1. p \in Seq(Ids(t)) /\ q \in Seq(Ids(t)) /\ Len(p) \in Nat \ {0} /\ Len(q) \in Nat \ {0}
  BY PathLeads
<1>2. WalkedBefore(t, m, n) <=>
        \E k \in DOMAIN p \cap DOMAIN q : p[k] < q[k] /\ \A j \in 1 .. k - 1 : p[j] = q[j]
  BY DEF WalkedBefore
<1> HIDE DEF p, q
<1>3. DOMAIN p = 1 .. Len(p) /\ DOMAIN q = 1 .. Len(q)
  BY <1>1
<1>4. ASSUME NEW k \in Nat \ {0}
      PROVE  (\A j \in 1 .. k - 1 : p[j] = q[j]) <=> (\A j \in Nat \ {0} : j < k => p[j] = q[j])
  OBVIOUS
<1>5. WalkedBefore(t, m, n) <=>
        \E k \in Nat \ {0} : /\ k <= Len(p) /\ k <= Len(q) /\ p[k] < q[k]
                             /\ \A j \in Nat \ {0} : j < k => p[j] = q[j]
  BY <1>1, <1>2, <1>3, <1>4
<1> QED BY <1>1, <1>5 DEF p, q

(* The walk's order is one. *)
LEMMA WalkOrders ==
  ASSUME NEW t \in Tree, SoundTree(t), NEW l \in Ids(t), NEW m \in Ids(t), NEW n \in Ids(t)
  PROVE  /\ ~ WalkedBefore(t, l, l)
         /\ WalkedBefore(t, l, m) /\ WalkedBefore(t, m, n) => WalkedBefore(t, l, n)
<1> DEFINE p == BranchTo(t, l)
           q == BranchTo(t, m)
           r == BranchTo(t, n)
           Parts(u, v, k) == /\ k <= Len(u) /\ k <= Len(v) /\ u[k] < v[k]
                             /\ \A j \in Nat \ {0} : j < k => u[j] = v[j]
<1>1. /\ p \in Seq(Ids(t)) /\ q \in Seq(Ids(t)) /\ r \in Seq(Ids(t))
      /\ Len(p) \in Nat /\ Len(q) \in Nat /\ Len(r) \in Nat
  BY WalkedIs
<1>2. /\ WalkedBefore(t, l, l) <=> \E k \in Nat \ {0} : Parts(p, p, k)
      /\ WalkedBefore(t, l, m) <=> \E k \in Nat \ {0} : Parts(p, q, k)
      /\ WalkedBefore(t, m, n) <=> \E k \in Nat \ {0} : Parts(q, r, k)
      /\ WalkedBefore(t, l, n) <=> \E k \in Nat \ {0} : Parts(p, r, k)
  BY WalkedIs
<1>3. Ids(t) \subseteq Nat
  BY DEF Ids, Tree
<1> HIDE DEF p, q, r
<1>4. \A k \in Nat \ {0} : /\ k <= Len(p) => p[k] \in Nat
                           /\ k <= Len(q) => q[k] \in Nat
                           /\ k <= Len(r) => r[k] \in Nat
  BY <1>1, <1>3
<1>5. ~ WalkedBefore(t, l, l)
  BY <1>2, <1>4
<1>6. ASSUME NEW i \in Nat \ {0}, Parts(p, q, i), NEW k \in Nat \ {0}, Parts(q, r, k)
      PROVE  \E j \in Nat \ {0} : Parts(p, r, j)
  <2>1. CASE i <= k
    <3>1. i <= Len(r) /\ p[i] < r[i]
      BY <1>1, <1>4, <1>6, <2>1
    <3> QED BY <1>6, <2>1, <3>1
  <2>2. CASE k < i
    <3>1. k <= Len(p) /\ p[k] < r[k]
      BY <1>1, <1>4, <1>6, <2>2
    <3> QED BY <1>6, <2>2, <3>1
  <2> QED BY <2>1, <2>2
<1> QED BY <1>2, <1>5, <1>6

(* What is under a node comes before all that is under a later one.        *)
LEMMA WalkedUnder ==
  ASSUME NEW t \in Tree, SoundTree(t), NEW a \in Ids(t), NEW b \in Ids(t), WalkedBefore(t, a, b),
         NEW l \in Ids(t), NEW m \in Ids(t), Under(t, a, l), Under(t, b, m)
  PROVE  WalkedBefore(t, l, m)
<1> DEFINE pa == BranchTo(t, a)
           pb == BranchTo(t, b)
           pl == BranchTo(t, l)
           pm == BranchTo(t, m)
           Parts(u, v, k) == /\ k <= Len(u) /\ k <= Len(v) /\ u[k] < v[k]
                             /\ \A j \in Nat \ {0} : j < k => u[j] = v[j]
<1>1. Len(pa) \in Nat /\ Len(pb) \in Nat /\ Len(pl) \in Nat /\ Len(pm) \in Nat
  BY WalkedIs
<1>2. /\ \E k \in Nat \ {0} : Parts(pa, pb, k)
      /\ WalkedBefore(t, l, m) <=> \E k \in Nat \ {0} : Parts(pl, pm, k)
  BY WalkedIs
<1>3. /\ Len(pa) <= Len(pl) /\ Len(pb) <= Len(pm)
      /\ \A j \in 1 .. Len(pa) : pl[j] = pa[j]
      /\ \A j \in 1 .. Len(pb) : pm[j] = pb[j]
  BY DEF Under
<1> HIDE DEF pa, pb, pl, pm
<1>4. PICK k \in Nat \ {0} : Parts(pa, pb, k)
  BY <1>2
<1>5. \A j \in Nat \ {0} : j <= k => j \in 1 .. Len(pa) /\ j \in 1 .. Len(pb)
  BY <1>1, <1>4
<1>6. \A j \in Nat \ {0} : j <= k => pl[j] = pa[j] /\ pm[j] = pb[j]
  BY <1>3, <1>5
<1>7. Parts(pl, pm, k)
  BY <1>1, <1>3, <1>4, <1>6
<1> QED BY <1>2, <1>7

(* Of two nodes of one depth the walk meets one and what is under it first. *)
LEMMA WalkedAtOneDepth ==
  ASSUME NEW t \in Tree, SoundTree(t), NEW a \in Ids(t), NEW b \in Ids(t), a # b,
         t.nodes[a].depth = t.nodes[b].depth
  PROVE  WalkedBefore(t, a, b) \/ WalkedBefore(t, b, a)
<1> DEFINE p == BranchTo(t, a)
           q == BranchTo(t, b)
           Parts(u, v, k) == /\ k <= Len(u) /\ k <= Len(v) /\ u[k] < v[k]
                             /\ \A j \in Nat \ {0} : j < k => u[j] = v[j]
           D == {k \in Nat \ {0} : p[k] # q[k]}
<1>1. /\ p \in Seq(Ids(t)) /\ q \in Seq(Ids(t)) /\ Len(p) \in Nat \ {0}
      /\ p[Len(p)] = a /\ q[Len(q)] = b
  BY PathLeads
<1>2. Len(p) = Len(q)
  BY PathLength
<1>3. /\ WalkedBefore(t, a, b) <=> \E k \in Nat \ {0} : Parts(p, q, k)
      /\ WalkedBefore(t, b, a) <=> \E k \in Nat \ {0} : Parts(q, p, k)
  BY WalkedIs
<1>4. Ids(t) \subseteq Nat
  BY DEF Ids, Tree
<1> HIDE DEF p, q
<1>5. Len(p) \in D
  BY <1>1, <1>2
<1>6. PICK k \in D : \A j \in D : k <= j
  <2>1. D \in SUBSET Nat /\ D # {}
    BY <1>5
  <2> HIDE DEF D
  <2> QED BY <2>1, LeastNumber
<1>7. k \in Nat \ {0} /\ k <= Len(p) /\ k <= Len(q) /\ p[k] # q[k]
  BY <1>2, <1>5, <1>6
<1>8. \A j \in Nat \ {0} : j < k => p[j] = q[j]
  BY <1>6
<1>9. p[k] \in Nat /\ q[k] \in Nat
  BY <1>1, <1>4, <1>7
<1>10. Parts(p, q, k) \/ Parts(q, p, k)
  BY <1>7, <1>8, <1>9
<1> QED BY <1>3, <1>7, <1>10

(* Lineages are met in the order of their roots. *)
LEMMA WalkedByLineage ==
  ASSUME NEW t \in Tree, SoundTree(t), NEW a \in Ids(t), NEW b \in Ids(t)
  PROVE  /\ RootOf(t, a) < RootOf(t, b) => WalkedBefore(t, a, b)
         /\ WalkedBefore(t, a, b) => RootOf(t, a) <= RootOf(t, b)
         /\ Under(t, a, b) => RootOf(t, a) = RootOf(t, b)
<1> DEFINE p == BranchTo(t, a)
           q == BranchTo(t, b)
<1>1. /\ p \in Seq(Ids(t)) /\ q \in Seq(Ids(t)) /\ Len(p) \in Nat \ {0} /\ Len(q) \in Nat \ {0}
      /\ WalkedBefore(t, a, b) <=>
           \E k \in Nat \ {0} : /\ k <= Len(p) /\ k <= Len(q) /\ p[k] < q[k]
                                /\ \A j \in Nat \ {0} : j < k => p[j] = q[j]
  BY WalkedIs
<1>2. Ids(t) \subseteq Nat
  BY DEF Ids, Tree
<1>3. Under(t, a, b) => \A j \in 1 .. Len(p) : q[j] = p[j]
  BY DEF Under
<1>4. RootOf(t, a) = p[1] /\ RootOf(t, b) = q[1]
  BY DEF RootOf
<1> HIDE DEF p, q
<1>5. p[1] \in Nat /\ q[1] \in Nat /\ 1 \in Nat \ {0} /\ 1 <= Len(p) /\ 1 <= Len(q)
  BY <1>1, <1>2
<1>6. p[1] < q[1] => WalkedBefore(t, a, b)
  BY <1>1, <1>5
<1>7. WalkedBefore(t, a, b) => p[1] <= q[1]
  <2> SUFFICES ASSUME NEW k \in Nat \ {0}, p[k] < q[k], \A j \in Nat \ {0} : j < k => p[j] = q[j]
               PROVE  p[1] <= q[1]
    BY <1>1
  <2>1. k = 1 \/ 1 < k
    OBVIOUS
  <2> QED BY <1>5, <2>1
<1>8. Under(t, a, b) => p[1] = q[1]
  BY <1>3, <1>5
<1> QED BY <1>4, <1>6, <1>7, <1>8

-----------------------------------------------------------------------------
(* Positions. *)

(* The nodes are finitely many, and children younger than their parent.    *)
LEMMA TreeFinite ==
  ASSUME NEW t \in Tree, SoundTree(t)
  PROVE  /\ Ids(t) \subseteq Nat /\ IsFiniteSet(Ids(t))
         /\ Leaves(t) \subseteq Ids(t) /\ t.roots \subseteq Ids(t)
         /\ \A n \in Ids(t) : t.nodes[n].children \subseteq {c \in Ids(t) : c > n}
<1>1. Len(t.nodes) \in Nat
  BY DEF Tree
<1>2. IsFiniteSet(Ids(t)) /\ Ids(t) \subseteq Nat
  BY <1>1, FS_Interval DEF Ids
<1>3. ASSUME NEW n \in Ids(t), NEW c \in t.nodes[n].children PROVE c \in Ids(t) /\ c > n
  <2>1. c \in Ids(t) /\ t.nodes[c].parent = n
    BY DEF SoundTree, WellLinked
  <2>2. t.nodes[c].parent \in 0 .. c - 1
    BY <2>1 DEF SoundTree, WellLinked
  <2> QED BY <1>2, <2>1, <2>2
<1>4. Leaves(t) \subseteq Ids(t) /\ t.roots \subseteq Ids(t)
  BY DEF Leaves, SoundTree
<1> QED BY <1>2, <1>3, <1>4

(* What holds of a node when it does of its children holds of every node.  *)
LEMMA UpTheTree ==
  ASSUME NEW t \in Tree, NEW T,
         \A n \in Ids(t) : (\A c \in Ids(t) : c > n => c \in T) => n \in T
  PROVE  Ids(t) \subseteq T
<1> DEFINE N == Len(t.nodes)
           D == {N - n : n \in Ids(t) \ T}
<1> SUFFICES ASSUME NEW x \in Ids(t), x \notin T PROVE FALSE
  OBVIOUS
<1>1. N \in Nat /\ \A n \in Ids(t) : n \in Nat /\ N - n \in Nat
  BY DEF Ids, Tree
<1>2. PICK d \in D : \A e \in D : d <= e
  <2>1. D \subseteq Nat
    BY <1>1
  <2>2. N - x \in D
    OBVIOUS
  <2>3. D \in SUBSET Nat /\ D # {}
    BY <2>1, <2>2
  <2> HIDE DEF D
  <2> QED BY <2>3, LeastNumber
<1>3. PICK m \in Ids(t) \ T : d = N - m
  BY <1>2
<1>4. ASSUME NEW c \in Ids(t), c > m PROVE c \in T
  <2> SUFFICES ASSUME c \notin T PROVE FALSE
    OBVIOUS
  <2>1. N - c \in D
    OBVIOUS
  <2>2. N - m <= N - c
    BY <1>2, <1>3, <2>1
  <2>3. m \in Nat /\ c \in Nat /\ c > m
    BY <1>1, <1>3, <1>4
  <2> HIDE DEF N
  <2> QED BY <1>1, <2>2, <2>3
<1> QED BY <1>3, <1>4

(* Where a node stands, by where others do. *)
StandsAt(t, x, n) ==
  LET kids == t.nodes[n].children
  IN  IF kids = {} THEN LeafPosition(t, n) ELSE Mean([c \in kids |-> x[c]], kids)

(* The positions exist: children are younger than their parent.            *)
LEMMA PositionsSolved ==
  ASSUME NEW t \in Tree, SoundTree(t)
  PROVE  \E x : x = [n \in Ids(t) |-> StandsAt(t, x, n)]
<1> DEFINE N == Len(t.nodes)
           Holds(x, d) == /\ x = [n \in 1 .. N |-> x[n]]
                          /\ \A k \in 1 .. N : k > N - d => x[k] = StandsAt(t, x, k)
           T == {d \in Nat : d <= N => \E x : Holds(x, d)}
<1>1. /\ N \in Nat /\ Ids(t) = 1 .. N
      /\ \A n \in 1 .. N : t.nodes[n].children \subseteq {c \in 1 .. N : c > n}
  BY TreeFinite DEF Tree, Ids
<1>2. ASSUME NEW x, NEW y, NEW n, \A c \in t.nodes[n].children : x[c] = y[c]
      PROVE  StandsAt(t, x, n) = StandsAt(t, y, n)
  <2>1. [c \in t.nodes[n].children |-> x[c]] = [c \in t.nodes[n].children |-> y[c]]
    BY <1>2
  <2> QED BY <2>1 DEF StandsAt
<1> HIDE DEF N
<1>3. 0 \in T
  <2>1. Holds([n \in 1 .. N |-> 0], 0)
    BY <1>1
  <2> QED BY <2>1
<1>4. ASSUME NEW d \in Nat, d \in T PROVE d + 1 \in T
  <2> SUFFICES ASSUME d + 1 <= N PROVE \E y : Holds(y, d + 1)
    OBVIOUS
  <2>1. PICK x : Holds(x, d)
    BY <1>1, <1>4
  <2> DEFINE new == N - d
             y == [n \in 1 .. N |-> IF n = new THEN StandsAt(t, x, n) ELSE x[n]]
  <2>2. new \in 1 .. N
    BY <1>1
  <2>3. y = [n \in 1 .. N |-> y[n]] /\ y[new] = StandsAt(t, x, new)
    BY <2>2
  <2>4. \A n \in 1 .. N : n # new => y[n] = x[n]
    OBVIOUS
  <2> HIDE DEF y
  <2>5. ASSUME NEW k \in 1 .. N, k > N - (d + 1) PROVE y[k] = StandsAt(t, y, k)
    <3>1. k >= new
      BY <1>1, <2>5
    <3>2. \A c \in t.nodes[k].children : y[c] = x[c]
      BY <1>1, <2>2, <2>4, <3>1
    <3>3. StandsAt(t, x, k) = StandsAt(t, y, k)
      BY <1>2, <3>2
    <3>4. CASE k = new
      BY <2>3, <3>3, <3>4
    <3>5. CASE k # new
      <4>1. y[k] = x[k] /\ k > N - d
        BY <1>1, <2>4, <3>1, <3>5
      <4> QED BY <2>1, <3>3, <4>1
    <3> QED BY <3>4, <3>5
  <2>6. Holds(y, d + 1)
    BY <2>3, <2>5
  <2> HIDE DEF Holds
  <2> QED BY <2>6
<1> HIDE DEF T
<1>5. N \in T
  BY <1>1, <1>3, <1>4, ByInduction
<1>6. PICK x : Holds(x, N)
  BY <1>1, <1>5 DEF T
<1>7. x = [n \in 1 .. N |-> x[n]] /\ \A k \in 1 .. N : x[k] = StandsAt(t, x, k)
  BY <1>1, <1>6
<1>8. x = [n \in 1 .. N |-> StandsAt(t, x, n)]
  BY <1>7
<1> QED BY <1>1, <1>8

(* A node with children stands at the mean of their positions.             *)
LEMMA Stands ==
  ASSUME NEW t \in Tree, SoundTree(t), NEW n \in Ids(t)
  PROVE  Positions(t)[n] = StandsAt(t, Positions(t), n)
<1> DEFINE Def(x) == x = [k \in Ids(t) |-> StandsAt(t, x, k)]
           pos == CHOOSE x : Def(x)
<1>1. \E x : Def(x)
  BY PositionsSolved
<1>2. Def(pos)
  <2> HIDE DEF Def
  <2> QED BY <1>1
<1>3. Positions(t) = pos
  BY DEF Positions, StandsAt
<1> HIDE DEF pos
<1>4. pos[n] = StandsAt(t, pos, n)
  BY <1>2
<1> HIDE <1>2
<1> QED BY <1>3, <1>4

(* One element more, one more to count.                                    *)
LEMMA CountsMore ==
  ASSUME NEW V, IsFiniteSet(V), NEW U \in SUBSET V
  PROVE  /\ Cardinality(U) \in Nat /\ Cardinality(V) \in Nat /\ Cardinality(U) <= Cardinality(V)
         /\ (\E e \in V : e \notin U) => Cardinality(U) + 1 <= Cardinality(V)
<1>1. /\ IsFiniteSet(U) /\ Cardinality(U) \in Nat /\ Cardinality(V) \in Nat
      /\ Cardinality(U) <= Cardinality(V) /\ (Cardinality(U) = Cardinality(V) => V = U)
  BY FS_Subset, FS_CardinalityType
<1> QED BY <1>1

(* Half units to the left of a leaf. *)
HalfUnits(t, n) ==
  2 * Cardinality(LeavesBefore(t, n)) + Cardinality({r \in t.roots : r < RootOf(t, n)})

(* Leaves are a unit apart, of two lineages one and a half.                *)
LEMMA LeafGaps ==
  ASSUME NEW t \in Tree, SoundTree(t), NEW l \in Leaves(t), NEW m \in Leaves(t), WalkedBefore(t, l, m)
  PROVE  /\ HalfUnits(t, l) \in Nat /\ HalfUnits(t, m) \in Nat
         /\ HalfUnits(t, m) >= HalfUnits(t, l) + 2
         /\ RootOf(t, l) < RootOf(t, m) => HalfUnits(t, m) >= HalfUnits(t, l) + 3
<1> DEFINE A(n) == LeavesBefore(t, n)
           B(n) == {r \in t.roots : r < RootOf(t, n)}
<1>1. /\ IsFiniteSet(Ids(t)) /\ Leaves(t) \subseteq Ids(t) /\ t.roots \subseteq Ids(t)
      /\ Ids(t) \subseteq Nat
  BY TreeFinite
<1>2. l \in Ids(t) /\ m \in Ids(t)
  BY <1>1
<1>3. /\ RootOf(t, l) \in t.roots /\ RootOf(t, m) \in t.roots
      /\ RootOf(t, l) <= RootOf(t, m)
  BY <1>2, PathBegins, WalkedByLineage
<1>4. IsFiniteSet(A(m)) /\ A(l) \subseteq A(m) /\ l \in A(m) /\ l \notin A(l)
  <2>1. IsFiniteSet(A(m))
    BY <1>1, FS_Subset DEF LeavesBefore
  <2>2. ASSUME NEW k \in A(l) PROVE k \in A(m)
    BY <1>1, <1>2, <2>2, WalkOrders DEF LeavesBefore
  <2>3. l \in A(m) /\ l \notin A(l)
    BY <1>2, WalkOrders DEF LeavesBefore
  <2> QED BY <2>1, <2>2, <2>3
<1>5. /\ IsFiniteSet(B(m)) /\ B(l) \subseteq B(m)
      /\ RootOf(t, l) < RootOf(t, m) => RootOf(t, l) \in B(m) /\ RootOf(t, l) \notin B(l)
  <2>1. IsFiniteSet(B(m))
    BY <1>1, FS_Subset
  <2>2. \A r \in t.roots : r \in Nat
    BY <1>1
  <2> QED BY <1>3, <2>1, <2>2
<1> HIDE DEF A, B
<1>6. /\ Cardinality(A(l)) \in Nat /\ Cardinality(A(m)) \in Nat
      /\ Cardinality(A(l)) + 1 <= Cardinality(A(m))
  BY <1>4, CountsMore
<1>7. /\ Cardinality(B(l)) \in Nat /\ Cardinality(B(m)) \in Nat /\ Cardinality(B(l)) <= Cardinality(B(m))
      /\ RootOf(t, l) < RootOf(t, m) => Cardinality(B(l)) + 1 <= Cardinality(B(m))
  BY <1>5, CountsMore
<1>8. /\ HalfUnits(t, l) = 2 * Cardinality(A(l)) + Cardinality(B(l))
      /\ HalfUnits(t, m) = 2 * Cardinality(A(m)) + Cardinality(B(m))
  BY DEF HalfUnits, A, B
<1> QED BY <1>6, <1>7, <1>8

(* The position of a leaf. *)
LEMMA LeafStands ==
  ASSUME NEW t \in Tree, NEW l \in Leaves(t), SoundTree(t)
  PROVE  /\ HalfUnits(t, l) \in Nat /\ LeafPosition(t, l) = Quotient(HalfUnits(t, l), 2)
         /\ LeafPosition(t, l) \in Fraction
<1>1. IsFiniteSet(Ids(t)) /\ Leaves(t) \subseteq Ids(t) /\ t.roots \subseteq Ids(t)
  BY TreeFinite
<1> DEFINE A == LeavesBefore(t, l)
           B == {r \in t.roots : r < RootOf(t, l)}
<1>2. Cardinality(A) \in Nat /\ Cardinality(B) \in Nat
  <2>1. A \in SUBSET Ids(t) /\ B \in SUBSET Ids(t)
    BY <1>1 DEF LeavesBefore
  <2> HIDE DEF A, B
  <2> QED BY <1>1, <2>1, CountsMore
<1> HIDE DEF A, B
<1>3. HalfUnits(t, l) = 2 * Cardinality(A) + Cardinality(B)
  BY DEF HalfUnits, A, B
<1>4. HalfUnits(t, l) \in Nat
  BY <1>2, <1>3
<1>5. LeafPosition(t, l) = Quotient(HalfUnits(t, l), 2)
  BY DEF LeafPosition, Quotient, HalfUnits
<1>6. HalfUnits(t, l) \in Int /\ 2 \in Nat \ {0}
  BY <1>4
<1>7. Quotient(HalfUnits(t, l), 2) \in Fraction
  BY <1>6, Quotients
<1> QED BY <1>4, <1>5, <1>7

(* Every node stands between two of its children, and between two leaves   *)
(* under it.                                                               *)
LEMMA StandsBetween ==
  ASSUME NEW t \in Tree, SoundTree(t), NEW n \in Ids(t)
  PROVE  LET x == Positions(t)
         IN  /\ x[n] \in Fraction
             /\ \E l \in Leaves(t) : Under(t, n, l) /\ AtMost(LeafPosition(t, l), x[n])
             /\ \E r \in Leaves(t) : Under(t, n, r) /\ AtMost(x[n], LeafPosition(t, r))
             /\ t.nodes[n].children # {} =>
                  \E l, r \in t.nodes[n].children : AtMost(x[l], x[n]) /\ AtMost(x[n], x[r])
<1> DEFINE x == Positions(t)
           Low(k) == \E l \in Leaves(t) : Under(t, k, l) /\ AtMost(LeafPosition(t, l), x[k])
           High(k) == \E r \in Leaves(t) : Under(t, k, r) /\ AtMost(x[k], LeafPosition(t, r))
           Amid(k) == t.nodes[k].children # {} =>
                        \E l, r \in t.nodes[k].children : AtMost(x[l], x[k]) /\ AtMost(x[k], x[r])
           T == {k \in Ids(t) : x[k] \in Fraction /\ Low(k) /\ High(k) /\ Amid(k)}
<1>1. ASSUME NEW k \in Ids(t), \A c \in Ids(t) : c > k => c \in T PROVE k \in T
  <2> DEFINE kids == t.nodes[k].children
             f == [c \in kids |-> x[c]]
  <2>1. kids \subseteq Ids(t) /\ \A c \in kids : c \in T
    <3>1. kids \subseteq {c \in Ids(t) : c > k}
      BY TreeFinite
    <3> HIDE DEF T, kids
    <3> QED BY <1>1, <3>1
  <2>2. x[k] = IF kids = {} THEN LeafPosition(t, k) ELSE Mean(f, kids)
    BY Stands DEF StandsAt
  <2> HIDE DEF x
  <2>3. CASE kids = {}
    <3>1. k \in Leaves(t) /\ Under(t, k, k)
      <4>1. Len(BranchTo(t, k)) \in Nat
        BY PathLeads
      <4> QED BY <2>3, <4>1 DEF Leaves, Under
    <3>2. x[k] = LeafPosition(t, k) /\ x[k] \in Fraction
      BY <2>2, <2>3, <3>1, LeafStands
    <3>3. AtMost(x[k], x[k])
      BY <3>2, FractionsClosed
    <3> QED BY <2>3, <3>1, <3>2, <3>3
  <2>4. CASE kids # {}
    <3>1. IsFiniteSet(kids)
      <4>1. IsFiniteSet(Ids(t))
        BY TreeFinite
      <4> HIDE DEF kids
      <4> QED BY <2>1, <4>1, FS_Subset
    <3>2. f \in [kids -> Fraction] /\ \A c \in kids : f[c] = x[c]
      BY <2>1
    <3> HIDE DEF f
    <3>3. PICK l \in kids, r \in kids : \A s \in kids : AtMost(f[l], f[s]) /\ AtMost(f[s], f[r])
      <4> HIDE DEF kids
      <4> QED BY <2>4, <3>1, <3>2, LeastAndGreatest
    <3>4. f[l] \in Fraction /\ f[r] \in Fraction
      BY <3>2
    <3>5. x[k] \in Fraction /\ AtMost(f[l], x[k]) /\ AtMost(x[k], f[r])
      <4> HIDE DEF kids
      <4>1. Mean(f, kids) \in Fraction
        BY <2>4, <3>1, <3>2, <3>4, MeanBounded
      <4>2. AtMost(f[l], Mean(f, kids))
        BY <2>4, <3>1, <3>2, <3>3, <3>4, MeanBounded
      <4>3. AtMost(Mean(f, kids), f[r])
        BY <2>4, <3>1, <3>2, <3>3, <3>4, MeanBounded
      <4> QED BY <2>2, <2>4, <4>1, <4>2, <4>3
    <3>6. AtMost(x[l], x[k]) /\ AtMost(x[k], x[r])
      BY <3>2, <3>5
    <3>7. Low(k)
      <4>1. PICK a \in Leaves(t) : Under(t, l, a) /\ AtMost(LeafPosition(t, a), x[l])
        BY <2>1
      <4>2. Under(t, k, a) /\ LeafPosition(t, a) \in Fraction
        BY <4>1, UnderGrows, LeafStands DEF Leaves
      <4>3. AtMost(LeafPosition(t, a), x[k])
        BY <3>2, <3>4, <3>5, <3>6, <4>1, <4>2, AtMostTransitive
      <4> QED BY <4>2, <4>3
    <3>8. High(k)
      <4>1. PICK a \in Leaves(t) : Under(t, r, a) /\ AtMost(x[r], LeafPosition(t, a))
        BY <2>1
      <4>2. Under(t, k, a) /\ LeafPosition(t, a) \in Fraction
        BY <4>1, UnderGrows, LeafStands DEF Leaves
      <4>3. AtMost(x[k], LeafPosition(t, a))
        BY <3>2, <3>4, <3>5, <3>6, <4>1, <4>2, AtMostTransitive
      <4> QED BY <4>2, <4>3
    <3>9. Amid(k)
      BY <3>6
    <3> QED BY <3>5, <3>7, <3>8, <3>9
  <2> QED BY <2>3, <2>4
<1> HIDE DEF T
<1>2. n \in T
  BY <1>1, UpTheTree
<1> QED BY <1>2 DEF T

(* A difference of positions is no less than one of leaves on either side. *)
LEMMA GapsKept ==
  ASSUME NEW x \in Fraction, NEW y \in Fraction, NEW a \in Int, NEW b \in Int,
         AtMost(x, Quotient(a, 2)), AtMost(Quotient(b, 2), y)
  PROVE  /\ Minus(y, x) \in Fraction
         /\ b >= a + 2 => AtMost(Whole(1), Minus(y, x))
         /\ b >= a + 3 => Apart(x, y)
<1> DEFINE u == Quotient(a, 2)
           v == Quotient(b, 2)
<1>1. u \in Fraction /\ v \in Fraction /\ 1 \in Nat \ {0} /\ 2 \in Nat \ {0} /\ 4 \in Nat \ {0}
  <2>1. 1 \in Nat \ {0} /\ 2 \in Nat \ {0} /\ 4 \in Nat \ {0}
    OBVIOUS
  <2> QED BY <2>1, Quotients
<1> DEFINE d == b * 2 - a * 2
<1>2. d \in Int /\ (b >= a + 2 => d >= 4) /\ (b >= a + 3 => d >= 6)
  OBVIOUS
<1>3. Minus(v, u) = Lowest[<<d, 4>>]
  <2>1. Minus(v, u) = Quotient(d, 2 * 2)
    BY <1>1, QuotientOperations
  <2> QED BY <2>1 DEF Quotient
<1> HIDE DEF d, u, v
<1>4. /\ Minus(y, x) \in Fraction /\ Minus(v, u) \in Fraction
      /\ AtMost(Minus(v, u), Minus(y, x))
  <2>1. Minus(v, u) \in Fraction /\ AtMost(Minus(v, u), Minus(y, u))
    BY <1>1, MinusOrders DEF v
  <2>2. Minus(y, x) \in Fraction /\ AtMost(Minus(y, u), Minus(y, x))
    BY <1>1, MinusTurns DEF u
  <2>3. Minus(y, u) \in Fraction
    BY <1>1, FractionsClosed
  <2> QED BY <2>1, <2>2, <2>3, AtMostTransitive
<1>5. ASSUME NEW c \in Int, NEW e \in Nat \ {0}, c * 4 <= d * e
      PROVE  Lowest[<<c, e>>] \in Fraction /\ AtMost(Lowest[<<c, e>>], Minus(y, x))
  <2>1. AtMost(Lowest[<<c, e>>], Minus(v, u))
    BY <1>1, <1>2, <1>3, <1>5, PairsOrdered
  <2>2. Lowest[<<c, e>>] \in Fraction
    BY Quotients DEF Quotient
  <2> QED BY <1>4, <2>1, <2>2, AtMostTransitive
<1>6. ASSUME b >= a + 2 PROVE AtMost(Whole(1), Minus(y, x))
  <2>1. 1 \in Int /\ 1 * 4 <= d * 1
    BY <1>2, <1>6
  <2>2. Whole(1) = Lowest[<<1, 1>>]
    BY <2>1, WholeQuotient DEF Quotient
  <2> QED BY <1>1, <1>5, <2>1, <2>2
<1>7. ASSUME b >= a + 3 PROVE Apart(x, y)
  <2> DEFINE g == Lowest[<<3, 2>>]
             z == Times(Whole(110), Minus(y, x))
  <2>1. 3 \in Int /\ 3 * 4 <= d * 2
    BY <1>2, <1>7
  <2>2. g \in Fraction /\ AtMost(g, Minus(y, x))
    BY <1>1, <1>5, <2>1
  <2>3. AtMost(Times(Whole(110), g), z) /\ Whole(110) \in Fraction
    <3>1. 110 \in Nat
      OBVIOUS
    <3> HIDE DEF g
    <3> QED BY <1>4, <2>2, <3>1, ScaleOrders
  <2>4. Times(Whole(110), g) = Lowest[<<330, 2>>]
    <3>1. 110 \in Int /\ Whole(110) = Quotient(110, 1)
      <4>1. 110 \in Int
        OBVIOUS
      <4> QED BY <4>1, WholeQuotient
    <3>2. Times(Quotient(110, 1), Quotient(3, 2)) = Quotient(110 * 3, 1 * 2)
      BY <1>1, <2>1, <3>1, QuotientOperations
    <3>3. 110 * 3 = 330 /\ 1 * 2 = 2
      OBVIOUS
    <3> QED BY <3>1, <3>2, <3>3 DEF Quotient
  <2>5. <<330, 2>> \in Fraction /\ <<52, 1>> \in Fraction
    BY DEF Fraction
  <2>6. ~ AtMost(Lowest[<<330, 2>>], <<52, 1>>)
    <3>1. ~ AtMost(<<330, 2>>, <<52, 1>>)
      BY DEF AtMost, Below
    <3> QED BY <2>5, <3>1, LowestOrders
  <2>7. z \in Fraction /\ Times(Whole(110), g) \in Fraction
    BY <1>4, <2>2, <2>3, FractionsClosed
  <2> HIDE DEF g, z
  <2>8. ~ AtMost(z, <<52, 1>>)
    BY <2>3, <2>4, <2>5, <2>6, <2>7, AtMostTransitive
  <2>9. Below(<<52, 1>>, z)
    BY <2>8 DEF AtMost
  <2>10. Whole(2 * BandMargin) = <<52, 1>>
    BY DEF Whole, BandMargin
  <2> QED BY <2>9, <2>10 DEF Apart, ColumnWidth, z
<1> QED BY <1>4, <1>6, <1>7

(* The page draws every sound tree as a tree. *)
LEMMA NodesApart ==
  ASSUME NEW t \in Tree, SoundTree(t), NEW m \in Ids(t), NEW n \in Ids(t), WalkedBefore(t, m, n)
  PROVE  LET x == Positions(t)
         IN  /\ AtMost(Whole(1), Minus(x[n], x[m]))
             /\ RootOf(t, m) < RootOf(t, n) => Apart(x[m], x[n])
<1> DEFINE x == Positions(t)
<1>1. x[m] \in Fraction /\ x[n] \in Fraction
  BY StandsBetween
<1>2. PICK r \in Leaves(t) : Under(t, m, r) /\ AtMost(x[m], LeafPosition(t, r))
  BY StandsBetween
<1>3. PICK l \in Leaves(t) : Under(t, n, l) /\ AtMost(LeafPosition(t, l), x[n])
  BY StandsBetween
<1>4. r \in Ids(t) /\ l \in Ids(t)
  BY TreeFinite
<1>5. WalkedBefore(t, r, l)
  BY <1>2, <1>3, <1>4, WalkedUnder
<1>6. RootOf(t, m) = RootOf(t, r) /\ RootOf(t, n) = RootOf(t, l)
  BY <1>2, <1>3, <1>4, WalkedByLineage
<1> DEFINE a == HalfUnits(t, r)
           b == HalfUnits(t, l)
<1>7. a \in Int /\ b \in Int /\ b >= a + 2 /\ (RootOf(t, m) < RootOf(t, n) => b >= a + 3)
  BY <1>5, <1>6, LeafGaps
<1>8. LeafPosition(t, r) = Quotient(a, 2) /\ LeafPosition(t, l) = Quotient(b, 2)
  BY LeafStands
<1> HIDE DEF x, a, b
<1>9. AtMost(Whole(1), Minus(x[n], x[m])) /\ (b >= a + 3 => Apart(x[m], x[n]))
  BY <1>1, <1>2, <1>3, <1>7, <1>8, GapsKept
<1> QED BY <1>7, <1>9 DEF x

(* The page of every finished session draws a tree: nodes of one depth a   *)
(* leaf unit apart, parents over their children, and no two lineages'      *)
(* bands touching (compute_positions and lineageExtents), for any tree.    *)
THEOREM TreeIsDrawn == Spec => []LayoutSound
<1>1. IInv => LayoutSound
  <2> HAVE IInv
  <2>1. tree \in Tree /\ SoundTree(tree)
    BY DEF IInv, TypeOK
  <2> DEFINE x == Positions(tree)
  <2>2. ASSUME NEW m \in Ids(tree), NEW n \in Ids(tree), m # n, tree.nodes[m].depth = tree.nodes[n].depth
        PROVE  AtMost(Whole(1), Minus(x[m], x[n])) \/ AtMost(Whole(1), Minus(x[n], x[m]))
    BY <2>1, <2>2, WalkedAtOneDepth, NodesApart
  <2>3. ASSUME NEW m \in Ids(tree), NEW n \in Ids(tree), RootOf(tree, m) < RootOf(tree, n)
        PROVE  Apart(x[m], x[n])
    BY <2>1, <2>3, WalkedByLineage, NodesApart
  <2>4. ASSUME NEW m \in Ids(tree), NEW n \in tree.nodes[m].children
        PROVE  \E l, r \in tree.nodes[m].children : AtMost(x[l], x[m]) /\ AtMost(x[m], x[r])
    BY <2>1, <2>4, StandsBetween
  <2> HIDE DEF x
  <2>5. \A m, n \in Ids(tree) :
          /\ m # n /\ tree.nodes[m].depth = tree.nodes[n].depth =>
               AtMost(Whole(1), Minus(x[m], x[n])) \/ AtMost(Whole(1), Minus(x[n], x[m]))
          /\ RootOf(tree, m) < RootOf(tree, n) => Apart(x[m], x[n])
          /\ n \in tree.nodes[m].children =>
               \E l, r \in tree.nodes[m].children : AtMost(x[l], x[m]) /\ AtMost(x[m], x[r])
    BY <2>2, <2>3, <2>4
  <2> QED BY <2>5 DEF LayoutSound, x
<1> QED BY <1>1, LoopInvariant, PTL
=============================================================================
