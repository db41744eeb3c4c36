---------------------------- MODULE EvolutionLoop ----------------------------
(***************************************************************************)
(* The coordinator of evolution/loop.py: evolve() from the planting of the *)
(* seeds, or the resumption of a saved tree, through the rounds to the     *)
(* end, with the crashes and restarts of its process and the two files a   *)
(* restart can find, best_policy.c and evolution_tree.json.                *)
(*                                                                         *)
(* One round: every branch's step_branch runs in a thread of its own; the  *)
(* main thread collects their results in completion order, stitches them   *)
(* into the tree one by one, writes best_policy.c if the best improved,    *)
(* saves the tree and, every Interval rounds, lets the frontier reviewer   *)
(* (evolution/frontier.py) kill, move and spawn branches.                  *)
(*                                                                         *)
(* What a step does inside is abstracted to its result: a score and        *)
(* whether it failed, or an exception.  The branch list is a set: its      *)
(* order decides only which worker serves a branch.                        *)
(***************************************************************************)
EXTENDS EvolutionTree

CONSTANTS
  NumBranches,   (* branches planted, and at most resumed                  *)
  Rounds,        (* rounds of one session                                  *)
  Interval,      (* checkpoint_interval                                    *)
  MaxSpawn,      (* max_spawn                                              *)
  Resume,        (* whether a restart is given --resume                    *)
  MaxCrashes,    (* bound: how often the process may crash                 *)
  NegInfinity    (* float("-inf"): below every score                       *)

ASSUME LoopAssumption ==
  /\ NumBranches \in Nat \ {0} /\ Rounds \in Nat /\ Interval \in Nat \ {0}
  /\ MaxSpawn \in Nat /\ Resume \in BOOLEAN /\ MaxCrashes \in Nat
  /\ NegInfinity \in Int /\ \A s \in Scores : NegInfinity < s

VARIABLES
  pc,          (* where the main thread is                                 *)
  round,       (* round_num                                                *)
  tree,        (* the EvolutionTree in memory                              *)
  branches,    (* the active branches                                      *)
  nextIdx,     (* next_branch_idx                                          *)
  running,     (* the branches whose step is still running                 *)
  results,     (* collected and not yet stitched, in completion order      *)
  bestScore,   (* best_score: the score of the last best written           *)
  policyFile,  (* best_policy.c                                            *)
  treeFile,    (* evolution_tree.json                                      *)
  crashes      (* crashes so far                                           *)

memory == <<round, tree, branches, nextIdx, running, results, bestScore>>
files == <<policyFile, treeFile>>
vars == <<pc, memory, files, crashes>>

Branch == [id : Nat, head : Nat, seed : Seeds]
Result == [branch : Nat, parent : Nat, seed : Seeds, score : Scores, error : BOOLEAN]

(* A file being rewritten is torn from the moment it is truncated until    *)
(* the last byte is out.  `tree` and `score` of a torn file are those of   *)
(* its last whole content, which nobody can read any more.                 *)
FileState == {"absent", "torn", "whole"}

(* A session ends by finishing its rounds or by an exception of evolve():  *)
(* no roots planted, an unreadable tree, a review whose JSON has another   *)
(* shape, or no best node to reseed from.                                  *)
Failures == {"notPlanted", "unreadableTree", "malformedReview", "nothingToReseed"}
Ended == {"done"} \cup Failures

PCs == {"starting", "planting", "round", "running", "stitching", "ranking", "writingBest",
        "saving", "writingTree", "checkpoint", "reseeding"} \cup Ended

Init ==
  /\ pc = "starting"
  /\ round = 0 /\ tree = EmptyTree /\ branches = {} /\ nextIdx = 0
  /\ running = {} /\ results = << >> /\ bestScore = NegInfinity
  /\ policyFile = [state |-> "absent", score |-> 0]
  /\ treeFile = [state |-> "absent", tree |-> EmptyTree]
  /\ crashes = 0

Goto(label) == pc' = label

(* Mutant of MakeBranch: numbered from the previous branch. *)
MakeBranchBehind(t, idx, node) ==
  [id |-> idx - 1, head |-> node, seed |-> t.nodes[node].seed]

(* make_branch and spawn_branch: branch b<idx> standing on a node. *)
MakeBranch(t, idx, node) == [id |-> idx, head |-> node, seed |-> t.nodes[node].seed]

BestScoreOf(t) == IF t.best = NoNode THEN NegInfinity ELSE t.nodes[t.best].score

-----------------------------------------------------------------------------
(* Start: a new tree, or the saved one. *)

(* Mutant of ResumesSavedTree: an unreadable file counts as none. *)
ResumesReadableTree == Resume /\ treeFile.state = "whole"

ResumesSavedTree == Resume /\ treeFile.state # "absent"

StartFresh ==
  /\ pc = "starting"
  /\ ~ ResumesSavedTree
  /\ Goto("planting")
  /\ UNCHANGED <<memory, files, crashes>>

(* _choose_branches: one seed root and one branch per assignment. *)
PlantSeed(seed) ==
  LET planted == AddNode(tree, NoNode, RootScore, FALSE, seed) IN
  /\ pc = "planting"
  /\ tree' = planted
  /\ branches' = branches \cup {MakeBranch(planted, Len(tree.nodes), planted.current)}
  /\ IF Len(planted.nodes) < NumBranches
       THEN UNCHANGED <<pc, nextIdx>>
       ELSE Goto("round") /\ nextIdx' = NumBranches
  /\ UNCHANGED <<round, running, results, bestScore, files, crashes>>

(* An exception of _choose_branches: a seed that is assigned but not among *)
(* those to evolve, no seeds at all, or a planner's reply that is JSON of  *)
(* another shape.                                                          *)
PlantingFails ==
  /\ pc = "planting"
  /\ Goto("notPlanted")
  /\ UNCHANGED <<memory, files, crashes>>

(* The first NumBranches leaves in the tree's order become b0, b1, ... *)
OldestLeaves(t, heads) ==
  /\ \A i, j \in DOMAIN heads : i < j => heads[i] < heads[j]
  /\ \A l \in Leaves(t) :
       \/ \E i \in DOMAIN heads : heads[i] = l
       \/ DOMAIN heads = 0 .. NumBranches - 1 /\ \A i \in DOMAIN heads : heads[i] < l

StartResumed ==
  /\ pc = "starting"
  /\ ResumesSavedTree /\ treeFile.state = "whole"
  /\ tree' = treeFile.tree
  /\ \E last \in 0 .. NumBranches - 1 : \E heads \in [0 .. last -> Leaves(treeFile.tree)] :
       /\ OldestLeaves(treeFile.tree, heads)
       /\ branches' = {MakeBranch(treeFile.tree, i, heads[i]) : i \in 0 .. last}
  /\ nextIdx' = NumBranches
  /\ bestScore' = BestScoreOf(treeFile.tree)
  /\ Goto("round")
  /\ UNCHANGED <<round, running, results, files, crashes>>

StartUnreadable ==
  /\ pc = "starting"
  /\ ResumesSavedTree /\ treeFile.state = "torn"
  /\ Goto("unreadableTree")
  /\ UNCHANGED <<memory, files, crashes>>

-----------------------------------------------------------------------------
(* A round: the threads, then the stitching. *)

BeginRound ==
  /\ pc = "round"
  /\ round < Rounds
  /\ round' = round + 1
  /\ running' = branches
  /\ results' = << >>
  /\ Goto("running")
  /\ UNCHANGED <<tree, branches, nextIdx, bestScore, files, crashes>>

(* Mutant of StepResult: the parent is the tree's latest node. *)
StepResultOnCurrent(b, score, error) ==
  [branch |-> b.id, parent |-> tree.current, seed |-> b.seed, score |-> score, error |-> error]

(* The result names the branch, and the head and seed the step started at. *)
StepResult(b, score, error) ==
  [branch |-> b.id, parent |-> b.head, seed |-> b.seed, score |-> score, error |-> error]

StepReturns(b) ==
  /\ pc = "running"
  /\ \E score \in Scores, error \in BOOLEAN :
       results' = Append(results, StepResult(b, score, error))
  /\ running' = running \ {b}
  /\ UNCHANGED <<pc, round, tree, branches, nextIdx, bestScore, files, crashes>>

(* step_branch raised: logged, and the round goes on without a result. *)
StepRaises(b) ==
  /\ pc = "running"
  /\ running' = running \ {b}
  /\ UNCHANGED <<pc, round, tree, branches, nextIdx, results, bestScore, files, crashes>>

(* Mutant of RoundCollected: also waits for the branches a review killed. *)
RoundOfEveryBranch == running = {} /\ Cardinality(branches) = nextIdx

(* The pool's `with` block ends when every step has returned or raised. *)
RoundCollected == running = {}

CollectRound ==
  /\ pc = "running"
  /\ RoundCollected
  /\ Goto("stitching")
  /\ UNCHANGED <<memory, files, crashes>>

(* Mutant of MovesHead: found by the lineage's seed. *)
MovesHeadOfSeed(result, b) == b.seed = result.seed

(* The branch whose id the result names moves on to the new node. *)
MovesHead(result, b) == b.id = result.branch

Stitch ==
  /\ pc = "stitching"
  /\ results # << >>
  /\ LET result == Head(results)
         grown  == AddNode(tree, result.parent, result.score, result.error, result.seed)
     IN  /\ tree' = grown
         /\ \E b \in branches :
              /\ MovesHead(result, b)
              /\ branches' = (branches \ {b}) \cup {[b EXCEPT !.head = grown.current]}
  /\ results' = Tail(results)
  /\ UNCHANGED <<pc, round, nextIdx, running, bestScore, files, crashes>>

EndStitching ==
  /\ pc = "stitching"
  /\ results = << >>
  /\ Goto("ranking")
  /\ UNCHANGED <<memory, files, crashes>>

-----------------------------------------------------------------------------
(* The files. *)

(* Mutant of NewBest: best_score starts at 0 instead of -inf. *)
NewBestAboveZero == tree.best # NoNode /\ BestScoreOf(tree) > bestScore /\ BestScoreOf(tree) > 0

(* best_policy.c is rewritten when the tree's best beats the last written. *)
NewBest == tree.best # NoNode /\ BestScoreOf(tree) > bestScore

(* Mutant of WrittenNode: the node stitched last. *)
LatestNode == tree.current

(* The node whose code goes into best_policy.c. *)
WrittenNode == tree.best

BeginBestWrite ==
  /\ pc = "ranking"
  /\ NewBest
  /\ bestScore' = BestScoreOf(tree)
  /\ policyFile' = [policyFile EXCEPT !.state = "torn"]
  /\ Goto("writingBest")
  /\ UNCHANGED <<round, tree, branches, nextIdx, running, results, treeFile, crashes>>

EndBestWrite ==
  /\ pc = "writingBest"
  /\ policyFile' = [state |-> "whole", score |-> tree.nodes[WrittenNode].score]
  /\ Goto("saving")
  /\ UNCHANGED <<memory, treeFile, crashes>>

KeepBest ==
  /\ pc = "ranking"
  /\ ~ NewBest
  /\ Goto("saving")
  /\ UNCHANGED <<memory, files, crashes>>

(* tree.save opens the file for writing, then dumps. *)
BeginSave ==
  /\ pc = "saving"
  /\ treeFile' = [treeFile EXCEPT !.state = "torn"]
  /\ Goto("writingTree")
  /\ UNCHANGED <<memory, policyFile, crashes>>

CheckpointDue == round % Interval = 0 /\ round < Rounds /\ branches # {}

EndSave ==
  /\ pc = "writingTree"
  /\ treeFile' = [state |-> "whole", tree |-> tree]
  /\ Goto(IF CheckpointDue THEN "checkpoint" ELSE "round")
  /\ UNCHANGED <<memory, policyFile, crashes>>

-----------------------------------------------------------------------------
(* The frontier review.  A verdict is Kill, Continue or the node to pivot  *)
(* to; a branch the reply omits, or sends to an unknown node, continues.   *)

Kill == -1
Continue == 0

Reviewed(b, verdict) ==
  IF verdict \in Ids(tree) THEN [b EXCEPT !.head = verdict, !.seed = tree.nodes[verdict].seed]
  ELSE b

Spawned(targets) ==
  {MakeBranch(tree, nextIdx + i - 1, targets[i]) : i \in DOMAIN targets}

(* Mutant of NextIdxAfter: the spawned ids are not counted. *)
NextIdxUnmoved(active) == nextIdx

(* next_branch_idx moves past every id in use. *)
NextIdxAfter(active) ==
  LET bounds == {nextIdx} \cup {b.id + 1 : b \in active}
  IN  CHOOSE m \in bounds : \A x \in bounds : x <= m

(* Whatever the reviewer answers; no answer, or none that parses, is the   *)
(* review that continues every branch and spawns none.                     *)
Checkpoint ==
  /\ pc = "checkpoint"
  /\ \E verdicts \in [branches -> {Kill, Continue} \cup Ids(tree)],
        spawns \in 0 .. MaxSpawn : \E targets \in [1 .. spawns -> Ids(tree)] :
       branches' = {Reviewed(b, verdicts[b]) : b \in {c \in branches : verdicts[c] # Kill}}
                     \cup Spawned(targets)
  /\ nextIdx' = NextIdxAfter(branches')
  /\ Goto(IF branches' = {} THEN "reseeding" ELSE "round")
  /\ UNCHANGED <<round, tree, running, results, bestScore, files, crashes>>

(* JSON of another shape, such as a list or a null `spawns`, raises. *)
CheckpointRaises ==
  /\ pc = "checkpoint"
  /\ Goto("malformedReview")
  /\ UNCHANGED <<memory, files, crashes>>

Reseed ==
  /\ pc = "reseeding"
  /\ tree.best # NoNode
  /\ branches' = {MakeBranch(tree, nextIdx, tree.best)}
  /\ nextIdx' = nextIdx + 1
  /\ Goto("round")
  /\ UNCHANGED <<round, tree, running, results, bestScore, files, crashes>>

(* tree.nodes[None] *)
ReseedRaises ==
  /\ pc = "reseeding"
  /\ tree.best = NoNode
  /\ Goto("nothingToReseed")
  /\ UNCHANGED <<memory, files, crashes>>

-----------------------------------------------------------------------------

Finish ==
  /\ pc = "round"
  /\ round = Rounds
  /\ Goto("done")
  /\ UNCHANGED <<memory, files, crashes>>

(* The process dies anywhere in a session and is started again; the files stay. *)
Crash ==
  /\ pc \notin Ended \cup {"starting"}
  /\ crashes < MaxCrashes
  /\ crashes' = crashes + 1
  /\ Goto("starting")
  /\ round' = 0 /\ tree' = EmptyTree /\ branches' = {} /\ nextIdx' = 0
  /\ running' = {} /\ results' = << >> /\ bestScore' = NegInfinity
  /\ UNCHANGED files

Stopped == pc \in Ended /\ UNCHANGED vars

Start == StartFresh \/ StartResumed \/ StartUnreadable
Plant == PlantingFails \/ \E seed \in Seeds : PlantSeed(seed)
Step(b) == StepReturns(b) \/ StepRaises(b)
Write == BeginBestWrite \/ EndBestWrite \/ KeepBest \/ BeginSave \/ EndSave
Review == Checkpoint \/ CheckpointRaises \/ Reseed \/ ReseedRaises

Evolve == BeginRound \/ CollectRound \/ Stitch \/ EndStitching \/ Write \/ Review \/ Finish

MainThread == Start \/ Plant \/ Evolve

Next ==
  \/ MainThread
  \/ \E b \in running : Step(b)
  \/ Crash
  \/ Stopped

(* The main thread runs whenever it can, and a step always ends: its LLM   *)
(* call, its compile and its benchmark are all under a timeout.            *)
Fairness == WF_vars(MainThread) /\ WF_vars(\E b \in running : Step(b))

Spec == Init /\ [][Next]_vars
FairSpec == Spec /\ Fairness

-----------------------------------------------------------------------------
(* Properties. *)

TypeOK ==
  /\ pc \in PCs
  /\ round \in 0 .. Rounds
  /\ tree \in Tree
  /\ branches \in SUBSET Branch
  /\ nextIdx \in Nat
  /\ running \in SUBSET branches
  /\ results \in Seq(Result)
  /\ bestScore \in Int
  /\ policyFile \in [state : FileState, score : Int]
  /\ treeFile \in [state : FileState, tree : Tree]
  /\ crashes \in 0 .. MaxCrashes

(* The tree in memory and the one a restart would load stay sound, however *)
(* steps fail, results arrive, branches jump and the process restarts:     *)
(* links and depths agree, a mutation has its ancestor's seed, and the     *)
(* incrementally kept best is the earliest of the best-scored error-free   *)
(* evaluated nodes.                                                        *)
TreeSound ==
  /\ SoundTree(tree)
  /\ treeFile.state = "whole" => SoundTree(treeFile.tree)

(* An active branch stands on a node of the tree and carries that node's   *)
(* seed, and no two active branches share an id: the stitching, the review *)
(* and the snapshot binaries find a branch by its id alone.                *)
BranchesSound ==
  /\ \A b \in branches :
       /\ b.head \in Ids(tree)
       /\ b.seed = tree.nodes[b.head].seed
       /\ b.id < nextIdx \/ pc \in {"planting", "notPlanted"}
  /\ \A b, c \in branches : b.id = c.id => b = c

(* A collected result is still about the node its branch stands on: between *)
(* the step's start and the stitching nothing moved the branch, so the new *)
(* node goes under the code it was mutated from.                           *)
ResultsCurrent ==
  \A i \in 1 .. Len(results) : \E b \in branches :
    b.id = results[i].branch /\ b.head = results[i].parent /\ b.seed = results[i].seed

(* A branch leaves its head only for a child of it, except at a review or  *)
(* a restart: no result moves another branch, and none is skipped over.    *)
HeadsFollowChildren ==
  [][pc \notin {"starting", "planting", "checkpoint", "reseeding"} /\ pc' # "starting" =>
       \A b \in branches : \E c \in branches' :
         c.id = b.id /\ (c.head = b.head \/ tree'.nodes[c.head].parent = b.head)]_vars

(* In a session that never crashed, best_policy.c holds the best node's    *)
(* code whenever the coordinator is between rounds.                        *)
BestPolicyWritten ==
  crashes = 0 /\ pc \in {"round", "checkpoint", "reseeding", "done"} /\ tree.best # NoNode =>
    policyFile = [state |-> "whole", score |-> BestScoreOf(tree)]

(* Across crashes and resumed sessions, a readable best_policy.c is never  *)
(* worse than the best node of the saved tree.                             *)
BestPolicyNotBehind ==
  Resume /\ policyFile.state = "whole" /\ treeFile.state = "whole" /\ treeFile.tree.best # NoNode
    => policyFile.score >= BestScoreOf(treeFile.tree)

(* A session always ends: no failed step and no branch or whole frontier   *)
(* that a review killed leaves the coordinator waiting.                    *)
SessionEnds == <>(pc \in Ended)

(* Crashes and resumed sessions included, the tree in memory, its best and *)
(* the saved tree behave as ChampionArchive promises: the best is exactly  *)
(* the champion by definition, a resumed session knows all that was saved, *)
(* and no save ever drops an entry that an earlier save held.  It holds of *)
(* sessions that resume; a session without --resume replaces the file.     *)
LogOf(t) == [n \in Ids(t) |-> [score |-> t.nodes[n].score, eligible |-> Eligible(t.nodes[n])]]

Archive == INSTANCE ChampionArchive WITH
  log <- LogOf(tree), champion <- tree.best,
  committed <- LogOf(treeFile.tree), readable <- treeFile.state # "torn"

ArchiveKept == Archive!Spec
=============================================================================
