# Verification of MemEvolve

MemEvolve evolves page-cache eviction policies (BPF programs) with a language
model.  A coordinator keeps a tree of policies and a handful of branches that
walk down it; every round each branch asks the model for a mutation, compiles
it, has a worker run a benchmark with it and reports a score; the coordinator
stitches the results into the tree, and now and then asks a reviewer model to
kill, move and spawn branches.  This directory models that system in TLA+,
model-checks the models with TLC and proves theorems about them with TLAPS.

Paths below are relative to `src/cache_policy_evolution/`.

## The system

| Part | State | Operations | Hard about it |
|---|---|---|---|
| Evolution tree, `evolution/tree.py` | nodes with parent, children, depth, score, error; roots; current; best | `add_node`, `get_frontier`, `save`, `load` | the best is kept incrementally; the file is rewritten in place |
| Coordinator, `evolution/loop.py: evolve` | tree, branches, next branch number, best score written, two files | plant or resume, round, stitch, write best, save, review, reseed | results in any order; steps that raise; crashes between and inside the file writes |
| Branch step, `evolution/branch.py: step_branch` | the branch's conversation; the shared `policies/` directory; snapshot binaries | prompt, model call, compile under a lock, snapshot, evaluate | one directory for all threads; timeouts that leave processes behind; a conversation built from what earlier steps left |
| Frontier reviewer, `evolution/frontier.py` | none | one review of all branches | any reply, also none and malformed ones |
| Planner, `evolution/planner.py` | none | `pick_seeds`, `load_seeds` | any reply; must always give a full set of assignments |
| Views of the tree, `evolution/tree.py: to_summary`, `tools/view_tree.py`, `src/evolution_analyzer/` | none | ranking, dead ends, markers; picture; page with its layout | must agree on the best node; scores that are no measurements |
| Calibration and normalisation, `evolution/normalization.py`, `loop.py: calibrate` | running mean and variance per probe; a JSON file | update, score, save, load; parallel baseline runs | concurrent runs, partial failure, what an interrupted calibration leaves |
| Worker client, `evolution/worker.py` | none | `evaluate`, `setup`, `preflight` over HTTP or locally | client timeouts against server timeouts, retries |
| Worker server, `worker_server.py` | evaluation lock, uploaded binary | `/health`, `/preflight`, `/setup`, `/evaluate` | one evaluation at a time per host |
| Evaluator, `evaluator/evaluate.py`, `probes.py`, `eval/*/run_with_policy.sh` | cgroup, attached policy (loader process), pid and ready files | warm-up, measure, single phase, probes | a process that outlives the script that started it; timeouts |
| Compilation, `evaluator/compile.py`, `targets/` | the policy's source and output files | split, write, make | a killed `make` and its children |
| Policies, `seeds/*.c`, `policy_lib/` | the kernel's lists and maps, ghost entries, counters | page added, accessed, evicted, candidates to evict | counters of two queues, pages that move between them, signed and unsigned sizes |
| Command line, `evolve.py` | none | configuration, preflight of the workers, one call of `evolve` or `calibrate` | one worker that fails its check stops the run |
| Chat gateway, `src/claude_api/server.py`; set-up scripts and demos | - | HTTP; installation | - |

How they interact: `evolve` calls the planner once, calls `step_branch` in a
thread per branch per round, and shares with those threads the tree (which they
only read), the branch objects (each thread changes its own) and the compile
lock.  `step_branch` calls the model, `compile_policy` and a worker.  A worker
is a direct call of the evaluator or an HTTP request to a worker server, which
runs the evaluator under its lock.  The evaluator runs the benchmark script,
and the script starts and stops the policy's loader.

## Modules

| Module | Models | Source |
|---|---|---|
| `EvolutionTree` | the tree as a value: `AddNode`, the queries, what a sound tree is; node ids are positions in insertion order | `evolution/tree.py` |
| `PlannedLoop` | `EvolutionLoop` with the planning of its branches: the planner's replies, padding and fallback, the configured seeds | `evolution/planner.py`, `evolution/loop.py` |
| `TreeViews` | what is shown of a tree: ranking, dead ends, markers, colours, the layout of the page | `evolution/tree.py`, `evolution/frontier.py`, `tools/view_tree.py`, `src/evolution_analyzer/visualize_evolution_tree.py` |
| `EvolutionLoop` | the coordinator: one action per step of `evolve`, the step threads as the set `running`, the two files, crashes | `evolution/loop.py`, `evolution/frontier.py`, `evolution/branch.py` |
| `ChampionArchive` | what the coordinator promises, in five actions | - |
| `BranchSteps` | the threads that run `step_branch` over one compile directory | `evolution/branch.py`, `evaluator/compile.py`, `targets/compilation.py` |
| `BranchChat` | the conversation of one branch over rounds, reviews and restarts | `evolution/branch.py`, `evolution/frontier.py` |
| `WorkerHost` | one worker host: handlers and lock, evaluator, launch script, loader, workload | `worker_server.py`, `evaluator/evaluate.py`, `eval/scan_thrash/run_with_policy.sh` |
| `WorkerPool` | `WorkerHost` with those who ask it: the preflight, rounds of calls, the server's handler around the lock, the probes | `evolve.py`, `evolution/worker.py`, `worker_server.py`, `evaluator/probes.py` |
| `Calibration` | the normalisation statistics over processes that die | `evolution/loop.py`, `evolution/normalization.py` |
| `Scoring` | `Calibration` with numbers: readings, running mean and deviations, scores | `evolution/normalization.py`, `evaluator/probes.py`, `evolution/loop.py` |
| `Fractions` | exact rational numbers, for the code's floating point | - |
| `S3Fifo` | the seed policy with two queues, ghost entries and counters | `seeds/s3_fifo.c` |
| `MCEvolutionLoop`, `MCPlannedLoop`, `MCWorkerPool`, `MCScoring`, `MCS3Fifo` | the values a configuration file cannot write | - |
| `EvolutionLoop_proofs` (with the tree and the planner), `LoopOutputs_proofs` (files and views), `BranchSteps_proofs`, `BranchChat_proofs`, `WorkerPool_proofs` (with the host), `Fractions_proofs`, `Scoring_proofs` (with `Calibration`), `S3Fifo_proofs` | the theorems | - |

`EvolutionLoop` extends `EvolutionTree` and is shown to implement
`ChampionArchive`.  `PlannedLoop`, `WorkerPool` and `Scoring` extend
`EvolutionLoop`, `WorkerHost` and `Calibration` with a neighbour each, and are
proved to implement what they extend; their actions are the imported ones with
what the neighbour adds.  The other modules model one part each, with what their
neighbours can do to them as nondeterminism: `EvolutionLoop` takes the result
of a step as any result, or an exception; `BranchSteps` shows where a result's
code comes from; `WorkerHost` and `WorkerPool` where its measurement comes from;
`Calibration` and `Scoring` how that becomes a score.

### EvolutionLoop

`pc` is the main thread: `starting` (fresh or resumed), `planting` (one seed
assignment after the other), `round`, the collection of results, the stitching
(one result after the other), the two steps of writing `best_policy.c`, the two
of `evolution_tree.json`, `checkpoint`, `reseeding`, `done`.  A file is written
in two steps because `write_text` and `json.dump` truncate before they write: a
crash in between leaves it `torn`.  A branch is its id, head and seed.  A step
returns a result with any score and error flag, or raises.  The review kills,
moves and spawns any branches within what `run_frontier_checkpoint` accepts.
Scores are a set of integers; a node whose evaluation failed and a seed root
carry what the code gives them.

### PlannedLoop

In `EvolutionLoop` any seed may be planted, or planting may fail.  Here `plan`
holds the assignments of `_choose_branches`: the planner's, made of any list of
known seeds that the filter of `pick_seeds` leaves, padded with the fallback; or
the configured seeds, cycled.  A reply of a shape the code does not expect
raises.  Planting then follows the plan, in order, and fails at a seed that is
not among those to evolve.  `UsePlanner` has both values where the configuration
may change between sessions.

### TreeViews

Operators on a tree value, and properties that state them of every tree a
session reaches between two rounds, where the reviewer and the viewers read it.
Children keep the order of insertion, so the set of children in `EvolutionTree`
and the number of a node give the list, and the walk over the page's tree meets
nodes in the order in which their paths part.  The ranking is given by the place of each node: one
more than the nodes that rank before it.  Positions are exact; the page rounds
them to three decimals.

### BranchSteps

A thread goes through reply, lock, writing the sources, building the object and
the binary, snapshot, unlock and evaluation.  The directory is three variables
(`source`, `object`, `binary`), each holding whose code it has.  A build that
times out kills `make` and not the compiler below it; the compiler is an
element of `orphans` that may write its output later.

### BranchChat

A policy is a number and a turn of the chat is who speaks, which code it shows
in full and which attempt it is about.  The trimming of old code, the message
of the first round, the feedback, the pivot and the fresh conversations of
spawned, reseeded and resumed branches are the code's.

### WorkerHost

Handler (`pc`), script (`script`), loader and workload are separate processes
per request.  A timeout may strike whenever the script runs and kills the
script only.  `Locked = FALSE` is a `LocalWorker`.  One assumption is about
time: a loader has attached, or has failed to and exited, when the script looks
for it one second later (`run_with_policy.sh:158`).  `exposed` remembers that a
workload ran without its policy.

### WorkerPool

A run is the preflight, then rounds; a round is over when all its calls are.  A
call is asked, waits, and is answered or has failed: its script is missing, the
host refuses it or is not there, it exceeds the client's timeout, or the answer
is lost.  The handler goes on in any case, and may hold the host when the next
round's calls come.  `Sent` tells an HTTP worker from a `LocalWorker`, which is
the caller's own thread.  A shared probe object remembers in `baseline` who took
its `pre()`, `results` is whose results the results file holds, and `measured`
what `post()` made of them.  `cgroup_iostat` stands for every probe with a
baseline: they are treated alike.

The results file is the one a `json_extract` probe reads, at an absolute path,
so that all evaluations of the host share it (a relative path is in the scratch
directory of one evaluation).  As in `scan_thrash`, the workload writes it as
its last act: before the script looks at the loader again, so also when the
score then turns out invalid, and also when a timeout has killed the script and
the workload runs on.  It may instead end before that, or leave the file it
opened empty.  `pre()` removes the file, or fails to, which the code swallows;
`kept` remembers for whom the old file stayed.

### Calibration

A session is a process (`evolve.py CONFIG` or `--calibrate N`, with N the
configured number of runs).  The statistics are the set of samples they were
updated with; the pool is three sets of jobs; saving is two steps, the writing
of the temporary file and the replacement.  A run reports a set of probes out of
`Reported`, or fails.  Which worker a job is bound to is left out: workers may
answer in any order.

### Scoring

Every action is one of `Calibration` with the numbers that go with it:
`welford` is what the process has in memory, `welfordFile` what
`normalization.json` holds, `frozenWelford` the copy a round is scored with.
What a seed or branch reads is a constant (`Reading`), so that a run adds no
numbers of its own.  Means and deviations are exact fractions; a z-score is
known by its sign and its square, so that no root is taken, and `tanh` is a step
function of it: odd and monotone, with steps at 0, 1, 2 and 19.  From about 19 on
the floating-point `tanh` is exactly 1, and so is the last step: a score may be 1
or -1, and readings that far off are no longer told apart.

### S3Fifo

`folio_added` is three steps (count, queue, record), `folio_accessed` two (the
increment, and the store that caps the frequency), `evict_folios` one step per
pass over a queue and per access to a counter, everything else one step.  A
pass is atomic because the kernel iterates a list under its lock; it may fail
between any two pages (`SmallFails`, `MainFails`), and `evict_small` then returns
before it adjusts or resets a counter, `evict_main` before its other passes.
External and
modelled from their use: the lists (adding a listed page fails, an evicted page
is taken off), `bpf_cache_ext_list_iterate_extended` (visits from the head until
enough is proposed; proposed and continued pages go to the tails the options
name), the maps, which pages are busy, and when an iteration fails.  Pages that are not
watched never enter a queue and are left out.  `hot` has the pages whose
frequency is above the cap and about to be stored; `overwritten` remembers that
the separate store which resets a negative counter undid a concurrent update;
`failures` counts additions that were counted and not queued or recorded, and
`uncounted` the pages that failed passes moved and did not count.

## Runs

| Run | Question | Expect |
|---|---|---|
| `LoopReview` | Do tree, branches, pending results and `best_policy.c` stay consistent through rounds, failures and a review, do all views agree on the best, and does the session end, with every branch killed as well? | holds |
| `LoopRestart` | Does the coordinator with its planner implement `ChampionArchive` through two crashes, does every branch get its assignment, and is the page's layout a tree? | holds |
| `PlannerBaseline` | Does a run proceed when the planner fails (`planner.py:140`)? | violated |
| `StepsOwn` | Is every snapshot and score the branch's own code, and does every round end? | holds |
| `StepsOrphan` | The same when a build timed out (`compile.py:131`) | violated |
| `ChatTurns` | Is what the model is told about the branch's own lineage and last attempt? | holds |
| `ChatResume` | Is "Current code" the code of the node (`branch.py:130`)? | violated |
| `HostSplit` | Is a valid score a measurement under the policy, alone and against its own baseline; is nothing left behind; does the run end and the host answer, whatever becomes of the calls? | holds |
| `LocalBranches` | Is a run without workers serial (`loop.py:5`)? | violated |
| `CalibRun` | Are samples kept, logs behind them, statistics exact, rounds scored alike and in the order of the readings, and has a run of every seed that compiled succeeded when evolution follows the calibration? | holds |
| `ScoreMissing` | Does a probe without results add nothing to the score (`probes.py:267`)? | violated |
| `S3Reclaim` | Are the queues sound, the counters wrong on one side only, by no more than what failed, and is the main queue reclaimed in the end if nothing failed? | holds |

The five violations are disagreements between the code and its own comments;
`PROJECT.json` quotes them.

### Bounds

* `LoopReview`: one branch that the review may turn into three, two seeds, two
  rounds with a review between them.  Every kind of review decision is followed
  by a round that would expose it.  Two scores, one equal to a seed root's, make
  better, worse and equal results happen; two rounds give the three nodes in a
  row a dead end needs, a best one below a failed one among them.  The review
  may kill the last branch, with a best node to reseed from and without one:
  `SessionEnds` is about a round of what is left, a reseeded branch or the end by
  a KeyError.  There is no crash and no resumed session here (`OneSessionSpec`:
  `FairSpec` without the actions `MaxCrashes = 0` and `Resume = FALSE` disable).
* `LoopRestart`: two branches, one round per session and two crashes, so that a
  crash also hits a resumed session and a save that replaces an earlier one.
  Two seed files, one of them the baseline: the planner can assign what cannot
  be planted, and replies of zero, one and two valid entries all happen.  The
  resumed sessions give lineages of different depth to lay out.
* `PlannerBaseline`: the four names `fifo`, `lru`, `mru`, `noop` of the seeds that
  the fallback cycles and the four branches of the shipped configuration.
* `StepsOwn`, `StepsOrphan`: two threads, since a third would only wait for the
  same lock; `StepsOwn` has two rounds, with files of the first in the directory
  when the second begins, `StepsOrphan` needs one.
* `ChatTurns`, `ChatResume`: four rounds, a review after the second, one restart:
  a reply has to become old before its code is trimmed.
* `HostSplit`: two workers in the preflight; two requests, one in two phases in
  the first round and one in a single phase in the second.  The first may be
  given up and still hold the host, its loader or its workload when the second
  comes, which is every overlap two rounds have: a third request would wait for
  the same lock.  `LocalBranches`: two requests of one round without the lock.
* `CalibRun`, `ScoreMissing`: two processes of two seeds, one run each, on two
  workers; two rounds of two branches; both baselines.  The second process meets
  every state of the files the first can leave.  One probe is minimised and
  weighs twice as much as the other, which is maximised and may be missing from
  a run or from a branch's results file; the seeds differ in both readings, so
  that two samples, `MinN`, have a deviation.  No reading is 19 deviations off;
  the last step of `tanh` is covered by the proof.
* `S3Reclaim`: two pages, one reclaiming CPU beside the callbacks that add,
  access and evict, three additions, requests of up to two pages.  `CacheSize`
  15 makes the small queue's threshold one page; `SizeRange` 256 stands for the
  range of `size_t`, far from what the counters reach; a frequency is not counted
  further down than `FreqFloor`, below which no comparison tells values apart.
  How often a pass fails is not bounded.  Reclaim on several CPUs is in the proof.

### Fairness

Liveness is stated under weak fairness only.  `LoopReview` assumes it of the
main thread and of the steps of a round: a step ends because the model client,
the build and the worker have timeouts.  `StepsOwn` assumes it of every thread
and of the next round; weak fairness is enough for the lock, since a round takes
it once per branch and it is free for good once the others are through.
`HostSplit` assumes it of the coordinator, of the handler, of the client's
timeout and of the script's, not of the network, the script, the loader or the
workload: a request may never arrive, an answer never be heard, the others hang.  `CalibRun` assumes it of the main thread, of the
pool and of every evaluation; it is the fairness of `Calibration`, over its
variables alone, as the numbers never hold a step up.  `S3Reclaim` assumes that a callback that has
begun ends and that reclaim goes on, as it does under memory pressure.  No
fairness keeps a pass from failing: `MainNotStarved` excludes by its own words
behaviours in which passes over the small queue fail again and again, and those
in which a failed pass has moved pages, for reclaim may then stay off the main
queue (see the limits below).

## Proofs

All theorems hold for every value of the constants allowed by the modules'
ASSUMEs: any number of nodes, branches, rounds, requests, pages and crashes.
TLC finds every inductive invariant below to hold on the configuration of its
module's run as well.

### The tree and the coordinator (`EvolutionLoop_proofs`)

* `AddNodeSound`: `add_node` keeps a sound tree sound.  The best is kept
  incrementally; soundness says it is the earliest of the best among error-free
  evaluated nodes, and the proof splits on whether the new node beats it.
* `LoopInvariant`: `IInv`, the conjunction of `TypeOK`, `TreeSound`,
  `BranchesSound`, `ResultsCurrent` and what they need to be inductive: nothing
  of a session is known before it starts; while seeds are planted a branch's
  number is below the number of roots; steps and results exist only within a
  round; a result is of a branch whose step is over and who still stands where
  it began, and no branch has two; there is a best node while it is written.
  `TypeCorrect`, `TreesStaySound`, `BranchesStaySound` and `ResultsStayCurrent`
  follow.

### Its files and the views of its tree (`LoopOutputs_proofs`)

* `FilesInvariant`: `FilesInv` holds on top of `IInv`.  `Known`: the score of
  any node that may be best is one a step reported.  `Ranked`: `bestScore` is
  the best node's, except while results are stitched and before the new best is
  noticed.  `FirstSession`: before any crash the first start finds no tree, and
  `best_policy.c` is what was written last.  `Rewriting`: a file under way is
  torn.  `PolicyAhead`: a readable policy is no worse than `bestScore` and than
  the saved tree's best.  `Committed`: a session that has loaded the saved tree
  extends it.  `BestIsWritten` (`BestPolicyWritten`) and `BestNeverBehind`
  (`BestPolicyNotBehind`) follow.  The order of the code matters here: the
  policy is written before the tree, so a crash in between leaves it ahead.
* `HeadsStayOnLine`: the action property `HeadsFollowChildren`.
* `LoopKeepsArchive`: every step of the coordinator is a step of
  `ChampionArchive` or leaves it alone, so `ArchiveKept` holds.  A round's
  stitching is one archive step per result; a save commits the log; a crash
  falls back to what was committed.
* `ViewsAgree` (`OneBest`) and `BestIsSpared` (`DeadEndsSpareBest`): from the
  soundness of the tree.  `EveryNodeListed`: the places of the ranking are a
  bijection, so the ranked list has every node once.  `PathGrows` and
  `PathLeads`: `get_branch` is the parent's path and the node, and begins at the
  root of its seed.  A dead end below a parent that ran well would have a
  parent at least as good and older, which would be the best itself.
* `TreeIsDrawn` (`LayoutSound`): the walk's order is transitive, and what is under
  a node comes before all that is under a later one (`WalkedUnder`), so leaves
  are a unit apart and those of two lineages one and a half (`LeafGaps`).  A
  parent stands at the mean of its children, which is between two of them
  (`MeanBounded`); hence every node stands between two leaves under it
  (`StandsBetween`), and two nodes of one depth, with no leaf in common, keep the
  distance of their leaves.

### Planning (`EvolutionLoop_proofs`)

* `PlannedRefinesLoop`: a planned coordinator is a coordinator, so
  `LoopInvariant` holds of it.  `PlansAreFulfilled` rests on it: padding always
  gives `NumBranches` entries, roots are planted in the order of the plan, and
  nodes stitched later are no roots and come behind them.

### A branch's step and conversation (`BranchSteps_proofs`, `BranchChat_proofs`)

* `StepsInvariant`: whoever compiles holds the lock, the files a build needs are
  there, and without a timeout they are the holder's.  `StepsTypeCorrect` and
  `SnapshotsAreOwn` follow.
* `ChatInvariant`: attempts are numbered upwards, and the one under way has no
  node yet (`Numbered`); while a step compiles, the conversation ends with the
  reply it compiles (`Answered`); the last reply shows the code it proposed if the
  node its attempt made has that code (`ShownAsMade`); if the last attempt of the conversation made a
  node, the branch stands on one of it (`StandsOnLast`); when the model is asked,
  older code has been elided and the feedback is about the head (`Asked`).
  `ChatTypeCorrect`, `ToldOnlyOfItsLineage` (`ConversationFollowsLineage`),
  `LastAttemptShown` (`LastAttemptInView`) and `FeedbackIsOfLast`
  (`FeedbackOfLastResult`) follow.  Lineages are a recursive function; that it
  exists, and that a new node changes no older lineage, is proved for all lists
  of nodes.

### Workers (`WorkerPool_proofs`)

* `HostInvariant`: a request has no loader before its script starts one; a
  workload without a policy means a dead loader, which the script has yet to
  look at; a workload without its script was left by a timeout; a handler under
  way holds the lock; past the teardown of two phases no recorded loader lives.
  `HostTypeCorrect`, `ValidScores`, `LockedMeasuresAlone` (with the lock) and
  `LoaderTakenDown` follow.
* `PoolRefinesHost`: every step of the pool is a step of the host or leaves it
  alone, so the host's theorems carry over.  `PoolInvariant` adds how far call,
  handler and copy are: a handler is launched only past the lock, a copy exists
  from the arrival to the reply.  `PoolTypeCorrect` and `PoolLeavesNothing`
  follow from both.  `LockedMeasurementIsOwn` needs more: between an evaluation's
  `pre()` and `post()` it holds the lock, all baselines are its own, and the
  results file holds its own results or none, unless the file could not be
  removed or what it holds was written by the workload of a script that a timeout
  had killed (`PreType`, `MayRead`).

### Calibration and scores (`Scoring_proofs`, `Fractions_proofs`)

* `CalibInvariant`: what a process knows contains what was saved, and equals it
  between rounds; the result in hand is saved before it is logged; every seed
  that compiled and is counted as successful has a run that shows it; the results
  of a round were scored with the copy made for it.  `CalibTypeCorrect`, `LogStaysBehind`,
  `EvolutionIsSmokeTested`, `MemoryIsSaved`, `ResultsScoredAlike` and
  `NoSampleLost` follow.
* `ScoringRefinesCalibration`: `Scoring` with its fairness implies `Calibration`
  with its fairness, so every property of `Calibration`, `CalibrationEnds` among
  them, holds of it; `ScoringLosesNoSample` is one.
* `ScoresKeepRank` (`ScoresRank`) needs little of the behaviour and much of the
  arithmetic.  `NumbersSound`: the statistics are fractions, no scores are left
  outside the scoring of a round, and every score there is that of its result
  with the one copy of the round.  The rest is about the operators: cancelling to
  lowest terms keeps order and sign (`Cancelled`, `LowestOrders`), the operations
  keep the order (`PlusOrders`, `MinusOrders`, `ScaleOrders`, `DividedOrders`), the
  signed step of `tanh` is monotone in the deviation (`SignedStepsOrdered`), a sum
  over any finite set of probes does not grow when no part does (`TotalsOrdered`),
  and the weights that are divided by do not add up to 0 (`WeightsAboveZero`).  It
  rests on there being finitely many probes, and on nothing of the readings, the
  weights or `MinN`.
* `StatisticsExact` (`WelfordExact`): Welford's update of the statistics of n
  samples gives those of n + 1 (`WelfordIsBatch`), since fractions of equal value
  have the same lowest terms (`SameLowest`) and a sum over a finite set is the
  same whichever element is taken first (`SumAdds`).  So the numbers follow the
  set of samples, unless a sample counts twice: `Distinct` says that no job is in
  two places, a job has one result and a round one of each branch, and no job or
  result is left of a sample that is held in memory or in the file.  That needs
  a run to be of a seed or of a branch, not of both.

### The policy (`S3Fifo_proofs`)

* `S3Invariant`: `QueuesSound` alone is not inductive, for a queued page may have
  no metadata yet: `QueuedOrRecorded` says that its `folio_added` is about to
  record it, on the queue it was put on, and `AddsCounted` that each such call,
  failed or under way, has been counted.  The counters are inductive only with
  what is under way on both sides: `MainCounted` bounds the length of the main
  queue and what is arriving there by `main_list_size`, what passes have moved
  and not yet added, and what failed passes moved; `SmallCounted` bounds
  `small_list_size` by the length of the small queue, what is arriving, what
  passes have moved and not yet taken off, the failed additions, and what failed
  passes moved.  `ResetGrows`: the store that resets a negative
  counter only raises it, unless it overwrites a concurrent update.
  `S3TypeCorrect`, `QueuesStaySound` (`QueuesSound`) and `SizesStayBounded`
  (`SizesBound`) follow.  The proof needs that there are finitely many pages and
  CPUs, and what a pass over a queue of any length keeps, moves and leaves.

### How data is reasoned about

The library's induction theorems take an operator as a parameter, which the
provers cannot instantiate.  Where a recursive function had to be reasoned
about for all inputs (the lineages of `BranchChat`, the paths and positions of
`TreeViews`, the passes of `S3Fifo`, the sums of `Fractions`), the proof takes the
least number at which the claim fails, which exists because `<` on `Nat` is
well-founded (`LeastNumber`).

### Only model-checked

* Liveness (`SessionEnds`, `LastRoundEnds`, `RunEnds`, `ReceivedAnswered`,
  `CalibrationEnds`, `MainNotStarved`): fairness and ENABLED are beyond the
  prover.  That `Scoring` inherits `CalibrationEnds` is proved.
* The properties of the runs that are expected to be violated.

## Limits of the code the models show or rest on

* A timeout kills the launch script with SIGKILL.  In a single phase its trap does
  not run and the loader stays attached, though `evaluate.py:397` says the trap
  takes care of it; the workload runs on; a loader whose script died before
  writing its pid leaks.  `MeasuredAlone` and `NothingLeft` name these exceptions.
  The workload that runs on may also write the results file while a later
  evaluation is measured, whose probe then reads results that are not its own;
  so it does when `pre()` could not remove an old file and its own workload wrote
  none, for the error is swallowed (`probes.py:300`).  `MeasurementIsOwn` names
  both.
* The review may kill every branch before any step succeeded.  The reseeding
  "from best node" (`loop.py:654`) then looks up `tree.nodes[None]`, a KeyError
  that ends the run; `ReseedRaises` is that action.
* A planner's reply that is a JSON list, or has entries that are no objects,
  raises outside the net of `pick_seeds`; `PlanningRaises` is that action.
* When a reply has no code, the parent's code is reused, but the reply that
  contains it is no longer the last one and its code is elided
  (`branch.py:246`): the next prompt asks for the complete modified code of a
  policy it does not show.
* `small_list_size` and `main_list_size` are not the lengths of the queues:
  `folio_added` does not undo its count when adding or recording fails, and busy
  pages go to the main queue without being marked.  A pass that fails midway
  leaves `small_list_size` too high and `main_list_size` too low for good
  (`s3_fifo.c:145-149`), which can keep reclaim off the main queue while the small
  one is empty, and leaves a negative counter, which compares as huge, until a
  pass succeeds.  `SizesBound` says how far
  they may be off.
* The smoke test covers less than "any seed".  A seed that does not compile is
  left out of the calibration with a warning (`loop.py:215-218`), and evolution
  begins without a run of it.  And an aborted or interrupted calibration counts
  for the next start: evolution is refused while a seed never ran
  (`loop.py:426-433`), but the samples of the other seeds are saved, and
  `have_state` (`loop.py:419`) finds enough of them to skip the calibration next
  time.  `SmokeTested` is about the process that calibrates.
* Rankings and dead ends use the score of nodes that were never evaluated or
  failed, which is 0.0: `OneBest` and `DeadEndsSpareBest` say how far that reaches.
* `NormalizationState.update` ignores values that are not finite, but `score` does
  not; a launch script that wrote NaN would give a score no later one beats.

## Not modelled

* The chat gateway (`src/claude_api/server.py`): a stateless translation of one
  request into one subprocess; its answers are any reply elsewhere.
* `targets/base.py` and `targets/cache_ext.py`: a legacy pipeline that imports
  `benchmarks.runner`, which is not in the repository; nothing calls it.
* Set-up scripts, deployment and demos: installation, and programs around a run.
* The prompts' and pages' wording, the truncation of `to_summary`, the page's
  HTML, styles and interactive script, the launch scripts of the other workloads
  (they share the structure of `scan_thrash`), the other seed policies, the
  parsing of configuration and cgroup files.
* Numbers that are not finite, rounding, `squash = "none"`, `--no-calibrate`.

The component list in `PROJECT.json` gives the status of each part.

## Plan

Done: the loop and its tree, steps, conversation, host, calibration and
`s3_fifo`; then the planner, the pool of callers and the probes, the scores, and
the views.

All safety invariants and action properties of the runs that hold are proved for
all constants, and so are the refinement of `ChampionArchive` and those of the
composed modules.

Next, in this order:

1. `S3Fifo` generalised to the other seed with two queues
   (`vulcan_frequency.c`); a module for the seeds with one list (`lru`, `mru`,
   `fifo`, `scan_resist`, `vulcan_recency`, `vulcan_window`).
2. The ready file and stamps of `eval/twitter_leveldb_ro/run_with_policy.sh`;
   calibration jobs bound to one worker, in `WorkerPool`.
