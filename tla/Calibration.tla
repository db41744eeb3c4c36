------------------------------ MODULE Calibration ------------------------------
(***************************************************************************)
(* The normalisation statistics (evolution/normalization.py): how          *)
(* calibrate() of evolution/loop.py collects and persists them, when       *)
(* evolve() trusts what an earlier session left, and with which statistics *)
(* the results of a round are scored.                                      *)
(*                                                                         *)
(* A session is one process: `evolve.py CONFIG`, or `--calibrate N`, which *)
(* only calibrates.  It may die anywhere, between two steps of saving too. *)
(* The statistics are the set of samples they were updated with: their     *)
(* means and deviations are functions of it, and so is a score.  Workers   *)
(* evaluate in any order, so which worker a job is bound to is left out.   *)
(***************************************************************************)
EXTENDS Naturals, FiniteSets, FiniteSetsExt

CONSTANTS
  Seeds,         (* the seeds to calibrate with                            *)
  Branches,      (* whose results are scored                               *)
  Probes,        (* those whose values are normalised                      *)
  Reported,      (* which of them a run that succeeded may report          *)
  NumRuns,       (* calibrate_runs                                         *)
  NumWorkers,    (* threads of the pool                                    *)
  MaxRounds,     (* bound: rounds of a session                             *)
  MaxSessions    (* bound: processes started                               *)

ASSUME CalibrationAssumption ==
  /\ NumRuns \in Nat \ {0} /\ NumWorkers \in Nat \ {0}
  /\ MaxRounds \in Nat /\ MaxSessions \in Nat
  /\ Reported \subseteq SUBSET Probes /\ Seeds \cap Branches = {}

VARIABLES
  session,      (* processes started so far                                *)
  pc,           (* where the main thread of the process is                 *)
  updating,     (* update_during_evolution                                 *)
  evolves,      (* whether evolution follows, or this is --calibrate       *)
  normState,    (* evolve's norm_state, or calibrate's while it runs       *)
  normFile,     (* normalization.json                                      *)
  waiting,      (* jobs the pool has not begun                             *)
  running,      (* jobs a worker evaluates                                 *)
  finished,     (* results the main thread has not looked at               *)
  results,      (* those it looks at: one of the pool, or those of a round *)
  perSeed,      (* per_seed                                                *)
  runsLog,      (* calibration_runs.jsonl                                  *)
  round,        (* round_num                                               *)
  frozen,       (* scoring_state                                           *)
  scored        (* the statistics results of a round were scored with      *)

pool == <<waiting, running, finished>>
calibration == <<pool, results, perSeed, runsLog>>
evolution == <<round, frozen, scored>>
vars == <<session, pc, updating, evolves, normState, normFile, calibration, evolution>>

Job == Seeds \X (1 .. NumRuns)
Sample == [session : Nat, source : Seeds \cup Branches, run : Nat, probes : SUBSET Probes]
Result == [sample : Sample, ok : BOOLEAN]

NoFile == [whole |-> FALSE, samples |-> {}]

NoSeeds == [s \in {} |-> s]

Init ==
  /\ session = 0 /\ pc = "off" /\ updating \in BOOLEAN /\ evolves = FALSE
  /\ normState = {} /\ normFile = NoFile
  /\ waiting = {} /\ running = {} /\ finished = {}
  /\ results = {} /\ perSeed = NoSeeds /\ runsLog = {}
  /\ round = 0 /\ frozen = {} /\ scored = {}

(* The process ends, by itself or not, and forgets. *)
Ends ==
  /\ pc' = "off"
  /\ normState' = {}
  /\ waiting' = {} /\ running' = {} /\ finished' = {}
  /\ results' = {} /\ perSeed' = NoSeeds
  /\ round' = 0 /\ frozen' = {} /\ scored' = {}
  /\ UNCHANGED <<session, updating, evolves, runsLog>>

-----------------------------------------------------------------------------
(* The statistics. *)

(* How many samples a probe has. *)
N(stats, p) == Cardinality({s \in stats : p \in s.probes})
Known(stats) == UNION {s.probes : s \in stats}

(* Values that are missing or not finite, or only recorded, do not count;  *)
(* a result without any leaves the statistics as they were.                *)
Updated(stats, r) == IF r.ok /\ r.sample.probes # {} THEN stats \cup {r.sample} ELSE stats

(* A file that does not parse counts for nothing. *)
Loaded == IF normFile.whole THEN normFile.samples ELSE {}

(* Mutant of WhileWriting: the file is written in place. *)
TornWhileWriting == [normFile EXCEPT !.whole = FALSE]

(* While the new content is written it goes to another file. *)
WhileWriting == normFile

Saved == [whole |-> TRUE, samples |-> normState]

Write(from, to) ==
  /\ pc = from /\ pc' = to
  /\ normFile' = WhileWriting
  /\ UNCHANGED <<session, updating, evolves, normState, calibration, evolution>>

Replace(from, to) ==
  /\ pc = from /\ pc' = to
  /\ normFile' = Saved
  /\ UNCHANGED <<session, updating, evolves, normState, calibration, evolution>>

-----------------------------------------------------------------------------
(* The beginning of a session. *)

(* Whether every probe that is known has been sampled often enough.        *)
HaveState == Known(Loaded) # {} /\ \A p \in Known(Loaded) : N(Loaded, p) >= NumRuns

StartSession ==
  /\ pc = "off" /\ session < MaxSessions
  /\ session' = session + 1
  /\ normState' = Loaded
  /\ UNCHANGED <<updating, normFile, results, evolution>>

SkipCalibration ==
  /\ HaveState
  /\ StartSession
  /\ evolves' = TRUE
  /\ pc' = "evolving"
  /\ UNCHANGED <<pool, perSeed, runsLog>>

(* Seeds that do not compile are left out of the calibration; without any  *)
(* seed there is none, and no session.                                     *)
Calibrate ==
  /\ StartSession
  /\ evolves' \in IF HaveState THEN {FALSE} ELSE BOOLEAN
  /\ \E compiled \in (SUBSET Seeds) \ {{}} :
       /\ waiting' = compiled \X (1 .. NumRuns)
       /\ perSeed' = [s \in compiled |-> [attempted |-> 0, succeeded |-> 0]]
  /\ runsLog' = {}
  /\ pc' = "collecting"
  /\ UNCHANGED <<running, finished>>

-----------------------------------------------------------------------------
(* The pool of calibrate(). *)

Begin(job) ==
  /\ job \in waiting /\ Cardinality(running) < NumWorkers
  /\ waiting' = waiting \ {job}
  /\ running' = running \cup {job}
  /\ UNCHANGED <<session, pc, updating, evolves, normState, normFile, finished, results, perSeed,
                 runsLog, evolution>>

(* A worker that raises is a failed result like any other. *)
Finish(job) ==
  /\ job \in running
  /\ running' = running \ {job}
  /\ \E ok \in BOOLEAN, probes \in Reported :
       finished' = finished \cup
         {[ok |-> ok,
           sample |-> [session |-> session, source |-> job[1], run |-> job[2],
                       probes |-> IF ok THEN probes ELSE {}]]}
  /\ UNCHANGED <<session, pc, updating, evolves, normState, normFile, waiting, results, perSeed,
                 runsLog, evolution>>

(* Mutant of Succeeds: every run that came back counts. *)
SucceedsAnyway(r) == TRUE

Succeeds(r) == r.ok

(* Mutant of AfterUpdate: the statistics are not saved run by run. *)
AfterUpdateLater(r) == "logging"

AfterUpdate(r) == IF r.ok THEN "writing" ELSE "logging"

Collect ==
  /\ pc = "collecting"
  /\ \E r \in finished :
       /\ finished' = finished \ {r}
       /\ results' = {r}
       /\ perSeed' = [perSeed EXCEPT ![r.sample.source] =
            [attempted |-> @.attempted + 1,
             succeeded |-> @.succeeded + (IF Succeeds(r) THEN 1 ELSE 0)]]
       /\ normState' = Updated(normState, r)
       /\ pc' = AfterUpdate(r)
  /\ UNCHANGED <<session, updating, evolves, normFile, waiting, running, runsLog, evolution>>

Log ==
  /\ pc = "logging"
  /\ runsLog' = runsLog \cup results
  /\ results' = {}
  /\ pc' = "collecting"
  /\ UNCHANGED <<session, updating, evolves, normState, normFile, pool, perSeed, evolution>>

(* Mutant of AllCollected: also waits for the runs of seeds that did not   *)
(* compile.                                                                *)
AllSeedsCollected ==
  MapThenSumSet(LAMBDA s : perSeed[s].attempted, DOMAIN perSeed) = Cardinality(Job)

AllCollected == \A s \in DOMAIN perSeed : perSeed[s].attempted = NumRuns

Crashed == {s \in DOMAIN perSeed : perSeed[s].succeeded = 0}

(* Mutant of Reloaded: evolution goes on with what it loaded at first.     *)
NotReloaded == {s \in normState : s.session # session}

Reloaded == Loaded

(* The end of calibrate().  Before evolution every seed that compiled must *)
(* have run; the statistics that were saved are loaded again.              *)
Conclude ==
  /\ pc = "collecting" /\ AllCollected
  /\ IF evolves /\ Crashed = {}
       THEN /\ normState' = Reloaded
            /\ pc' = "evolving"
            /\ UNCHANGED <<session, updating, evolves, calibration, evolution>>
       ELSE Ends
  /\ UNCHANGED normFile

-----------------------------------------------------------------------------
(* The rounds of evolve(). *)

(* Mutant of ScoringState: results are scored with the running statistics. *)
RunningState == normState

(* The copy of the statistics made at the beginning of a round's results.  *)
ScoringState == frozen

(* Mutant of MoreRounds: one round too many. *)
MoreRoundsInclusive == round <= MaxRounds

MoreRounds == round < MaxRounds

(* The results of a round; a branch whose step raised has none. *)
BeginRound ==
  /\ pc = "evolving" /\ MoreRounds
  /\ round' = round + 1
  /\ frozen' = normState
  /\ \E returned \in SUBSET Branches :
       \E ok \in [returned -> BOOLEAN], probes \in [returned -> Reported] :
         results' =
           {[ok |-> ok[b],
             sample |-> [session |-> session, source |-> b, run |-> round',
                         probes |-> IF ok[b] THEN probes[b] ELSE {}]] : b \in returned}
  /\ pc' = "scoring"
  /\ UNCHANGED <<session, updating, evolves, normState, normFile, pool, perSeed, runsLog, scored>>

(* One result after the other, in the order in which they came. *)
Score ==
  /\ pc = "scoring"
  /\ \E r \in results :
       /\ results' = results \ {r}
       /\ scored' = scored \cup {[round |-> round, stats |-> ScoringState]}
       /\ normState' = IF updating THEN Updated(normState, r) ELSE normState
  /\ UNCHANGED <<session, pc, updating, evolves, normFile, pool, perSeed, runsLog, round,
                 frozen>>

EndRound ==
  /\ pc = "scoring" /\ results = {}
  /\ pc' = IF updating THEN "roundWriting" ELSE "evolving"
  /\ UNCHANGED <<session, updating, evolves, normState, normFile, calibration, evolution>>

Stop == pc = "evolving" /\ ~ MoreRounds /\ Ends /\ UNCHANGED normFile

(* Ctrl-C, an exception, the end of the machine. *)
Crash == pc # "off" /\ Ends /\ UNCHANGED normFile

Main ==
  \/ Collect \/ Log \/ Conclude \/ BeginRound \/ Score \/ EndRound \/ Stop
  \/ Write("writing", "replacing") \/ Replace("replacing", "logging")
  \/ Write("roundWriting", "roundReplacing") \/ Replace("roundReplacing", "evolving")

Over == pc = "off" /\ session = MaxSessions /\ UNCHANGED vars

Next ==
  \/ SkipCalibration \/ Calibrate
  \/ \E job \in Job : Begin(job) \/ Finish(job)
  \/ Main \/ Crash \/ Over

Spec == Init /\ [][Next]_vars

(* The main thread and the pool go on, and every evaluation ends, at the   *)
(* latest by a timeout.                                                    *)
Fairness ==
  /\ WF_vars(Main)
  /\ WF_vars(\E job \in Job : Begin(job))
  /\ \A job \in Job : WF_vars(Finish(job))

FairSpec == Spec /\ Fairness

-----------------------------------------------------------------------------
(* Properties. *)

TypeOK ==
  /\ session \in 0 .. MaxSessions /\ round \in 0 .. MaxRounds
  /\ pc \in {"off", "collecting", "writing", "replacing", "logging", "evolving", "scoring",
             "roundWriting", "roundReplacing"}
  /\ updating \in BOOLEAN /\ evolves \in BOOLEAN
  /\ normState \subseteq Sample
  /\ normFile.whole \in BOOLEAN /\ normFile.samples \subseteq Sample
  /\ waiting \in SUBSET Job /\ running \in SUBSET Job /\ Cardinality(running) <= NumWorkers
  /\ finished \cup results \cup runsLog \subseteq Result
  /\ \A s \in DOMAIN perSeed : s \in Seeds /\ perSeed[s].succeeded <= perSeed[s].attempted
  /\ scored \subseteq [round : 1 .. MaxRounds, stats : SUBSET Sample]

(* "Persist incrementally so a Ctrl-C still leaves usable state": a sample *)
(* that was saved is there for every later process, wherever this one      *)
(* dies, and whatever evolution saves after a calibration.                 *)
SamplesKept == [][Loaded \subseteq Loaded']_vars

(* The log never runs ahead of the statistics: a run it shows as           *)
(* successful is among the saved samples, after a crash as well.           *)
LogBehindStatistics ==
  \A r \in runsLog : r.ok /\ r.sample.probes # {} => r.sample \in Loaded

Evolving == {"evolving", "scoring", "roundWriting", "roundReplacing"}

(* "Also smoke-tests the workload before evolution starts": evolution that *)
(* follows a calibration in the same process has seen a run of every seed  *)
(* that compiled succeed in it.  The others are left out with a warning.   *)
SmokeTested ==
  pc \in Evolving =>
    \A s \in DOMAIN perSeed :
      \E r \in runsLog : r.sample.source = s /\ r.ok /\ r.sample.session = session

(* Between two rounds the statistics in use are those a restart would use. *)
StatisticsAreSaved == pc = "evolving" => normState = Loaded

(* "All branches see the same statistics regardless of order", and with a  *)
(* frozen baseline all rounds of a session do.                             *)
ScoredAlike ==
  \A x, y \in scored : x.round = y.round \/ ~ updating => x.stats = y.stats

(* A calibration comes to its end. *)
CalibrationEnds == pc = "collecting" ~> pc \in {"off", "evolving"}
=============================================================================
