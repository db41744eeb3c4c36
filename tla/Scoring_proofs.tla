--------------------------- MODULE Scoring_proofs ---------------------------
(****************************************************************************)
(* Calibration and scoring for any number of processes, seeds and rounds,  *)
(* with a frozen or a running baseline: types, and what the files and the log *)
(* hold whatever crashes.  Then the numbers of Scoring, which change nothing *)
(* of what Calibration allows: what is proved of the sets of samples holds *)
(* with values, means and scores.  From the arithmetic of Fractions_proofs, *)
(* scores rank as the readings do; and, no sample counting twice, Welford's *)
(* statistics are those of the set of samples, in whatever order they came. *)
(****************************************************************************)
EXTENDS Scoring, Fractions_proofs

(* What a process knows contains what was saved, between rounds exactly,   *)
(* and throughout with a frozen baseline.                                  *)
FileInMemory ==
  /\ pc # "off" => Loaded \subseteq normState
  /\ pc = "evolving" \/ (pc = "scoring" /\ ~ updating) => normState = Loaded

(* The result in hand is saved before it is logged. *)
InHand == IF pc \in {"writing", "replacing", "logging"} THEN results ELSE {}

Counts(r) == r.ok /\ r.sample.probes # {}

SavedBeforeLogged ==
  /\ \A r \in runsLog : Counts(r) => r.sample \in Loaded
  /\ \A r \in InHand : Counts(r) => r.sample \in IF pc = "logging" THEN Loaded ELSE normState

(* The seeds that are counted as successful have a run that shows it. *)
HasRun(s, runs) == \E r \in runs : r.sample.source = s /\ r.ok /\ r.sample.session = session

SuccessesShown ==
  /\ pc = "off" => waiting = {} /\ running = {} /\ finished = {} /\ DOMAIN perSeed = {}
  /\ \A r \in finished : r.sample.session = session
  /\ \A s \in DOMAIN perSeed :
       /\ perSeed[s].succeeded \in Nat
       /\ perSeed[s].succeeded # 0 => HasRun(s, runsLog \cup InHand)
  /\ pc \in Evolving => \A s \in DOMAIN perSeed : HasRun(s, runsLog)

(* The results of this round were scored with the copy made for it, and    *)
(* with a frozen baseline all were scored with what is loaded.             *)
ScoredWithFrozen ==
  /\ round \in Nat
  /\ pc \notin Evolving => scored = {}
  /\ \A x \in scored : x.round \in Nat /\ x.round <= round
  /\ pc = "scoring" => \A x \in scored : x.round = round => x.stats = frozen
  /\ ~ updating => \A x \in scored : x.stats = normState
  /\ ~ updating /\ pc = "scoring" => frozen = normState
  /\ ScoredAlike

CalibInv == FileInMemory /\ SavedBeforeLogged /\ SuccessesShown /\ ScoredWithFrozen

(* Nothing is there before the first process. *)
LEMMA CalibInit == Init => CalibInv
  BY DEF Init, NoFile, NoSeeds, Loaded, InHand, HasRun, Evolving, CalibInv, FileInMemory,
     SavedBeforeLogged, SuccessesShown, ScoredWithFrozen, ScoredAlike

(* A process that trusts the file: nothing is scored and nobody works. *)
LEMMA SkipCalibrationInv ==
  ASSUME CalibInv, SkipCalibration
  PROVE  CalibInv'
<1> USE DEF CalibInv
<1>1. FileInMemory'
  BY DEF FileInMemory, Loaded, SkipCalibration, StartSession
<1>2. SavedBeforeLogged'
  BY DEF SavedBeforeLogged, InHand, Loaded, SkipCalibration, StartSession
<1>3. SuccessesShown'
  BY DEF SuccessesShown, SkipCalibration, StartSession, pool
<1>4. ScoredWithFrozen'
  BY DEF ScoredWithFrozen, ScoredAlike, Evolving, SkipCalibration, StartSession, evolution
<1> QED BY <1>1, <1>2, <1>3, <1>4

(* The log is emptied, nothing is collected yet. *)
LEMMA CalibrateInv ==
  ASSUME CalibInv, Calibrate
  PROVE  CalibInv'
<1> USE DEF CalibInv
<1>1. FileInMemory'
  BY DEF FileInMemory, Loaded, Calibrate, StartSession
<1>2. SavedBeforeLogged'
  BY DEF SavedBeforeLogged, InHand, Calibrate
<1>3. SuccessesShown'
  BY DEF SuccessesShown, Evolving, Calibrate, StartSession
<1>4. ScoredWithFrozen'
  BY DEF ScoredWithFrozen, ScoredAlike, Evolving, Calibrate, StartSession, evolution
<1> QED BY <1>1, <1>2, <1>3, <1>4

(* A worker takes a job. *)
LEMMA BeginInv ==
  ASSUME CalibInv, NEW job \in Job, Begin(job)
  PROVE  CalibInv'
<1> USE DEF CalibInv
<1>1. FileInMemory'
  BY DEF FileInMemory, Loaded, Begin
<1>2. SavedBeforeLogged'
  BY DEF SavedBeforeLogged, InHand, Loaded, Begin
<1>3. SuccessesShown'
  BY DEF SuccessesShown, InHand, HasRun, Begin
<1>4. ScoredWithFrozen'
  BY DEF ScoredWithFrozen, ScoredAlike, Begin, evolution
<1> QED BY <1>1, <1>2, <1>3, <1>4

(* A result names the process it was measured in. *)
LEMMA FinishInv ==
  ASSUME CalibInv, NEW job \in Job, Finish(job)
  PROVE  CalibInv'
<1> USE DEF CalibInv
<1>1. FileInMemory'
  BY DEF FileInMemory, Loaded, Finish
<1>2. SavedBeforeLogged'
  BY DEF SavedBeforeLogged, InHand, Loaded, Finish
<1>3. SuccessesShown'
  BY DEF SuccessesShown, InHand, HasRun, Finish
<1>4. ScoredWithFrozen'
  BY DEF ScoredWithFrozen, ScoredAlike, Finish, evolution
<1> QED BY <1>1, <1>2, <1>3, <1>4

(* What succeeds is in memory before anything else is done with it. *)
LEMMA CollectInv ==
  ASSUME CalibInv, Collect
  PROVE  CalibInv'
<1> USE DEF CalibInv
<1>1. FileInMemory'
  BY DEF FileInMemory, Loaded, Collect, Updated, AfterUpdate
<1>2. SavedBeforeLogged'
  BY DEF SavedBeforeLogged, InHand, Counts, Loaded, Collect, Updated, AfterUpdate
<1>3. SuccessesShown'
  BY DEF SuccessesShown, InHand, HasRun, Evolving, Collect, AfterUpdate, Succeeds
<1>4. ScoredWithFrozen'
  BY DEF ScoredWithFrozen, ScoredAlike, Evolving, Collect, AfterUpdate, evolution
<1> QED BY <1>1, <1>2, <1>3, <1>4

(* The run is in the file by now. *)
LEMMA LogInv ==
  ASSUME CalibInv, Log
  PROVE  CalibInv'
<1> USE DEF CalibInv
<1>1. FileInMemory'
  BY DEF FileInMemory, Loaded, Log
<1>2. SavedBeforeLogged'
  BY DEF SavedBeforeLogged, InHand, Loaded, Log
<1>3. SuccessesShown'
  BY DEF SuccessesShown, InHand, HasRun, Evolving, Log, pool
<1>4. ScoredWithFrozen'
  BY DEF ScoredWithFrozen, ScoredAlike, Evolving, Log, evolution
<1> QED BY <1>1, <1>2, <1>3, <1>4

(* Evolution follows only if every seed that is counted succeeded, with what *)
(* is loaded.                                                              *)
LEMMA ConcludeInv ==
  ASSUME CalibInv, Conclude
  PROVE  CalibInv'
<1> USE DEF CalibInv
<1>1. FileInMemory'
  BY DEF FileInMemory, Loaded, Conclude, Ends, Reloaded
<1>2. SavedBeforeLogged'
  BY DEF SavedBeforeLogged, InHand, Loaded, Conclude, Ends, calibration
<1>3. SuccessesShown'
  BY DEF SuccessesShown, InHand, HasRun, Conclude, Ends, NoSeeds, Crashed, calibration, pool
<1>4. ScoredWithFrozen'
  BY DEF ScoredWithFrozen, ScoredAlike, Evolving, Conclude, Ends, evolution
<1> QED BY <1>1, <1>2, <1>3, <1>4

(* No result of the new round is scored yet. *)
LEMMA BeginRoundInv ==
  ASSUME CalibInv, BeginRound
  PROVE  CalibInv'
<1> USE DEF CalibInv
<1>1. FileInMemory'
  BY DEF FileInMemory, Loaded, BeginRound
<1>2. SavedBeforeLogged'
  BY DEF SavedBeforeLogged, InHand, Loaded, BeginRound
<1>3. SuccessesShown'
  BY DEF SuccessesShown, HasRun, Evolving, BeginRound, pool
<1>4. ScoredWithFrozen'
  BY DEF ScoredWithFrozen, ScoredAlike, Evolving, BeginRound
<1> QED BY <1>1, <1>2, <1>3, <1>4

(* The copy of the statistics does not change. *)
LEMMA ScoreInv ==
  ASSUME CalibInv, Score
  PROVE  CalibInv'
<1> USE DEF CalibInv
<1>1. FileInMemory'
  BY DEF FileInMemory, Loaded, Score, Updated
<1>2. SavedBeforeLogged'
  BY DEF SavedBeforeLogged, InHand, Loaded, Score
<1>3. SuccessesShown'
  BY DEF SuccessesShown, InHand, HasRun, Score, pool
<1>4. ScoredWithFrozen'
  BY DEF ScoredWithFrozen, ScoredAlike, Evolving, Score, ScoringState
<1> QED BY <1>1, <1>2, <1>3, <1>4

(* A frozen baseline needs no saving. *)
LEMMA EndRoundInv ==
  ASSUME CalibInv, EndRound
  PROVE  CalibInv'
<1> USE DEF CalibInv
<1>1. FileInMemory'
  BY DEF FileInMemory, Loaded, EndRound
<1>2. SavedBeforeLogged'
  BY DEF SavedBeforeLogged, InHand, Loaded, EndRound, calibration
<1>3. SuccessesShown'
  BY DEF SuccessesShown, HasRun, Evolving, EndRound, calibration, pool
<1>4. ScoredWithFrozen'
  BY DEF ScoredWithFrozen, ScoredAlike, Evolving, EndRound, evolution
<1> QED BY <1>1, <1>2, <1>3, <1>4

(* The process forgets; what is on disk stays. *)
LEMMA EndingInv ==
  ASSUME CalibInv, Stop \/ Crash
  PROVE  CalibInv'
<1> USE DEF CalibInv
<1>1. FileInMemory'
  BY DEF FileInMemory, Stop, Crash, Ends
<1>2. SavedBeforeLogged'
  BY DEF SavedBeforeLogged, InHand, Loaded, Stop, Crash, Ends
<1>3. SuccessesShown'
  BY DEF SuccessesShown, Stop, Crash, Ends, NoSeeds
<1>4. ScoredWithFrozen'
  BY DEF ScoredWithFrozen, ScoredAlike, Stop, Crash, Ends
<1> QED BY <1>1, <1>2, <1>3, <1>4

(* The old content stays readable. *)
LEMMA WriteInv ==
  ASSUME CalibInv, Write("writing", "replacing") \/ Write("roundWriting", "roundReplacing")
  PROVE  CalibInv'
<1> USE DEF CalibInv
<1>1. FileInMemory'
  BY DEF FileInMemory, Loaded, Write, WhileWriting
<1>2. SavedBeforeLogged'
  BY DEF SavedBeforeLogged, InHand, Loaded, Write, WhileWriting, calibration
<1>3. SuccessesShown'
  BY DEF SuccessesShown, InHand, HasRun, Evolving, Write, calibration, pool
<1>4. ScoredWithFrozen'
  BY DEF ScoredWithFrozen, ScoredAlike, Evolving, Write, evolution
<1> QED BY <1>1, <1>2, <1>3, <1>4

(* The new content contains the old. *)
LEMMA ReplaceInv ==
  ASSUME CalibInv, Replace("replacing", "logging") \/ Replace("roundReplacing", "evolving")
  PROVE  CalibInv'
<1> USE DEF CalibInv
<1>1. FileInMemory'
  BY DEF FileInMemory, Loaded, Replace, Saved
<1>2. SavedBeforeLogged'
  BY DEF SavedBeforeLogged, FileInMemory, InHand, Loaded, Replace, Saved, calibration
<1>3. SuccessesShown'
  BY DEF SuccessesShown, InHand, HasRun, Evolving, Replace, calibration, pool
<1>4. ScoredWithFrozen'
  BY DEF ScoredWithFrozen, ScoredAlike, Evolving, Replace, evolution
<1> QED BY <1>1, <1>2, <1>3, <1>4

(* The inductive invariant of calibration and scoring. *)
THEOREM CalibInvariant == Spec => []CalibInv
<1>1. CalibInv /\ [Next]_vars => CalibInv'
  <2> SUFFICES ASSUME CalibInv, [Next]_vars PROVE CalibInv'
    OBVIOUS
  <2>1. ASSUME NEW job \in Job, Begin(job) \/ Finish(job) PROVE CalibInv'
    BY <2>1, BeginInv, FinishInv
  <2>2. CASE Main
    BY <2>2, CollectInv, LogInv, ConcludeInv, BeginRoundInv, ScoreInv, EndRoundInv, EndingInv,
       WriteInv, ReplaceInv DEF Main
  <2>3. CASE UNCHANGED vars
    BY <2>3 DEF vars, calibration, pool, evolution, CalibInv, FileInMemory, SavedBeforeLogged,
       SuccessesShown, ScoredWithFrozen, ScoredAlike, Loaded, InHand, Counts, HasRun, Evolving
  <2> QED BY <2>1, <2>2, <2>3, SkipCalibrationInv, CalibrateInv, EndingInv DEF Next, Over
<1> QED BY <1>1, CalibInit, PTL DEF Spec

(* A run in the log that succeeded is in the saved statistics. *)
THEOREM LogStaysBehind == Spec => []LogBehindStatistics
<1>1. CalibInv => LogBehindStatistics
  BY DEF CalibInv, SavedBeforeLogged, Counts, LogBehindStatistics
<1> QED BY <1>1, CalibInvariant, PTL

(* Evolution that follows a calibration in the same process has seen a run *)
(* of every seed that compiled succeed.                                    *)
THEOREM EvolutionIsSmokeTested == Spec => []SmokeTested
<1>1. CalibInv => SmokeTested
  BY DEF CalibInv, SuccessesShown, HasRun, SmokeTested
<1> QED BY <1>1, CalibInvariant, PTL

(* Between two rounds memory and file agree. *)
THEOREM MemoryIsSaved == Spec => []StatisticsAreSaved
<1>1. CalibInv => StatisticsAreSaved
  BY DEF CalibInv, FileInMemory, StatisticsAreSaved
<1> QED BY <1>1, CalibInvariant, PTL

(* The order of a round's results does not matter to their scores. *)
THEOREM ResultsScoredAlike == Spec => []ScoredAlike
<1>1. CalibInv => ScoredAlike
  BY DEF CalibInv, ScoredWithFrozen
<1> QED BY <1>1, CalibInvariant, PTL

(* No step and no crash loses a saved sample. *)
THEOREM NoSampleLost == Spec => SamplesKept
<1>1. CalibInv /\ [Next]_vars => [Loaded \subseteq Loaded']_vars
  <2> SUFFICES ASSUME CalibInv, Next PROVE Loaded \subseteq Loaded'
    BY DEF vars
  <2>1. CASE UNCHANGED normFile
    BY <2>1 DEF Loaded
  <2>2. ASSUME NEW from, NEW to, from # "off", Replace(from, to) PROVE Loaded \subseteq Loaded'
    BY <2>2 DEF CalibInv, FileInMemory, Loaded, Replace, Saved
  <2>3. \/ UNCHANGED normFile
        \/ Replace("replacing", "logging") \/ Replace("roundReplacing", "evolving")
    BY DEF Next, Main, Over, vars, SkipCalibration, Calibrate, StartSession, Begin, Finish, Collect,
       Log, Conclude, BeginRound, Score, EndRound, Stop, Crash, Write, WhileWriting
  <2> QED BY <2>1, <2>2, <2>3
<1> QED BY <1>1, CalibInvariant, PTL DEF Spec, SamplesKept

-----------------------------------------------------------------------------
(* TypeOK, and the types of what it leaves open. *)
Counters == [attempted : Nat, succeeded : Nat]

Typed ==
  /\ TypeOK
  /\ IsFiniteSet(running)
  /\ perSeed \in [DOMAIN perSeed -> Counters]
  /\ frozen \subseteq Sample
  /\ pc = "scoring" => round >= 1

(* Each step keeps the types.                                              *)
LEMMA CalibTypesInit == Init => Typed
<1> SUFFICES ASSUME Init PROVE Typed
  OBVIOUS
<1>1. IsFiniteSet(running) /\ Cardinality(running) <= NumWorkers
  BY FS_EmptySet, CalibrationAssumption DEF Init
<1>2. perSeed \in [DOMAIN perSeed -> Counters] /\ DOMAIN perSeed = {}
  BY DEF Init, NoSeeds
<1>3. session \in 0 .. MaxSessions /\ round \in 0 .. MaxRounds
  BY CalibrationAssumption DEF Init
<1>4. TypeOK
  BY <1>1, <1>2, <1>3 DEF Init, TypeOK, NoFile
<1>5. frozen \subseteq Sample /\ pc # "scoring"
  BY DEF Init
<1> QED BY <1>1, <1>2, <1>4, <1>5 DEF Typed

(* A sample is one of a job, or of a branch's round. *)
LEMMA MadeResult ==
  ASSUME NEW ok \in BOOLEAN, NEW probes \in Reported, session \in Nat,
         NEW source \in Seeds \cup Branches, NEW run \in Nat, NEW r,
         r = [ok |-> ok, sample |-> [session |-> session, source |-> source, run |-> run,
                                     probes |-> IF ok THEN probes ELSE {}]]
  PROVE  r \in Result
<1>1. (IF ok THEN probes ELSE {}) \in SUBSET Probes
  BY CalibrationAssumption
<1> QED BY <1>1 DEF Result, Sample

(* The end of a process.                                                   *)
LEMMA EndingTypes ==
  ASSUME Typed, Ends, UNCHANGED normFile
  PROVE  Typed'
<1>1. IsFiniteSet(running)' /\ Cardinality(running)' = 0
  BY FS_EmptySet DEF Ends
<1>2. (perSeed \in [DOMAIN perSeed -> Counters])' /\ DOMAIN perSeed' = {}
  BY DEF Ends, NoSeeds
<1>3. TypeOK'
  BY <1>1, <1>2, CalibrationAssumption DEF Ends, Typed, TypeOK
<1>4. (frozen \subseteq Sample)' /\ pc' # "scoring"
  BY DEF Ends
<1> QED BY <1>1, <1>2, <1>3, <1>4 DEF Typed

(* Its beginning.                                                          *)
LEMMA SessionTypes ==
  ASSUME Typed, SkipCalibration \/ Calibrate
  PROVE  Typed'
<1> USE CalibrationAssumption DEF Typed, TypeOK
<1>1. Loaded \subseteq Sample
  BY DEF Loaded
<1>2. CASE SkipCalibration
  BY <1>1, <1>2 DEF SkipCalibration, StartSession, pool, evolution
<1>3. CASE Calibrate
  <2>1. PICK compiled \in SUBSET Seeds :
          /\ waiting' = compiled \X (1 .. NumRuns)
          /\ perSeed' = [s \in compiled |-> [attempted |-> 0, succeeded |-> 0]]
    BY <1>3 DEF Calibrate
  <2>2. waiting' \in SUBSET Job
    BY <2>1 DEF Job
  <2>3. /\ DOMAIN perSeed' = compiled /\ perSeed' \in [compiled -> Counters]
        /\ \A s \in compiled : perSeed'[s].succeeded <= perSeed'[s].attempted
    BY <2>1 DEF Counters
  <2>4. evolves' \in BOOLEAN
    <3>1. CASE HaveState
      BY <1>3, <3>1 DEF Calibrate
    <3>2. CASE ~ HaveState
      BY <1>3, <3>2 DEF Calibrate
    <3> QED BY <3>1, <3>2
  <2>5. /\ session' \in 0 .. MaxSessions /\ normState' \subseteq Sample
        /\ pc' = "collecting" /\ runsLog' = {}
        /\ UNCHANGED <<updating, normFile, results, evolution, running, finished>>
    BY <1>1, <1>3 DEF Calibrate, StartSession
  <2> QED BY <2>2, <2>3, <2>4, <2>5 DEF evolution
<1> QED BY <1>2, <1>3

(* A worker begins or finishes a job.                                      *)
LEMMA PoolTypes ==
  ASSUME Typed, NEW job \in Job, Begin(job) \/ Finish(job)
  PROVE  Typed'
<1>0. /\ IsFiniteSet(running) /\ Cardinality(running) <= NumWorkers /\ NumWorkers \in Nat
      /\ session \in Nat
  BY CalibrationAssumption DEF Typed, TypeOK
<1>1. CASE Begin(job)
  <2>1. IsFiniteSet(running') /\ Cardinality(running') <= NumWorkers
    <3>1. running' = running \cup {job} /\ Cardinality(running) < NumWorkers
      BY <1>1 DEF Begin
    <3>2. Cardinality(running) \in Nat
      BY <1>0, FS_CardinalityType
    <3>3. /\ IsFiniteSet(running')
          /\ Cardinality(running') \in {Cardinality(running), Cardinality(running) + 1}
      BY <1>0, <3>1, FS_AddElement
    <3> QED BY <1>0, <3>1, <3>2, <3>3
  <2> QED BY <1>1, <2>1 DEF Begin, evolution, Typed, TypeOK
<1>2. CASE Finish(job)
  <2>1. IsFiniteSet(running') /\ Cardinality(running') <= NumWorkers
    <3>1. running' \subseteq running
      BY <1>2 DEF Finish
    <3>2. Cardinality(running) \in Nat /\ Cardinality(running') \in Nat
      BY <1>0, <3>1, FS_Subset, FS_CardinalityType
    <3> QED BY <1>0, <3>1, <3>2, FS_Subset
  <2>2. PICK ok \in BOOLEAN, probes \in Reported :
          finished' = finished \cup
            {[ok |-> ok, sample |-> [session |-> session, source |-> job[1], run |-> job[2],
                                     probes |-> IF ok THEN probes ELSE {}]]}
    BY <1>2 DEF Finish
  <2>3. job[1] \in Seeds \cup Branches /\ job[2] \in Nat /\ session \in Nat
    BY <1>0 DEF Job
  <2>4. finished' \subseteq Result
    BY <2>2, <2>3, MadeResult DEF Typed, TypeOK
  <2> QED BY <1>2, <2>1, <2>4 DEF Finish, evolution, Typed, TypeOK
<1> QED BY <1>1, <1>2

(* Statistics hold samples.                                                *)
LEMMA UpdatedTypes ==
  ASSUME Typed, NEW r \in Result
  PROVE  Updated(normState, r) \subseteq Sample
  BY DEF Typed, TypeOK, Updated, Result

(* A result is counted for its seed.                                       *)
LEMMA CollectTypes ==
  ASSUME Typed, Collect
  PROVE  Typed'
<1> USE DEF Typed, TypeOK
<1>1. PICK r \in finished :
        /\ finished' = finished \ {r} /\ results' = {r}
        /\ perSeed' = [perSeed EXCEPT ![r.sample.source] =
             [attempted |-> @.attempted + 1, succeeded |-> @.succeeded + (IF Succeeds(r) THEN 1 ELSE 0)]]
        /\ normState' = Updated(normState, r) /\ pc' = AfterUpdate(r)
  BY DEF Collect
<1>2. r \in Result /\ normState' \subseteq Sample
  BY <1>1, UpdatedTypes
<1> DEFINE one == IF Succeeds(r) THEN 1 ELSE 0
           src == r.sample.source
<1>3. one \in {0, 1}
  OBVIOUS
<1> HIDE DEF one, src
<1>4. perSeed' = [perSeed EXCEPT ![src] =
             [attempted |-> perSeed[src].attempted + 1, succeeded |-> perSeed[src].succeeded + one]]
  BY <1>1 DEF one, src
<1>5. /\ DOMAIN perSeed' = DOMAIN perSeed /\ perSeed' \in [DOMAIN perSeed -> Counters]
      /\ \A s \in DOMAIN perSeed : perSeed'[s].succeeded <= perSeed'[s].attempted
  <2>1. \A s \in DOMAIN perSeed : perSeed[s] \in Counters
    OBVIOUS
  <2>2. \A s \in DOMAIN perSeed : perSeed[s].succeeded \in Nat /\ perSeed[s].attempted \in Nat
    BY <2>1 DEF Counters
  <2>3. src \in DOMAIN perSeed =>
          /\ [attempted |-> perSeed[src].attempted + 1, succeeded |-> perSeed[src].succeeded + one]
               \in Counters
          /\ perSeed[src].succeeded + one <= perSeed[src].attempted + 1
    BY <1>3, <2>2 DEF Counters
  <2> QED BY <1>4, <2>1, <2>3
<1>6. AfterUpdate(r) \in {"writing", "logging"}
  BY DEF AfterUpdate
<1> QED BY <1>1, <1>2, <1>5, <1>6 DEF Collect, evolution

(* A round and its results.                                                *)
LEMMA BeginRoundTypes ==
  ASSUME Typed, BeginRound
  PROVE  Typed'
<1> USE CalibrationAssumption DEF Typed, TypeOK
<1>1. PICK returned \in SUBSET Branches :
        \E ok \in [returned -> BOOLEAN], probes \in [returned -> Reported] :
         results' =
           {[ok |-> ok[b],
             sample |-> [session |-> session, source |-> b, run |-> round',
                         probes |-> IF ok[b] THEN probes[b] ELSE {}]] : b \in returned}
  BY DEF BeginRound
<1>2. PICK ok \in [returned -> BOOLEAN], probes \in [returned -> Reported] :
         results' =
           {[ok |-> ok[b],
             sample |-> [session |-> session, source |-> b, run |-> round',
                         probes |-> IF ok[b] THEN probes[b] ELSE {}]] : b \in returned}
  BY <1>1
<1>3. round' = round + 1 /\ round' \in 1 .. MaxRounds /\ session \in Nat /\ round' \in Nat
  BY DEF BeginRound, MoreRounds
<1>4. results' \subseteq Result
  <2> SUFFICES ASSUME NEW b \in returned
               PROVE  [ok |-> ok[b], sample |-> [session |-> session, source |-> b, run |-> round',
                         probes |-> IF ok[b] THEN probes[b] ELSE {}]] \in Result
    BY <1>2
  <2>1. ok[b] \in BOOLEAN /\ probes[b] \in Reported /\ b \in Seeds \cup Branches
    OBVIOUS
  <2> QED BY <1>3, <2>1, MadeResult
<1> QED BY <1>3, <1>4 DEF BeginRound, pool

(* A result is scored.                                                     *)
LEMMA ScoreTypes ==
  ASSUME Typed, Score
  PROVE  Typed'
<1> USE DEF Typed, TypeOK
<1>1. PICK r \in results :
        /\ results' = results \ {r}
        /\ scored' = scored \cup {[round |-> round, stats |-> ScoringState]}
        /\ normState' = IF updating THEN Updated(normState, r) ELSE normState
  BY DEF Score
<1>2. normState' \subseteq Sample
  BY <1>1, UpdatedTypes
<1>3. round \in 1 .. MaxRounds /\ ScoringState \in SUBSET Sample
  BY DEF Score, ScoringState
<1> QED BY <1>1, <1>2, <1>3 DEF Score, pool

(* The steps that move data from one place to another. *)
LEMMA MovingTypes ==
  ASSUME Typed,
         \/ Log \/ EndRound \/ UNCHANGED vars
         \/ Write("writing", "replacing") \/ Replace("replacing", "logging")
         \/ Write("roundWriting", "roundReplacing") \/ Replace("roundReplacing", "evolving")
  PROVE  Typed'
<1> USE DEF Typed, TypeOK, calibration, pool, evolution
<1>1. CASE Log
  BY <1>1 DEF Log
<1>2. CASE EndRound
  BY <1>2 DEF EndRound
<1>3. CASE UNCHANGED vars
  BY <1>3 DEF vars
<1>4. CASE Write("writing", "replacing") \/ Write("roundWriting", "roundReplacing")
  BY <1>4 DEF Write, WhileWriting
<1>5. CASE Replace("replacing", "logging") \/ Replace("roundReplacing", "evolving")
  <2>1. normFile'.whole = TRUE /\ normFile'.samples = normState
    BY <1>5 DEF Replace, Saved
  <2> QED BY <1>5, <2>1 DEF Replace
<1> QED BY <1>1, <1>2, <1>3, <1>4, <1>5

(* Calibration is over.                                                    *)
LEMMA ConcludeTypes ==
  ASSUME Typed, Conclude
  PROVE  Typed'
<1>1. CASE Ends
  BY <1>1, EndingTypes DEF Conclude
<1>2. CASE ~ Ends
  BY <1>2 DEF Conclude, Typed, TypeOK, Reloaded, Loaded, calibration, pool, evolution
<1> QED BY <1>1, <1>2

(* Every step of calibration and evolution keeps the types.                *)
LEMMA CalibTypesStep ==
  ASSUME Typed, [Next]_vars
  PROVE  Typed'
<1>1. CASE Stop \/ Crash
  BY <1>1, EndingTypes DEF Stop, Crash
<1>2. CASE Main /\ ~ Stop
  BY <1>2, CollectTypes, ConcludeTypes, BeginRoundTypes, ScoreTypes, MovingTypes DEF Main
<1>3. CASE \E job \in Job : Begin(job) \/ Finish(job)
  BY <1>3, PoolTypes
<1> QED BY <1>1, <1>2, <1>3, SessionTypes, MovingTypes DEF Next, Over

(* The samples, the rounds, the pool and the counters of calibration keep  *)
(* their types; no more than NumWorkers evaluations run at once.           *)
THEOREM CalibTypeCorrect == Spec => []TypeOK
<1>1. Typed => TypeOK
  BY DEF Typed
<1> QED BY <1>1, CalibTypesInit, CalibTypesStep, PTL DEF Spec

-----------------------------------------------------------------------------
(* The main thread with numbers is that of Calibration.                    *)
LEMMA MainStepRefines == ScoringMain => Main
  BY DEF ScoringMain, Collects, Saves, Concludes, Freezes, Scores, EndsRound, Elsewhere, Main

(* Every step of Scoring is one of Calibration, or changes no variable of it. *)
LEMMA StepRefines == ScoringNext => Next
<1>. SUFFICES ASSUME ScoringNext PROVE Next
  OBVIOUS
<1>1. CASE Starts
  BY <1>1 DEF Starts, Next
<1>2. CASE Evaluates
  BY <1>2 DEF Evaluates, Next
<1>3. CASE ScoringMain
  BY <1>3, MainStepRefines DEF Next
<1>4. CASE Crash /\ Forgets
  BY <1>4 DEF Next
<1>5. CASE Over /\ UNCHANGED numbers
  BY <1>5 DEF Next
<1>. QED
  BY <1>1, <1>2, <1>3, <1>4, <1>5 DEF ScoringNext

(* What the means and scores are kept with is the calibration and scoring of *)
(* Calibration, fairness included.                                           *)
THEOREM ScoringRefinesCalibration == ScoringFairSpec => FairSpec
<1>1. ScoringInit => Init
  BY DEF ScoringInit
<1>2. [ScoringNext]_scoringVars => [Next]_vars
  BY StepRefines DEF scoringVars
<1>. QED
  BY <1>1, <1>2, PTL DEF ScoringFairSpec, ScoringSpec, FairSpec, Spec

(* With values as well, no step and no crash loses a sample that was saved.  *)
THEOREM ScoringLosesNoSample == ScoringFairSpec => SamplesKept
<1>1. FairSpec => Spec
  BY DEF FairSpec
<1>. QED
  BY <1>1, ScoringRefinesCalibration, NoSampleLost

-----------------------------------------------------------------------------
(* The steps of tanh. *)

(* The steps tanh has gone up, of the square of the z-score.               *)
Reached(square) == {s \in {0, 1, 2, 19} : ~ Below(square, Whole(s * s))}
StepOf(square) == Cardinality(Reached(square))

SquareOf(delta, n, variance) ==
  LET square == Times(Times(delta, delta), Whole(n))
  IN  Lowest[<<square[1] * variance[2], square[2] * variance[1]>>]

(* A larger square is on no smaller step.                                  *)
LEMMA StepsOrdered ==
  ASSUME NEW q \in Fraction, NEW r \in Fraction, AtMost(q, r)
  PROVE  StepOf(q) \in Nat /\ StepOf(r) \in Nat /\ StepOf(q) <= StepOf(r)
<1> DEFINE Marks == {0, 1, 2, 19}
<1>1. IsFiniteSet(Marks)
  <2>1. 0 \in Int /\ 19 \in Int
    OBVIOUS
  <2>2. IsFiniteSet(0 .. 19)
    BY <2>1, FS_Interval
  <2>3. Marks \in SUBSET (0 .. 19)
    OBVIOUS
  <2> QED BY <2>2, <2>3, FS_Subset
<1>2. ASSUME NEW c \in Fraction, Below(r, c) PROVE Below(q, c)
  <2>1. ~ AtMost(c, r)
    BY <1>2 DEF AtMost
  <2>2. ~ AtMost(c, q)
    BY <2>1, AtMostTransitive
  <2> QED BY <2>2 DEF AtMost
<1>3. \A s \in Marks : Whole(s * s) \in Fraction
  BY DEF Whole, Fraction
<1>4. Reached(q) \in SUBSET Reached(r) /\ Reached(q) \in SUBSET Marks /\ Reached(r) \in SUBSET Marks
  BY <1>2, <1>3 DEF Reached
<1> HIDE DEF Marks
<1>5. IsFiniteSet(Reached(q)) /\ IsFiniteSet(Reached(r))
  BY <1>1, <1>4, FS_Subset
<1>6. Cardinality(Reached(q)) <= Cardinality(Reached(r))
  BY <1>4, <1>5, FS_Subset
<1> QED BY <1>5, <1>6, FS_CardinalityType DEF StepOf

(* A larger deviation has a larger square of the z-score.                  *)
LEMMA SquaresOrdered ==
  ASSUME NEW d \in Fraction, NEW e \in Fraction, NEW n \in Nat, NEW v \in Fraction, v[1] > 0,
         AtMost(Times(d, d), Times(e, e))
  PROVE  /\ SquareOf(d, n, v) \in Fraction /\ SquareOf(e, n, v) \in Fraction
         /\ AtMost(SquareOf(d, n, v), SquareOf(e, n, v))
<1> DEFINE s == Times(Times(d, d), Whole(n))
           t == Times(Times(e, e), Whole(n))
<1>1. Times(d, d) \in Fraction /\ Times(e, e) \in Fraction /\ Whole(n) \in Fraction
  <2>1. Whole(n) \in Fraction
    BY DEF Whole, Fraction
  <2>2. Times(d, d) \in Fraction /\ Times(e, e) \in Fraction
    BY TimesMade
  <2> QED BY <2>1, <2>2
<1>2. s \in Fraction /\ t \in Fraction
  BY <1>1, TimesMade
<1>3. AtMost(s, t)
  BY <1>1, ScaleOrders
<1>4. /\ SquareOf(d, n, v) = Lowest[<<s[1] * v[2], s[2] * v[1]>>]
      /\ SquareOf(e, n, v) = Lowest[<<t[1] * v[2], t[2] * v[1]>>]
  BY DEF SquareOf
<1> HIDE DEF s, t
<1>5. /\ s[1] \in Int /\ s[2] \in Nat \ {0} /\ t[1] \in Int /\ t[2] \in Nat \ {0}
      /\ s[1] * t[2] <= t[1] * s[2]
  BY <1>2, <1>3, AtMostIs
<1>6. v[1] \in Nat \ {0} /\ v[2] \in Nat \ {0}
  BY AtMostIs
<1>7. /\ s[1] * v[2] \in Int /\ s[2] * v[1] \in Nat \ {0}
      /\ t[1] * v[2] \in Int /\ t[2] * v[1] \in Nat \ {0}
  BY <1>5, <1>6
<1>8. (s[1] * v[2]) * (t[2] * v[1]) <= (t[1] * v[2]) * (s[2] * v[1])
  <2>1. s[1] * t[2] \in Int /\ t[1] * s[2] \in Int /\ v[2] * v[1] \in Nat
    BY <1>5, <1>6
  <2>2. (s[1] * t[2]) * (v[2] * v[1]) <= (t[1] * s[2]) * (v[2] * v[1])
    BY <1>5, <2>1, Factor
  <2>3. /\ (s[1] * t[2]) * (v[2] * v[1]) = (s[1] * v[2]) * (t[2] * v[1])
        /\ (t[1] * s[2]) * (v[2] * v[1]) = (t[1] * v[2]) * (s[2] * v[1])
    BY <1>5, <1>6
  <2> QED BY <2>2, <2>3
<1>9. <<s[1] * v[2], s[2] * v[1]>> \in Fraction /\ <<t[1] * v[2], t[2] * v[1]>> \in Fraction
  BY <1>7 DEF Fraction
<1> QED BY <1>4, <1>7, <1>8, <1>9, PairsOrdered, LowestOrders

(* The signed steps of deviations are ordered as the deviations are.       *)
LEMMA SignedStepsOrdered ==
  ASSUME NEW d \in Fraction, NEW e \in Fraction, NEW n \in Nat, NEW v \in Fraction, v[1] > 0,
         AtMost(d, e)
  PROVE  /\ Sign(d) \in {-1, 0, 1} /\ Sign(e) \in {-1, 0, 1}
         /\ StepOf(SquareOf(d, n, v)) \in Nat /\ StepOf(SquareOf(e, n, v)) \in Nat
         /\ Sign(d) * StepOf(SquareOf(d, n, v)) <= Sign(e) * StepOf(SquareOf(e, n, v))
<1> DEFINE i == StepOf(SquareOf(d, n, v))
           j == StepOf(SquareOf(e, n, v))
<1>1. /\ d[1] \in Int /\ d[2] \in Nat \ {0} /\ e[1] \in Int /\ e[2] \in Nat \ {0}
      /\ d[1] * e[2] <= e[1] * d[2]
  BY AtMostIs
<1>2. (d[1] > 0 => e[1] > 0) /\ (d[1] = 0 => e[1] >= 0)
  BY <1>1
<1>3. i \in Nat /\ j \in Nat
  <2>1. Times(d, d) \in Fraction /\ Times(e, e) \in Fraction
    BY TimesMade
  <2>2. AtMost(Times(d, d), Times(d, d)) /\ AtMost(Times(e, e), Times(e, e))
    BY <2>1, FractionsClosed
  <2>3. SquareOf(d, n, v) \in Fraction /\ SquareOf(e, n, v) \in Fraction
    BY <2>2, SquaresOrdered
  <2>4. AtMost(SquareOf(d, n, v), SquareOf(d, n, v)) /\ AtMost(SquareOf(e, n, v), SquareOf(e, n, v))
    BY <2>3, FractionsClosed
  <2> QED BY <2>3, <2>4, StepsOrdered
<1>4. d[1] >= 0 => i <= j
  BY SquareOrders, SquaresOrdered, StepsOrdered
<1>5. e[1] <= 0 => j <= i
  BY SquareOrders, SquaresOrdered, StepsOrdered
<1> HIDE DEF i, j
<1>6. /\ Sign(d) = IF d[1] > 0 THEN 1 ELSE IF d[1] < 0 THEN -1 ELSE 0
      /\ Sign(e) = IF e[1] > 0 THEN 1 ELSE IF e[1] < 0 THEN -1 ELSE 0
  BY DEF Sign
<1>7. Sign(d) * i <= Sign(e) * j
  BY <1>1, <1>2, <1>3, <1>4, <1>5, <1>6
<1> QED BY <1>3, <1>6, <1>7 DEF i, j

-----------------------------------------------------------------------------
(* The statistics of the probes. *)
Entry == [n : Nat, mean : Fraction, M2 : Fraction]
Stats == [Probes -> Entry]

(* Statistics without samples.                                             *)
LEMMA FreshStats == Fresh \in Stats
<1>1. Whole(0) \in Fraction
  BY DEF Whole, Fraction
<1> QED BY <1>1 DEF Fresh, NoEntry, Zero, Stats, Entry

(* What a probe reports is a fraction, 0.0 for a missing number.           *)
LEMMA ValueIsFraction ==
  ASSUME NEW source \in Seeds \cup Branches, NEW p \in Probes
  PROVE  Value(source, p) \in Fraction
<1>1. Reading[source][p] \in Int \cup {Missing}
  BY ScoringAssumption
<1> QED BY <1>1 DEF Value, Zero, Whole, Fraction

(* NormalizationState.update adds a sample and keeps the entries' form.    *)
LEMMA UpdatedStats ==
  ASSUME NEW stats \in Stats, NEW r \in Result
  PROVE  UpdatedBy(stats, r) \in Stats
<1> SUFFICES ASSUME NEW p \in Probes, p \in RawValues(r)
             PROVE  WelfordUpdate(stats[p], Value(r.sample.source, p)) \in Entry
  BY DEF UpdatedBy, Stats
<1> DEFINE w == stats[p]
           x == Value(r.sample.source, p)
           delta == Minus(x, w.mean)
           mean == Plus(w.mean, DividedBy(delta, w.n + 1))
<1>1. w \in Entry
  BY DEF Stats
<1>2. w.n \in Nat /\ w.n + 1 \in Nat \ {0} /\ w.mean \in Fraction /\ w.M2 \in Fraction
  BY <1>1 DEF Entry
<1>3. x \in Fraction
  <2>1. r.sample.source \in Seeds \cup Branches
    BY DEF Result, Sample
  <2> QED BY <2>1, ValueIsFraction
<1>4. WelfordUpdate(w, x) =
        [n |-> w.n + 1, mean |-> mean, M2 |-> Plus(w.M2, Times(delta, Minus(x, mean)))]
  BY DEF WelfordUpdate
<1> HIDE DEF w, x
<1>5. delta \in Fraction
  BY <1>2, <1>3, FractionsClosed
<1> HIDE DEF delta
<1>6. DividedBy(delta, w.n + 1) \in Fraction
  BY <1>2, <1>5, FractionsClosed
<1>7. mean \in Fraction
  BY <1>2, <1>6, FractionsClosed
<1> HIDE DEF mean
<1>8. Minus(x, mean) \in Fraction
  BY <1>3, <1>7, FractionsClosed
<1>9. Times(delta, Minus(x, mean)) \in Fraction
  BY <1>5, <1>8, FractionsClosed
<1>10. Plus(w.M2, Times(delta, Minus(x, mean))) \in Fraction
  BY <1>2, <1>9, FractionsClosed
<1>11. WelfordUpdate(w, x) \in Entry
  BY <1>2, <1>4, <1>7, <1>10 DEF Entry
<1> QED BY <1>11 DEF w, x

-----------------------------------------------------------------------------
(* Scores. *)

(* A reading that is no worse contributes no less.                         *)
LEMMA ContributionsOrdered ==
  ASSUME NEW stats \in Stats, NEW p \in Probes, Scorable(stats, p),
         NEW a \in Seeds \cup Branches, NEW b \in Seeds \cup Branches,
         IF Direction[p] = "maximize" THEN AtMost(Value(b, p), Value(a, p))
                                      ELSE AtMost(Value(a, p), Value(b, p))
  PROVE  /\ Contribution(stats, a, p) \in Fraction /\ Contribution(stats, b, p) \in Fraction
         /\ AtMost(Contribution(stats, b, p), Contribution(stats, a, p))
<1> DEFINE n == stats[p].n
           v == stats[p].M2
           m == stats[p].mean
           d == Minus(Value(a, p), m)
           e == Minus(Value(b, p), m)
           i == StepOf(SquareOf(d, n, v))
           j == StepOf(SquareOf(e, n, v))
<1>1. n \in Nat /\ m \in Fraction /\ v \in Fraction
  <2>1. stats[p] \in Entry
    BY DEF Stats
  <2> QED BY <2>1 DEF Entry
<1>2. v[1] > 0
  <2>1. Zero[1] * v[2] < v[1] * Zero[2]
    BY DEF Scorable, Below
  <2>2. Zero[1] = 0 /\ Zero[2] = 1
    BY DEF Zero, Whole
  <2>3. v[1] \in Int /\ v[2] \in Int
    BY <1>1, AtMostIs
  <2> QED BY <2>1, <2>2, <2>3
<1>3. Value(a, p) \in Fraction /\ Value(b, p) \in Fraction
  BY ValueIsFraction
<1>4. d \in Fraction /\ e \in Fraction
  BY <1>1, <1>3, FractionsClosed
<1>5. /\ Contribution(stats, a, p) = <<Signed(p, Sign(d)) * i, 4>>
      /\ Contribution(stats, b, p) = <<Signed(p, Sign(e)) * j, 4>>
  BY DEF Contribution, Squash, StepOf, Reached, SquareOf
<1>6. Direction[p] = "maximize" => AtMost(e, d)
  <2>1. Direction[p] = "maximize" => AtMost(Value(b, p), Value(a, p))
    OBVIOUS
  <2> QED BY <1>1, <1>3, <2>1, MinusOrders
<1>7. Direction[p] # "maximize" => AtMost(d, e)
  <2>1. Direction[p] # "maximize" => AtMost(Value(a, p), Value(b, p))
    OBVIOUS
  <2> QED BY <1>1, <1>3, <2>1, MinusOrders
<1>8. Direction[p] \in {"minimize", "maximize"}
  BY ScoringAssumption
<1> HIDE DEF n, v, m, d, e
<1>9. /\ Sign(d) \in {-1, 0, 1} /\ Sign(e) \in {-1, 0, 1} /\ i \in Nat /\ j \in Nat
      /\ Direction[p] = "maximize" => Sign(e) * j <= Sign(d) * i
      /\ Direction[p] # "maximize" => Sign(d) * i <= Sign(e) * j
  <2>1. CASE Direction[p] = "maximize"
    BY <1>1, <1>2, <1>4, <1>6, <2>1, SignedStepsOrdered
  <2>2. CASE Direction[p] # "maximize"
    BY <1>1, <1>2, <1>4, <1>7, <2>2, SignedStepsOrdered
  <2> QED BY <2>1, <2>2
<1> HIDE DEF i, j
<1> DEFINE s == Signed(p, Sign(d))
           t == Signed(p, Sign(e))
<1>10. /\ s \in {-1, 0, 1} /\ t \in {-1, 0, 1} /\ t * j <= s * i
  <2>1. CASE Direction[p] = "maximize"
    <3>1. s = Sign(d) /\ t = Sign(e)
      BY <2>1 DEF Signed
    <3> QED BY <1>9, <2>1, <3>1
  <2>2. CASE Direction[p] # "maximize"
    <3>1. s = - Sign(d) /\ t = - Sign(e)
      BY <1>8, <2>2 DEF Signed
    <3> HIDE DEF s, t
    <3>2. Sign(d) * i <= Sign(e) * j
      BY <1>9, <2>2
    <3>3. (- Sign(d)) * i = - (Sign(d) * i) /\ (- Sign(e)) * j = - (Sign(e) * j)
      BY <1>9
    <3>4. Sign(d) * i \in Int /\ Sign(e) * j \in Int
      BY <1>9
    <3> QED BY <1>9, <3>1, <3>2, <3>3, <3>4
  <2> QED BY <2>1, <2>2
<1> HIDE DEF s, t
<1>11. s * i \in Int /\ t * j \in Int
  BY <1>9, <1>10
<1>12. ASSUME NEW x \in Int, NEW y \in Int, x <= y
       PROVE  <<x, 4>> \in Fraction /\ AtMost(<<x, 4>>, <<y, 4>>)
  BY <1>12 DEF Fraction, AtMost, Below
<1> QED BY <1>5, <1>10, <1>11, <1>12 DEF s, t

(* What a probe adds to the sum. *)
Part(stats, source, S) == [p \in S |-> Times(Whole(Weight[p]), Contribution(stats, source, p))]

Counted(stats, probes) == {p \in probes : Scorable(stats, p)}

(* The probes that count are finitely many, with weights above zero.       *)
LEMMA CountedSound ==
  ASSUME NEW stats \in Stats, NEW probes \in SUBSET Probes
  PROVE  LET S == Counted(stats, probes)
         IN  /\ S \in SUBSET Probes /\ IsFiniteSet(S)
             /\ \A p \in S : p \in probes /\ Scorable(stats, p) /\ Weight[p] \in Nat \ {0}
<1>1. Weight \in [Probes -> Nat] /\ IsFiniteSet(Probes)
  BY ScoringAssumption
<1>2. Counted(stats, probes) \in SUBSET Probes
  BY DEF Counted
<1>3. IsFiniteSet(Counted(stats, probes))
  BY <1>1, <1>2, FS_Subset
<1> QED BY <1>1, <1>2, <1>3 DEF Counted, Scorable

(* A part is no less for a reading that is no worse.                       *)
LEMMA PartsOrdered ==
  ASSUME NEW stats \in Stats, NEW p \in Probes, Scorable(stats, p), Weight[p] \in Nat,
         NEW a \in Seeds \cup Branches, NEW b \in Seeds \cup Branches,
         IF Direction[p] = "maximize" THEN AtMost(Value(b, p), Value(a, p))
                                      ELSE AtMost(Value(a, p), Value(b, p))
  PROVE  LET x == Times(Whole(Weight[p]), Contribution(stats, a, p))
             y == Times(Whole(Weight[p]), Contribution(stats, b, p))
         IN  x \in Fraction /\ y \in Fraction /\ AtMost(y, x)
<1> DEFINE w == Weight[p]
           c == Contribution(stats, a, p)
           d == Contribution(stats, b, p)
<1>1. c \in Fraction /\ d \in Fraction /\ AtMost(d, c)
  BY ContributionsOrdered
<1>2. w \in Nat
  OBVIOUS
<1> HIDE DEF w, c, d
<1>3. Whole(w) \in Fraction
  BY <1>2 DEF Whole, Fraction
<1>4. Times(Whole(w), c) \in Fraction /\ Times(Whole(w), d) \in Fraction
  BY <1>1, <1>3, TimesMade
<1>5. AtMost(Times(Whole(w), d), Times(Whole(w), c))
  BY <1>1, <1>2, ScaleOrders
<1> QED BY <1>4, <1>5 DEF w, c, d

(* The score of what is counted: none gives 0.0, and else the mean.        *)
LEMMA ScoreIs ==
  ASSUME NEW stats \in Stats, NEW source \in Seeds \cup Branches, NEW probes \in SUBSET Probes
  PROVE  LET S == Counted(stats, probes)
         IN  WeightedScore(stats, source, probes) =
               IF S = {} THEN Zero
               ELSE DividedBy(Total(Part(stats, source, S), S), SumFunctionOnSet(Weight, S))
  BY DEF WeightedScore, Counted, Part

(* A source that reads no worse scores no less.                            *)
LEMMA WeightedScoresRank ==
  ASSUME NEW stats \in Stats, NEW probes \in SUBSET Probes,
         NEW a \in Seeds \cup Branches, NEW b \in Seeds \cup Branches,
         \A p \in probes : IF Direction[p] = "maximize" THEN AtMost(Value(b, p), Value(a, p))
                                                        ELSE AtMost(Value(a, p), Value(b, p))
  PROVE  AtMost(WeightedScore(stats, b, probes), WeightedScore(stats, a, probes))
<1> DEFINE S == Counted(stats, probes)
           f == Part(stats, a, S)
           g == Part(stats, b, S)
           W == SumFunctionOnSet(Weight, S)
<1>1. /\ S \in SUBSET Probes /\ IsFiniteSet(S)
      /\ \A p \in S : p \in probes /\ Scorable(stats, p) /\ Weight[p] \in Nat \ {0}
  BY CountedSound
<1>2. /\ WeightedScore(stats, a, probes) = IF S = {} THEN Zero ELSE DividedBy(Total(f, S), W)
      /\ WeightedScore(stats, b, probes) = IF S = {} THEN Zero ELSE DividedBy(Total(g, S), W)
  BY ScoreIs
<1>3. CASE S = {}
  <2>1. AtMost(Zero, Zero)
    BY DEF Zero, Whole, Below, AtMost
  <2> QED BY <1>2, <1>3, <2>1
<1>4. CASE S # {}
  <2>1. /\ f = [p \in S |-> Times(Whole(Weight[p]), Contribution(stats, a, p))]
        /\ g = [p \in S |-> Times(Whole(Weight[p]), Contribution(stats, b, p))]
    BY DEF Part
  <2> HIDE DEF S, f, g
  <2>2. ASSUME NEW p \in S
        PROVE  f[p] \in Fraction /\ g[p] \in Fraction /\ AtMost(g[p], f[p]) /\ AtMost(f[p], f[p])
    <3>1. p \in probes /\ p \in Probes /\ Scorable(stats, p) /\ Weight[p] \in Nat
      BY <1>1
    <3>2. /\ f[p] = Times(Whole(Weight[p]), Contribution(stats, a, p))
          /\ g[p] = Times(Whole(Weight[p]), Contribution(stats, b, p))
      BY <2>1
    <3>3. f[p] \in Fraction /\ g[p] \in Fraction /\ AtMost(g[p], f[p])
      BY <3>1, <3>2, PartsOrdered
    <3> QED BY <3>3, FractionsClosed
  <2>3. f \in [S -> Fraction] /\ g \in [S -> Fraction]
    BY <2>1, <2>2
  <2>4. Total(g, S) \in Fraction /\ AtMost(Total(g, S), Total(f, S))
    BY <1>1, <2>2, <2>3, TotalsOrdered
  <2>5. Total(f, S) \in Fraction
    BY <1>1, <2>2, <2>3, TotalsOrdered
  <2>6. Weight \in [Probes -> Nat]
    BY ScoringAssumption
  <2>7. W \in Nat /\ W # 0
    BY <1>1, <1>4, <2>6, WeightsAboveZero
  <2> HIDE DEF W
  <2>8. AtMost(DividedBy(Total(g, S), W), DividedBy(Total(f, S), W))
    BY <2>4, <2>5, <2>7, DividedOrders
  <2> QED BY <1>2, <1>4, <2>8
<1> QED BY <1>3, <1>4

(* The same for results: of two that succeeded with the same probes the    *)
(* one that reads no worse scores no less.                                 *)
LEMMA ResultsRank ==
  ASSUME NEW stats \in Stats, NEW r \in Result, NEW q \in Result,
         r.ok, q.ok, r.sample.probes = q.sample.probes,
         \A p \in r.sample.probes :
           IF Direction[p] = "maximize"
             THEN AtMost(Value(q.sample.source, p), Value(r.sample.source, p))
             ELSE AtMost(Value(r.sample.source, p), Value(q.sample.source, p))
  PROVE  AtMost(NormalizedScore(stats, q), NormalizedScore(stats, r))
<1>1. /\ r.sample.source \in Seeds \cup Branches /\ q.sample.source \in Seeds \cup Branches
      /\ r.sample.probes \in SUBSET Probes
  BY DEF Result, Sample
<1>2. AtMost(WeightedScore(stats, q.sample.source, r.sample.probes),
             WeightedScore(stats, r.sample.source, r.sample.probes))
  BY <1>1, WeightedScoresRank
<1> QED BY <1>2 DEF NormalizedScore

-----------------------------------------------------------------------------
(* The statistics are entries of fractions, and what is scored is scored   *)
(* with the copy of the round.                                             *)
NumbersSound ==
  /\ welford \in Stats /\ welfordFile \in Stats /\ frozenWelford \in Stats
  /\ pc # "scoring" => scores = {}
  /\ \A x \in scores : x.result \in Result /\ x.score = NormalizedScore(frozenWelford, x.result)

(* What is sound ranks.                                                    *)
LEMMA NumbersRank == NumbersSound => ScoresRank
<1> SUFFICES ASSUME NumbersSound, NEW x \in scores, NEW y \in scores,
                    x.result.ok, y.result.ok, x.result.sample.probes = y.result.sample.probes,
                    NoWorse(x.result, y.result)
             PROVE  AtMost(y.score, x.score)
  BY DEF ScoresRank
<1>1. /\ frozenWelford \in Stats /\ x.result \in Result /\ y.result \in Result
      /\ x.score = NormalizedScore(frozenWelford, x.result)
      /\ y.score = NormalizedScore(frozenWelford, y.result)
  BY DEF NumbersSound
<1> QED BY <1>1, ResultsRank DEF NoWorse

(* Nothing is there before the first process.                              *)
LEMMA NumbersInit == ScoringInit => NumbersSound
  BY FreshStats DEF ScoringInit, Init, NumbersSound

(* A process that ends forgets.                                            *)
LEMMA ForgetsNumbers == ASSUME NumbersSound, Forgets PROVE NumbersSound'
  BY FreshStats DEF NumbersSound, Forgets

(* A process starts from the file.                                         *)
LEMMA StartsNumbers == ASSUME NumbersSound, Starts PROVE NumbersSound'
<1>1. scores = {} /\ scores' = {}
  BY DEF NumbersSound, Starts, SkipCalibration, Calibrate, StartSession
<1> QED BY <1>1, FreshStats DEF NumbersSound, Starts, LoadedWelford

(* A run that is collected adds its values.                                *)
LEMMA CollectsNumbers == ASSUME NumbersSound, Typed, Collects PROVE NumbersSound'
<1>1. PICK r \in results' : welford' = UpdatedBy(welford, r)
  BY DEF Collects
<1>2. r \in Result
  BY <1>1 DEF Collects, Collect, Typed, TypeOK
<1>3. welford' \in Stats
  BY <1>1, <1>2, UpdatedStats DEF NumbersSound
<1>4. scores = {}
  BY DEF NumbersSound, Collects, Collect
<1> QED BY <1>3, <1>4 DEF NumbersSound, Collects

(* The file becomes what is in memory.                                     *)
LEMMA SavesNumbers == ASSUME NumbersSound, Saves PROVE NumbersSound'
  BY DEF NumbersSound, Saves, Replace

(* Evolution starts from the file, or the process ends.                    *)
LEMMA ConcludesNumbers == ASSUME NumbersSound, Concludes PROVE NumbersSound'
<1>1. CASE pc' = "evolving"
  <2>1. scores = {} /\ scores' = {}
    BY <1>1 DEF NumbersSound, Concludes, Conclude
  <2> QED BY <1>1, <2>1, FreshStats DEF NumbersSound, Concludes, LoadedWelford
<1>2. CASE pc' # "evolving"
  BY <1>2, ForgetsNumbers DEF Concludes
<1> QED BY <1>1, <1>2

(* A round takes its copy while no score is given.                         *)
LEMMA FreezesNumbers == ASSUME NumbersSound, Freezes PROVE NumbersSound'
<1>1. scores = {}
  BY DEF NumbersSound, Freezes, BeginRound
<1> QED BY <1>1 DEF NumbersSound, Freezes

(* Every score of a round is given with the same copy.                     *)
LEMMA ScoresNumbers == ASSUME NumbersSound, Typed, Scores PROVE NumbersSound'
<1>1. PICK r \in results \ results' :
        /\ scores' = scores \cup {[result |-> r, score |-> NormalizedScore(frozenWelford, r)]}
        /\ welford' = IF updating THEN UpdatedBy(welford, r) ELSE welford
  BY DEF Scores
<1>2. r \in Result
  BY <1>1 DEF Typed, TypeOK
<1>3. welford' \in Stats
  BY <1>1, <1>2, UpdatedStats DEF NumbersSound
<1>4. pc' = "scoring" /\ frozenWelford' = frozenWelford /\ welfordFile' = welfordFile
  BY DEF Scores, Score
<1>5. ASSUME NEW x \in scores'
      PROVE  x.result \in Result /\ x.score = NormalizedScore(frozenWelford, x.result)
  BY <1>1, <1>2 DEF NumbersSound
<1> HIDE <1>1
<1>6. ASSUME NEW x \in scores'
      PROVE  x.result \in Result /\ x.score = NormalizedScore(frozenWelford', x.result)
  BY <1>4, <1>5
<1> QED BY <1>3, <1>4, <1>6 DEF NumbersSound

(* A round forgets its scores.                                             *)
LEMMA EndsRoundNumbers == ASSUME NumbersSound, EndsRound PROVE NumbersSound'
  BY DEF NumbersSound, EndsRound

(* No numbers change elsewhere.                                            *)
LEMMA ElsewhereNumbers == ASSUME NumbersSound, Elsewhere PROVE NumbersSound'
<1>1. scores = {}
  BY DEF NumbersSound, Elsewhere, Log, Write
<1> QED BY <1>1 DEF NumbersSound, Elsewhere, numbers

(* Nor in the pool.                                                        *)
LEMMA EvaluatesNumbers == ASSUME NumbersSound, Evaluates PROVE NumbersSound'
<1>1. pc' = pc
  BY DEF Evaluates, Begin, Finish
<1> QED BY <1>1 DEF NumbersSound, Evaluates, numbers

(* All steps, a stutter included.                                          *)
LEMMA NumbersStep ==
  ASSUME NumbersSound, Typed, [ScoringNext]_scoringVars
  PROVE  NumbersSound'
<1>1. CASE Starts
  BY <1>1, StartsNumbers
<1>2. CASE Evaluates
  BY <1>2, EvaluatesNumbers
<1>3. CASE ScoringMain
  <2>1. CASE Collects
    BY <2>1, CollectsNumbers
  <2>2. CASE Saves
    BY <2>2, SavesNumbers
  <2>3. CASE Concludes
    BY <2>3, ConcludesNumbers
  <2>4. CASE Freezes
    BY <2>4, FreezesNumbers
  <2>5. CASE Scores
    BY <2>5, ScoresNumbers
  <2>6. CASE EndsRound
    BY <2>6, EndsRoundNumbers
  <2>7. CASE Elsewhere
    BY <2>7, ElsewhereNumbers
  <2>8. CASE Stop /\ Forgets
    BY <2>8, ForgetsNumbers
  <2> QED BY <1>3, <2>1, <2>2, <2>3, <2>4, <2>5, <2>6, <2>7, <2>8 DEF ScoringMain
<1>4. CASE Crash /\ Forgets
  BY <1>4, ForgetsNumbers
<1>5. CASE (Over /\ UNCHANGED numbers) \/ UNCHANGED scoringVars
  <2>1. pc' = pc /\ UNCHANGED numbers
    BY <1>5 DEF Over, scoringVars, vars
  <2> QED BY <2>1 DEF NumbersSound, numbers
<1> QED BY <1>1, <1>2, <1>3, <1>4, <1>5 DEF ScoringNext

(* Whatever the readings, weights and directions: of two results of a round *)
(* the one that is no worse in any probe scores no less.                    *)
THEOREM ScoresKeepRank == ScoringSpec => []ScoresRank
<1>1. ScoringInit => Typed /\ NumbersSound
  BY CalibTypesInit, NumbersInit DEF ScoringInit
<1>2. Typed /\ NumbersSound /\ [ScoringNext]_scoringVars => Typed' /\ NumbersSound'
  BY CalibTypesStep, NumbersStep, StepRefines DEF scoringVars
<1>3. Typed /\ NumbersSound => ScoresRank
  BY NumbersRank
<1> QED BY <1>1, <1>2, <1>3, PTL DEF ScoringSpec

-----------------------------------------------------------------------------
(* Welford's algorithm. *)

(* One sample more: n of them with sum S and sum of squares Q, and x.      *)
Batch(n, S, Q) == [n |-> n, mean |-> Quotient(S, n), M2 |-> Quotient(n * Q - S * S, n)]

(* Welford's update of the statistics of n samples gives those of n + 1. *)
LEMMA WelfordIsBatch ==
  ASSUME NEW n \in Nat \ {0}, NEW S \in Int, NEW Q \in Int, NEW x \in Int
  PROVE  WelfordUpdate(Batch(n, S, Q), Whole(x)) = Batch(n + 1, S + x, Q + x * x)
<1> DEFINE w == Batch(n, S, Q)
           delta == Minus(Whole(x), w.mean)
           mean == Plus(w.mean, DividedBy(delta, w.n + 1))
           dev == Minus(Whole(x), mean)
           k == n + 1
           e == x * n - S
           f == x * k - (S + x)
           v == n * Q - S * S
<1>1. w.n = n /\ w.mean = Quotient(S, n) /\ w.M2 = Quotient(v, n)
  BY DEF Batch
<1>2. /\ k \in Nat \ {0} /\ e \in Int /\ f \in Int /\ v \in Int /\ S + x \in Int
      /\ n * k \in Nat \ {0}
  OBVIOUS
<1>3. e = x * n - S /\ f = x * k - (S + x) /\ v = n * Q - S * S /\ k = n + 1
  OBVIOUS
<1>4. WelfordUpdate(w, Whole(x)) = [n |-> k, mean |-> mean, M2 |-> Plus(w.M2, Times(delta, dev))]
  BY <1>1 DEF WelfordUpdate
<1>5. Batch(k, S + x, Q + x * x) =
        [n |-> k, mean |-> Quotient(S + x, k), M2 |-> Quotient(k * (Q + x * x) - (S + x) * (S + x), k)]
  BY DEF Batch
<1>6. Whole(x) = Quotient(x, 1)
  BY WholeQuotient
<1> HIDE DEF w, e, f, v, k
<1>7. delta = Quotient(e, n)
  <2>1. Minus(Quotient(x, 1), Quotient(S, n)) = Quotient(x * n - S * 1, 1 * n)
    BY QuotientOperations
  <2>2. x * n - S * 1 = e /\ 1 * n = n
    BY <1>3
  <2> QED BY <1>1, <1>6, <2>1, <2>2
<1> HIDE DEF delta
<1>8. DividedBy(delta, w.n + 1) = Quotient(e, n * k)
  BY <1>1, <1>2, <1>3, <1>7, QuotientOperations
<1>9. mean = Quotient(S + x, k)
  <2>1. Plus(Quotient(S, n), Quotient(e, n * k)) = Quotient(S * (n * k) + e * n, n * (n * k))
    BY <1>2, QuotientOperations
  <2>2. S * (n * k) + e * n = (n * n) * (S + x)
    BY <1>3
  <2>3. ((n * n) * (S + x)) * k = (S + x) * (n * (n * k))
    BY <1>2
  <2>4. (n * n) * (S + x) \in Int /\ n * (n * k) \in Nat \ {0}
    BY <1>2
  <2>5. Quotient((n * n) * (S + x), n * (n * k)) = Quotient(S + x, k)
    BY <1>2, <2>3, <2>4, QuotientsEqual
  <2> QED BY <1>1, <1>8, <2>1, <2>2, <2>5
<1> HIDE DEF mean
<1>10. dev = Quotient(f, k)
  <2>1. Minus(Quotient(x, 1), Quotient(S + x, k)) = Quotient(x * k - (S + x) * 1, 1 * k)
    BY <1>2, QuotientOperations
  <2>2. x * k - (S + x) * 1 = f /\ 1 * k = k
    BY <1>2, <1>3
  <2> QED BY <1>6, <1>9, <2>1, <2>2
<1> HIDE DEF dev
<1>11. Times(delta, dev) = Quotient(e * f, n * k)
  BY <1>2, <1>7, <1>10, QuotientOperations
<1>12. Plus(w.M2, Times(delta, dev)) = Quotient(v * (n * k) + (e * f) * n, n * (n * k))
  <2> DEFINE c == e * f
             d == n * k
  <2>1. c \in Int /\ d \in Nat \ {0}
    BY <1>2
  <2>2. Times(delta, dev) = Quotient(c, d)
    BY <1>11
  <2> HIDE DEF c, d
  <2>3. Plus(Quotient(v, n), Quotient(c, d)) = Quotient(v * d + c * n, n * d)
    BY <1>2, <2>1, QuotientOperations
  <2>4. Plus(w.M2, Times(delta, dev)) = Quotient(v * d + c * n, n * d)
    BY <1>1, <2>2, <2>3
  <2> QED BY <2>4 DEF c, d
<1> DEFINE t == k * (Q + x * x) - (S + x) * (S + x)
<1>13. Quotient(v * (n * k) + (e * f) * n, n * (n * k)) = Quotient(t, k)
  <2>1. e = f
    BY <1>3
  <2>2. v * k + e * e = n * t
    <3>1. v * k = n * n * Q + n * Q - n * S * S - S * S
      BY <1>3
    <3>2. e * e = x * x * n * n - 2 * (x * n * S) + S * S
      BY <1>3
    <3>3. n * t = n * n * Q + n * Q + n * n * x * x + n * x * x - n * S * S - 2 * (n * S * x) - n * x * x
      BY <1>3
    <3>4. n * n * x * x = x * x * n * n /\ n * S * x = x * n * S
      OBVIOUS
    <3> DEFINE A == n * n * Q
               B == n * Q
               C == n * S * S
               D == S * S
               E == x * x * n * n
               F == x * n * S
               G == n * x * x
    <3>5. A \in Int /\ B \in Int /\ C \in Int /\ D \in Int /\ E \in Int /\ F \in Int /\ G \in Int
      OBVIOUS
    <3>6. v * k = A + B - C - D /\ e * e = E - 2 * F + D /\ n * t = A + B + E + G - C - 2 * F - G
      BY <3>1, <3>2, <3>3, <3>4
    <3> HIDE DEF A, B, C, D, E, F, G, t
    <3> QED BY <3>5, <3>6
  <2>3. t \in Int
    BY <1>2
  <2> HIDE DEF t
  <2>4. v * (n * k) + (e * f) * n = (n * n) * t
    <3>1. v * (n * k) = (v * k) * n
      BY <1>2
    <3>2. (v * k) * n + (e * e) * n = (v * k + e * e) * n
      <4>1. v * k \in Int /\ e * e \in Int
        BY <1>2
      <4> QED BY <4>1
    <3>3. (n * t) * n = (n * n) * t
      BY <2>3
    <3> QED BY <2>1, <2>2, <3>1, <3>2, <3>3
  <2>5. ((n * n) * t) * k = t * (n * (n * k))
    BY <1>2, <2>3
  <2>6. (n * n) * t \in Int /\ n * (n * k) \in Nat \ {0}
    BY <1>2, <2>3
  <2>7. Quotient((n * n) * t, n * (n * k)) = Quotient(t, k)
    BY <1>2, <2>3, <2>5, <2>6, QuotientsEqual
  <2> QED BY <2>4, <2>7
<1>14. WelfordUpdate(w, Whole(x)) = Batch(k, S + x, Q + x * x)
  BY <1>4, <1>5, <1>9, <1>12, <1>13
<1> QED BY <1>14 DEF w, k

(* The first sample. *)
LEMMA WelfordBegins ==
  ASSUME NEW x \in Int
  PROVE  WelfordUpdate(NoEntry, Whole(x)) = Batch(1, x, x * x)
<1> DEFINE delta == Minus(Whole(x), Whole(0))
           mean == Plus(Whole(0), DividedBy(delta, 1))
           dev == Minus(Whole(x), mean)
<1>1. WelfordUpdate(NoEntry, Whole(x)) =
        [n |-> 1, mean |-> mean, M2 |-> Plus(Whole(0), Times(delta, dev))]
  BY DEF WelfordUpdate, NoEntry, Zero
<1>2. Whole(x) = Quotient(x, 1) /\ Whole(0) = Quotient(0, 1)
  BY WholeQuotient
<1>3. delta = Quotient(x, 1)
  <2>1. Minus(Quotient(x, 1), Quotient(0, 1)) = Quotient(x * 1 - 0 * 1, 1 * 1)
    BY QuotientOperations
  <2>2. x * 1 - 0 * 1 = x /\ 1 * 1 = 1
    OBVIOUS
  <2> QED BY <1>2, <2>1, <2>2
<1> HIDE DEF delta
<1>4. DividedBy(delta, 1) = Quotient(x, 1)
  <2>1. DividedBy(Quotient(x, 1), 1) = Quotient(x, 1 * 1)
    BY QuotientOperations
  <2>2. 1 * 1 = 1
    OBVIOUS
  <2> QED BY <1>3, <2>1, <2>2
<1>5. mean = Quotient(x, 1)
  <2>1. Plus(Quotient(0, 1), Quotient(x, 1)) = Quotient(0 * 1 + x * 1, 1 * 1)
    BY QuotientOperations
  <2>2. 0 * 1 + x * 1 = x /\ 1 * 1 = 1
    OBVIOUS
  <2> QED BY <1>2, <1>4, <2>1, <2>2
<1> HIDE DEF mean
<1>6. dev = Quotient(0, 1)
  <2>1. Minus(Quotient(x, 1), Quotient(x, 1)) = Quotient(x * 1 - x * 1, 1 * 1)
    BY QuotientOperations
  <2>2. x * 1 - x * 1 = 0 /\ 1 * 1 = 1
    OBVIOUS
  <2> QED BY <1>2, <1>5, <2>1, <2>2
<1> HIDE DEF dev
<1>7. Plus(Whole(0), Times(delta, dev)) = Quotient(0, 1)
  <2>1. Times(Quotient(x, 1), Quotient(0, 1)) = Quotient(x * 0, 1 * 1)
    BY QuotientOperations
  <2>2. Plus(Quotient(0, 1), Quotient(0, 1)) = Quotient(0 * 1 + 0 * 1, 1 * 1)
    BY QuotientOperations
  <2>3. x * 0 = 0 /\ 0 * 1 + 0 * 1 = 0 /\ 1 * 1 = 1
    OBVIOUS
  <2> QED BY <1>2, <1>3, <1>6, <2>1, <2>2, <2>3
<1>8. 1 * (x * x) - x * x = 0
  OBVIOUS
<1> QED BY <1>1, <1>5, <1>7, <1>8 DEF Batch

(* What the samples of a probe read, and its square.                       *)
Reads(p) == [s \in Sample |-> Value(s.source, p)[1]]
Squares(p) == [s \in Sample |-> Reads(p)[s] * Reads(p)[s]]
SamplesOf(stats, p) == {s \in stats : p \in s.probes}

(* Readings and their squares are numbers. *)
LEMMA ReadsNumbers ==
  ASSUME NEW p \in Probes
  PROVE  /\ Reads(p) \in [Sample -> Int] /\ Squares(p) \in [Sample -> Int]
         /\ \A s \in Sample : Value(s.source, p) = Whole(Reads(p)[s])
<1>1. ASSUME NEW s \in Sample
      PROVE  Value(s.source, p)[1] \in Int /\ Value(s.source, p) = Whole(Value(s.source, p)[1])
  <2>1. Reading[s.source][p] \in Int \cup {Missing}
    BY ScoringAssumption DEF Sample
  <2> QED BY <2>1 DEF Value, Zero, Whole
<1> QED BY <1>1 DEF Reads, Squares

(* The statistics of a set of samples are those of its sums. *)
LEMMA BatchIs ==
  ASSUME NEW stats, NEW p
  PROVE  LET S == SamplesOf(stats, p)
         IN  BatchOf(stats, p) =
               IF Cardinality(S) = 0 THEN NoEntry
               ELSE Batch(Cardinality(S), SumFunctionOnSet(Reads(p), S), SumFunctionOnSet(Squares(p), S))
  BY DEF BatchOf, Batch, Quotient, SamplesOf, Reads, Squares

(* A new sample of a probe updates its entry, as Welford's algorithm does. *)
LEMMA BatchAdds ==
  ASSUME NEW stats \in SUBSET Sample, IsFiniteSet(stats), NEW s \in Sample, s \notin stats,
         NEW p \in Probes
  PROVE  BatchOf(stats \cup {s}, p) =
           IF p \in s.probes THEN WelfordUpdate(BatchOf(stats, p), Value(s.source, p))
           ELSE BatchOf(stats, p)
<1> DEFINE S == SamplesOf(stats, p)
           U == SamplesOf(stats \cup {s}, p)
           n == Cardinality(S)
           x == Reads(p)[s]
<1>1. CASE p \notin s.probes
  <2>1. U = S
    BY <1>1 DEF SamplesOf
  <2> QED BY <1>1, <2>1, BatchIs
<1>2. CASE p \in s.probes
  <2>1. U = S \cup {s} /\ S \in SUBSET Sample /\ s \notin S /\ S \in SUBSET stats
    BY <1>2 DEF SamplesOf
  <2>2. IsFiniteSet(S) /\ n \in Nat /\ Cardinality(U) = n + 1
    BY <2>1, FS_Subset, FS_CardinalityType, FS_AddElement
  <2>3. /\ Reads(p) \in [Sample -> Int] /\ Squares(p) \in [Sample -> Int]
        /\ Value(s.source, p) = Whole(x) /\ x \in Int /\ Squares(p)[s] = x * x
    <3>1. Squares(p)[s] = x * x
      BY DEF Squares
    <3> QED BY <3>1, ReadsNumbers
  <2> DEFINE a == SumFunctionOnSet(Reads(p), S)
             b == SumFunctionOnSet(Squares(p), S)
  <2>10. ASSUME NEW w \in [Sample -> Int]
         PROVE  /\ SumFunctionOnSet(w, S) \in Int
                /\ SumFunctionOnSet(w, S \cup {s}) = SumFunctionOnSet(w, S) + w[s]
    <3> HIDE DEF S, U, n, a, b, x
    <3> QED BY <2>1, <2>2, SumAdds
  <2>4. a \in Int /\ SumFunctionOnSet(Reads(p), U) = a + x
    <3> HIDE DEF S, U
    <3>1. a \in Int /\ SumFunctionOnSet(Reads(p), S \cup {s}) = a + x
      BY <2>3, <2>10
    <3> QED BY <2>1, <3>1, Zenon
  <2>5. b \in Int /\ SumFunctionOnSet(Squares(p), U) = b + x * x
    <3> HIDE DEF S, U
    <3>1. b \in Int /\ SumFunctionOnSet(Squares(p), S \cup {s}) = b + Squares(p)[s]
      BY <2>3, <2>10
    <3>2. b \in Int /\ SumFunctionOnSet(Squares(p), U) = b + Squares(p)[s]
      BY <2>1, <3>1, Zenon
    <3> QED BY <2>3, <3>2, Zenon
  <2>6. BatchOf(stats \cup {s}, p) = Batch(n + 1, a + x, b + x * x)
    BY <2>2, <2>4, <2>5, BatchIs
  <2>7. BatchOf(stats, p) = IF n = 0 THEN NoEntry ELSE Batch(n, a, b)
    BY BatchIs
  <2>8. CASE n = 0
    <3>1. S = {}
      BY <2>2, <2>8, FS_EmptySet
    <3>2. a = 0 /\ b = 0
      BY <2>3, <3>1, SumOfNone
    <3>3. WelfordUpdate(NoEntry, Whole(x)) = Batch(1, x, x * x)
      BY <2>3, WelfordBegins
    <3> HIDE DEF n, a, b, x
    <3>4. n + 1 = 1 /\ a + x = x /\ b + x * x = x * x
      BY <2>3, <2>8, <3>2
    <3> QED BY <1>2, <2>3, <2>6, <2>7, <2>8, <3>3, <3>4
  <2>9. CASE n # 0
    <3> HIDE DEF n, a, b, x
    <3>1. WelfordUpdate(Batch(n, a, b), Whole(x)) = Batch(n + 1, a + x, b + x * x)
      BY <2>2, <2>3, <2>4, <2>5, <2>9, WelfordIsBatch
    <3> QED BY <1>2, <2>3, <2>6, <2>7, <2>9, <3>1
  <2> QED BY <2>8, <2>9
<1> QED BY <1>1, <1>2

(* The statistics of a set of samples. *)
ExactFor(w, stats) == \A p \in Probes : w[p] = BatchOf(stats, p)

(* A result that is new to a set of samples updates the statistics of it.  *)
LEMMA UpdatesExactly ==
  ASSUME NEW stats \in SUBSET Sample, IsFiniteSet(stats), NEW w, ExactFor(w, stats),
         NEW r \in Result, r.sample \notin stats
  PROVE  ExactFor(UpdatedBy(w, r), Updated(stats, r))
<1>1. r.sample \in Sample /\ r.sample.probes \in SUBSET Probes
  BY DEF Result, Sample
<1> SUFFICES ASSUME NEW p \in Probes
             PROVE  UpdatedBy(w, r)[p] = BatchOf(Updated(stats, r), p)
  BY DEF ExactFor
<1>2. w[p] = BatchOf(stats, p)
  BY DEF ExactFor
<1>3. UpdatedBy(w, r)[p] = IF r.ok /\ p \in r.sample.probes
                             THEN WelfordUpdate(w[p], Value(r.sample.source, p)) ELSE w[p]
  BY DEF UpdatedBy, RawValues
<1>4. CASE r.ok /\ r.sample.probes # {}
  <2>1. Updated(stats, r) = stats \cup {r.sample}
    BY <1>4 DEF Updated
  <2> QED BY <1>1, <1>2, <1>3, <1>4, <2>1, BatchAdds
<1>5. CASE ~ (r.ok /\ r.sample.probes # {})
  <2>1. Updated(stats, r) = stats
    BY <1>5 DEF Updated
  <2>2. ~ (r.ok /\ p \in r.sample.probes)
    BY <1>5
  <2> QED BY <1>2, <1>3, <2>1, <2>2
<1> QED BY <1>4, <1>5

(* No samples, no entries. *)
LEMMA FreshIsExact == ExactFor(Fresh, {})
<1>1. \A p \in Probes : SamplesOf({}, p) = {}
  BY DEF SamplesOf
<1>2. \A p \in Probes : BatchOf({}, p) = NoEntry
  BY <1>1, FS_EmptySet, BatchIs
<1> QED BY <1>2 DEF ExactFor, Fresh

-----------------------------------------------------------------------------
(* No sample counts twice. *)

(* A job is in one place, and a result is the one result of its job.       *)
JobOf(r) == <<r.sample.source, r.sample.run>>

(* A job that is queued, run or finished is in one of these places. *)
JobsOnce ==
  /\ pc = "off" => waiting = {} /\ running = {} /\ finished = {}
  /\ waiting \cap running = {}
  /\ \A r \in finished : r.sample.session = session /\ JobOf(r) \in Job \ (waiting \cup running)
  /\ \A q, r \in finished : JobOf(q) = JobOf(r) => q = r

(* A round has one result of a branch. *)
ResultsOnce ==
  pc = "scoring" =>
    /\ \A r \in results :
         r.sample.session = session /\ r.sample.source \in Branches /\ r.sample.run = round
    /\ \A q, r \in results : q.sample.source = r.sample.source => q = r

(* A sample of this process has no job and no result any more.             *)
IsOver(s) ==
  /\ s.session <= session
  /\ s.session = session /\ pc # "off" =>
       /\ <<s.source, s.run>> \notin waiting \cup running
       /\ \A r \in finished : JobOf(r) # <<s.source, s.run>>
       /\ s.source \in Branches =>
            /\ s.run <= round
            /\ pc = "scoring" /\ s.run = round => \A r \in results : r.sample.source # s.source

(* Neither the samples in memory nor those of the file come a second time. *)
HeldOnce ==
  /\ IsFiniteSet(normState) /\ IsFiniteSet(Loaded)
  /\ \A s \in normState \cup Loaded : IsOver(s)

Distinct == JobsOnce /\ ResultsOnce /\ HeldOnce

(* Nothing is queued, run, held or saved at first. *)
LEMMA DistinctInit == Init => Distinct
  BY FS_EmptySet DEF Init, NoFile, Loaded, Distinct, JobsOnce, ResultsOnce, HeldOnce

(* Nothing changes but the end of the process. *)
LEMMA EndsDistinct ==
  ASSUME Typed, Distinct, Ends, UNCHANGED normFile
  PROVE  Distinct'
<1>1. JobsOnce' /\ ResultsOnce'
  BY DEF Ends, JobsOnce, ResultsOnce
<1>2. HeldOnce'
  BY FS_EmptySet DEF Ends, Distinct, HeldOnce, IsOver, Loaded
<1> QED BY <1>1, <1>2 DEF Distinct

(* Samples and the session have the types they should.                     *)
LEMMA HeldTypes ==
  ASSUME Typed
  PROVE  /\ session \in Nat /\ round \in Nat
         /\ \A s \in normState \cup Loaded : s \in Sample
         /\ \A s \in Sample : s.session \in Nat /\ s.run \in Nat
  BY CalibrationAssumption DEF Typed, TypeOK, Loaded, Sample

(* What a new process loads is of earlier ones. *)
LEMMA StartDistinct ==
  ASSUME Typed, Distinct, SkipCalibration \/ Calibrate
  PROVE  Distinct'
<1>1. /\ pc = "off" /\ session' = session + 1 /\ normState' = Loaded
      /\ normFile' = normFile /\ results' = results
      /\ running' = running /\ finished' = finished /\ pc' # "scoring" /\ pc' # "off"
  BY DEF SkipCalibration, Calibrate, StartSession, pool
<1>2. waiting' = waiting \/ waiting' \in SUBSET Job
  <2>1. CASE SkipCalibration
    BY <2>1 DEF SkipCalibration, pool
  <2>2. CASE Calibrate
    BY <2>2 DEF Calibrate, Job
  <2> QED BY <2>1, <2>2
<1>3. JobsOnce' /\ ResultsOnce'
  BY <1>1, <1>2 DEF Distinct, JobsOnce, ResultsOnce
<1>4. Loaded' = Loaded
  BY <1>1 DEF Loaded
<1>5. ASSUME NEW s \in Loaded PROVE IsOver(s)'
  <2>1. s.session <= session /\ s.session \in Nat /\ session \in Nat
    BY HeldTypes DEF Distinct, HeldOnce, IsOver
  <2> QED BY <1>1, <2>1 DEF IsOver
<1>6. HeldOnce'
  BY <1>1, <1>4, <1>5 DEF Distinct, HeldOnce
<1> QED BY <1>3, <1>6 DEF Distinct

(* A job goes from the queue to a worker, and from there to its result.    *)
LEMMA PoolDistinct ==
  ASSUME Typed, Distinct, NEW job \in Job, Begin(job) \/ Finish(job)
  PROVE  Distinct'
<1>1. CASE Begin(job)
  <2>1. /\ job \in waiting /\ waiting' = waiting \ {job} /\ running' = running \cup {job}
        /\ UNCHANGED <<session, pc, normState, normFile, finished, results, round>>
    BY <1>1 DEF Begin, evolution
  <2>2. JobsOnce'
    BY <2>1 DEF Distinct, JobsOnce, JobOf
  <2>3. ResultsOnce'
    BY <2>1 DEF Distinct, ResultsOnce
  <2>4. Loaded' = Loaded
    BY <2>1 DEF Loaded
  <2>5. HeldOnce'
    BY <2>1, <2>4 DEF Distinct, HeldOnce, IsOver, JobOf
  <2> QED BY <2>2, <2>3, <2>5 DEF Distinct
<1>2. CASE Finish(job)
  <2>1. PICK r : /\ finished' = finished \cup {r} /\ r.sample.session = session
                 /\ r.sample.source = job[1] /\ r.sample.run = job[2]
    <3>1. PICK ok \in BOOLEAN, probes \in Reported :
            finished' = finished \cup
              {[ok |-> ok,
                sample |-> [session |-> session, source |-> job[1], run |-> job[2],
                            probes |-> IF ok THEN probes ELSE {}]]}
      BY <1>2 DEF Finish
    <3> DEFINE r == [ok |-> ok,
                     sample |-> [session |-> session, source |-> job[1], run |-> job[2],
                                 probes |-> IF ok THEN probes ELSE {}]]
    <3>2. r.sample.session = session /\ r.sample.source = job[1] /\ r.sample.run = job[2]
      OBVIOUS
    <3>3. finished' = finished \cup {r}
      BY <3>1
    <3> HIDE DEF r
    <3> QED BY <3>2, <3>3
  <2>2. /\ job \in running /\ running' = running \ {job}
        /\ UNCHANGED <<session, pc, normState, normFile, waiting, results, round>>
    BY <1>2 DEF Finish, evolution
  <2>3. JobOf(r) = job
    BY <2>1 DEF JobOf, Job
  <2>4. JobsOnce'
    BY <2>1, <2>2, <2>3 DEF Distinct, JobsOnce, JobOf
  <2>5. ResultsOnce'
    BY <2>2 DEF Distinct, ResultsOnce
  <2>6. Loaded' = Loaded
    BY <2>2 DEF Loaded
  <2>7. HeldOnce'
    BY <2>1, <2>2, <2>3, <2>6 DEF Distinct, HeldOnce, IsOver, JobOf
  <2> QED BY <2>4, <2>5, <2>7 DEF Distinct
<1> QED BY <1>1, <1>2

(* The result that is collected is new to the statistics.                  *)
LEMMA CollectDistinct ==
  ASSUME Typed, Distinct, NEW r \in finished, pc = "collecting",
         finished' = finished \ {r}, results' = {r}, normState' = Updated(normState, r),
         pc' = AfterUpdate(r), UNCHANGED <<session, normFile, waiting, running, round>>
  PROVE  Distinct' /\ r.sample \notin normState
<1>1. pc' # "scoring" /\ pc' # "off"
  BY DEF AfterUpdate
<1>2. JobsOnce' /\ ResultsOnce'
  BY <1>1 DEF Distinct, JobsOnce, ResultsOnce, JobOf
<1>3. /\ r.sample.session = session /\ JobOf(r) \notin waiting \cup running /\ JobOf(r) \in Job
      /\ \A q \in finished : JobOf(q) = JobOf(r) => q = r
  BY DEF Distinct, JobsOnce
<1>4. r.sample \notin normState
  <2> SUFFICES ASSUME r.sample \in normState PROVE FALSE
    OBVIOUS
  <2> QED BY <1>3 DEF Distinct, HeldOnce, IsOver, JobOf
<1>5. Loaded' = Loaded
  BY DEF Loaded
<1>6. IsOver(r.sample)'
  <2>1. r.sample.source \notin Branches
    <3>1. JobOf(r)[1] \in Seeds
      BY <1>3 DEF Job
    <3> QED BY <3>1, CalibrationAssumption DEF JobOf
  <2>2. session \in Nat
    BY HeldTypes
  <2> QED BY <1>1, <1>3, <2>1, <2>2 DEF IsOver, JobOf
<1>7. ASSUME NEW s \in normState \cup Loaded PROVE IsOver(s)'
  BY <1>1 DEF Distinct, HeldOnce, IsOver, JobOf
<1>8. IsFiniteSet(normState')
  BY FS_AddElement DEF Distinct, HeldOnce, Updated
<1>9. HeldOnce'
  <2>1. normState' \in SUBSET (normState \cup {r.sample})
    BY DEF Updated
  <2>2. IsFiniteSet(Loaded)
    BY DEF Distinct, HeldOnce
  <2> QED BY <1>5, <1>6, <1>7, <1>8, <2>1, <2>2 DEF HeldOnce
<1> QED BY <1>2, <1>4, <1>9 DEF Distinct

(* What is saved or reloaded was held. *)
LEMMA MovingDistinct ==
  ASSUME Typed, Distinct,
         \/ Log \/ EndRound \/ UNCHANGED vars \/ (Conclude /\ ~ Ends)
         \/ Write("writing", "replacing") \/ Replace("replacing", "logging")
         \/ Write("roundWriting", "roundReplacing") \/ Replace("roundReplacing", "evolving")
  PROVE  Distinct'
<1>1. /\ UNCHANGED <<session, waiting, running, finished, round>>
      /\ pc' # "off" \/ UNCHANGED <<pc, normState, normFile, results>>
      /\ pc' # "scoring" \/ UNCHANGED <<pc, normState, normFile, results>>
  BY DEF Log, EndRound, Conclude, Write, WhileWriting, Replace, vars, calibration, pool, evolution
<1>2. pc' # "off" => pc # "off"
  BY DEF Log, EndRound, Conclude, Write, Replace, vars
<1>3. /\ Loaded' \in {Loaded, normState} /\ normState' \in {Loaded, normState}
  <2>1. CASE Replace("replacing", "logging") \/ Replace("roundReplacing", "evolving")
    BY <2>1 DEF Replace, Saved, Loaded
  <2>2. CASE Write("writing", "replacing") \/ Write("roundWriting", "roundReplacing")
    BY <2>2 DEF Write, WhileWriting, Loaded
  <2>3. CASE Log \/ EndRound \/ UNCHANGED vars
    BY <2>3 DEF Log, EndRound, Loaded, vars
  <2>4. CASE Conclude /\ ~ Ends
    BY <2>4 DEF Conclude, Reloaded, Loaded
  <2> QED BY <2>1, <2>2, <2>3, <2>4
<1>4. JobsOnce'
  BY <1>1, <1>2 DEF Distinct, JobsOnce, JobOf
<1>5. ResultsOnce'
  BY <1>1 DEF Distinct, ResultsOnce
<1>6. ASSUME NEW s \in normState \cup Loaded PROVE IsOver(s)'
  <2>1. IsOver(s)
    BY DEF Distinct, HeldOnce
  <2> QED BY <1>1, <1>2, <2>1 DEF IsOver, JobOf
<1>7. HeldOnce'
  BY <1>3, <1>6 DEF Distinct, HeldOnce
<1> QED BY <1>4, <1>5, <1>7 DEF Distinct

(* The results of a round are one of each branch, in a round of their own. *)
LEMMA BeginRoundDistinct ==
  ASSUME Typed, Distinct, BeginRound
  PROVE  Distinct'
<1>1. /\ pc' = "scoring" /\ pc = "evolving" /\ round' = round + 1
      /\ UNCHANGED <<session, normState, normFile, waiting, running, finished>>
  BY DEF BeginRound, pool
<1>2. PICK returned \in SUBSET Branches :
        \E ok \in [returned -> BOOLEAN], probes \in [returned -> Reported] :
          results' =
            {[ok |-> ok[b],
              sample |-> [session |-> session, source |-> b, run |-> round',
                          probes |-> IF ok[b] THEN probes[b] ELSE {}]] : b \in returned}
  BY DEF BeginRound
<1>3. PICK ok \in [returned -> BOOLEAN], probes \in [returned -> Reported] :
          results' =
            {[ok |-> ok[b],
              sample |-> [session |-> session, source |-> b, run |-> round',
                          probes |-> IF ok[b] THEN probes[b] ELSE {}]] : b \in returned}
  BY <1>2
<1>4. JobsOnce'
  BY <1>1 DEF Distinct, JobsOnce, JobOf
<1>5. ResultsOnce'
  <2> DEFINE ResultOf(b) ==
               [ok |-> ok[b],
                sample |-> [session |-> session, source |-> b, run |-> round',
                            probes |-> IF ok[b] THEN probes[b] ELSE {}]]
  <2>1. \A b \in returned : /\ ResultOf(b).sample.session = session
                            /\ ResultOf(b).sample.source = b /\ ResultOf(b).sample.run = round'
    OBVIOUS
  <2>2. results' = {ResultOf(b) : b \in returned}
    BY <1>3
  <2> HIDE DEF ResultOf
  <2> QED BY <1>1, <2>1, <2>2 DEF ResultsOnce
<1>6. Loaded' = Loaded
  BY <1>1 DEF Loaded
<1>7. ASSUME NEW s \in normState \cup Loaded PROVE IsOver(s)'
  <2>1. IsOver(s) /\ s.run \in Nat /\ round \in Nat
    BY HeldTypes DEF Distinct, HeldOnce
  <2> QED BY <1>1, <2>1 DEF IsOver, JobOf
<1>8. HeldOnce'
  BY <1>1, <1>6, <1>7 DEF Distinct, HeldOnce
<1> QED BY <1>4, <1>5, <1>8 DEF Distinct

(* The result that is scored is new to the statistics.                     *)
LEMMA ScoreDistinct ==
  ASSUME Typed, Distinct, pc = "scoring", NEW r \in results, results' = results \ {r},
         normState' = IF updating THEN Updated(normState, r) ELSE normState,
         UNCHANGED <<session, pc, normFile, waiting, running, finished, round>>
  PROVE  Distinct' /\ r.sample \notin normState
<1>1. JobsOnce'
  BY DEF Distinct, JobsOnce, JobOf
<1>2. ResultsOnce'
  BY DEF Distinct, ResultsOnce
<1>3. /\ r.sample.session = session /\ r.sample.source \in Branches /\ r.sample.run = round
      /\ \A q \in results : q.sample.source = r.sample.source => q = r
  BY DEF Distinct, ResultsOnce
<1>4. r.sample \notin normState
  <2> SUFFICES ASSUME r.sample \in normState PROVE FALSE
    OBVIOUS
  <2> QED BY <1>3 DEF Distinct, HeldOnce, IsOver
<1>5. Loaded' = Loaded
  BY DEF Loaded
<1>6. IsOver(r.sample)'
  <2>1. \A j \in Job : j[1] # r.sample.source
    BY <1>3, CalibrationAssumption DEF Job
  <2>2. waiting \cup running \in SUBSET Job /\ \A q \in finished : JobOf(q) \in Job
    BY DEF Typed, TypeOK, Distinct, JobsOnce
  <2>3. /\ <<r.sample.source, r.sample.run>> \notin waiting \cup running
        /\ \A q \in finished : JobOf(q) # <<r.sample.source, r.sample.run>>
    BY <2>1, <2>2
  <2>4. session \in Nat /\ round \in Nat
    BY HeldTypes
  <2> QED BY <1>3, <2>3, <2>4 DEF IsOver, JobOf
<1>7. ASSUME NEW s \in normState \cup Loaded PROVE IsOver(s)'
  BY DEF Distinct, HeldOnce, IsOver, JobOf
<1>8. IsFiniteSet(normState')
  BY FS_AddElement DEF Distinct, HeldOnce, Updated
<1>9. HeldOnce'
  <2>1. normState' \in SUBSET (normState \cup {r.sample})
    BY DEF Updated
  <2>2. IsFiniteSet(Loaded)
    BY DEF Distinct, HeldOnce
  <2> QED BY <1>5, <1>6, <1>7, <1>8, <2>1, <2>2 DEF HeldOnce
<1> QED BY <1>1, <1>2, <1>4, <1>9 DEF Distinct

-----------------------------------------------------------------------------
(* The statistics of the samples. *)

(* The statistics are those of the samples, in memory and in the file.     *)
Exact ==
  /\ ExactFor(welford, normState)
  /\ ExactFor(LoadedWelford, Loaded)

(* The invariant gives the property the runs check. *)
LEMMA ExactIs == Exact => WelfordExact
<1> SUFFICES ASSUME Exact PROVE WelfordExact
  OBVIOUS
<1>1. normFile.whole => LoadedWelford = welfordFile /\ Loaded = normFile.samples
  BY DEF LoadedWelford, Loaded
<1> QED BY <1>1 DEF Exact, ExactFor, WelfordExact

(* There are no samples at first. *)
LEMMA ExactInit == ScoringInit => Exact
<1> SUFFICES ASSUME ScoringInit PROVE Exact
  OBVIOUS
<1>1. welford = Fresh /\ welfordFile = Fresh /\ normState = {} /\ LoadedWelford = Fresh /\ Loaded = {}
  BY DEF ScoringInit, Init, NoFile, LoadedWelford, Loaded
<1> QED BY <1>1, FreshIsExact DEF Exact

(* A process that ends leaves the file and forgets the rest.               *)
LEMMA EndsExact ==
  ASSUME Typed, Distinct, Exact, Ends, Forgets, UNCHANGED normFile
  PROVE  Distinct' /\ Exact'
<1>1. Distinct'
  BY EndsDistinct
<1>2. /\ welford' = Fresh /\ normState' = {}
      /\ LoadedWelford' = LoadedWelford /\ Loaded' = Loaded
  BY DEF Ends, Forgets, LoadedWelford, Loaded
<1> QED BY <1>1, <1>2, FreshIsExact DEF Exact

(* A process that loads the file has the statistics of the samples it holds. *)
LEMMA StartsExact ==
  ASSUME Typed, Distinct, Exact, Starts
  PROVE  Distinct' /\ Exact'
<1>1. Distinct'
  BY StartDistinct DEF Starts
<1>2. /\ welford' = LoadedWelford /\ welfordFile' = welfordFile /\ normState' = Loaded
      /\ normFile' = normFile
  BY DEF Starts, SkipCalibration, Calibrate, StartSession
<1>3. LoadedWelford' = LoadedWelford /\ Loaded' = Loaded
  BY <1>2 DEF LoadedWelford, Loaded
<1> QED BY <1>1, <1>2, <1>3 DEF Exact

(* A result of calibration is counted once. *)
LEMMA CollectsExact ==
  ASSUME Typed, Distinct, Exact, Collects
  PROVE  Distinct' /\ Exact'
<1>1. PICK r \in finished :
        /\ pc = "collecting" /\ finished' = finished \ {r} /\ results' = {r}
        /\ normState' = Updated(normState, r) /\ pc' = AfterUpdate(r)
  BY DEF Collects, Collect
<1>2. /\ UNCHANGED <<session, normFile, waiting, running, round>> /\ welfordFile' = welfordFile
      /\ welford' = UpdatedBy(welford, r)
  BY <1>1 DEF Collects, Collect, evolution
<1>3. Distinct' /\ r.sample \notin normState
  BY <1>1, <1>2, CollectDistinct
<1>4. r \in Result /\ normState \in SUBSET Sample /\ IsFiniteSet(normState)
  BY DEF Typed, TypeOK, Distinct, HeldOnce
<1>5. ExactFor(welford', normState')
  BY <1>1, <1>2, <1>3, <1>4, UpdatesExactly DEF Exact
<1>6. LoadedWelford' = LoadedWelford /\ Loaded' = Loaded
  BY <1>2 DEF LoadedWelford, Loaded
<1> QED BY <1>3, <1>5, <1>6 DEF Exact

(* The file gets the statistics in memory. *)
LEMMA SavesExact ==
  ASSUME Typed, Distinct, Exact, Saves
  PROVE  Distinct' /\ Exact'
<1>1. Distinct'
  BY MovingDistinct DEF Saves
<1>2. /\ normState' = normState /\ normFile' = Saved /\ welford' = welford /\ welfordFile' = welford
  BY DEF Saves, Replace
<1>3. LoadedWelford' = welford /\ Loaded' = normState
  BY <1>2 DEF LoadedWelford, Loaded, Saved
<1> QED BY <1>1, <1>2, <1>3 DEF Exact

(* The end of calibration saves, and may load, what is held. *)
LEMMA ConcludesExact ==
  ASSUME Typed, Distinct, Exact, Concludes
  PROVE  Distinct' /\ Exact'
<1>1. CASE Ends
  <2>1. pc' # "evolving"
    BY <1>1 DEF Ends
  <2>2. Forgets /\ UNCHANGED normFile
    BY <2>1 DEF Concludes, Conclude
  <2> QED BY <1>1, <2>2, EndsExact
<1>2. CASE ~ Ends
  <2>1. Distinct'
    BY <1>2, MovingDistinct DEF Concludes
  <2>2. /\ normState' = Loaded /\ normFile' = normFile /\ welford' = LoadedWelford
        /\ welfordFile' = welfordFile
    BY <1>2 DEF Concludes, Conclude, Reloaded
  <2>3. LoadedWelford' = LoadedWelford /\ Loaded' = Loaded
    BY <2>2 DEF LoadedWelford, Loaded
  <2> QED BY <2>1, <2>2, <2>3 DEF Exact
<1> QED BY <1>1, <1>2

(* A result of a round is counted once, where the baseline moves. *)
LEMMA ScoresExact ==
  ASSUME Typed, Distinct, Exact, Scores
  PROVE  Distinct' /\ Exact'
<1>1. PICK r \in results :
        /\ pc = "scoring" /\ results' = results \ {r}
        /\ normState' = IF updating THEN Updated(normState, r) ELSE normState
  BY DEF Scores, Score
<1>2. /\ UNCHANGED <<session, pc, normFile, waiting, running, finished, round>>
      /\ welfordFile' = welfordFile
      /\ welford' = IF updating THEN UpdatedBy(welford, r) ELSE welford
  BY <1>1 DEF Scores, Score, pool
<1>3. Distinct' /\ r.sample \notin normState
  BY <1>1, <1>2, ScoreDistinct
<1>4. r \in Result /\ normState \in SUBSET Sample /\ IsFiniteSet(normState)
  BY DEF Typed, TypeOK, Distinct, HeldOnce
<1>5. ExactFor(welford', normState')
  <2>1. ExactFor(UpdatedBy(welford, r), Updated(normState, r))
    BY <1>3, <1>4, UpdatesExactly DEF Exact
  <2> QED BY <1>1, <1>2, <2>1 DEF Exact
<1>6. LoadedWelford' = LoadedWelford /\ Loaded' = Loaded
  BY <1>2 DEF LoadedWelford, Loaded
<1> QED BY <1>3, <1>5, <1>6 DEF Exact

(* The steps that leave the statistics alone. *)
LEMMA OthersExact ==
  ASSUME Typed, Distinct, Exact,
         \/ Evaluates \/ Freezes \/ EndsRound \/ Elsewhere
         \/ (Over /\ UNCHANGED numbers) \/ UNCHANGED scoringVars
  PROVE  Distinct' /\ Exact'
<1>1. UNCHANGED <<normState, normFile, welford, welfordFile>>
  <2>1. CASE Evaluates
    BY <2>1 DEF Evaluates, Begin, Finish, numbers
  <2>2. CASE Freezes \/ EndsRound
    BY <2>2 DEF Freezes, BeginRound, EndsRound, EndRound
  <2>3. CASE Elsewhere
    BY <2>3 DEF Elsewhere, Log, Write, WhileWriting, numbers
  <2>4. CASE (Over /\ UNCHANGED numbers) \/ UNCHANGED scoringVars
    BY <2>4 DEF Over, scoringVars, vars, numbers
  <2> QED BY <2>1, <2>2, <2>3, <2>4
<1>2. Exact'
  <2>1. LoadedWelford' = LoadedWelford /\ Loaded' = Loaded
    BY <1>1 DEF LoadedWelford, Loaded
  <2> QED BY <1>1, <2>1 DEF Exact
<1>3. Distinct'
  <2>1. CASE Evaluates
    BY <2>1, PoolDistinct DEF Evaluates
  <2>2. CASE Freezes
    BY <2>2, BeginRoundDistinct DEF Freezes
  <2>3. CASE EndsRound \/ Elsewhere
    BY <2>3, MovingDistinct DEF EndsRound, Elsewhere
  <2>4. CASE (Over /\ UNCHANGED numbers) \/ UNCHANGED scoringVars
    BY <2>4, MovingDistinct DEF Over, scoringVars
  <2> QED BY <2>1, <2>2, <2>3, <2>4
<1> QED BY <1>2, <1>3

(* Mean and deviations are those of the set of samples, whatever order the *)
(* runs came in, however often they were saved and loaded, and wherever    *)
(* the processes died.                                                     *)
THEOREM StatisticsExact == ScoringSpec => []WelfordExact
<1>1. ScoringInit => Typed /\ Distinct /\ Exact
  BY CalibTypesInit, DistinctInit, ExactInit DEF ScoringInit
<1>2. Typed /\ Distinct /\ Exact /\ [ScoringNext]_scoringVars => Typed' /\ Distinct' /\ Exact'
  <2> SUFFICES ASSUME Typed, Distinct, Exact, [ScoringNext]_scoringVars
               PROVE  Typed' /\ Distinct' /\ Exact'
    OBVIOUS
  <2>1. Typed'
    BY CalibTypesStep, StepRefines DEF scoringVars
  <2>2. CASE Starts
    BY <2>1, <2>2, StartsExact
  <2>3. CASE ScoringMain
    <3>1. CASE Stop /\ Forgets
      BY <2>1, <3>1, EndsExact DEF Stop
    <3> QED BY <2>1, <2>3, <3>1, CollectsExact, SavesExact, ConcludesExact, ScoresExact, OthersExact
            DEF ScoringMain
  <2>4. CASE Crash /\ Forgets
    BY <2>1, <2>4, EndsExact DEF Crash
  <2> QED BY <2>1, <2>2, <2>3, <2>4, OthersExact DEF ScoringNext
<1>3. Exact => WelfordExact
  BY ExactIs
<1> QED BY <1>1, <1>2, <1>3, PTL DEF ScoringSpec
=============================================================================
