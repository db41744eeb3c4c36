-------------------------------- MODULE Scoring --------------------------------
(***************************************************************************)
(* Calibration with numbers: what the probes of a run read                 *)
(* (evaluator/probes.py), the running mean and squared deviations of each  *)
(* (Welford's algorithm in evolution/normalization.py), in memory, in      *)
(* normalization.json and frozen for a round, and the scores they give the *)
(* results of a round.                                                     *)
(*                                                                         *)
(* Floating point is exact here.  A run of one seed or branch always reads *)
(* the same values.  tanh is a step function of the z-score: odd and       *)
(* monotone, and 1 far off, as the rounded one is for a z-score above 19.  *)
(***************************************************************************)
EXTENDS Fractions, Calibration

CONSTANTS
  Direction,   (* of each probe: "minimize" or "maximize"                  *)
  Weight,      (* scoring.weights; 0 for a probe without one               *)
  MinN,        (* scoring.min_n                                            *)
  Missing,     (* read where the results file has no number                *)
  Reading      (* what a run of a seed or branch reads, probe by probe     *)

ASSUME ScoringAssumption ==
  /\ Direction \in [Probes -> {"minimize", "maximize"}]
  /\ IsFiniteSet(Probes) /\ Weight \in [Probes -> Nat] /\ MinN \in Nat
  /\ \A x \in Seeds \cup Branches, p \in Probes : Reading[x][p] \in Int \cup {Missing}

VARIABLES
  welford,        (* norm_state.probes                                     *)
  welfordFile,    (* the probes of normalization.json                      *)
  frozenWelford,  (* scoring_state.probes                                  *)
  scores          (* the scores of this round, as long as they are given   *)

numbers == <<welford, welfordFile, frozenWelford, scores>>
scoringVars == <<vars, numbers>>

Zero == Whole(0)

(* A probe without samples has no entry. *)
NoEntry == [n |-> 0, mean |-> Zero, M2 |-> Zero]
Fresh == [p \in Probes |-> NoEntry]

ScoringInit ==
  /\ Init
  /\ welford = Fresh /\ welfordFile = Fresh /\ frozenWelford = Fresh /\ scores = {}

-----------------------------------------------------------------------------
(* What a probe reports. *)

(* A file that is missing, does not parse or has no number at the path is  *)
(* reported as 0.0, in the probe's own direction.                          *)
Value(source, p) == IF Reading[source][p] = Missing THEN Zero ELSE Whole(Reading[source][p])

(* extract_raw_values: those of a run that succeeded, unless post() failed. *)
RawValues(r) == IF r.ok THEN r.sample.probes ELSE {}

-----------------------------------------------------------------------------
(* The statistics. *)

(* Mutant of WelfordUpdate: the deviation from the old mean is squared. *)
WelfordUpdateFromOldMean(w, x) ==
  LET delta == Minus(x, w.mean)
  IN  [n |-> w.n + 1, mean |-> Plus(w.mean, DividedBy(delta, w.n + 1)),
       M2 |-> Plus(w.M2, Times(delta, delta))]

WelfordUpdate(w, x) ==
  LET delta == Minus(x, w.mean)
      mean  == Plus(w.mean, DividedBy(delta, w.n + 1))
  IN  [n |-> w.n + 1, mean |-> mean, M2 |-> Plus(w.M2, Times(delta, Minus(x, mean)))]

(* NormalizationState.update *)
UpdatedBy(stats, r) ==
  [p \in Probes |->
     IF p \in RawValues(r) THEN WelfordUpdate(stats[p], Value(r.sample.source, p)) ELSE stats[p]]

LoadedWelford == IF normFile.whole THEN welfordFile ELSE Fresh

-----------------------------------------------------------------------------
(* Scores. *)

Sign(x) == IF x[1] > 0 THEN 1 ELSE IF x[1] < 0 THEN -1 ELSE 0

(* tanh of a z-score, whose sign and square are given: a step up at each   *)
(* of 0, 1, 2 and 19.                                                      *)
Squash(sign, square) ==
  LET reached == {s \in {0, 1, 2, 19} : ~ Below(square, Whole(s * s))}
  IN  <<sign * Cardinality(reached), 4>>

(* Mutant of Signed: higher is better for every probe. *)
SignedUpwards(p, sign) == sign

Signed(p, sign) == IF Direction[p] = "minimize" THEN -sign ELSE sign

(* A probe without a weight does not count; one with too few samples, or   *)
(* samples that are all alike, is skipped.                                 *)
Scorable(stats, p) ==
  Weight[p] > 0 /\ stats[p].n >= MinN /\ Below(Zero, stats[p].M2)

Contribution(stats, source, p) ==
  LET delta    == Minus(Value(source, p), stats[p].mean)
      square   == Times(Times(delta, delta), Whole(stats[p].n))
      variance == stats[p].M2
  IN  Squash(Signed(p, Sign(delta)), Lowest[<<square[1] * variance[2], square[2] * variance[1]>>])

(* The weighted mean of the contributions, or 0.0 without any. *)
WeightedScore(stats, source, probes) ==
  LET counted == {p \in probes : Scorable(stats, p)}
      weights == SumFunctionOnSet(Weight, counted)
      part    == [p \in counted |-> Times(Whole(Weight[p]), Contribution(stats, source, p))]
  IN  IF counted = {} THEN Zero ELSE DividedBy(Total(part, counted), weights)

(* _normalized_score: a failed run has 0.0. *)
NormalizedScore(stats, r) ==
  IF r.ok THEN WeightedScore(stats, r.sample.source, r.sample.probes) ELSE Zero

-----------------------------------------------------------------------------
(* The actions of Calibration, with the numbers. *)

Starts ==
  /\ SkipCalibration \/ Calibrate
  /\ welford' = LoadedWelford
  /\ UNCHANGED <<welfordFile, frozenWelford, scores>>

Collects ==
  /\ Collect
  /\ \E r \in results' : welford' = UpdatedBy(welford, r)
  /\ UNCHANGED <<welfordFile, frozenWelford, scores>>

Saves ==
  /\ Replace("replacing", "logging") \/ Replace("roundReplacing", "evolving")
  /\ welfordFile' = welford
  /\ UNCHANGED <<welford, frozenWelford, scores>>

Forgets ==
  /\ welford' = Fresh /\ frozenWelford' = Fresh /\ scores' = {}
  /\ UNCHANGED <<welfordFile>>

Concludes ==
  /\ Conclude
  /\ IF pc' = "evolving"
       THEN welford' = LoadedWelford /\ UNCHANGED <<welfordFile, frozenWelford, scores>>
       ELSE Forgets

Freezes ==
  /\ BeginRound
  /\ frozenWelford' = welford
  /\ UNCHANGED <<welford, welfordFile, scores>>

(* The one result the main thread goes on from. *)
Scores ==
  /\ Score
  /\ \E r \in results \ results' :
       /\ scores' = scores \cup {[result |-> r, score |-> NormalizedScore(frozenWelford, r)]}
       /\ welford' = IF updating THEN UpdatedBy(welford, r) ELSE welford
  /\ UNCHANGED <<welfordFile, frozenWelford>>

EndsRound ==
  /\ EndRound
  /\ scores' = {}
  /\ UNCHANGED <<welford, welfordFile, frozenWelford>>

Elsewhere ==
  /\ Log \/ Write("writing", "replacing") \/ Write("roundWriting", "roundReplacing")
  /\ UNCHANGED numbers

ScoringMain ==
  Collects \/ Saves \/ Concludes \/ Freezes \/ Scores \/ EndsRound \/ Elsewhere \/ (Stop /\ Forgets)

Evaluates == (\E job \in Job : Begin(job) \/ Finish(job)) /\ UNCHANGED numbers

ScoringNext ==
  \/ Starts
  \/ Evaluates
  \/ ScoringMain
  \/ Crash /\ Forgets
  \/ Over /\ UNCHANGED numbers

ScoringSpec == ScoringInit /\ [][ScoringNext]_scoringVars

(* The numbers never hold a step up: the fairness is Calibration's. *)
ScoringFairSpec == ScoringSpec /\ Fairness

-----------------------------------------------------------------------------
(* Properties. *)

(* Mean and sum of squared deviations of a set of samples: the sum of the  *)
(* squares less the square of the sum over n.                              *)
BatchOf(stats, p) ==
  LET samples == {s \in stats : p \in s.probes}
      n       == Cardinality(samples)
      x       == [s \in Sample |-> Value(s.source, p)[1]]
      sum     == SumFunctionOnSet(x, samples)
      squares == SumFunctionOnSet([s \in Sample |-> x[s] * x[s]], samples)
  IN  IF n = 0 THEN NoEntry
      ELSE [n |-> n, mean |-> Lowest[<<sum, n>>], M2 |-> Lowest[<<n * squares - sum * sum, n>>]]

(* The statistics kept by one update per run, through saving, reloading    *)
(* and crashes, and whatever order the runs came in, are those of the set  *)
(* of samples: no sample is lost in them, and none counts twice.           *)
WelfordExact ==
  \A p \in Probes :
    /\ welford[p] = BatchOf(normState, p)
    /\ normFile.whole => welfordFile[p] = BatchOf(normFile.samples, p)

(* x reads no worse than y, probe by probe. *)
NoWorse(x, y) ==
  \A p \in x.sample.probes :
    IF Direction[p] = "maximize"
      THEN AtMost(Value(y.sample.source, p), Value(x.sample.source, p))
      ELSE AtMost(Value(x.sample.source, p), Value(y.sample.source, p))

(* Scores rank as the readings do: of two results of a round, one that is  *)
(* no worse in any probe scores no less.                                   *)
ScoresRank ==
  \A x, y \in scores :
    /\ x.result.ok /\ y.result.ok /\ x.result.sample.probes = y.result.sample.probes
    /\ NoWorse(x.result, y.result)
    => AtMost(y.score, x.score)

(* "If the file is missing or the path doesn't resolve to a number, the    *)
(* probe reports 0 with a note and contributes nothing meaningful to the   *)
(* score": a score of this round is that of the probes that read something.*)
MissingAddsNothing ==
  \A x \in scores :
    LET source == x.result.sample.source
        there  == {p \in x.result.sample.probes : Reading[source][p] # Missing}
    IN  x.result.ok => x.score = WeightedScore(frozenWelford, source, there)
=============================================================================
