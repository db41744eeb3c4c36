------------------------------- MODULE WorkerHost -------------------------------
(***************************************************************************)
(* One worker host measuring policies: the /evaluate handlers of           *)
(* worker_server.py and their lock (or LocalWorker, which has none),       *)
(* evaluate() of evaluator/evaluate.py, the launch script it runs          *)
(* (eval/scan_thrash/run_with_policy.sh; the others are built like it),    *)
(* the policy loader the script starts, and the workload it measures.      *)
(*                                                                         *)
(* Handler, script, loader and workload are processes of their own: a      *)
(* timeout kills the script with SIGKILL, so its trap does not run and     *)
(* what it started lives on.  Time is left out: a timeout may strike       *)
(* whenever its script runs.  A loader that can attach has done so, and    *)
(* one that cannot has exited, when the script looks for it a second later.*)
(* The kernel, which takes one policy per cgroup, is not part of the       *)
(* repository.                                                             *)
(***************************************************************************)
EXTENDS Naturals

CONSTANTS
  Requests,   (* the evaluations asked of this host                        *)
  Split,      (* those with split_phases: warm-up and measurement apart    *)
  Locked,     (* whether _EVAL_LOCK is there: not with a LocalWorker       *)
  Nobody      (* no holder of the lock                                     *)

ASSUME HostAssumption == Split \subseteq Requests /\ Locked \in BOOLEAN /\ Nobody \notin Requests

VARIABLES
  pc,         (* where the handler of a request is                         *)
  lock,       (* holder of _EVAL_LOCK                                      *)
  script,     (* where the request's launch script is                      *)
  loader,     (* the request's loader process                              *)
  pidFile,    (* whether $JOB_DIR/loader.pid is written                    *)
  workload,   (* whether the request's workload runs                       *)
  exposed,    (* whether it ran for a moment without the policy            *)
  timedOut,   (* whether a script of the request was killed by a timeout   *)
  ok          (* no bench_err so far; in the end, EvaluationResult.ok      *)

processes == <<loader, workload, exposed>>
vars == <<pc, lock, script, processes, pidFile, timedOut, ok>>

Scripting == {"warming", "measuring", "whole"}
PCs == {"queued", "resolving", "baseline", "tearing", "reporting", "replied"} \cup Scripting
Stages == {"preparing", "starting", "recording", "checking", "rejoining", "running", "verifying"}
Alive == {"starting", "attached"}

Init ==
  /\ pc = [r \in Requests |-> "queued"]
  /\ lock = Nobody
  /\ script = [r \in Requests |-> "none"]
  /\ loader = [r \in Requests |-> "none"]
  /\ pidFile = [r \in Requests |-> FALSE]
  /\ workload = [r \in Requests |-> FALSE]
  /\ exposed = [r \in Requests |-> FALSE]
  /\ timedOut = [r \in Requests |-> FALSE]
  /\ ok = [r \in Requests |-> TRUE]

Set(f, r, value) == [f EXCEPT ![r] = value]

-----------------------------------------------------------------------------
(* The handler. *)

(* Mutant of Admits: the handlers do not share a lock. *)
AdmitsAnyone == TRUE

Admits == Locked => lock = Nobody

Admit(r) ==
  /\ pc[r] = "queued"
  /\ Admits
  /\ lock' = IF Locked THEN r ELSE lock
  /\ pc' = Set(pc, r, "resolving")
  /\ UNCHANGED <<script, processes, pidFile, timedOut, ok>>

(* Mutant of Release: the lock is not released by an exception. *)
ReleaseOnSuccess(r) == IF ok[r] THEN Nobody ELSE lock

(* Leaving the `with _EVAL_LOCK` block. *)
Release(r) == IF Locked THEN Nobody ELSE lock

(* No cgroup, no binary, no scratch directory, or, in single-phase mode, a *)
(* probe's pre() that fails: nothing is run.                               *)
GiveUp(r) ==
  /\ pc[r] = "resolving"
  /\ ok' = Set(ok, r, FALSE)
  /\ pc' = Set(pc, r, "reporting")
  /\ UNCHANGED <<lock, script, processes, pidFile, timedOut>>

Launch(r) ==
  /\ pc[r] = "resolving"
  /\ pc' = Set(pc, r, IF r \in Split THEN "warming" ELSE "whole")
  /\ script' = Set(script, r, "preparing")
  /\ UNCHANGED <<lock, processes, pidFile, timedOut, ok>>

(* The probes' pre() after the warm-up; the measurement follows, unless    *)
(* one of them fails.                                                      *)
Baseline(r) ==
  /\ pc[r] = "baseline"
  /\ \/ /\ pc' = Set(pc, r, "measuring")
        /\ script' = Set(script, r, "rejoining")
        /\ UNCHANGED ok
     \/ /\ pc' = Set(pc, r, "tearing")
        /\ ok' = Set(ok, r, FALSE)
        /\ UNCHANGED script
  /\ UNCHANGED <<lock, processes, pidFile, timedOut>>

(* Whether a loader may survive SIGINT, SIGTERM and then SIGKILL. *)
SurvivesSignals == {FALSE}

(* _kill_persisted_loader: it needs the pid file to find the loader. *)
TearDown(r) ==
  /\ pc[r] = "tearing"
  /\ \E survives \in SurvivesSignals :
       loader' = IF pidFile[r] /\ ~ survives THEN Set(loader, r, "dead") ELSE loader
  /\ pc' = Set(pc, r, "reporting")
  /\ UNCHANGED <<lock, script, pidFile, workload, exposed, timedOut, ok>>

(* The probes' post(), which cannot fail the evaluation, and the answer.   *)
Report(r) ==
  /\ pc[r] = "reporting"
  /\ pc' = Set(pc, r, "replied")
  /\ lock' = Release(r)
  /\ UNCHANGED <<script, processes, pidFile, timedOut, ok>>

(* Where evaluate() goes on when a script is over. *)
AfterScript(r, success) ==
  CASE pc[r] = "whole" -> "reporting"
    [] pc[r] = "warming" /\ success -> "baseline"
    [] OTHER -> "tearing"

(* Mutant of ScriptAfterTimeout: the script is not killed. *)
ScriptGoesOn(r) == script[r]

ScriptAfterTimeout(r) == "none"

(* SIGKILL to the script alone: no trap, and its children live on. *)
TimeOut(r) ==
  /\ script[r] # "none"
  /\ script' = Set(script, r, ScriptAfterTimeout(r))
  /\ timedOut' = Set(timedOut, r, TRUE)
  /\ ok' = Set(ok, r, FALSE)
  /\ pc' = Set(pc, r, AfterScript(r, FALSE))
  /\ UNCHANGED <<lock, processes, pidFile>>

-----------------------------------------------------------------------------
(* The launch script. *)

GoOn(r, stage, next) ==
  /\ script[r] = stage
  /\ script' = Set(script, r, next)
  /\ UNCHANGED <<pc, lock, timedOut, ok>>

(* The script exits.  Its trap kills the loader it started, but only when  *)
(* it is warm-up and measurement in one.                                   *)
Exit(r, success) ==
  /\ script' = Set(script, r, "none")
  /\ pc' = Set(pc, r, AfterScript(r, success))
  /\ ok' = Set(ok, r, ok[r] /\ success)
  /\ loader' = IF pc[r] = "whole" /\ loader[r] # "none" THEN Set(loader, r, "dead") ELSE loader
  /\ UNCHANGED <<lock, pidFile, exposed, timedOut>>

(* The cgroup, dropping the caches and the data files. *)
Prepare(r) == GoOn(r, "preparing", "starting") /\ UNCHANGED <<processes, pidFile>>

PrepareFails(r) == script[r] = "preparing" /\ Exit(r, FALSE) /\ UNCHANGED workload

StartLoader(r) ==
  /\ GoOn(r, "starting", "recording")
  /\ loader' = Set(loader, r, "starting")
  /\ UNCHANGED <<workload, exposed, pidFile>>

RecordPid(r) ==
  /\ GoOn(r, "recording", "checking")
  /\ pidFile' = Set(pidFile, r, TRUE)
  /\ UNCHANGED processes

LoaderAlive(r) == loader[r] \in Alive

(* A second later: `kill -0`.  Warm-up ends here, a single phase goes on.  *)
CheckLoader(r) ==
  /\ script[r] = "checking"
  /\ loader[r] # "starting"
  /\ IF LoaderAlive(r) /\ r \notin Split
       THEN GoOn(r, "checking", "rejoining") /\ UNCHANGED <<processes, pidFile>>
       ELSE Exit(r, LoaderAlive(r)) /\ UNCHANGED workload

(* do_measure: the loader must still live, then the workload runs. *)
Rejoin(r) ==
  /\ script[r] = "rejoining"
  /\ IF LoaderAlive(r)
       THEN /\ GoOn(r, "rejoining", "running")
            /\ workload' = Set(workload, r, TRUE)
            /\ UNCHANGED <<loader, exposed, pidFile>>
       ELSE Exit(r, FALSE) /\ UNCHANGED workload

(* The workload ends, well or badly; the script may be gone by then. *)
WorkloadEnds(r) ==
  /\ workload[r]
  /\ workload' = Set(workload, r, FALSE)
  /\ IF script[r] = "running"
       THEN \/ GoOn(r, "running", "verifying") /\ UNCHANGED <<loader, exposed, pidFile>>
            \/ Exit(r, FALSE)
       ELSE UNCHANGED <<pc, lock, script, loader, exposed, pidFile, timedOut, ok>>

(* Mutant of ScoreValid: the script does not look again. *)
AlwaysValid(r) == TRUE

ScoreValid(r) == LoaderAlive(r)

Verify(r) ==
  /\ script[r] = "verifying"
  /\ Exit(r, ScoreValid(r))
  /\ UNCHANGED workload

-----------------------------------------------------------------------------
(* The loader. *)

Occupied == \E r \in Requests : loader[r] = "attached"

LoaderAttaches(r) ==
  /\ loader[r] = "starting"
  /\ loader' = Set(loader, r, IF Occupied THEN "dead" ELSE "attached")
  /\ UNCHANGED <<pc, lock, script, pidFile, workload, exposed, timedOut, ok>>

(* A policy written by a model may crash at any time. *)
LoaderDies(r) ==
  /\ loader[r] = "attached"
  /\ loader' = Set(loader, r, "dead")
  /\ exposed' = Set(exposed, r, exposed[r] \/ workload[r])
  /\ UNCHANGED <<pc, lock, script, pidFile, workload, timedOut, ok>>

Handler(r) == Admit(r) \/ GiveUp(r) \/ Launch(r) \/ Baseline(r) \/ TearDown(r) \/ Report(r)

Script(r) ==
  Prepare(r) \/ PrepareFails(r) \/ StartLoader(r) \/ RecordPid(r) \/ CheckLoader(r) \/ Rejoin(r)
  \/ Verify(r)

Quiet == (\A r \in Requests : pc[r] = "replied" /\ ~ workload[r]) /\ UNCHANGED vars

Next ==
  \/ \E r \in Requests :
       Handler(r) \/ TimeOut(r) \/ Script(r) \/ WorkloadEnds(r) \/ LoaderAttaches(r) \/ LoaderDies(r)
  \/ Quiet

Spec == Init /\ [][Next]_vars

(* A handler goes on, and the timeout of a script strikes in the end: not  *)
(* even the script, the loader or the workload has to get anywhere.        *)
Fairness == \A r \in Requests : WF_vars(Handler(r)) /\ WF_vars(TimeOut(r))

FairSpec == Spec /\ Fairness

-----------------------------------------------------------------------------
(* Properties. *)

TypeOK ==
  /\ pc \in [Requests -> PCs]
  /\ lock \in Requests \cup {Nobody}
  /\ script \in [Requests -> Stages \cup {"none"}]
  /\ \A r \in Requests : script[r] # "none" <=> pc[r] \in Scripting
  /\ loader \in [Requests -> Alive \cup {"none", "dead"}]
  /\ pidFile \in [Requests -> BOOLEAN]
  /\ workload \in [Requests -> BOOLEAN]
  /\ exposed \in [Requests -> BOOLEAN]
  /\ timedOut \in [Requests -> BOOLEAN]
  /\ ok \in [Requests -> BOOLEAN]

(* "Policy loader still alive post-benchmark - score is valid": a result   *)
(* without error is a measurement under the requested policy from the      *)
(* first to the last moment of the workload, whenever loaders crash,       *)
(* whatever earlier evaluations left behind.                               *)
ScoresUnderPolicy == \A r \in Requests : pc[r] = "replied" /\ ok[r] => ~ exposed[r] /\ ~ workload[r]

(* Nothing else disturbs a measurement, except the workload of a script    *)
(* that a timeout killed.                                                  *)
MeasuredAlone ==
  \A r, s \in Requests :
    r # s /\ script[r] = "running" /\ workload[s] => timedOut[s]

(* An evaluation takes its loader down, except one that a timeout kept it  *)
(* from: a script in a single phase, whose trap did not run, or one that   *)
(* had not yet written down the loader's pid.                              *)
LoaderGoneUnlessTimedOut ==
  \A r \in Requests :
    pc[r] = "replied" /\ LoaderAlive(r) => timedOut[r] /\ (r \in Split => ~ pidFile[r])
=============================================================================
