------------------------------ MODULE WorkerPool ------------------------------
(***************************************************************************)
(* A worker host and those who ask it: evolve.py, which checks its workers *)
(* before it starts, the calls of HTTPWorker.evaluate or LocalWorker       *)
(* (evolution/worker.py), round after round, the rest of the /evaluate     *)
(* handler (worker_server.py), and the probes (evaluator/probes.py).       *)
(*                                                                         *)
(* The host itself is WorkerHost; every step of it is a step here.  A      *)
(* request may be lost or delayed, a call given up while the host works on *)
(* it, an answer lost.  The default probes keep their baseline in objects  *)
(* all evaluations of a process share; a probe of the configuration reads  *)
(* a results file, which evaluations share when its path is absolute.      *)
(* With Locked the calls go to a server, otherwise to a LocalWorker.       *)
(***************************************************************************)
EXTENDS WorkerHost

CONSTANTS
  Round,        (* the round of a call: one call per branch and round      *)
  MaxRound,     (* rounds                                                  *)
  Workers,      (* the workers the preflight asks                          *)
  Preflight,    (* no --no-preflight                                       *)
  Probes        (* the shared probe objects                                *)

ASSUME PoolAssumption ==
  /\ MaxRound \in Nat \ {0} /\ Round \in [Requests -> 1 .. MaxRound]
  /\ Preflight \in BOOLEAN

VARIABLES
  phase,        (* where the run is                                        *)
  round,        (* round_num                                               *)
  checks,       (* what became of the check of a worker                    *)
  call,         (* what became of a call                                   *)
  handler,      (* the handler of a call, outside of WorkerHost            *)
  tempFile,     (* whether the server's copy of the binary exists          *)
  baseline,     (* whose pre() a shared probe object holds                 *)
  results,      (* whose results the results file holds                    *)
  kept,         (* whether pre() could not remove that file for a request  *)
  measured      (* the baselines and the results post() used               *)

caller == <<phase, round, checks, call>>
prepared == <<baseline, results, kept>>
probing == <<prepared, measured>>
poolVars == <<vars, caller, handler, tempFile, probing>>

Owner == Requests \cup {Nobody}
Over == {"answered", "failed"}
Measurement == [from : [Probes -> Owner], results : Owner]

PoolInit ==
  /\ Init
  /\ phase = IF Preflight THEN "preflight" ELSE "rounds"
  /\ round = 1
  /\ checks = [w \in Workers |-> "pending"]
  /\ call = [r \in Requests |-> "idle"]
  /\ handler = [r \in Requests |-> "none"]
  /\ tempFile = [r \in Requests |-> FALSE]
  /\ baseline = [p \in Probes |-> Nobody]
  /\ results = Nobody
  /\ kept = [r \in Requests |-> FALSE]
  /\ measured = [r \in Requests |-> [from |-> [p \in Probes |-> Nobody], results |-> Nobody]]

-----------------------------------------------------------------------------
(* evolve.py: every worker is asked for its check, at once. *)

(* The handler: setup.sh passes, or it is not there, fails, or times out. *)
CheckReplies == {"ok", "failed"}

(* A worker that cannot be reached has failed. *)
Check(w) ==
  /\ phase = "preflight" /\ checks[w] = "pending"
  /\ \E outcome \in CheckReplies \cup {"failed"} : checks' = Set(checks, w, outcome)
  /\ UNCHANGED <<vars, phase, round, call, handler, tempFile, probing>>

AllOk == \A w \in Workers : checks[w] = "ok"

EndPreflight ==
  /\ phase = "preflight"
  /\ \A w \in Workers : checks[w] # "pending"
  /\ phase' = IF AllOk THEN "rounds" ELSE "refused"
  /\ UNCHANGED <<vars, round, checks, call, handler, tempFile, probing>>

(* A round ends when all its calls have, whatever the host still does.     *)
EndRound ==
  /\ phase = "rounds"
  /\ \A r \in Requests : Round[r] = round => call[r] \in Over
  /\ IF round < MaxRound THEN round' = round + 1 /\ UNCHANGED phase
                         ELSE phase' = "done" /\ UNCHANGED round
  /\ UNCHANGED <<vars, checks, call, handler, tempFile, probing>>

-----------------------------------------------------------------------------
(* A call. *)

(* build_workers: a LocalWorker, without workers, evaluates by itself.     *)
Sent == IF Locked THEN "coming" ELSE "received"

Ask(r) ==
  /\ phase = "rounds" /\ Round[r] = round /\ call[r] = "idle"
  /\ call' = Set(call, r, "waiting")
  /\ handler' = Set(handler, r, Sent)
  /\ UNCHANGED <<vars, phase, round, checks, tempFile, probing>>

(* No script, an unreadable binary, or nobody answers at that address. *)
AskInVain(r) ==
  /\ Locked
  /\ phase = "rounds" /\ Round[r] = round /\ call[r] = "idle"
  /\ call' = Set(call, r, "failed")
  /\ UNCHANGED <<vars, phase, round, checks, handler, tempFile, probing>>

(* Mutant of GivesUp: requests.post without a timeout. *)
NeverGivesUp(r) == FALSE

(* requests.post has a timeout. *)
GivesUp(r) == Locked /\ call[r] = "waiting"

(* The timeout, or the end of the connection: an error result. *)
Abandon(r) ==
  /\ GivesUp(r)
  /\ call' = Set(call, r, "failed")
  /\ UNCHANGED <<vars, phase, round, checks, handler, tempFile, probing>>

-----------------------------------------------------------------------------
(* The handler of a request, up to the lock and after it. *)

(* An unknown token, parameters that do not parse, an empty body, no room  *)
(* for the copy of the binary: any other status than 200.                  *)
Arrive(r) ==
  /\ handler[r] = "coming"
  /\ \/ /\ handler' = Set(handler, r, "received")
        /\ tempFile' = Set(tempFile, r, TRUE)
        /\ UNCHANGED call
     \/ /\ handler' = Set(handler, r, "closed")
        /\ call' = Set(call, r, "failed")
        /\ UNCHANGED tempFile
  /\ UNCHANGED <<vars, phase, round, checks, probing>>

(* Mutant of Unlinks: only after a reply that was heard. *)
UnlinksAfterReply(r) == call[r] = "waiting"

(* The `finally` of the handler. *)
Unlinks(r) == TRUE

(* The reply, heard or not. *)
Reply(r) ==
  /\ pc[r] = "replied" /\ handler[r] \in {"received", "launched"}
  /\ handler' = Set(handler, r, "closed")
  /\ tempFile' = Set(tempFile, r, tempFile[r] /\ ~ Unlinks(r))
  /\ call' = IF call[r] = "waiting" THEN Set(call, r, "answered") ELSE call
  /\ UNCHANGED <<vars, phase, round, checks, probing>>

-----------------------------------------------------------------------------
(* The probes.  Their objects and the results file outlive a measurement.  *)

(* pre() of a set of probes: they read the counters of the cgroup, or the  *)
(* clock, into themselves.                                                 *)
Taken(r, probes) == [p \in Probes |-> IF p \in probes THEN r ELSE baseline[p]]

(* Mutant of RemovedResults: pre() leaves the file of an earlier run.      *)
KeptResults == results

(* pre() of a json_extract probe removes the results file. *)
RemovedResults == Nobody

(* An error of that removal is swallowed, and the file stays. *)
RemovalFails(r) == results # Nobody /\ kept' = Set(kept, r, TRUE) /\ UNCHANGED results

PreAll(r) ==
  /\ baseline' = Taken(r, Probes)
  /\ RemovalFails(r) \/ (results' = RemovedResults /\ UNCHANGED kept)

(* pre() raised: the probes after that one keep what they had; after a     *)
(* failed warm-up every pre() is tried.                                    *)
PreSome(r) ==
  /\ \E probes \in SUBSET Probes : baseline' = Taken(r, probes)
  /\ results' \in {results, RemovedResults}
  /\ UNCHANGED kept

(* A single phase takes the baseline before the script. *)
PoolLaunch(r) ==
  /\ Launch(r)
  /\ handler' = Set(handler, r, "launched")
  /\ IF r \in Split THEN UNCHANGED prepared ELSE PreAll(r)
  /\ UNCHANGED <<caller, tempFile, measured>>

PoolBaseline(r) ==
  /\ Baseline(r)
  /\ IF pc'[r] = "measuring" THEN PreAll(r) ELSE PreSome(r)
  /\ UNCHANGED <<caller, handler, tempFile, measured>>

(* pre() failed in a single phase: no post(). *)
PoolGiveUp(r) ==
  /\ GiveUp(r)
  /\ IF r \in Split THEN UNCHANGED prepared ELSE PreSome(r)
  /\ UNCHANGED <<caller, handler, tempFile, measured>>

(* post(): the difference to the baseline the object holds, and the file.  *)
PoolReport(r) ==
  /\ Report(r)
  /\ measured' = IF handler[r] = "launched"
                   THEN Set(measured, r, [from |-> baseline, results |-> results])
                   ELSE measured
  /\ UNCHANGED <<caller, handler, tempFile, prepared>>

(* A warm-up that fails, by itself or by its timeout. *)
PoolScript(r) ==
  /\ TimeOut(r) \/ Script(r)
  /\ IF pc[r] = "warming" /\ pc'[r] = "tearing" THEN PreSome(r) ELSE UNCHANGED prepared
  /\ UNCHANGED <<caller, handler, tempFile, measured>>

(* The workload writes its results as its last act, before the script looks*)
(* at the loader, and also when the script has been killed meanwhile.  Or  *)
(* it ends before, or having only opened, and so emptied, the file.        *)
PoolWorkloadEnds(r) ==
  /\ WorkloadEnds(r)
  /\ results' \in {results, Nobody, r}
  /\ UNCHANGED <<caller, handler, tempFile, baseline, kept, measured>>

-----------------------------------------------------------------------------

Client(r) == Ask(r) \/ AskInVain(r) \/ Abandon(r)
Coordinator == EndPreflight \/ EndRound \/ (\E w \in Workers : Check(w)) \/ \E r \in Requests : Ask(r)

(* What the host does without the caller, the copy or the probes. *)
PoolAdmit(r) ==
  /\ handler[r] = "received" /\ Admit(r)
  /\ UNCHANGED <<caller, handler, tempFile, probing>>

PoolTearDown(r) == TearDown(r) /\ UNCHANGED <<caller, handler, tempFile, probing>>

Elsewhere(r) ==
  /\ LoaderAttaches(r) \/ LoaderDies(r)
  /\ UNCHANGED <<caller, handler, tempFile, probing>>

PoolHandler(r) ==
  PoolAdmit(r) \/ PoolGiveUp(r) \/ PoolLaunch(r) \/ PoolBaseline(r) \/ PoolTearDown(r)
  \/ PoolReport(r) \/ Reply(r)

Settled ==
  /\ phase \in {"refused", "done"}
  /\ \A r \in Requests : handler[r] \in {"none", "closed"} /\ ~ workload[r]
  /\ UNCHANGED poolVars

PoolNext ==
  \/ Coordinator \/ Settled
  \/ \E r \in Requests :
       \/ Client(r) \/ Arrive(r) \/ PoolHandler(r) \/ PoolScript(r) \/ PoolWorkloadEnds(r)
       \/ Elsewhere(r)

PoolSpec == PoolInit /\ [][PoolNext]_poolVars

(* The coordinator goes on, the timeout of a call strikes in the end, and  *)
(* so does that of a script; the network promises nothing.                 *)
PoolFairness ==
  /\ WF_poolVars(Coordinator)
  /\ \A r \in Requests :
       /\ WF_poolVars(Abandon(r))
       /\ WF_poolVars(PoolHandler(r))
       /\ WF_poolVars(TimeOut(r) /\ PoolScript(r))

PoolFairSpec == PoolSpec /\ PoolFairness

-----------------------------------------------------------------------------
(* Properties. *)

PoolTypeOK ==
  /\ TypeOK
  /\ phase \in {"preflight", "rounds", "refused", "done"} /\ round \in 1 .. MaxRound
  /\ checks \in [Workers -> {"pending", "ok", "failed"}]
  /\ call \in [Requests -> {"idle", "waiting"} \cup Over]
  /\ handler \in [Requests -> {"none", "coming", "received", "launched", "closed"}]
  /\ tempFile \in [Requests -> BOOLEAN]
  /\ baseline \in [Probes -> Owner] /\ results \in Owner /\ kept \in [Requests -> BOOLEAN]
  /\ measured \in [Requests -> Measurement]
  /\ \A r \in Requests :
       /\ call[r] = "idle" => handler[r] = "none"
       /\ pc[r] # "queued" => handler[r] \in {"received", "launched", "closed"}

(* A score without error is made of differences to the baseline its own    *)
(* evaluation took: although the probes are shared, a pre() may fail       *)
(* halfway, and evaluations nobody waits for any more run into the next    *)
(* round.  The results it reads are its own or none, also after            *)
(* evaluations that wrote theirs and then were found invalid, with two     *)
(* exceptions: the file of an earlier evaluation that could not be removed,*)
(* and the late results of a workload whose script a timeout killed.       *)
MeasurementIsOwn ==
  \A r \in Requests : pc[r] = "replied" /\ ok[r] =>
    /\ \A p \in Probes : measured[r].from[p] = r
    /\ LET writer == measured[r].results IN
       writer \in {r, Nobody} \/ kept[r] \/ timedOut[writer]

(* A handler that is through leaves neither its copy of the binary nor the *)
(* lock nor a script behind, also when nobody waited for its reply, and a  *)
(* loader only where a timeout kept it from taking that down; while a      *)
(* script runs its binary is there.                                        *)
NothingLeft ==
  \A r \in Requests :
    /\ script[r] # "none" /\ Locked => tempFile[r]
    /\ handler[r] = "closed" =>
         /\ ~ tempFile[r] /\ lock # r /\ script[r] = "none"
         /\ LoaderAlive(r) => timedOut[r] /\ (r \in Split => ~ pidFile[r])

(* A run ends, whatever becomes of its requests and answers. *)
RunEnds == <>(phase \in {"refused", "done"})

(* A request that reached the host is answered: a hanging script, loader   *)
(* or workload, or one whose caller is gone, holds the host only until its *)
(* timeout.                                                                *)
ReceivedAnswered == \A r \in Requests : handler[r] = "received" ~> handler[r] = "closed"
=============================================================================
