------------------------- MODULE WorkerPool_proofs --------------------------
(****************************************************************************)
(* A worker host for any set of requests, in one or two phases: a valid    *)
(* score is a measurement under the policy, no other measurement runs beside *)
(* it, and only a timeout leaves a loader behind.  Then the pool, for any  *)
(* requests, rounds, workers and probes: its host is the host of WorkerHost, *)
(* so what is proved of that holds of it; with the lock every score comes  *)
(* from its own baseline, and from its own results but for two exceptions; *)
(* and a handler that is through leaves nothing behind.                    *)
(****************************************************************************)
EXTENDS WorkerPool, TLAPS

(* A request has no loader before its script starts one. *)
NotStarted ==
  \A r \in Requests :
    script[r] \in {"preparing", "starting"} \/ pc[r] \in {"queued", "resolving"} =>
      loader[r] = "none"

(* A workload without policy means a dead loader, which the script notices *)
(* when the workload is over.                                              *)
ExposedNoticed ==
  \A r \in Requests :
    exposed[r] => loader[r] = "dead" /\ (ok[r] => script[r] \in {"running", "verifying"})

(* A workload without its script is one that a timeout left behind. *)
WorkloadWatched ==
  \A r \in Requests : workload[r] => script[r] = "running" \/ (timedOut[r] /\ ~ ok[r])

(* Whoever is between the lock's acquisition and its release holds it. *)
LockHeld == Locked => \A r \in Requests : pc[r] \notin {"queued", "replied"} => lock = r

(* Past the teardown of an evaluation in two phases. *)
TakenDown ==
  \A r \in Split :
    /\ pc[r] # "whole"
    /\ pc[r] \in {"reporting", "replied"} /\ pidFile[r] => ~ LoaderAlive(r)

(* Only a timeout keeps a script from recording the loader it started. *)
Recorded ==
  \A r \in Requests :
    LoaderAlive(r) /\ ~ pidFile[r] => script[r] = "recording" \/ timedOut[r]

(* Past a single phase: its trap ran, or a timeout struck. *)
Cleared ==
  \A r \in Requests \ Split :
    /\ pc[r] \notin {"warming", "baseline", "measuring", "tearing"}
    /\ pc[r] \in {"reporting", "replied"} /\ LoaderAlive(r) => timedOut[r]

HostInv ==
  TypeOK /\ NotStarted /\ ExposedNoticed /\ WorkloadWatched /\ LockHeld /\ TakenDown /\ Recorded
  /\ Cleared

(* It holds of an idle host. *)
LEMMA HostInit == Init => HostInv
  BY HostAssumption DEF Init, HostInv, TypeOK, NotStarted, ExposedNoticed, WorkloadWatched,
     LockHeld, TakenDown, Recorded, Cleared, LoaderAlive, PCs, Scripting, Stages, Alive

(* The script's exit, whatever the workload does meanwhile. *)
LEMMA ExitType ==
  ASSUME TypeOK, NEW r \in Requests, script[r] # "none", NEW success \in BOOLEAN,
         Exit(r, success), workload' \in [Requests -> BOOLEAN]
  PROVE  TypeOK'
<1>1. AfterScript(r, success) \in PCs \ Scripting
  BY DEF AfterScript, PCs, Scripting
<1>2. pc' \in [Requests -> PCs] /\ \A s \in Requests : script'[s] # "none" <=> pc'[s] \in Scripting
  BY <1>1 DEF TypeOK, Exit, Set
<1> QED BY <1>2 DEF TypeOK, Exit, Set

(* Every action keeps every part of the invariant. *)
LEMMA AdmitInv == ASSUME HostInv, NEW r \in Requests, Admit(r) PROVE HostInv'
<1> USE DEF HostInv, TypeOK, Admit, Admits, Set, processes
<1>1. TypeOK'
  BY DEF PCs, Scripting
<1>2. NotStarted'
  BY DEF NotStarted
<1>3. ExposedNoticed'
  BY DEF ExposedNoticed
<1>4. WorkloadWatched'
  BY DEF WorkloadWatched
<1>5. LockHeld'
  BY HostAssumption DEF LockHeld
<1>6. TakenDown'
  BY DEF TakenDown, LoaderAlive
<1>7. Recorded'
  BY DEF Recorded, NotStarted, LoaderAlive, Alive, Scripting
<1>8. Cleared'
  BY HostAssumption DEF Cleared, NotStarted, LoaderAlive, Alive, Scripting
<1> QED BY <1>1, <1>2, <1>3, <1>4, <1>5, <1>6, <1>7, <1>8

LEMMA GiveUpInv == ASSUME HostInv, NEW r \in Requests, GiveUp(r) PROVE HostInv'
<1> USE DEF HostInv, TypeOK, GiveUp, Set, processes
<1>1. TypeOK'
  BY DEF PCs, Scripting
<1>2. NotStarted'
  BY DEF NotStarted
<1>3. ExposedNoticed'
  BY DEF ExposedNoticed
<1>4. WorkloadWatched'
  BY DEF WorkloadWatched
<1>5. LockHeld'
  BY DEF LockHeld
<1>6. TakenDown'
  BY DEF TakenDown, NotStarted, LoaderAlive, Alive
<1>7. Recorded'
  BY DEF Recorded, NotStarted, LoaderAlive, Alive, Scripting
<1>8. Cleared'
  BY HostAssumption DEF Cleared, NotStarted, LoaderAlive, Alive, Scripting
<1> QED BY <1>1, <1>2, <1>3, <1>4, <1>5, <1>6, <1>7, <1>8

LEMMA LaunchInv == ASSUME HostInv, NEW r \in Requests, Launch(r) PROVE HostInv'
<1> USE DEF HostInv, TypeOK, Launch, Set, processes
<1>1. TypeOK'
  BY DEF PCs, Scripting, Stages
<1>2. NotStarted'
  BY DEF NotStarted
<1>3. ExposedNoticed'
  BY DEF ExposedNoticed, Scripting
<1>4. WorkloadWatched'
  BY DEF WorkloadWatched, Scripting
<1>5. LockHeld'
  BY DEF LockHeld
<1>6. TakenDown'
  BY DEF TakenDown, LoaderAlive
<1>7. Recorded'
  BY DEF Recorded, NotStarted, LoaderAlive, Alive, Scripting
<1>8. Cleared'
  BY HostAssumption DEF Cleared, NotStarted, LoaderAlive, Alive, Scripting
<1> QED BY <1>1, <1>2, <1>3, <1>4, <1>5, <1>6, <1>7, <1>8

LEMMA BaselineInv == ASSUME HostInv, NEW r \in Requests, Baseline(r) PROVE HostInv'
<1> USE DEF HostInv, TypeOK, Baseline, Set, processes
<1>1. TypeOK'
  BY DEF PCs, Scripting, Stages
<1>2. NotStarted'
  BY DEF NotStarted
<1>3. ExposedNoticed'
  BY DEF ExposedNoticed, Scripting
<1>4. WorkloadWatched'
  BY DEF WorkloadWatched, Scripting
<1>5. LockHeld'
  BY DEF LockHeld
<1>6. TakenDown'
  BY HostAssumption DEF TakenDown, LoaderAlive
<1>7. Recorded'
  BY DEF Recorded, NotStarted, LoaderAlive, Alive, Scripting
<1>8. Cleared'
  BY HostAssumption DEF Cleared, NotStarted, LoaderAlive, Alive, Scripting
<1> QED BY <1>1, <1>2, <1>3, <1>4, <1>5, <1>6, <1>7, <1>8

LEMMA TearDownInv == ASSUME HostInv, NEW r \in Requests, TearDown(r) PROVE HostInv'
<1> USE DEF HostInv, TypeOK, TearDown, SurvivesSignals, Set
<1>1. TypeOK'
  BY DEF PCs, Scripting
<1>2. NotStarted'
  BY DEF NotStarted, Scripting
<1>3. ExposedNoticed'
  BY DEF ExposedNoticed
<1>4. WorkloadWatched'
  BY DEF WorkloadWatched
<1>5. LockHeld'
  BY DEF LockHeld
<1>6. TakenDown'
  BY DEF TakenDown, LoaderAlive, Alive
<1>7. Recorded'
  BY DEF Recorded, NotStarted, LoaderAlive, Alive, Scripting
<1>8. Cleared'
  BY HostAssumption DEF Cleared, NotStarted, LoaderAlive, Alive, Scripting
<1> QED BY <1>1, <1>2, <1>3, <1>4, <1>5, <1>6, <1>7, <1>8

LEMMA ReportInv == ASSUME HostInv, NEW r \in Requests, Report(r) PROVE HostInv'
<1> USE DEF HostInv, TypeOK, Report, Release, Set, processes
<1>1. TypeOK'
  BY DEF PCs, Scripting
<1>2. NotStarted'
  BY DEF NotStarted
<1>3. ExposedNoticed'
  BY DEF ExposedNoticed
<1>4. WorkloadWatched'
  BY DEF WorkloadWatched
<1>5. LockHeld'
  BY DEF LockHeld
<1>6. TakenDown'
  BY DEF TakenDown, LoaderAlive
<1>7. Recorded'
  BY DEF Recorded, NotStarted, LoaderAlive, Alive, Scripting
<1>8. Cleared'
  BY HostAssumption DEF Cleared, NotStarted, LoaderAlive, Alive, Scripting
<1> QED BY <1>1, <1>2, <1>3, <1>4, <1>5, <1>6, <1>7, <1>8

LEMMA TimeOutInv == ASSUME HostInv, NEW r \in Requests, TimeOut(r) PROVE HostInv'
<1> USE DEF HostInv, TypeOK, TimeOut, ScriptAfterTimeout, AfterScript, Set, processes
<1>1. TypeOK'
  BY DEF PCs, Scripting
<1>2. NotStarted'
  BY DEF NotStarted
<1>3. ExposedNoticed'
  BY DEF ExposedNoticed
<1>4. WorkloadWatched'
  BY DEF WorkloadWatched
<1>5. LockHeld'
  BY DEF LockHeld, Scripting
<1>6. TakenDown'
  BY DEF TakenDown, LoaderAlive
<1>7. Recorded'
  BY DEF Recorded, NotStarted, LoaderAlive, Alive, Scripting
<1>8. Cleared'
  BY HostAssumption DEF Cleared, NotStarted, LoaderAlive, Alive, Scripting
<1> QED BY <1>1, <1>2, <1>3, <1>4, <1>5, <1>6, <1>7, <1>8

LEMMA PrepareInv == ASSUME HostInv, NEW r \in Requests, Prepare(r) PROVE HostInv'
<1> USE DEF HostInv, TypeOK, Prepare, GoOn, Set, processes
<1>1. TypeOK'
  BY DEF Stages
<1>2. NotStarted'
  BY DEF NotStarted
<1>3. ExposedNoticed'
  BY DEF ExposedNoticed
<1>4. WorkloadWatched'
  BY DEF WorkloadWatched
<1>5. LockHeld'
  BY DEF LockHeld
<1>6. TakenDown'
  BY DEF TakenDown, LoaderAlive
<1>7. Recorded'
  BY DEF Recorded, NotStarted, LoaderAlive, Alive, Scripting
<1>8. Cleared'
  BY HostAssumption DEF Cleared, NotStarted, LoaderAlive, Alive, Scripting
<1> QED BY <1>1, <1>2, <1>3, <1>4, <1>5, <1>6, <1>7, <1>8

LEMMA PrepareFailsInv == ASSUME HostInv, NEW r \in Requests, PrepareFails(r) PROVE HostInv'
<1> USE DEF HostInv, TypeOK, PrepareFails, Exit, AfterScript, Set
<1>1. TypeOK'
  BY DEF PCs, Scripting
<1>2. NotStarted'
  BY DEF NotStarted
<1>3. ExposedNoticed'
  BY DEF ExposedNoticed
<1>4. WorkloadWatched'
  BY DEF WorkloadWatched
<1>5. LockHeld'
  BY DEF LockHeld, Scripting
<1>6. TakenDown'
  BY DEF TakenDown, LoaderAlive
<1>7. Recorded'
  BY DEF Recorded, NotStarted, LoaderAlive, Alive, Scripting
<1>8. Cleared'
  BY HostAssumption DEF Cleared, NotStarted, LoaderAlive, Alive, Scripting
<1> QED BY <1>1, <1>2, <1>3, <1>4, <1>5, <1>6, <1>7, <1>8

LEMMA StartLoaderInv == ASSUME HostInv, NEW r \in Requests, StartLoader(r) PROVE HostInv'
<1> USE DEF HostInv, TypeOK, StartLoader, GoOn, Set
<1>1. TypeOK'
  BY DEF Stages, Alive
<1>2. NotStarted'
  BY DEF NotStarted, Scripting
<1>3. ExposedNoticed'
  BY DEF ExposedNoticed, NotStarted
<1>4. WorkloadWatched'
  BY DEF WorkloadWatched
<1>5. LockHeld'
  BY DEF LockHeld
<1>6. TakenDown'
  BY DEF TakenDown, LoaderAlive, Scripting
<1>7. Recorded'
  BY DEF Recorded, NotStarted, LoaderAlive, Alive, Scripting
<1>8. Cleared'
  BY HostAssumption DEF Cleared, NotStarted, LoaderAlive, Alive, Scripting
<1> QED BY <1>1, <1>2, <1>3, <1>4, <1>5, <1>6, <1>7, <1>8

LEMMA RecordPidInv == ASSUME HostInv, NEW r \in Requests, RecordPid(r) PROVE HostInv'
<1> USE DEF HostInv, TypeOK, RecordPid, GoOn, Set, processes
<1>1. TypeOK'
  BY DEF Stages
<1>2. NotStarted'
  BY DEF NotStarted
<1>3. ExposedNoticed'
  BY DEF ExposedNoticed
<1>4. WorkloadWatched'
  BY DEF WorkloadWatched
<1>5. LockHeld'
  BY DEF LockHeld
<1>6. TakenDown'
  BY DEF TakenDown, LoaderAlive, Scripting
<1>7. Recorded'
  BY DEF Recorded, NotStarted, LoaderAlive, Alive, Scripting
<1>8. Cleared'
  BY HostAssumption DEF Cleared, NotStarted, LoaderAlive, Alive, Scripting
<1> QED BY <1>1, <1>2, <1>3, <1>4, <1>5, <1>6, <1>7, <1>8

LEMMA CheckLoaderInv == ASSUME HostInv, NEW r \in Requests, CheckLoader(r) PROVE HostInv'
<1> USE DEF HostInv, TypeOK, CheckLoader, GoOn, Exit, AfterScript, Set, processes
<1>1. TypeOK'
  <2>1. LoaderAlive(r) \in BOOLEAN
    BY DEF LoaderAlive
  <2>2. CASE Exit(r, LoaderAlive(r)) /\ UNCHANGED workload
    BY <2>1, <2>2, ExitType
  <2>3. CASE GoOn(r, "checking", "rejoining") /\ UNCHANGED <<processes, pidFile>>
    BY <2>3 DEF Stages
  <2> QED BY <2>2, <2>3
<1>2. NotStarted'
  BY DEF NotStarted
<1>3. ExposedNoticed'
  BY DEF ExposedNoticed
<1>4. WorkloadWatched'
  BY DEF WorkloadWatched
<1>5. LockHeld'
  BY DEF LockHeld, Scripting
<1>6. TakenDown'
  BY HostAssumption DEF TakenDown, LoaderAlive
<1>7. Recorded'
  BY DEF Recorded, NotStarted, LoaderAlive, Alive, Scripting
<1>8. Cleared'
  BY HostAssumption DEF Cleared, NotStarted, LoaderAlive, Alive, Scripting
<1> QED BY <1>1, <1>2, <1>3, <1>4, <1>5, <1>6, <1>7, <1>8

LEMMA RejoinInv == ASSUME HostInv, NEW r \in Requests, Rejoin(r) PROVE HostInv'
<1> USE DEF HostInv, TypeOK, Rejoin, GoOn, Exit, AfterScript, Set
<1>1. TypeOK'
  <2>1. CASE Exit(r, FALSE) /\ UNCHANGED workload
    BY <2>1, ExitType
  <2>2. CASE LoaderAlive(r)
    BY <2>2 DEF Stages
  <2> QED BY <2>1, <2>2
<1>2. NotStarted'
  BY DEF NotStarted, Scripting
<1>3. ExposedNoticed'
  BY DEF ExposedNoticed
<1>4. WorkloadWatched'
  BY DEF WorkloadWatched
<1>5. LockHeld'
  BY DEF LockHeld, Scripting
<1>6. TakenDown'
  BY HostAssumption DEF TakenDown, LoaderAlive
<1>7. Recorded'
  BY DEF Recorded, NotStarted, LoaderAlive, Alive, Scripting
<1>8. Cleared'
  BY HostAssumption DEF Cleared, NotStarted, LoaderAlive, Alive, Scripting
<1> QED BY <1>1, <1>2, <1>3, <1>4, <1>5, <1>6, <1>7, <1>8

LEMMA WorkloadEndsInv == ASSUME HostInv, NEW r \in Requests, WorkloadEnds(r) PROVE HostInv'
<1> USE DEF HostInv, TypeOK, WorkloadEnds, GoOn, Exit, AfterScript, Set
<1>1. TypeOK'
  <2>1. CASE script[r] = "running" /\ Exit(r, FALSE)
    BY <2>1, ExitType
  <2>2. CASE ~ Exit(r, FALSE)
    BY <2>2 DEF Stages
  <2> QED BY <2>1, <2>2
<1>2. NotStarted'
  BY DEF NotStarted
<1>3. ExposedNoticed'
  BY DEF ExposedNoticed, NotStarted
<1>4. WorkloadWatched'
  BY DEF WorkloadWatched
<1>5. LockHeld'
  BY DEF LockHeld, Scripting
<1>6. TakenDown'
  BY HostAssumption DEF TakenDown, LoaderAlive
<1>7. Recorded'
  BY DEF Recorded, NotStarted, LoaderAlive, Alive, Scripting
<1>8. Cleared'
  BY HostAssumption DEF Cleared, NotStarted, LoaderAlive, Alive, Scripting
<1> QED BY <1>1, <1>2, <1>3, <1>4, <1>5, <1>6, <1>7, <1>8

LEMMA VerifyInv == ASSUME HostInv, NEW r \in Requests, Verify(r) PROVE HostInv'
<1> USE DEF HostInv, TypeOK, Verify, ScoreValid, Exit, AfterScript, Set
<1>1. TypeOK'
  BY DEF PCs, Scripting
<1>2. NotStarted'
  BY DEF NotStarted
<1>3. ExposedNoticed'
  BY DEF ExposedNoticed, LoaderAlive, Alive
<1>4. WorkloadWatched'
  BY DEF WorkloadWatched
<1>5. LockHeld'
  BY DEF LockHeld, Scripting
<1>6. TakenDown'
  BY DEF TakenDown, LoaderAlive
<1>7. Recorded'
  BY DEF Recorded, NotStarted, LoaderAlive, Alive, Scripting
<1>8. Cleared'
  BY HostAssumption DEF Cleared, NotStarted, LoaderAlive, Alive, Scripting
<1> QED BY <1>1, <1>2, <1>3, <1>4, <1>5, <1>6, <1>7, <1>8

LEMMA LoaderAttachesInv == ASSUME HostInv, NEW r \in Requests, LoaderAttaches(r) PROVE HostInv'
<1> USE DEF HostInv, TypeOK, LoaderAttaches, Set
<1>1. TypeOK'
  BY DEF Alive
<1>2. NotStarted'
  BY DEF NotStarted
<1>3. ExposedNoticed'
  BY DEF ExposedNoticed
<1>4. WorkloadWatched'
  BY DEF WorkloadWatched
<1>5. LockHeld'
  BY DEF LockHeld
<1>6. TakenDown'
  BY DEF TakenDown, LoaderAlive
<1>7. Recorded'
  BY DEF Recorded, NotStarted, LoaderAlive, Alive, Scripting
<1>8. Cleared'
  BY HostAssumption DEF Cleared, NotStarted, LoaderAlive, Alive, Scripting
<1> QED BY <1>1, <1>2, <1>3, <1>4, <1>5, <1>6, <1>7, <1>8

LEMMA LoaderDiesInv == ASSUME HostInv, NEW r \in Requests, LoaderDies(r) PROVE HostInv'
<1> USE DEF HostInv, TypeOK, LoaderDies, Set
<1>1. TypeOK'
  OBVIOUS
<1>2. NotStarted'
  BY DEF NotStarted
<1>3. ExposedNoticed'
  BY DEF ExposedNoticed, WorkloadWatched
<1>4. WorkloadWatched'
  BY DEF WorkloadWatched
<1>5. LockHeld'
  BY DEF LockHeld
<1>6. TakenDown'
  BY HostAssumption DEF TakenDown, NotStarted, LoaderAlive, Alive, Scripting
<1>7. Recorded'
  BY DEF Recorded, NotStarted, LoaderAlive, Alive, Scripting
<1>8. Cleared'
  BY HostAssumption DEF Cleared, NotStarted, LoaderAlive, Alive, Scripting
<1> QED BY <1>1, <1>2, <1>3, <1>4, <1>5, <1>6, <1>7, <1>8

(* The inductive invariant of the host, from which the rest follows.       *)
THEOREM HostInvariant == Spec => []HostInv
<1>1. Init => HostInv
  BY HostInit
<1>2. HostInv /\ [Next]_vars => HostInv'
  <2> SUFFICES ASSUME HostInv, [Next]_vars PROVE HostInv'
    OBVIOUS
  <2>1. ASSUME NEW r \in Requests, Handler(r) PROVE HostInv'
    BY <2>1, AdmitInv, GiveUpInv, LaunchInv, BaselineInv, TearDownInv, ReportInv DEF Handler
  <2>2. ASSUME NEW r \in Requests, Script(r) PROVE HostInv'
    BY <2>2, PrepareInv, PrepareFailsInv, StartLoaderInv, RecordPidInv, CheckLoaderInv, RejoinInv,
       VerifyInv DEF Script
  <2>3. ASSUME NEW r \in Requests,
               TimeOut(r) \/ WorkloadEnds(r) \/ LoaderAttaches(r) \/ LoaderDies(r)
        PROVE HostInv'
    BY <2>3, TimeOutInv, WorkloadEndsInv, LoaderAttachesInv, LoaderDiesInv
  <2>4. CASE UNCHANGED vars
    BY <2>4 DEF HostInv, TypeOK, NotStarted, ExposedNoticed, WorkloadWatched, LockHeld, TakenDown,
       Recorded, Cleared, LoaderAlive, vars, processes
  <2> QED BY <2>1, <2>2, <2>3, <2>4 DEF Next, Quiet
<1> QED BY <1>1, <1>2, PTL DEF Spec

(* Type correctness of the host. *)
THEOREM HostTypeCorrect == Spec => []TypeOK
  BY HostInvariant, PTL DEF HostInv

(* An answer without error is a measurement under the policy throughout.   *)
THEOREM ValidScores == Spec => []ScoresUnderPolicy
<1>1. HostInv => ScoresUnderPolicy
  BY DEF HostInv, TypeOK, ExposedNoticed, WorkloadWatched, ScoresUnderPolicy, Scripting
<1> QED BY <1>1, HostInvariant, PTL

(* With the lock a measurement meets no workload but those whose script a  *)
(* timeout killed.                                                         *)
THEOREM LockedMeasuresAlone == ASSUME Locked PROVE Spec => []MeasuredAlone
<1>1. HostInv => MeasuredAlone
  BY DEF HostInv, TypeOK, LockHeld, WorkloadWatched, MeasuredAlone, Scripting
<1> QED BY <1>1, HostInvariant, PTL

(* An evaluation takes its loader down, except a timeout kept it from that. *)
THEOREM LoaderTakenDown == Spec => []LoaderGoneUnlessTimedOut
<1>1. HostInv => LoaderGoneUnlessTimedOut
  BY DEF HostInv, TypeOK, TakenDown, Recorded, Cleared, LoaderGoneUnlessTimedOut, Scripting
<1> QED BY <1>1, HostInvariant, PTL

-----------------------------------------------------------------------------
(* A step of the pool is a step of the host or leaves the host alone.      *)
LEMMA PoolStep == [PoolNext]_poolVars => [Next]_vars
<1> SUFFICES ASSUME [PoolNext]_poolVars PROVE [Next]_vars
  OBVIOUS
<1>1. CASE Coordinator \/ Settled \/ UNCHANGED poolVars
  BY <1>1 DEF Coordinator, Settled, EndPreflight, EndRound, Check, Ask, Sent, poolVars
<1>2. ASSUME NEW r \in Requests, Client(r) \/ Arrive(r) \/ Reply(r) PROVE UNCHANGED vars
  BY <1>2 DEF Client, Ask, Sent, AskInVain, Abandon, Arrive, Reply
<1>3. ASSUME NEW r \in Requests, PoolHandler(r), ~ Reply(r) PROVE Handler(r)
  BY <1>3 DEF PoolHandler, PoolAdmit, PoolGiveUp, PoolLaunch, PoolBaseline, PoolTearDown,
     PoolReport, Handler
<1>4. ASSUME NEW r \in Requests, PoolScript(r) PROVE TimeOut(r) \/ Script(r)
  BY <1>4 DEF PoolScript
<1>5. ASSUME NEW r \in Requests, PoolWorkloadEnds(r) \/ Elsewhere(r)
      PROVE WorkloadEnds(r) \/ LoaderAttaches(r) \/ LoaderDies(r)
  BY <1>5 DEF PoolWorkloadEnds, Elsewhere
<1> QED BY <1>1, <1>2, <1>3, <1>4, <1>5 DEF PoolNext, Next

(* The pool's host behaves like WorkerHost: its theorems hold here too.    *)
THEOREM PoolRefinesHost == PoolSpec => Spec
<1>1. PoolInit => Init
  BY DEF PoolInit
<1> QED BY <1>1, PoolStep, PTL DEF PoolSpec, Spec

-----------------------------------------------------------------------------

(* The lock belongs to nobody who waits for it or is through. *)
LockBusy ==
  /\ ~ Locked => lock = Nobody
  /\ \A r \in Requests : lock = r => pc[r] \notin {"queued", "replied"}

(* How far the handler is in worker_server.py and in evaluate().           *)
InStep ==
  \A r \in Requests :
    /\ pc[r] = "queued" => handler[r] # "launched"
    /\ pc[r] = "resolving" => handler[r] = "received"
    /\ pc[r] \in Scripting \cup {"baseline", "tearing"} => handler[r] = "launched"
    /\ pc[r] = "reporting" => handler[r] = "launched" \/ (handler[r] = "received" /\ ~ ok[r])

(* The copy of the binary lives as long as the handler. *)
CopyKept ==
  \A r \in Requests :
    /\ handler[r] \in {"received", "launched"} /\ Locked => tempFile[r]
    /\ handler[r] \in {"none", "coming", "closed"} => ~ tempFile[r]

PoolInv == PoolTypeOK /\ LockBusy /\ InStep /\ CopyKept

LEMMA PoolInitInv == PoolInit => PoolInv
<1> SUFFICES ASSUME PoolInit PROVE PoolInv
  OBVIOUS
<1>1. Init /\ TypeOK
  BY HostInit DEF PoolInit, HostInv
<1>2. /\ measured \in [Requests -> Measurement] /\ baseline \in [Probes -> Owner]
      /\ results \in Owner /\ kept \in [Requests -> BOOLEAN]
  BY DEF PoolInit, Measurement, Owner
<1>3. phase \in {"preflight", "rounds"} /\ round \in 1 .. MaxRound
  BY PoolAssumption DEF PoolInit
<1>4. checks \in [Workers -> {"pending"}] /\ call \in [Requests -> {"idle"}]
  BY DEF PoolInit
<1>5. handler \in [Requests -> {"none"}] /\ tempFile \in [Requests -> {FALSE}]
  BY DEF PoolInit
<1>6. PoolTypeOK
  <2> HIDE DEF PoolInit
  <2> QED BY <1>1, <1>2, <1>3, <1>4, <1>5 DEF PoolTypeOK, Init
<1>7. LockBusy /\ InStep /\ CopyKept
  BY <1>1, HostAssumption DEF PoolInit, LockBusy, InStep, CopyKept, Init, Scripting
<1> QED BY <1>6, <1>7 DEF PoolInv

(* The coordinator and its calls. *)
LEMMA CoordinatorInv ==
  ASSUME PoolInv, TypeOK',
         EndPreflight \/ EndRound \/ Settled \/ \E w \in Workers : Check(w)
  PROVE  PoolInv'
<1> USE DEF PoolInv, PoolTypeOK, Set, caller, probing, prepared, poolVars, vars
<1>1. PoolTypeOK'
  BY PoolAssumption DEF EndPreflight, EndRound, Check, CheckReplies, Settled
<1>2. LockBusy' /\ InStep' /\ CopyKept'
  BY DEF EndPreflight, EndRound, Check, Settled, LockBusy, InStep, CopyKept
<1> QED BY <1>1, <1>2

LEMMA ClientInv ==
  ASSUME PoolInv, TypeOK', NEW r \in Requests, Client(r) \/ Arrive(r)
  PROVE  PoolInv'
<1> USE DEF PoolInv, PoolTypeOK, Set, caller, probing, prepared, vars
<1>1. PoolTypeOK'
  BY DEF Client, Ask, Sent, AskInVain, Abandon, Arrive, Over
<1>2. LockBusy'
  BY DEF Client, Ask, Sent, AskInVain, Abandon, Arrive, LockBusy
<1>3. InStep'
  BY DEF Client, Ask, Sent, AskInVain, Abandon, Arrive, InStep, Scripting
<1>4. CopyKept'
  BY DEF Client, Ask, Sent, AskInVain, Abandon, Arrive, CopyKept
<1> QED BY <1>1, <1>2, <1>3, <1>4
(* What pre() may leave in the probes. *)
LEMMA PreType ==
  ASSUME PoolTypeOK, NEW r \in Requests,
         PreAll(r) \/ PreSome(r) \/ UNCHANGED prepared
  PROVE  baseline' \in [Probes -> Owner] /\ results' \in Owner /\ kept' \in [Requests -> BOOLEAN]
<1>1. \A probes \in SUBSET Probes : Taken(r, probes) \in [Probes -> Owner]
  BY DEF Taken, PoolTypeOK, Owner
<1>2. kept \in [Requests -> BOOLEAN] /\ Set(kept, r, TRUE) \in [Requests -> BOOLEAN]
  BY DEF PoolTypeOK, Set
<1>3. baseline \in [Probes -> Owner] /\ results \in Owner /\ RemovedResults \in Owner
  BY DEF PoolTypeOK, RemovedResults, Owner
<1>4. CASE PreAll(r)
  BY <1>1, <1>2, <1>3, <1>4 DEF PreAll, RemovalFails
<1>5. CASE PreSome(r)
  BY <1>1, <1>2, <1>3, <1>5 DEF PreSome
<1>6. CASE UNCHANGED prepared
  BY <1>2, <1>3, <1>6 DEF prepared
<1> QED BY <1>4, <1>5, <1>6

LEMMA PoolAdmitInv ==
  ASSUME PoolInv, HostInv, TypeOK', NEW r \in Requests, PoolAdmit(r)
  PROVE  PoolInv'
<1> USE DEF PoolInv, PoolTypeOK, Set, caller, probing, prepared, processes, vars, PoolAdmit, Admit, Admits
<1>1. PoolTypeOK'
  BY DEF HostInv, TypeOK, Measurement, Over
<1>2. LockBusy'
  BY HostAssumption DEF HostInv, TypeOK, LockBusy, LockHeld, Scripting, AfterScript
<1>3. InStep'
  BY DEF HostInv, TypeOK, InStep, Scripting, AfterScript
<1>4. CopyKept'
  BY DEF CopyKept, InStep, Scripting, Unlinks
<1> QED BY <1>1, <1>2, <1>3, <1>4

LEMMA PoolGiveUpInv ==
  ASSUME PoolInv, HostInv, TypeOK', NEW r \in Requests, PoolGiveUp(r)
  PROVE  PoolInv'
<1> USE DEF PoolInv, PoolTypeOK, Set, caller, probing, prepared, processes, vars, PoolGiveUp, GiveUp
<1>1. PoolTypeOK'
  BY PreType DEF InStep, Scripting
<1>2. LockBusy'
  BY HostAssumption DEF HostInv, TypeOK, LockBusy, LockHeld, Scripting, AfterScript
<1>3. InStep'
  BY DEF HostInv, TypeOK, InStep, Scripting, AfterScript
<1>4. CopyKept'
  BY DEF CopyKept, InStep, Scripting, Unlinks
<1> QED BY <1>1, <1>2, <1>3, <1>4

LEMMA PoolLaunchInv ==
  ASSUME PoolInv, HostInv, TypeOK', NEW r \in Requests, PoolLaunch(r)
  PROVE  PoolInv'
<1> USE DEF PoolInv, PoolTypeOK, Set, caller, probing, prepared, processes, vars, PoolLaunch, Launch
<1>1. PoolTypeOK'
  BY PreType DEF InStep, Scripting
<1>2. LockBusy'
  BY HostAssumption DEF HostInv, TypeOK, LockBusy, LockHeld, Scripting, AfterScript
<1>3. InStep'
  BY DEF HostInv, TypeOK, InStep, Scripting, AfterScript
<1>4. CopyKept'
  BY DEF CopyKept, InStep, Scripting, Unlinks
<1> QED BY <1>1, <1>2, <1>3, <1>4

LEMMA PoolBaselineInv ==
  ASSUME PoolInv, HostInv, TypeOK', NEW r \in Requests, PoolBaseline(r)
  PROVE  PoolInv'
<1> USE DEF PoolInv, PoolTypeOK, Set, caller, probing, prepared, processes, vars, PoolBaseline, Baseline
<1>1. PoolTypeOK'
  <2>1. baseline' \in [Probes -> Owner] /\ results' \in Owner /\ kept' \in [Requests -> BOOLEAN]
    BY PreType
  <2> QED BY <2>1 DEF InStep, Scripting, HostInv, TypeOK
<1>2. LockBusy'
  BY HostAssumption DEF HostInv, TypeOK, LockBusy, LockHeld, Scripting, AfterScript
<1>3. InStep'
  BY DEF HostInv, TypeOK, InStep, Scripting, AfterScript
<1>4. CopyKept'
  BY DEF CopyKept, InStep, Scripting, Unlinks
<1> QED BY <1>1, <1>2, <1>3, <1>4

LEMMA PoolTearDownInv ==
  ASSUME PoolInv, HostInv, TypeOK', NEW r \in Requests, PoolTearDown(r)
  PROVE  PoolInv'
<1> USE DEF PoolInv, PoolTypeOK, Set, caller, probing, prepared, processes, vars, PoolTearDown, TearDown
<1>1. PoolTypeOK'
  BY DEF HostInv, TypeOK, Measurement, Over
<1>2. LockBusy'
  BY HostAssumption DEF HostInv, TypeOK, LockBusy, LockHeld, Scripting, AfterScript
<1>3. InStep'
  BY DEF HostInv, TypeOK, InStep, Scripting, AfterScript
<1>4. CopyKept'
  BY DEF CopyKept, InStep, Scripting, Unlinks
<1> QED BY <1>1, <1>2, <1>3, <1>4

LEMMA PoolReportInv ==
  ASSUME PoolInv, HostInv, TypeOK', NEW r \in Requests, PoolReport(r)
  PROVE  PoolInv'
<1> USE DEF PoolInv, PoolTypeOK, Set, caller, probing, prepared, processes, vars, PoolReport, Report, Release
<1>1. PoolTypeOK'
  BY DEF HostInv, TypeOK, Measurement, Over
<1>2. LockBusy'
  BY HostAssumption DEF HostInv, TypeOK, LockBusy, LockHeld, Scripting, AfterScript
<1>3. InStep'
  BY DEF HostInv, TypeOK, InStep, Scripting, AfterScript
<1>4. CopyKept'
  BY DEF CopyKept, InStep, Scripting, Unlinks
<1> QED BY <1>1, <1>2, <1>3, <1>4

LEMMA ReplyInv ==
  ASSUME PoolInv, HostInv, TypeOK', NEW r \in Requests, Reply(r)
  PROVE  PoolInv'
<1> USE DEF PoolInv, PoolTypeOK, Set, caller, probing, prepared, processes, vars, Reply
<1>1. PoolTypeOK'
  BY DEF HostInv, TypeOK, Measurement, Over
<1>2. LockBusy'
  BY HostAssumption DEF HostInv, TypeOK, LockBusy, LockHeld, Scripting, AfterScript
<1>3. InStep'
  BY DEF HostInv, TypeOK, InStep, Scripting, AfterScript
<1>4. CopyKept'
  BY DEF CopyKept, InStep, Scripting, Unlinks
<1> QED BY <1>1, <1>2, <1>3, <1>4

(* The script and what runs beside it move a handler only out of the wait   *)
(* for a script.                                                           *)
LEMMA ProcessStep ==
  ASSUME HostInv, NEW r \in Requests,
         TimeOut(r) \/ Script(r) \/ WorkloadEnds(r) \/ LoaderAttaches(r) \/ LoaderDies(r)
  PROVE  /\ lock' = lock
         /\ \A s \in Requests : (ok'[s] => ok[s]) /\ (timedOut[s] => timedOut'[s])
         /\ \A s \in Requests :
              pc'[s] # pc[s] => pc[s] \in Scripting /\ pc'[s] \in {"reporting", "baseline", "tearing"}
         /\ \A s \in Requests :
              pc[s] = "warming" => pc'[s] # "reporting" /\ (pc'[s] = "tearing" => ~ ok'[s])
<1> DEFINE Goal ==
      /\ lock' = lock
      /\ \A s \in Requests : (ok'[s] => ok[s]) /\ (timedOut[s] => timedOut'[s])
      /\ \A s \in Requests :
           pc'[s] # pc[s] => pc[s] \in Scripting /\ pc'[s] \in {"reporting", "baseline", "tearing"}
      /\ \A s \in Requests :
           pc[s] = "warming" => pc'[s] # "reporting" /\ (pc'[s] = "tearing" => ~ ok'[s])
<1>1. ASSUME NEW success \in BOOLEAN
      PROVE  /\ AfterScript(r, success) \in {"reporting", "baseline", "tearing"}
             /\ pc[r] = "warming" => AfterScript(r, success) = IF success THEN "baseline" ELSE "tearing"
  BY DEF AfterScript
<1>2. ASSUME script[r] # "none", NEW success \in BOOLEAN, Exit(r, success) PROVE Goal
  BY <1>1, <1>2 DEF HostInv, TypeOK, Exit, Set
<1>3. ASSUME NEW stage, NEW next, GoOn(r, stage, next) PROVE Goal
  BY <1>3 DEF GoOn
<1>4. LoaderAlive(r) \in BOOLEAN
  BY DEF LoaderAlive
<1> HIDE DEF Goal
<1>5. CASE TimeOut(r)
  BY <1>1, <1>5 DEF TimeOut, HostInv, TypeOK, Set, Goal
<1>6. CASE Prepare(r) \/ StartLoader(r) \/ RecordPid(r)
  BY <1>3, <1>6 DEF Prepare, StartLoader, RecordPid, Goal
<1>7. CASE PrepareFails(r) \/ CheckLoader(r) \/ Rejoin(r) \/ Verify(r)
  BY <1>2, <1>3, <1>4, <1>7 DEF PrepareFails, CheckLoader, Rejoin, Verify, ScoreValid, Goal
<1>8. CASE WorkloadEnds(r)
  BY <1>2, <1>3, <1>8 DEF WorkloadEnds, Goal
<1>9. CASE LoaderAttaches(r) \/ LoaderDies(r)
  BY <1>9 DEF LoaderAttaches, LoaderDies, Goal
<1> QED BY <1>5, <1>6, <1>7, <1>8, <1>9 DEF Script, Goal

LEMMA ProcessInv ==
  ASSUME PoolInv, HostInv, TypeOK', NEW r \in Requests,
         PoolScript(r) \/ PoolWorkloadEnds(r) \/ Elsewhere(r)
  PROVE  PoolInv'
<1>1. /\ lock' = lock
      /\ \A s \in Requests : ok'[s] => ok[s]
      /\ \A s \in Requests :
           pc'[s] # pc[s] => pc[s] \in Scripting /\ pc'[s] \in {"reporting", "baseline", "tearing"}
  BY ProcessStep DEF PoolScript, PoolWorkloadEnds, Elsewhere
<1>2. UNCHANGED <<caller, handler, tempFile, measured>>
  BY DEF PoolScript, PoolWorkloadEnds, Elsewhere, probing
<1>3. baseline' \in [Probes -> Owner] /\ results' \in Owner /\ kept' \in [Requests -> BOOLEAN]
  <2>1. CASE PoolWorkloadEnds(r)
    BY <2>1 DEF PoolWorkloadEnds, PoolInv, PoolTypeOK, Owner
  <2>2. CASE PoolScript(r) \/ Elsewhere(r)
    BY <2>2, PreType DEF PoolScript, Elsewhere, probing, PoolInv
  <2> QED BY <2>1, <2>2
<1>4. PoolTypeOK'
  BY <1>1, <1>2, <1>3 DEF PoolInv, PoolTypeOK, InStep, Scripting, caller
<1>5. LockBusy' /\ InStep' /\ CopyKept'
  BY <1>1, <1>2 DEF PoolInv, LockBusy, InStep, CopyKept, Scripting
<1> QED BY <1>4, <1>5 DEF PoolInv

(* The invariant of the pool, inductive beside that of its host.           *)
THEOREM PoolInvariant == PoolSpec => []PoolInv
<1>1. PoolInit => PoolInv
  BY PoolInitInv
<1>2. PoolInv /\ HostInv /\ HostInv' /\ [PoolNext]_poolVars => PoolInv'
  <2> SUFFICES ASSUME PoolInv, HostInv, TypeOK', [PoolNext]_poolVars PROVE PoolInv'
    BY DEF HostInv
  <2>1. CASE Coordinator \/ Settled
    BY <2>1, CoordinatorInv, ClientInv DEF Coordinator, Client
  <2>2. ASSUME NEW r \in Requests, Client(r) \/ Arrive(r) PROVE PoolInv'
    BY <2>2, ClientInv
  <2>3. ASSUME NEW r \in Requests, PoolHandler(r) PROVE PoolInv'
    BY <2>3, PoolAdmitInv, PoolGiveUpInv, PoolLaunchInv, PoolBaselineInv, PoolTearDownInv,
       PoolReportInv, ReplyInv DEF PoolHandler
  <2>4. ASSUME NEW r \in Requests, PoolScript(r) \/ PoolWorkloadEnds(r) \/ Elsewhere(r)
        PROVE  PoolInv'
    BY <2>4, ProcessInv
  <2>5. CASE UNCHANGED poolVars
    BY <2>5 DEF PoolInv, PoolTypeOK, LockBusy, InStep, CopyKept, poolVars, vars, caller, probing, prepared
  <2> QED BY <2>1, <2>2, <2>3, <2>4, <2>5 DEF PoolNext
<1> QED BY <1>1, <1>2, PoolRefinesHost, HostInvariant, PTL DEF PoolSpec

(* Type correctness of the pool. *)
THEOREM PoolTypeCorrect == PoolSpec => []PoolTypeOK
  BY PoolInvariant, PTL DEF PoolInv

(* A handler that is through leaves no copy, lock or script behind, and a  *)
(* loader only because of a timeout.                                       *)
THEOREM PoolLeavesNothing == PoolSpec => []NothingLeft
<1>1. PoolInv /\ HostInv /\ LoaderGoneUnlessTimedOut => NothingLeft
  <2> SUFFICES ASSUME PoolInv, HostInv, LoaderGoneUnlessTimedOut, NEW r \in Requests
               PROVE  /\ script[r] # "none" /\ Locked => tempFile[r]
                      /\ handler[r] = "closed" =>
                           /\ ~ tempFile[r] /\ lock # r /\ script[r] = "none"
                           /\ LoaderAlive(r) => timedOut[r] /\ (r \in Split => ~ pidFile[r])
    BY Zenon DEF NothingLeft
  <2>1. handler[r] = "closed" => pc[r] \in {"queued", "replied"}
    BY DEF PoolInv, InStep, HostInv, TypeOK, PCs, Scripting
  <2>2. pc[r] = "queued" => ~ LoaderAlive(r)
    BY DEF HostInv, NotStarted, LoaderAlive, Alive
  <2> QED
    BY <2>1, <2>2 DEF PoolInv, LockBusy, InStep, CopyKept, HostInv, TypeOK,
       LoaderGoneUnlessTimedOut, Scripting
<1> QED BY <1>1, PoolInvariant, PoolRefinesHost, HostInvariant, LoaderTakenDown, PTL
-----------------------------------------------------------------------------

(* Whose results r may read: nobody's, its own, those it could not remove, *)
(* or those of a workload that a timeout left behind.                      *)
MayRead(r, writer) ==
  writer \in {r, Nobody} \/ kept[r] \/ (writer \in Requests /\ timedOut[writer])

(* With the lock nobody but its holder touches the probes. *)
Held(r) == (\A p \in Probes : baseline[p] = r) /\ MayRead(r, results)

Used(r) == (\A p \in Probes : measured[r].from[p] = r) /\ MayRead(r, measured[r].results)

OwnInv ==
  \A r \in Requests :
    /\ pc[r] \in {"whole", "measuring"} => Held(r)
    /\ pc[r] \in {"tearing", "reporting"} /\ ok[r] => Held(r)
    /\ pc[r] = "replied" /\ ok[r] => Used(r)

(* Nobody measures at first. *)
LEMMA OwnInit == PoolInit => OwnInv
<1> SUFFICES ASSUME PoolInit, NEW r \in Requests
             PROVE  pc[r] \notin {"whole", "measuring", "tearing", "reporting", "replied"}
  BY Zenon DEF OwnInv
<1>1. Init
  BY DEF PoolInit
<1> QED BY <1>1, HostAssumption DEF Init

(* Until it reports, a measurement is not disturbed; then it uses what it  *)
(* held.                                                                   *)
LEMMA HandlerOwn ==
  ASSUME Locked, PoolInv, HostInv, OwnInv, NEW r \in Requests, PoolHandler(r)
  PROVE  OwnInv'
<1> DEFINE Idle == \A s \in Requests \ {r} : pc[s] \in {"queued", "replied"} /\ pc'[s] = pc[s]
<1>1. ASSUME PreAll(r) PROVE Held(r)'
  BY <1>1 DEF PreAll, Taken, RemovalFails, RemovedResults, Held, MayRead, PoolInv, PoolTypeOK, Set
<1>2. ASSUME PreAll(r) \/ PreSome(r) \/ UNCHANGED prepared, UNCHANGED <<measured, timedOut>>,
             NEW s \in Requests, Used(s)
      PROVE  Used(s)'
  <2>1. kept[s] => kept'[s]
    BY <1>2 DEF PreAll, PreSome, RemovalFails, prepared, PoolInv, PoolTypeOK, Set
  <2> QED BY <1>2, <2>1 DEF Used, MayRead
<1>3. ASSUME Idle, PreAll(r) \/ PreSome(r) \/ UNCHANGED prepared,
              UNCHANGED <<measured, timedOut>>, \A s \in Requests : ok'[s] => ok[s],
              pc'[r] # "replied", pc'[r] \in {"whole", "measuring"} => PreAll(r),
              pc'[r] \in {"tearing", "reporting"} => ~ ok'[r]
       PROVE  OwnInv'
  <2> SUFFICES ASSUME NEW s \in Requests
               PROVE  /\ pc'[s] \in {"whole", "measuring"} => Held(s)'
                      /\ pc'[s] \in {"tearing", "reporting"} /\ ok'[s] => Held(s)'
                      /\ pc'[s] = "replied" /\ ok'[s] => Used(s)'
    BY DEF OwnInv
  <2>1. CASE s = r
    BY <1>1, <1>3, <2>1
  <2>2. CASE s # r
    BY <1>2, <1>3, <2>2 DEF OwnInv
  <2> QED BY <2>1, <2>2
<1>4. ASSUME pc[r] \in {"resolving", "baseline"}, \A s \in Requests \ {r} : pc'[s] = pc[s]
       PROVE  Idle
  BY <1>4, HostAssumption DEF HostInv, LockHeld
<1> HIDE DEF Idle
<1>5. CASE PoolGiveUp(r)
  <2>1. pc[r] = "resolving" /\ pc'[r] = "reporting" /\ ~ ok'[r]
    BY <1>5 DEF PoolGiveUp, GiveUp, HostInv, TypeOK, Set
  <2>2. \A s \in Requests : (s # r => pc'[s] = pc[s]) /\ (ok'[s] => ok[s])
    BY <1>5 DEF PoolGiveUp, GiveUp, HostInv, TypeOK, Set
  <2>3. (PreSome(r) \/ UNCHANGED prepared) /\ UNCHANGED <<measured, timedOut>>
    BY <1>5 DEF PoolGiveUp, GiveUp
  <2> QED BY <1>3, <1>4, <2>1, <2>2, <2>3
<1>6. CASE PoolLaunch(r)
  <2>1. pc[r] = "resolving" /\ pc'[r] = IF r \in Split THEN "warming" ELSE "whole"
    BY <1>6 DEF PoolLaunch, Launch, HostInv, TypeOK, Set
  <2>2. \A s \in Requests : (s # r => pc'[s] = pc[s]) /\ (ok'[s] => ok[s])
    BY <1>6 DEF PoolLaunch, Launch, HostInv, TypeOK, Set
  <2>3. /\ UNCHANGED <<measured, timedOut>>
        /\ IF r \in Split THEN UNCHANGED prepared ELSE PreAll(r)
    BY <1>6 DEF PoolLaunch, Launch
  <2> QED BY <1>3, <1>4, <2>1, <2>2, <2>3
<1>7. CASE PoolBaseline(r)
  <2>1. /\ pc[r] = "baseline" /\ pc'[r] \in {"measuring", "tearing"}
        /\ pc'[r] = "tearing" => ~ ok'[r]
    BY <1>7 DEF PoolBaseline, Baseline, HostInv, TypeOK, Set
  <2>2. \A s \in Requests : (s # r => pc'[s] = pc[s]) /\ (ok'[s] => ok[s])
    BY <1>7 DEF PoolBaseline, Baseline, HostInv, TypeOK, Set
  <2>3. /\ UNCHANGED <<measured, timedOut>>
        /\ IF pc'[r] = "measuring" THEN PreAll(r) ELSE PreSome(r)
    BY <1>7 DEF PoolBaseline, Baseline
  <2> QED BY <1>3, <1>4, <2>1, <2>2, <2>3
<1> USE DEF PoolInv, PoolTypeOK, HostInv, TypeOK, OwnInv, Held, Used, MayRead, Set, caller, probing,
       prepared, processes
<1>8. CASE PoolAdmit(r)
  BY <1>8 DEF PoolAdmit, Admit
<1>9. CASE PoolTearDown(r)
  BY <1>9 DEF PoolTearDown, TearDown
<1>10. CASE PoolReport(r)
  BY <1>10 DEF PoolReport, Report, InStep
<1>11. CASE Reply(r)
  BY <1>11 DEF Reply, vars
<1> QED BY <1>5, <1>6, <1>7, <1>8, <1>9, <1>10, <1>11 DEF PoolHandler

LEMMA ProcessOwn ==
  ASSUME Locked, PoolInv, HostInv, OwnInv, NEW r \in Requests,
         PoolScript(r) \/ PoolWorkloadEnds(r) \/ Elsewhere(r)
  PROVE  OwnInv'
<1>1. /\ \A s \in Requests : (ok'[s] => ok[s]) /\ (timedOut[s] => timedOut'[s])
      /\ \A s \in Requests :
           pc'[s] # pc[s] => pc[s] \in Scripting /\ pc'[s] \in {"reporting", "baseline", "tearing"}
      /\ \A s \in Requests :
           pc[s] = "warming" => pc'[s] # "reporting" /\ (pc'[s] = "tearing" => ~ ok'[s])
  BY ProcessStep DEF PoolScript, PoolWorkloadEnds, Elsewhere
<1>2. UNCHANGED <<measured, kept>>
  BY DEF PoolScript, PoolWorkloadEnds, Elsewhere, PreSome, probing, prepared
<1>3. \/ UNCHANGED <<baseline, results>>
      \/ lock = r /\ pc[r] = "warming" /\ pc'[r] = "tearing"
      \/ UNCHANGED baseline /\ results' \in {results, Nobody, r} /\ (lock = r \/ timedOut[r])
  <2>1. CASE PoolScript(r)
    BY <2>1 DEF PoolScript, HostInv, LockHeld, prepared
  <2>2. CASE PoolWorkloadEnds(r)
    <3>1. workload[r] /\ UNCHANGED baseline /\ results' \in {results, Nobody, r}
      BY <2>2 DEF PoolWorkloadEnds, WorkloadEnds
    <3>2. script[r] = "running" => pc[r] \in Scripting
      BY DEF HostInv, TypeOK
    <3> QED BY <3>1, <3>2 DEF HostInv, WorkloadWatched, LockHeld, Scripting
  <2>3. CASE Elsewhere(r)
    BY <2>3 DEF Elsewhere, probing, prepared
  <2> QED BY <2>1, <2>2, <2>3
<1>4. ASSUME NEW s \in Requests, lock # s PROVE pc[s] \in {"queued", "replied"} /\ pc'[s] = pc[s]
  BY <1>1, <1>4 DEF HostInv, LockHeld, Scripting
<1>5. ASSUME NEW s \in Requests, NEW writer, MayRead(s, writer) PROVE MayRead(s, writer)'
  BY <1>1, <1>2, <1>5 DEF MayRead
<1>6. ASSUME NEW s \in Requests, Used(s) PROVE Used(s)'
  BY <1>2, <1>5, <1>6 DEF Used
<1>7. ASSUME NEW s \in Requests, Held(s), UNCHANGED baseline,
             results' = results \/ results' \in {Nobody, s} \/ (results' = r /\ timedOut[r])
      PROVE  Held(s)'
  BY <1>1, <1>2, <1>5, <1>7 DEF Held, MayRead
<1>8. ASSUME NEW s \in Requests
      PROVE  /\ pc'[s] \in {"whole", "measuring"} => Held(s)'
             /\ pc'[s] \in {"tearing", "reporting"} /\ ok'[s] => Held(s)'
             /\ pc'[s] = "replied" /\ ok'[s] => Used(s)'
  <2>1. CASE lock # s
    BY <1>1, <1>4, <1>6, <2>1 DEF OwnInv
  <2>2. CASE lock = s
    <3>1. pc'[s] = "replied" => pc[s] = "replied"
      BY <1>1
    <3> QED BY <1>1, <1>3, <1>6, <1>7, <2>2, <3>1 DEF OwnInv, Scripting
  <2> QED BY <2>1, <2>2
<1> QED BY <1>8 DEF OwnInv

(* With the lock a score comes from its own baseline, and from its own     *)
(* results or none unless it could not remove the earlier ones or a        *)
(* workload left behind by a timeout wrote in between.                     *)
THEOREM LockedMeasurementIsOwn == ASSUME Locked PROVE PoolSpec => []MeasurementIsOwn
<1>1. PoolInit => OwnInv
  BY OwnInit
<1>2. PoolInv /\ HostInv /\ OwnInv /\ [PoolNext]_poolVars => OwnInv'
  <2> SUFFICES ASSUME PoolInv, HostInv, OwnInv, [PoolNext]_poolVars PROVE OwnInv'
    OBVIOUS
  <2>1. CASE \/ Coordinator \/ Settled \/ UNCHANGED poolVars
             \/ \E r \in Requests : Client(r) \/ Arrive(r)
    <3>1. UNCHANGED <<vars, probing>>
      BY <2>1 DEF Coordinator, Settled, EndPreflight, EndRound, Check, Client, Ask, Sent, AskInVain,
         Abandon, Arrive, poolVars
    <3> QED BY <3>1 DEF OwnInv, Held, Used, MayRead, vars, probing, prepared
  <2>2. ASSUME NEW r \in Requests, PoolHandler(r) PROVE OwnInv'
    BY <2>2, HandlerOwn
  <2>3. ASSUME NEW r \in Requests, PoolScript(r) \/ PoolWorkloadEnds(r) \/ Elsewhere(r)
        PROVE  OwnInv'
    BY <2>3, ProcessOwn
  <2> QED BY <2>1, <2>2, <2>3 DEF PoolNext
<1>3. OwnInv => MeasurementIsOwn
  BY DEF OwnInv, Used, MayRead, MeasurementIsOwn
<1> QED BY <1>1, <1>2, <1>3, PoolInvariant, PoolRefinesHost, HostInvariant, PTL DEF PoolSpec
=============================================================================
