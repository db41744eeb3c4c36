-------------------------- MODULE BranchSteps_proofs --------------------------
(***************************************************************************)
(* TypeOK and SnapshotIsOwn of BranchSteps for any set of branches, any    *)
(* number of rounds and of builds that time out.                           *)
(***************************************************************************)
EXTENDS BranchSteps, TLAPS

(* Whoever is inside compile_policy or before its snapshot holds the lock. *)
LockHeld == \A b \in Branches : pc[b] \in Compiling <=> lock = b

(* The files a build needs are there when it comes to them. *)
Built ==
  \A b \in Branches :
    /\ pc[b] \in {"building", "linking", "snapshotting"} => source \in Policy
    /\ pc[b] \in {"linking", "snapshotting"} => object \in Code
    /\ pc[b] = "snapshotting" => binary \in Policy

(* Without a timeout the directory holds nothing but the lock holder's.    *)
OwnFiles ==
  timeouts = 0 =>
    /\ orphans = {}
    /\ \A b \in Branches :
         /\ pc[b] \in {"building", "linking", "snapshotting"} => source = PolicyOf(code[b])
         /\ pc[b] \in {"linking", "snapshotting"} => object = code[b]
         /\ pc[b] = "snapshotting" => binary = PolicyOf(code[b])

StepsInv == TypeOK /\ LockHeld /\ Built /\ OwnFiles /\ SnapshotIsOwn

LEMMA PolicyOfCode == ASSUME NEW c \in Code PROVE PolicyOf(c) \in Policy
  BY DEF PolicyOf, Policy

LEMMA StepsInit == Init => StepsInv
<1> SUFFICES ASSUME Init PROVE StepsInv
  OBVIOUS
<1>1. head \in [Branches -> Code] /\ code = head
  BY StepsAssumption DEF Init, Code
<1>2. TypeOK
  BY <1>1, StepsAssumption DEF Init, TypeOK, PCs
<1> QED BY <1>2, StepsAssumption
        DEF Init, StepsInv, LockHeld, Built, OwnFiles, SnapshotIsOwn, ScoreIsOfItsCode, Compiling

(* The type of what a step of a thread changes, and what it leaves alone.  *)
LEMMA ReplyInv == ASSUME StepsInv, NEW b \in Branches, Reply(b) PROVE StepsInv'
<1> USE DEF StepsInv, Reply, Goto, policiesDir, compiler, measured
<1>1. <<b, round>> \in Code /\ head[b] \in Code
  BY DEF TypeOK, Code
<1>2. TypeOK'
  BY <1>1 DEF TypeOK, PCs
<1>3. LockHeld'
  BY DEF TypeOK, LockHeld, Compiling
<1>4. Built' /\ OwnFiles'
  BY DEF TypeOK, Built, OwnFiles
<1>5. SnapshotIsOwn'
  BY DEF TypeOK, SnapshotIsOwn, ScoreIsOfItsCode
<1> QED BY <1>2, <1>3, <1>4, <1>5

LEMMA TakeLockInv == ASSUME StepsInv, NEW b \in Branches, TakeLock(b) PROVE StepsInv'
<1> USE DEF StepsInv, TakeLock, Goto, policiesDir, compiler, measured
<1>1. TypeOK'
  BY DEF TypeOK, PCs, Compiling
<1>2. LockHeld'
  BY StepsAssumption DEF TypeOK, LockHeld, Compiling
<1>3. Built' /\ OwnFiles'
  BY DEF TypeOK, Built, OwnFiles
<1>4. SnapshotIsOwn'
  BY DEF TypeOK, SnapshotIsOwn, ScoreIsOfItsCode
<1> QED BY <1>1, <1>2, <1>3, <1>4

LEMMA WriteSourcesInv == ASSUME StepsInv, NEW b \in Branches, WriteSources(b) PROVE StepsInv'
<1> USE DEF StepsInv, WriteSources, Goto, compiler, measured
<1>1. PolicyOf(code[b]) \in Policy
  BY PolicyOfCode DEF TypeOK
<1>2. TypeOK'
  BY <1>1 DEF TypeOK, PCs, Compiling
<1>3. LockHeld'
  BY DEF TypeOK, LockHeld, Compiling
<1>4. \A c \in Branches \ {b} : pc[c] \notin Compiling
  BY DEF LockHeld, Compiling
<1>5. Built'
  BY <1>1, <1>4 DEF TypeOK, Built, Compiling
<1>6. OwnFiles'
  BY <1>4 DEF TypeOK, OwnFiles, Compiling
<1>7. SnapshotIsOwn'
  BY DEF TypeOK, SnapshotIsOwn, ScoreIsOfItsCode
<1> QED BY <1>2, <1>3, <1>5, <1>6, <1>7

LEMMA BuildObjectInv == ASSUME StepsInv, NEW b \in Branches, BuildObject(b) PROVE StepsInv'
<1> USE DEF StepsInv, BuildObject, Goto, compiler, measured
<1>1. source \in Policy /\ source.bpf \in Code
  BY DEF Built, Policy
<1>2. TypeOK'
  BY <1>1 DEF TypeOK, PCs, Compiling
<1>3. LockHeld'
  BY DEF TypeOK, LockHeld, Compiling
<1>4. \A c \in Branches \ {b} : pc[c] \notin Compiling
  BY DEF LockHeld, Compiling
<1>5. Built'
  BY <1>1, <1>4 DEF TypeOK, Built, Compiling
<1>6. OwnFiles'
  BY <1>4 DEF TypeOK, OwnFiles, Compiling, PolicyOf
<1>7. SnapshotIsOwn'
  BY DEF TypeOK, SnapshotIsOwn, ScoreIsOfItsCode
<1> QED BY <1>2, <1>3, <1>5, <1>6, <1>7

LEMMA BuildBinaryInv == ASSUME StepsInv, NEW b \in Branches, BuildBinary(b) PROVE StepsInv'
<1> USE DEF StepsInv, BuildBinary, LockWhenBuilt, Goto, compiler, measured
<1>1. source \in Policy /\ source.loader \in Code /\ object \in Code /\ binary' \in Policy
  BY DEF Built, Policy
<1>2. TypeOK'
  BY <1>1 DEF TypeOK, PCs, Compiling
<1>3. LockHeld'
  BY DEF TypeOK, LockHeld, Compiling
<1>4. \A c \in Branches \ {b} : pc[c] \notin Compiling
  BY DEF LockHeld, Compiling
<1>5. Built'
  BY <1>1, <1>4 DEF TypeOK, Built, Compiling
<1>6. OwnFiles'
  BY <1>4 DEF TypeOK, OwnFiles, Compiling, PolicyOf
<1>7. SnapshotIsOwn'
  BY DEF TypeOK, SnapshotIsOwn, ScoreIsOfItsCode
<1> QED BY <1>2, <1>3, <1>5, <1>6, <1>7

LEMMA SnapshotInv == ASSUME StepsInv, NEW b \in Branches, Snapshot(b) PROVE StepsInv'
<1> USE DEF StepsInv, Snapshot, Goto, policiesDir, compiler
<1>1. binary \in Policy
  BY DEF Built
<1>2. TypeOK'
  BY <1>1 DEF TypeOK, PCs
<1>3. LockHeld'
  BY StepsAssumption DEF TypeOK, LockHeld, Compiling
<1>4. Built' /\ OwnFiles'
  BY DEF TypeOK, Built, OwnFiles
<1>5. SnapshotIsOwn'
  BY DEF TypeOK, SnapshotIsOwn, ScoreIsOfItsCode, OwnFiles
<1> QED BY <1>2, <1>3, <1>4, <1>5

(* The ways out of the compilation without a binary. *)
LEMMA CompileFailsInv == ASSUME StepsInv, NEW b \in Branches, CompileFails(b) PROVE StepsInv'
<1> USE DEF StepsInv, CompileFails, FailedResult, Goto, policiesDir, compiler
<1>1. TypeOK'
  BY DEF TypeOK, PCs, Over
<1>2. LockHeld'
  BY StepsAssumption DEF TypeOK, LockHeld, Compiling
<1>3. Built' /\ OwnFiles'
  BY DEF TypeOK, Built, OwnFiles
<1>4. SnapshotIsOwn'
  BY DEF TypeOK, SnapshotIsOwn, ScoreIsOfItsCode
<1> QED BY <1>1, <1>2, <1>3, <1>4

LEMMA BuildTimesOutInv == ASSUME StepsInv, NEW b \in Branches, BuildTimesOut(b) PROVE StepsInv'
<1> USE DEF StepsInv, BuildTimesOut, FailedResult, Goto, policiesDir
<1>1. source \in Policy /\ source.bpf \in Code /\ source.loader \in Code
  BY DEF Built, Policy
<1>2. pc[b] = "linking" => [bpf |-> object, loader |-> source.loader] \in Policy
  BY <1>1 DEF Built, Policy
<1>3. orphans' \subseteq [object : Code] \cup [binary : Policy]
  <2>1. CASE UNCHANGED orphans
    BY <2>1 DEF TypeOK
  <2>2. CASE orphans' = orphans \cup {[object |-> source.bpf]}
    BY <1>1, <2>2 DEF TypeOK
  <2>3. CASE pc[b] = "linking"
             /\ orphans' = orphans \cup {[binary |-> [bpf |-> object, loader |-> source.loader]]}
    BY <1>2, <2>3 DEF TypeOK
  <2> QED BY <2>1, <2>2, <2>3
<1>4. timeouts' \in 0 .. MaxTimeouts /\ timeouts' # 0
  BY StepsAssumption DEF TypeOK
<1>5. TypeOK'
  BY <1>3, <1>4 DEF TypeOK, PCs, Over
<1>6. LockHeld'
  BY StepsAssumption DEF TypeOK, LockHeld, Compiling
<1>7. Built'
  BY DEF TypeOK, Built
<1>8. OwnFiles' /\ SnapshotIsOwn'
  BY <1>4 DEF OwnFiles, SnapshotIsOwn
<1> QED BY <1>5, <1>6, <1>7, <1>8

LEMMA StepRaisesInv == ASSUME StepsInv, NEW b \in Branches, StepRaises(b) PROVE StepsInv'
<1> USE DEF StepsInv, StepRaises, LockWhenRaised, Goto, policiesDir, compiler, measured
<1>1. TypeOK'
  BY DEF TypeOK, PCs, Over
<1>2. LockHeld'
  BY StepsAssumption DEF TypeOK, LockHeld, Compiling
<1>3. Built' /\ OwnFiles'
  BY DEF TypeOK, Built, OwnFiles
<1>4. SnapshotIsOwn'
  BY DEF TypeOK, SnapshotIsOwn, ScoreIsOfItsCode
<1> QED BY <1>1, <1>2, <1>3, <1>4

LEMMA EvaluateInv ==
  ASSUME StepsInv, NEW b \in Branches, Evaluate(b) \/ AnswerRaises(b) PROVE StepsInv'
<1> USE DEF StepsInv, Evaluate, AnswerRaises, Goto, policiesDir, compiler
<1>1. TypeOK'
  BY DEF TypeOK, PCs, Over
<1>2. LockHeld'
  BY DEF TypeOK, LockHeld, Compiling
<1>3. Built' /\ OwnFiles'
  BY DEF TypeOK, Built, OwnFiles
<1>4. SnapshotIsOwn'
  BY DEF TypeOK, SnapshotIsOwn, ScoreIsOfItsCode
<1> QED BY <1>1, <1>2, <1>3, <1>4

LEMMA OrphanWritesInv == ASSUME StepsInv, NEW o \in orphans, OrphanWrites(o) PROVE StepsInv'
<1> USE DEF StepsInv, OrphanWrites, measured
<1>1. timeouts # 0 /\ UNCHANGED timeouts
  BY DEF OwnFiles
<1>2. object' \in Code \cup {Nothing} /\ binary' \in Policy \cup {Nothing}
      /\ (object \in Code => object' \in Code) /\ (binary \in Policy => binary' \in Policy)
  <2>1. o \in [object : Code] \cup [binary : Policy]
    BY DEF TypeOK
  <2>2. CASE o \in [object : Code]
    BY <2>2 DEF TypeOK
  <2>3. CASE o \in [binary : Policy]
    BY <2>3 DEF TypeOK
  <2> QED BY <2>1, <2>2, <2>3
<1>3. TypeOK'
  BY <1>2 DEF TypeOK
<1>4. LockHeld' /\ Built'
  BY <1>2 DEF LockHeld, Built
<1>5. OwnFiles' /\ SnapshotIsOwn'
  BY <1>1 DEF OwnFiles, SnapshotIsOwn
<1> QED BY <1>3, <1>4, <1>5

LEMMA NextRoundInv == ASSUME StepsInv, NextRound PROVE StepsInv'
<1> USE DEF StepsInv, NextRound, MoreRounds, policiesDir, compiler
<1>1. TypeOK'
  BY StepsAssumption DEF TypeOK, PCs
<1>2. LockHeld'
  BY StepsAssumption DEF TypeOK, LockHeld, Compiling, Over
<1>3. Built' /\ OwnFiles'
  BY DEF TypeOK, Built, OwnFiles
<1>4. SnapshotIsOwn'
  BY DEF TypeOK, SnapshotIsOwn, ScoreIsOfItsCode
<1> QED BY <1>1, <1>2, <1>3, <1>4

LEMMA StepsNext == StepsInv /\ [Next]_vars => StepsInv'
<1> SUFFICES ASSUME StepsInv, [Next]_vars PROVE StepsInv'
  OBVIOUS
<1>1. ASSUME NEW b \in Branches, Thread(b) PROVE StepsInv'
  BY <1>1, ReplyInv, TakeLockInv, WriteSourcesInv, BuildObjectInv, BuildBinaryInv, SnapshotInv,
     CompileFailsInv, BuildTimesOutInv, StepRaisesInv, EvaluateInv DEF Thread, Compile
<1>2. ASSUME NEW o \in orphans, OrphanWrites(o) PROVE StepsInv'
  BY <1>2, OrphanWritesInv
<1>3. CASE NextRound
  BY <1>3, NextRoundInv
<1>4. CASE UNCHANGED vars
  BY <1>4 DEF StepsInv, vars, policiesDir, compiler, measured, TypeOK, LockHeld, Built, OwnFiles,
              SnapshotIsOwn, ScoreIsOfItsCode
<1> QED BY <1>1, <1>2, <1>3, <1>4 DEF Next, Finished

(* StepsInv holds of the step threads, however many share the directory.   *)
(* StepsInv holds of the step threads, however many share the directory.   *)
(* StepsInv holds of the step threads, however many share the directory.   *)
(* StepsInv holds of the step threads, however many share the directory.   *)
THEOREM StepsInvariant == Spec => []StepsInv
<1> QED BY StepsInit, StepsNext, PTL DEF Spec

(* The variables of the threads and of the directory keep their types.     *)
THEOREM StepsTypeCorrect == Spec => []TypeOK
<1>1. StepsInv => TypeOK
  BY DEF StepsInv
<1> QED BY <1>1, StepsInvariant, PTL

(* However many threads compile in the one directory, in whatever order,   *)
(* and however their compilations fail or raise, a branch is scored with   *)
(* its own code as long as no build timed out.                             *)
THEOREM SnapshotsAreOwn == Spec => []SnapshotIsOwn
<1>1. StepsInv => SnapshotIsOwn
  BY DEF StepsInv
<1> QED BY <1>1, StepsInvariant, PTL
=============================================================================
