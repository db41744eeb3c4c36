------------------------------ MODULE BranchSteps ------------------------------
(***************************************************************************)
(* The threads of one coordinator round: step_branch of                    *)
(* evolution/branch.py, one thread per branch, with compile_policy         *)
(* (evaluator/compile.py) and CompilationPipeline.build                    *)
(* (targets/compilation.py), which all threads run in the one directory    *)
(* policies_dir under compile_lock, and the worker's evaluation of the     *)
(* snapshot.                                                               *)
(*                                                                         *)
(* EvolutionLoop takes a step for one action, StepReturns or StepRaises;   *)
(* here it is taken apart.  What a reply says is abstracted to whether it  *)
(* holds code, and a policy to the branch and round that proposed it.      *)
(* `make` is not part of the repository: it compiles the BPF half to an    *)
(* object and links that with the loader half, and each may fail.          *)
(***************************************************************************)
EXTENDS Naturals, FiniteSets

CONSTANTS
  Branches,      (* the branches, one thread each                          *)
  Rounds,        (* rounds                                                 *)
  MaxTimeouts,   (* bound: how many builds run into build_timeout          *)
  Nothing        (* no file, no lock holder, no binary                     *)

Code == Branches \X (0 .. Rounds)
Policy == [bpf : Code, loader : Code]

ASSUME StepsAssumption ==
  /\ Rounds \in Nat \ {0} /\ MaxTimeouts \in Nat
  /\ Nothing \notin Branches \cup Code \cup Policy

VARIABLES
  round,      (* round_num                                                 *)
  pc,         (* where each branch's thread is                             *)
  head,       (* the code of each branch's current node                    *)
  code,       (* new_code of each thread                                   *)
  lock,       (* holder of compile_lock                                    *)
  source,     (* evo_policy.bpf.c and evo_policy.c                         *)
  object,     (* evo_policy.bpf.o and the skeleton made from it            *)
  binary,     (* evo_policy.out                                            *)
  orphans,    (* compilers that outlive the `make` a timeout killed        *)
  timeouts,   (* builds that timed out                                     *)
  snapshot,   (* each branch's snapshot of this round                      *)
  ran,        (* the binary each worker ran                                *)
  ok          (* whether the evaluation succeeded                          *)

policiesDir == <<source, object, binary>>
compiler == <<orphans, timeouts>>
measured == <<snapshot, ran, ok>>
vars == <<round, pc, head, code, lock, policiesDir, compiler, measured>>

Compiling == {"splitting", "building", "linking", "snapshotting"}
Over == {"returned", "raised"}
PCs == {"prompting", "waiting", "evaluating"} \cup Compiling \cup Over

(* compile_policy's `code` is what both halves of the binary come from. *)
PolicyOf(c) == [bpf |-> c, loader |-> c]

Init ==
  /\ round = 1
  /\ pc = [b \in Branches |-> "prompting"]
  /\ head = [b \in Branches |-> <<b, 0>>]
  /\ code = head
  /\ lock = Nothing
  /\ source = Nothing /\ object = Nothing /\ binary = Nothing
  /\ orphans = {} /\ timeouts = 0
  /\ snapshot = [b \in Branches |-> Nothing]
  /\ ran = [b \in Branches |-> Nothing]
  /\ ok = [b \in Branches |-> FALSE]

Goto(b, label) == pc' = [pc EXCEPT ![b] = label]

(* A call to the model that fails, or a reply without code, reuses the     *)
(* parent's code.                                                          *)
Reply(b) ==
  /\ pc[b] = "prompting"
  /\ \E c \in {<<b, round>>, head[b]} : code' = [code EXCEPT ![b] = c]
  /\ Goto(b, "waiting")
  /\ UNCHANGED <<round, head, lock, policiesDir, compiler, measured>>

TakeLock(b) ==
  /\ pc[b] = "waiting"
  /\ lock = Nothing
  /\ lock' = b
  /\ Goto(b, "splitting")
  /\ UNCHANGED <<round, head, code, policiesDir, compiler, measured>>

(* Both halves are written and the outputs of the last build removed. *)
WriteSources(b) ==
  /\ pc[b] = "splitting"
  /\ source' = PolicyOf(code[b])
  /\ object' = Nothing /\ binary' = Nothing
  /\ Goto(b, "building")
  /\ UNCHANGED <<round, head, code, lock, compiler, measured>>

BuildObject(b) ==
  /\ pc[b] = "building"
  /\ object' = source.bpf
  /\ Goto(b, "linking")
  /\ UNCHANGED <<round, head, code, lock, source, binary, compiler, measured>>

(* Mutant of LockWhenBuilt: compile_policy is locked, the snapshot is not. *)
LockFreedWhenBuilt == Nothing

(* The lock is kept until the binary is snapshotted. *)
LockWhenBuilt == lock

BuildBinary(b) ==
  /\ pc[b] = "linking"
  /\ binary' = [bpf |-> object, loader |-> source.loader]
  /\ lock' = LockWhenBuilt
  /\ Goto(b, "snapshotting")
  /\ UNCHANGED <<round, head, code, source, object, compiler, measured>>

Snapshot(b) ==
  /\ pc[b] = "snapshotting"
  /\ snapshot' = [snapshot EXCEPT ![b] = binary]
  /\ lock' = Nothing
  /\ Goto(b, "evaluating")
  /\ UNCHANGED <<round, head, code, policiesDir, compiler, ran, ok>>

(* The result of a step that never reached its worker. *)
FailedResult(b) == Goto(b, "returned") /\ ok' = [ok EXCEPT ![b] = FALSE]

(* No section markers, sources that cannot be written, a failed build, a   *)
(* snapshot that cannot be copied.                                         *)
CompileFails(b) ==
  /\ pc[b] \in Compiling
  /\ lock' = Nothing
  /\ FailedResult(b)
  /\ UNCHANGED <<round, head, code, policiesDir, compiler, snapshot, ran>>

(* subprocess.run kills `make`; the compiler `make` had started may live   *)
(* on and finish what it was writing.                                      *)
BuildTimesOut(b) ==
  /\ pc[b] \in {"building", "linking"}
  /\ timeouts < MaxTimeouts
  /\ timeouts' = timeouts + 1
  /\ \/ UNCHANGED orphans
     \/ pc[b] = "building" /\ orphans' = orphans \cup {[object |-> source.bpf]}
     \/ /\ pc[b] = "linking"
        /\ orphans' = orphans \cup {[binary |-> [bpf |-> object, loader |-> source.loader]]}
  /\ lock' = Nothing
  /\ FailedResult(b)
  /\ UNCHANGED <<round, head, code, policiesDir, snapshot, ran>>

OrphanWrites(o) ==
  /\ orphans' = orphans \ {o}
  /\ \/ DOMAIN o = {"object"} /\ object' = o.object /\ UNCHANGED binary
     \/ DOMAIN o = {"binary"} /\ binary' = o.binary /\ UNCHANGED object
  /\ UNCHANGED <<round, pc, head, code, lock, source, timeouts, measured>>

(* Mutant of LockWhenRaised: acquire() and release() without a `with`. *)
LockKeptWhenRaised == lock

(* The `with` block releases the lock when an exception leaves it. *)
LockWhenRaised == Nothing

(* The code cannot be encoded, or the directory of the snapshots cannot be *)
(* made: nothing in step_branch catches that.                              *)
StepRaises(b) ==
  /\ pc[b] \in {"splitting", "snapshotting"}
  /\ lock' = LockWhenRaised
  /\ Goto(b, "raised")
  /\ UNCHANGED <<round, head, code, policiesDir, compiler, measured>>

(* Any answer of the worker, its exceptions included, ends the step, ... *)
Evaluate(b) ==
  /\ pc[b] = "evaluating"
  /\ ran' = [ran EXCEPT ![b] = snapshot[b]]
  /\ \E success \in BOOLEAN : ok' = [ok EXCEPT ![b] = success]
  /\ Goto(b, "returned")
  /\ UNCHANGED <<round, head, code, lock, policiesDir, compiler, snapshot>>

(* ... but a JSON answer that is no object raises outside of that net. *)
AnswerRaises(b) ==
  /\ pc[b] = "evaluating"
  /\ ran' = [ran EXCEPT ![b] = snapshot[b]]
  /\ Goto(b, "raised")
  /\ UNCHANGED <<round, head, code, lock, policiesDir, compiler, snapshot, ok>>

(* Mutant of MoreRounds: one round too many. *)
MoreRoundsInclusive == round <= Rounds

MoreRounds == round < Rounds

(* The stitching moves every branch that has a result, good or bad, to its *)
(* new node, and the next round begins.                                    *)
NextRound ==
  /\ \A b \in Branches : pc[b] \in Over
  /\ MoreRounds
  /\ round' = round + 1
  /\ head' = [b \in Branches |-> IF pc[b] = "returned" THEN code[b] ELSE head[b]]
  /\ pc' = [b \in Branches |-> "prompting"]
  /\ snapshot' = [b \in Branches |-> Nothing]
  /\ UNCHANGED <<code, lock, policiesDir, compiler, ran, ok>>

Finished == ~ MoreRounds /\ (\A b \in Branches : pc[b] \in Over) /\ UNCHANGED vars

Compile(b) ==
  TakeLock(b) \/ WriteSources(b) \/ BuildObject(b) \/ BuildBinary(b) \/ Snapshot(b)
  \/ CompileFails(b) \/ BuildTimesOut(b) \/ StepRaises(b)

Thread(b) == Reply(b) \/ Compile(b) \/ Evaluate(b) \/ AnswerRaises(b)

Next ==
  \/ \E b \in Branches : Thread(b)
  \/ \E o \in orphans : OrphanWrites(o)
  \/ NextRound
  \/ Finished

Spec == Init /\ [][Next]_vars

(* Every call a thread makes is under a timeout, so it goes on.  Weak      *)
(* fairness is enough for the lock: a round takes it once per branch, so   *)
(* it is free for good once the others are through.                        *)
Fairness == WF_vars(NextRound) /\ \A b \in Branches : WF_vars(Thread(b))

FairSpec == Spec /\ Fairness

-----------------------------------------------------------------------------
(* Properties. *)

TypeOK ==
  /\ round \in 1 .. Rounds
  /\ pc \in [Branches -> PCs]
  /\ head \in [Branches -> Code]
  /\ code \in [Branches -> Code]
  /\ lock \in Branches \cup {Nothing}
  /\ source \in Policy \cup {Nothing}
  /\ object \in Code \cup {Nothing}
  /\ binary \in Policy \cup {Nothing}
  /\ orphans \subseteq [object : Code] \cup [binary : Policy]
  /\ timeouts \in 0 .. MaxTimeouts
  /\ snapshot \in [Branches -> Policy \cup {Nothing}]
  /\ ran \in [Branches -> Policy \cup {Nothing}]
  /\ ok \in [Branches -> BOOLEAN]

(* A successful result scores the branch's own code: the binary the worker *)
(* ran was built, both halves, from the code of the result, although every *)
(* thread compiles in the same directory.                                  *)
ScoreIsOfItsCode ==
  \A b \in Branches : pc[b] = "returned" /\ ok[b] => ran[b] = PolicyOf(code[b])

(* Only a compiler that outlived its build can put another policy into a   *)
(* branch's snapshot: as long as no build timed out, every snapshot is the *)
(* branch's own code and so is every score.                                *)
SnapshotIsOwn ==
  timeouts = 0 =>
    /\ ScoreIsOfItsCode
    /\ \A b \in Branches : pc[b] = "evaluating" => snapshot[b] = PolicyOf(code[b])

(* The last round ends, whatever fails or raises in it: no path out of the *)
(* compilation leaves the lock behind.                                     *)
LastRoundEnds == <>(round = Rounds /\ \A b \in Branches : pc[b] \in Over)
=============================================================================
