----------------------------- MODULE PlannedLoop -----------------------------
(***************************************************************************)
(* The coordinator with the planning of its branches: pick_seeds of        *)
(* evolution/planner.py and _choose_branches of evolution/loop.py, which   *)
(* asks it, or cycles the configured seeds, and plants what is assigned.   *)
(*                                                                         *)
(* Everything else is EvolutionLoop, where any seed may be planted, or     *)
(* none.  The planner is an LLM: its reply is absent, of no use, or a list *)
(* of entries, known seeds or not, of any length.                          *)
(***************************************************************************)
EXTENDS EvolutionLoop

CONSTANTS
  SeedFiles,     (* the names load_seeds finds in seeds_dir, in its order  *)
  Baseline,      (* calibrate_baseline                                     *)
  UsePlanner,    (* the values use_planner has in the sessions' configs    *)
  ConfigSeeds    (* `seeds` of the configuration, if it has any            *)

NamesIn(names) == {names[i] : i \in 1 .. Len(names)}

ASSUME PlanAssumption ==
  /\ SeedFiles # << >> /\ SeedFiles \in Seq(NamesIn(SeedFiles))
  /\ ConfigSeeds \in Seq(NamesIn(ConfigSeeds))
  /\ Seeds = NamesIn(SeedFiles) \ {Baseline}
  /\ UsePlanner \subseteq BOOLEAN

VARIABLE plan    (* the assignments of this session, until the next        *)

planVars == <<vars, plan>>

PlanInit == Init /\ plan = << >>

(* names[i % len(names)], for i counted from 1. *)
Cycled(names) == [i \in 1 .. NumBranches |-> names[((i - 1) % Len(names)) + 1]]

(* _round_robin_fallback. *)
Fallback == Cycled(SeedFiles)

(* The known seeds among the first K entries of a reply: with entries      *)
(* unknown, missing or in surplus, any list of at most K known names.      *)
Valid == UNION {[1 .. n -> NamesIn(SeedFiles)] : n \in 0 .. NumBranches}

(* Mutant of Padding: the fallback of the positions that are missing.      *)
PaddingTooShort(valid) == NumBranches - Len(valid) - 1

(* How many entries of the fallback pad a short reply. *)
Padding(valid) == NumBranches - Len(valid)

(* What pick_seeds returns; without a usable reply, as if none were valid. *)
Padded(valid) ==
  [i \in 1 .. Len(valid) + Padding(valid) |->
     IF i <= Len(valid) THEN valid[i] ELSE Fallback[i - Len(valid)]]

(* The seeds of the configuration, else those there are to evolve: the     *)
(* names before and after the baseline's.                                  *)
Listed ==
  IF ConfigSeeds # << >> THEN ConfigSeeds
  ELSE IF Baseline \notin NamesIn(SeedFiles) THEN SeedFiles
  ELSE LET b == CHOOSE i \in 1 .. Len(SeedFiles) : SeedFiles[i] = Baseline
       IN  SubSeq(SeedFiles, 1, b - 1) \o SubSeq(SeedFiles, b + 1, Len(SeedFiles))

-----------------------------------------------------------------------------

Unplanned == pc = "planting" /\ plan = << >>

AskPlanner ==
  /\ Unplanned
  /\ TRUE \in UsePlanner
  /\ \E valid \in Valid : plan' = Padded(valid)
  /\ UNCHANGED vars

CycleListed ==
  /\ Unplanned
  /\ FALSE \in UsePlanner
  /\ Listed # << >>
  /\ plan' = Cycled(Listed)
  /\ UNCHANGED vars

(* The planner's reply is a list, or one of its entries is none that has   *)
(* fields; or there is nothing to cycle.                                   *)
PlanningRaises ==
  /\ Unplanned
  /\ TRUE \in UsePlanner \/ Listed = << >>
  /\ PlantingFails
  /\ UNCHANGED plan

(* The assignment that is planted next. *)
Assigned == plan[Len(tree.nodes) + 1]

PlantAssigned ==
  /\ pc = "planting" /\ plan # << >>
  /\ \/ \E seed \in Seeds : seed = Assigned /\ PlantSeed(seed)
     \/ Assigned \notin Seeds /\ PlantingFails
  /\ UNCHANGED plan

Planting == AskPlanner \/ CycleListed \/ PlanningRaises \/ PlantAssigned

PlannedMain == Planting \/ ((Start \/ Evolve) /\ UNCHANGED plan)

PlannedNext ==
  \/ PlannedMain
  \/ (\E b \in running : Step(b)) /\ UNCHANGED plan
  \/ Crash /\ plan' = << >>
  \/ Stopped /\ UNCHANGED plan

PlannedSpec == PlanInit /\ [][PlannedNext]_planVars

-----------------------------------------------------------------------------
(* Properties. *)

(* Whatever the planner answers, a session that starts anew has exactly    *)
(* NumBranches assignments, and its rounds start from exactly that many    *)
(* roots, the i-th of the i-th assignment's seed: no reply, however short, *)
(* long or wrong, gives a branch too few or too many or another's seed.    *)
PlanFulfilled ==
  plan # << >> =>
    /\ Len(plan) = NumBranches
    /\ \A n \in Ids(tree) :
         /\ n \in tree.roots <=> n <= NumBranches
         /\ n <= NumBranches => tree.nodes[n].seed = plan[n]
    /\ pc \notin {"planting", "notPlanted"} => Len(tree.nodes) >= NumBranches

(* "On any failure ... falls back to round-robin over whatever seeds are   *)
(* available - the run still proceeds": the fallback can be planted.       *)
PlannerProceeds == plan = Fallback => pc # "notPlanted"
=============================================================================
