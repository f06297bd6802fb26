----------------------------- MODULE RecipeRun -----------------------------
(* The recipe executor: cmd/AkaiRun/src/main.c. A recipe is a list of stages, *)
(* each a program with the ids of the stages it depends on. cmd_run gives     *)
(* every stage a level, and starts the stages of one level as concurrent      *)
(* child processes after those of the level before.                           *)
(*                                                                            *)
(* The recipe is what parse_stages made of the document: at most MAX_STAGES   *)
(* stages with at most MAX_DEPS dependencies each. Abstracted: arguments,     *)
(* variables, printing, times, and the text of the manifest (which repeats    *)
(* `result`, and is written by the step that sets `outcome`). A dependency    *)
(* list is a set: its order decides only which message a refused recipe gets. *)
EXTENDS Integers, FiniteSets

CONSTANTS
  N,           \* ctx.stage_count
  Names,       \* what a recipe writes as an id or as a dependency
  Namings,     \* the ids of the stages, one sequence for each recipe
  WaitMayFail  \* waitpid may return an error

ASSUME NAssumption == N \in Nat \ {0}
ASSUME NamingAssumption == Namings \subseteq [1..N -> Names]

Stages == 1..N

VARIABLES
  id,        \* stage.id
  needs,     \* stage.depends_on
  optional,  \* the stages whose skip_if_null names an input that is not given
  pc,        \* where cmd_run is
  level,     \* stage.level
  progress,  \* a local of assign_levels
  at,        \* the stage its inner loop looks at
  current,   \* the level execute_level is called for
  todo,      \* the stages its loop has yet to come to
  result,    \* stage.executed, skipped and exit_code
  child,     \* the process of a stage
  outcome    \* ctx.status and how cmd_run returned

recipe == <<id, needs, optional>>
planVars == <<level, progress, at>>
runVars == <<current, todo, result, child>>
vars == <<recipe, pc, planVars, runVars, outcome>>

TypeOK ==
  /\ id \in Namings
  /\ needs \in [Stages -> SUBSET Names]
  /\ optional \in SUBSET Stages
  /\ pc \in {"levels", "plan", "level", "spawn", "wait", "end"}
  /\ level \in [Stages -> -1..N]
  /\ progress \in BOOLEAN
  /\ at \in 1..N + 1
  /\ current \in Nat
  /\ todo \in SUBSET Stages
  /\ result \in [Stages -> {"unset", "skipped", "missing", "ok", "failed"}]
  /\ child \in [Stages -> {"none", "running", "ok", "failed"}]
  /\ outcome \in {"none", "refused", "planned", "success", "failed"}

Init ==
  /\ id \in Namings
  /\ needs \in [Stages -> SUBSET Names]
  /\ optional \in SUBSET Stages
  /\ pc = "levels"
  /\ level = [s \in Stages |-> -1]
  /\ progress = FALSE
  /\ at = 1
  /\ current = 0
  /\ todo = {}
  /\ result = [s \in Stages |-> "unset"]
  /\ child = [s \in Stages |-> "none"]
  /\ outcome = "none"

End(how) == pc' = "end" /\ outcome' = how

-----------------------------------------------------------------------------
(* stage_index_by_id and assign_levels.                                       *)

Named(n) == {s \in Stages : id[s] = n}

Unknown(s) == {n \in needs[s] : Named(n) = {}}

IsFirst(s, S) == s \in S /\ \A t \in S : s <= t

\* The first stage of that name, if it occurs twice.
Deps(s) == {d \in Stages : id[d] \in needs[s] /\ IsFirst(d, Named(id[d]))}

Unassigned(s) == {d \in Deps(s) : level[d] < 0}

\* One more than the highest level of a dependency.
LevelAfterDeps(s, l) == (\A d \in Deps(s) : level[d] < l) /\ (l = 0 \/ \E d \in Deps(s) : l = level[d] + 1)

\* The stage has a level already, or must wait for one of its dependencies.
PassOver ==
  /\ pc = "levels"
  /\ at <= N
  /\ level[at] >= 0 \/ Unassigned(at) # {}
  /\ at' = at + 1
  /\ UNCHANGED <<recipe, pc, level, progress, runVars, outcome>>

RefuseUnknown ==
  /\ pc = "levels"
  /\ at <= N
  /\ level[at] < 0
  /\ Unknown(at) # {}
  /\ End("refused")
  /\ UNCHANGED <<recipe, planVars, runVars>>

\* Faulty: a dependency without a level does not matter.
AssignLevelEarly ==
  /\ pc = "levels"
  /\ at <= N
  /\ level[at] < 0
  /\ Unknown(at) = {}
  /\ \E l \in 0..N : LevelAfterDeps(at, l) /\ level' = [level EXCEPT ![at] = l]
  /\ progress' = TRUE
  /\ at' = at + 1
  /\ UNCHANGED <<recipe, pc, runVars, outcome>>

AssignLevel ==
  /\ pc = "levels"
  /\ at <= N
  /\ level[at] < 0
  /\ Unknown(at) = {}
  /\ Unassigned(at) = {}
  /\ \E l \in 0..N : LevelAfterDeps(at, l) /\ level' = [level EXCEPT ![at] = l]
  /\ progress' = TRUE
  /\ at' = at + 1
  /\ UNCHANGED <<recipe, pc, runVars, outcome>>

\* Faulty: progress is not reset for the next pass.
EndPassStale ==
  /\ pc = "levels"
  /\ at = N + 1
  /\ IF \A s \in Stages : level[s] >= 0
     THEN pc' = "plan" /\ UNCHANGED <<outcome, planVars>>
     ELSE IF progress
     THEN at' = 1 /\ UNCHANGED <<pc, outcome, level, progress>>
     ELSE End("refused") /\ UNCHANGED planVars
  /\ UNCHANGED <<recipe, runVars>>

\* The end of a pass over all stages: every stage has a level, or another pass
\* may give one to more of them, or there is a cycle.
EndPass ==
  /\ pc = "levels"
  /\ at = N + 1
  /\ IF \A s \in Stages : level[s] >= 0
     THEN pc' = "plan" /\ UNCHANGED <<outcome, planVars>>
     ELSE IF progress
     THEN at' = 1 /\ progress' = FALSE /\ UNCHANGED <<pc, outcome, level>>
     ELSE End("refused") /\ UNCHANGED planVars
  /\ UNCHANGED <<recipe, runVars>>

-----------------------------------------------------------------------------
(* cmd_run and execute_level.                                                 *)

\* --dry-run prints the plan; else the output directory must be there.
StartRun ==
  /\ pc = "plan"
  /\ \/ End("planned")
     \/ End("refused")
     \/ pc' = "level" /\ outcome' = outcome
  /\ UNCHANGED <<recipe, planVars, runVars>>

OfLevel(l) == {s \in Stages : level[s] = l /\ result[s] = "unset"}

\* max_level is the highest level given.
EnterLevel ==
  /\ pc = "level"
  /\ \E s \in Stages : level[s] >= current
  /\ pc' = "spawn"
  /\ todo' = OfLevel(current)
  /\ UNCHANGED <<recipe, planVars, current, result, child, outcome>>

\* Faulty: only the stage's own inputs are looked at.
ToSkipItself(s) == s \in optional

\* dependency_was_skipped, should_skip_stage
ToSkip(s) == (\E d \in Deps(s) : result[d] = "skipped") \/ s \in optional

\* One round of the first loop: the stage is skipped, or its process is
\* started, or its program is not found, or fork fails. The run is given up
\* then, whatever else was started.
Spawn ==
  /\ pc = "spawn"
  /\ \E s \in todo :
       /\ IsFirst(s, todo)
       /\ todo' = todo \ {s}
       /\ \/ /\ ToSkip(s)
             /\ result' = [result EXCEPT ![s] = "skipped"]
             /\ UNCHANGED <<pc, child, outcome>>
          \/ /\ ~ToSkip(s)
             /\ child' = [child EXCEPT ![s] = "running"]
             /\ UNCHANGED <<pc, result, outcome>>
          \/ /\ ~ToSkip(s)
             /\ result' = [result EXCEPT ![s] = "missing"]
             /\ End("failed")
             /\ UNCHANGED child
  /\ UNCHANGED <<recipe, planVars, current>>

\* Faulty: nobody waits for the stages that were started.
AllSpawnedOnly ==
  /\ pc = "spawn"
  /\ todo = {}
  /\ pc' = "wait"
  /\ todo' = {}
  /\ UNCHANGED <<recipe, planVars, current, result, child, outcome>>

\* Faulty: the second loop does not leave out the stages that were skipped.
AllSpawnedOrSkipped ==
  /\ pc = "spawn"
  /\ todo = {}
  /\ pc' = "wait"
  /\ todo' = {s \in Stages : level[s] = current}
  /\ UNCHANGED <<recipe, planVars, current, result, child, outcome>>

\* The second loop goes over the same stages, except those skipped.
AllSpawned ==
  /\ pc = "spawn"
  /\ todo = {}
  /\ pc' = "wait"
  /\ todo' = OfLevel(current)
  /\ UNCHANGED <<recipe, planVars, current, result, child, outcome>>

\* waitpid and finalize_stage. The first stage found to have failed ends the
\* run: nobody waits for the ones after it.
Wait ==
  /\ pc = "wait"
  /\ \E s \in todo :
       /\ IsFirst(s, todo)
       /\ child[s] \in {"ok", "failed"}
       /\ result' = [result EXCEPT ![s] = child[s]]
       /\ todo' = todo \ {s}
       /\ IF child[s] = "failed" THEN End("failed") ELSE UNCHANGED <<pc, outcome>>
  /\ UNCHANGED <<recipe, planVars, current, child>>

\* waitpid fails for the stage whose turn it is (ECHILD where SIGCHLD is ignored).
WaitFails ==
  /\ WaitMayFail
  /\ pc = "wait"
  /\ todo # {}
  /\ End("failed")
  /\ UNCHANGED <<recipe, planVars, runVars>>

LeaveLevel ==
  /\ pc = "wait"
  /\ todo = {}
  /\ current' = current + 1
  /\ pc' = "level"
  /\ UNCHANGED <<recipe, planVars, todo, result, child, outcome>>

Complete ==
  /\ pc = "level"
  /\ \A s \in Stages : level[s] < current
  /\ End("success")
  /\ UNCHANGED <<recipe, planVars, runVars>>

\* A child process exits with 0, with another code, or by a signal.
ChildEnds(s) ==
  /\ child[s] = "running"
  /\ \E how \in {"ok", "failed"} : child' = [child EXCEPT ![s] = how]
  /\ UNCHANGED <<recipe, pc, planVars, current, todo, result, outcome>>

-----------------------------------------------------------------------------
Executor ==
  \/ PassOver \/ RefuseUnknown \/ AssignLevel \/ EndPass \/ StartRun
  \/ EnterLevel \/ Spawn \/ AllSpawned \/ Wait \/ LeaveLevel \/ Complete

Next == Executor \/ WaitFails \/ \E s \in Stages : ChildEnds(s)

Spec == Init /\ [][Next]_vars

\* akai-run is scheduled, and every program it starts ends; that waitpid fails is
\* never counted on.
FairSpec == Spec /\ WF_vars(Executor) /\ \A s \in Stages : WF_vars(ChildEnds(s))

-----------------------------------------------------------------------------
(* Properties.                                                                *)

\* A stage's program is started only when every stage it depends on has been
\* run, waited for, and has succeeded: none is still to come, was skipped, or
\* failed (levels, the two loops of execute_level, dependency_was_skipped).
DependenciesFirst ==
  \A s \in Stages :
    child[s] # "none" => Unknown(s) = {} /\ \A d \in Deps(s) : result[d] = "ok"

\* The stages that must be skipped if those of K must.
SkipClosed(K) == optional \subseteq K /\ \A s \in Stages : Deps(s) \cap K # {} => s \in K

\* A successful run skipped exactly the stages that lack an input and those
\* that depend on them, at any distance, although spawn_stage looks no further
\* than one dependency back.
SkipsSpread ==
  outcome = "success" =>
    \A s \in Stages :
      result[s] = "skipped" <=> \A K \in SUBSET Stages : SkipClosed(K) => s \in K

\* Every dependency exists, and no set of stages waits for itself.
WellFormed ==
  /\ \A s \in Stages : Unknown(s) = {}
  /\ \A C \in (SUBSET Stages) \ {{}} : \E s \in C : Deps(s) \cap C = {}

\* A recipe gets past assign_levels exactly when it has no cycle and no unknown
\* dependency, and each stage is then as early as its dependencies allow.
PlannedIffWellFormed ==
  /\ pc \notin {"levels", "end"} =>
       /\ WellFormed
       /\ \A s \in Stages : level[s] = 0 \/ \E d \in Deps(s) : level[s] = level[d] + 1
  /\ pc = "end" /\ WellFormed => \A s \in Stages : level[s] >= 0

\* "success" in the manifest is the truth about every stage: each was skipped,
\* or its process ended with 0 and was waited for.
SuccessIsWhole ==
  outcome = "success" => \A s \in Stages : result[s] = "skipped" \/ (result[s] = "ok" /\ child[s] = "ok")

\* What cmd_run knows of a stage: a process is running until it is waited for.
Life(s) ==
  IF result[s] = "missing" THEN "failed"
  ELSE IF result[s] # "unset" THEN result[s]
  ELSE IF child[s] # "none" THEN "running" ELSE "waiting"

\* The levels, and the two loops of execute_level for each, are one way to go
\* through the graph of the stages: no stage is started or skipped too early, a
\* failure decides the run at once, and nothing is started or waited for after
\* that.
Graph ==
  INSTANCE StageGraph WITH
    dependsOn <- [s \in Stages |-> Deps(s)], life <- [s \in Stages |-> Life(s)], verdict <- outcome
GraphFollowed == Graph!Spec

\* What assign_levels has left to do: while stages are without a level, a pass
\* may follow that gives one to no stage, and each pass goes over all of them.
Unplaced == Cardinality({s \in Stages : level[s] < 0})
PassesLeft == 2 * Unplaced + IF progress THEN 1 ELSE 0
PlanSteps == IF pc = "levels" THEN PassesLeft * (N + 2) + (N + 2 - at) ELSE 0

\* What the loop over the levels has left: both loops of execute_level go over
\* the stages of a level once.
PerLevel == 2 * N + 4
LevelSteps ==
  CASE pc \in {"levels", "plan"} -> PerLevel
    [] pc = "level" -> PerLevel - 1
    [] pc = "spawn" -> N + 2 + Cardinality(todo)
    [] pc = "wait"  -> Cardinality(todo)
    [] pc = "end"   -> 0
LoopSteps == (IF pc = "end" THEN 0 ELSE N + 2 - current) * PerLevel + LevelSteps

\* What the children have left: to be started, and to end.
ChildSteps == 2 * Cardinality({s \in Stages : child[s] = "none"}) + Cardinality({s \in Stages : child[s] = "running"})

Remaining == PlanSteps + LoopSteps + ChildSteps

\* Every step brings a run closer to its end, whatever the recipe is and
\* whatever the stages do: no pass is made for nothing, no level is entered
\* twice, and no stage is started twice.
RunShortens == [][0 <= Remaining' /\ Remaining' < Remaining]_vars

\* Every run ends: assign_levels makes its passes come to an end whatever the
\* dependencies are, and every started stage is waited for.
RunEnds == <>(pc = "end")

\* "d. Wait for all to complete", "5. Write run manifest": once the manifest is
\* written no stage is running (docs/Recipe-System-Specification.md:383).
WaitedForAll == pc = "end" => \A s \in Stages : child[s] # "running"
=============================================================================
