-------------------------- MODULE RecipeRunProofs --------------------------
(* Proofs about RecipeRun, for recipes of any length and any dependencies.    *)
EXTENDS RecipeRun, FiniteSetTheorems, WellFoundedInduction, TLAPS

\* A level is given after the dependencies have theirs, and is above them.
LevelsAscend ==
  \A s \in Stages : level[s] >= 0 => Unknown(s) = {} /\ \A d \in Deps(s) : 0 <= level[d] /\ level[d] < level[s]

\* Nothing is run before every stage has its level.
NothingEarly ==
  /\ pc \in {"levels", "plan"} => current = 0
  /\ pc \in {"levels", "plan"} => \A s \in Stages : result[s] = "unset" /\ child[s] = "none"
  /\ pc \notin {"levels", "end"} => \A s \in Stages : level[s] >= 0

\* What the run knows of a stage agrees with the stage's process.
ResultsTrue ==
  \A s \in Stages :
    /\ result[s] \in {"skipped", "missing"} => child[s] = "none"
    /\ result[s] \in {"ok", "failed"} => child[s] = result[s]
    /\ child[s] # "none" => level[s] >= 0

\* The loops of execute_level: the levels below the current one are done, those
\* above it are untouched, and `todo` divides the current one.
LoopsInStep ==
  pc \in {"level", "spawn", "wait"} =>
    /\ pc # "level" => todo \subseteq {s \in Stages : level[s] = current}
    /\ \A s \in Stages :
         /\ level[s] < current => result[s] \in {"skipped", "ok"}
         /\ level[s] > current \/ (pc = "level" /\ level[s] = current) => result[s] = "unset" /\ child[s] = "none"
         /\ pc = "spawn" /\ s \in todo => result[s] = "unset" /\ child[s] = "none"
         /\ pc = "spawn" /\ level[s] = current /\ s \notin todo =>
              result[s] = "skipped" \/ (result[s] = "unset" /\ child[s] # "none")
         /\ pc = "wait" /\ s \in todo => result[s] = "unset" /\ child[s] # "none"
         /\ pc = "wait" /\ level[s] = current /\ s \notin todo => result[s] \in {"skipped", "ok"}

\* A run that is over and succeeded went through every level.
EndTrue ==
  /\ outcome \notin {"none"} => pc = "end"
  /\ outcome = "success" => \A s \in Stages : result[s] \in {"skipped", "ok"}

Inv == TypeOK /\ LevelsAscend /\ NothingEarly /\ ResultsTrue /\ LoopsInStep /\ EndTrue /\ DependenciesFirst

LEMMA InvInit == Init => Inv
<1> SUFFICES ASSUME Init PROVE Inv
  OBVIOUS
<1> USE NAssumption DEF Init, Stages
<1>1. TypeOK
  <2>1. level \in [Stages -> -1..N]
    BY SMT
  <2>2. at \in 1..N + 1
    BY SMT
  <2>3. /\ needs \in [Stages -> SUBSET Names]
        /\ result \in [Stages -> {"unset", "skipped", "missing", "ok", "failed"}]
        /\ child \in [Stages -> {"none", "running", "ok", "failed"}]
    BY Zenon
  <2> QED
    BY <2>1, <2>2, <2>3 DEF TypeOK
<1>2. LevelsAscend /\ NothingEarly /\ ResultsTrue /\ LoopsInStep /\ EndTrue /\ DependenciesFirst
  BY DEF LevelsAscend, NothingEarly, ResultsTrue, LoopsInStep, EndTrue, DependenciesFirst
<1> QED
  BY <1>1, <1>2 DEF Inv

\* The recipe stays what it is, so that dependencies are the same after a step.
LEMMA RecipeFixed ==
  ASSUME [Next]_vars
  PROVE  recipe' = recipe /\ \A s \in Stages : Deps(s)' = Deps(s) /\ Unknown(s)' = Unknown(s)
<1>1. recipe' = recipe
  BY DEF Next, Executor, vars, PassOver, RefuseUnknown, AssignLevel, EndPass, StartRun, EnterLevel,
     Spawn, AllSpawned, Wait, LeaveLevel, Complete, WaitFails, ChildEnds
<1>2. id' = id /\ needs' = needs
  BY <1>1 DEF recipe
<1> QED
  BY <1>1, <1>2 DEF Deps, Unknown, Named

LEMMA InvStep == Inv /\ [Next]_vars => Inv'
<1> SUFFICES ASSUME Inv, [Next]_vars PROVE Inv'
  OBVIOUS
<1> USE NAssumption DEF Stages, planVars, runVars, End
<1>0. /\ recipe' = recipe /\ id' = id /\ needs' = needs /\ optional' = optional
      /\ \A s \in Stages : Deps(s)' = Deps(s) /\ Unknown(s)' = Unknown(s) /\ Deps(s) \subseteq Stages
  BY RecipeFixed DEF recipe, Deps
<1>1. ASSUME PassOver PROVE Inv'
  <2>1. TypeOK'
    BY <1>0, <1>1 DEF Inv, PassOver, TypeOK
  <2>2. LevelsAscend'
    BY <1>0, <1>1 DEF Inv, PassOver, TypeOK, LevelsAscend
  <2>3. NothingEarly'
    BY <1>0, <1>1 DEF Inv, PassOver, TypeOK, NothingEarly
  <2>4. ResultsTrue'
    BY <1>0, <1>1 DEF Inv, PassOver, TypeOK, NothingEarly, ResultsTrue, LoopsInStep
  <2>5. LoopsInStep'
    BY <1>0, <1>1 DEF Inv, PassOver, TypeOK, LevelsAscend, NothingEarly, LoopsInStep, ResultsTrue
  <2>6. EndTrue'
    BY <1>0, <1>1 DEF Inv, PassOver, TypeOK, NothingEarly, LoopsInStep, EndTrue
  <2>7. DependenciesFirst'
    BY <1>0, <1>1 DEF Inv, PassOver, TypeOK, NothingEarly, LevelsAscend, LoopsInStep, DependenciesFirst
  <2> QED
    BY <2>1, <2>2, <2>3, <2>4, <2>5, <2>6, <2>7 DEF Inv
<1>2. ASSUME RefuseUnknown PROVE Inv'
  <2>1. TypeOK'
    BY <1>0, <1>2 DEF Inv, RefuseUnknown, TypeOK
  <2>2. LevelsAscend'
    BY <1>0, <1>2 DEF Inv, RefuseUnknown, TypeOK, LevelsAscend
  <2>3. NothingEarly'
    BY <1>0, <1>2 DEF Inv, RefuseUnknown, TypeOK, NothingEarly
  <2>4. ResultsTrue'
    BY <1>0, <1>2 DEF Inv, RefuseUnknown, TypeOK, NothingEarly, ResultsTrue, LoopsInStep
  <2>5. LoopsInStep'
    BY <1>0, <1>2 DEF Inv, RefuseUnknown, TypeOK, LevelsAscend, NothingEarly, LoopsInStep, ResultsTrue
  <2>6. EndTrue'
    BY <1>0, <1>2 DEF Inv, RefuseUnknown, TypeOK, NothingEarly, LoopsInStep, EndTrue
  <2>7. DependenciesFirst'
    BY <1>0, <1>2 DEF Inv, RefuseUnknown, TypeOK, NothingEarly, LevelsAscend, LoopsInStep, DependenciesFirst
  <2> QED
    BY <2>1, <2>2, <2>3, <2>4, <2>5, <2>6, <2>7 DEF Inv
<1>3. ASSUME AssignLevel PROVE Inv'
  <2>1. TypeOK'
    BY <1>0, <1>3 DEF Inv, AssignLevel, TypeOK, LevelAfterDeps, Unassigned
  <2>2. LevelsAscend'
    BY <1>0, <1>3 DEF Inv, AssignLevel, TypeOK, LevelsAscend, LevelAfterDeps, Unassigned
  <2>3. NothingEarly'
    BY <1>0, <1>3 DEF Inv, AssignLevel, TypeOK, NothingEarly, LevelAfterDeps, Unassigned
  <2>4. ResultsTrue'
    BY <1>0, <1>3 DEF Inv, AssignLevel, TypeOK, NothingEarly, ResultsTrue, LoopsInStep, LevelAfterDeps, Unassigned
  <2>5. LoopsInStep'
    BY <1>0, <1>3 DEF Inv, AssignLevel, TypeOK, LevelsAscend, NothingEarly, LoopsInStep, ResultsTrue, LevelAfterDeps, Unassigned
  <2>6. EndTrue'
    BY <1>0, <1>3 DEF Inv, AssignLevel, TypeOK, NothingEarly, LoopsInStep, EndTrue, LevelAfterDeps, Unassigned
  <2>7. DependenciesFirst'
    BY <1>0, <1>3 DEF Inv, AssignLevel, TypeOK, NothingEarly, LevelsAscend, LoopsInStep, DependenciesFirst, LevelAfterDeps, Unassigned
  <2> QED
    BY <2>1, <2>2, <2>3, <2>4, <2>5, <2>6, <2>7 DEF Inv
<1>4. ASSUME EndPass PROVE Inv'
  <2>1. TypeOK'
    <3>0. progress' = progress \/ progress' = FALSE
      BY <1>4 DEF EndPass
    <3>1. at' \in 1..N + 1 /\ progress' \in BOOLEAN
      <4>1. at' = at \/ at' = 1
        BY <1>4 DEF EndPass
      <4>2. at' \in 1..N + 1
        BY <4>1, SMT DEF Inv, TypeOK
      <4>3. progress' \in BOOLEAN
        BY <3>0, Zenon DEF Inv, TypeOK
      <4> QED
        BY <4>2, <4>3
    <3>2. pc' \in {"levels", "plan", "end"} /\ outcome' \in {outcome, "refused"} /\ level' = level
      BY <1>4 DEF Inv, EndPass, TypeOK
    <3> QED
      BY <1>0, <1>4, <3>1, <3>2 DEF Inv, EndPass, TypeOK
  <2>2. LevelsAscend'
    BY <1>0, <1>4 DEF Inv, EndPass, TypeOK, LevelsAscend
  <2>3. NothingEarly'
    BY <1>0, <1>4 DEF Inv, EndPass, TypeOK, NothingEarly
  <2>4. ResultsTrue'
    BY <1>0, <1>4 DEF Inv, EndPass, TypeOK, NothingEarly, ResultsTrue, LoopsInStep
  <2>5. LoopsInStep'
    BY <1>0, <1>4 DEF Inv, EndPass, TypeOK, LevelsAscend, NothingEarly, LoopsInStep, ResultsTrue
  <2>6. EndTrue'
    BY <1>0, <1>4 DEF Inv, EndPass, TypeOK, NothingEarly, LoopsInStep, EndTrue
  <2>7. DependenciesFirst'
    BY <1>0, <1>4 DEF Inv, EndPass, TypeOK, NothingEarly, LevelsAscend, LoopsInStep, DependenciesFirst
  <2> QED
    BY <2>1, <2>2, <2>3, <2>4, <2>5, <2>6, <2>7 DEF Inv
<1>5. ASSUME StartRun PROVE Inv'
  <2>1. TypeOK'
    BY <1>0, <1>5 DEF Inv, StartRun, TypeOK
  <2>2. LevelsAscend'
    BY <1>0, <1>5 DEF Inv, StartRun, TypeOK, LevelsAscend
  <2>3. NothingEarly'
    BY <1>0, <1>5 DEF Inv, StartRun, TypeOK, NothingEarly
  <2>4. ResultsTrue'
    BY <1>0, <1>5 DEF Inv, StartRun, TypeOK, NothingEarly, ResultsTrue, LoopsInStep
  <2>5. LoopsInStep'
    BY <1>0, <1>5 DEF Inv, StartRun, TypeOK, LevelsAscend, NothingEarly, LoopsInStep, ResultsTrue
  <2>6. EndTrue'
    BY <1>0, <1>5 DEF Inv, StartRun, TypeOK, NothingEarly, LoopsInStep, EndTrue
  <2>7. DependenciesFirst'
    BY <1>0, <1>5 DEF Inv, StartRun, TypeOK, NothingEarly, LevelsAscend, LoopsInStep, DependenciesFirst
  <2> QED
    BY <2>1, <2>2, <2>3, <2>4, <2>5, <2>6, <2>7 DEF Inv
<1>6. ASSUME EnterLevel PROVE Inv'
  <2>1. TypeOK'
    BY <1>0, <1>6 DEF Inv, EnterLevel, TypeOK, OfLevel
  <2>2. LevelsAscend'
    BY <1>0, <1>6 DEF Inv, EnterLevel, TypeOK, LevelsAscend, OfLevel
  <2>3. NothingEarly'
    BY <1>0, <1>6 DEF Inv, EnterLevel, TypeOK, NothingEarly, OfLevel
  <2>4. ResultsTrue'
    BY <1>0, <1>6 DEF Inv, EnterLevel, TypeOK, NothingEarly, ResultsTrue, LoopsInStep, OfLevel
  <2>5. LoopsInStep'
    BY <1>0, <1>6 DEF Inv, EnterLevel, TypeOK, LevelsAscend, NothingEarly, LoopsInStep, ResultsTrue, OfLevel
  <2>6. EndTrue'
    BY <1>0, <1>6 DEF Inv, EnterLevel, TypeOK, NothingEarly, LoopsInStep, EndTrue, OfLevel
  <2>7. DependenciesFirst'
    BY <1>0, <1>6 DEF Inv, EnterLevel, TypeOK, NothingEarly, LevelsAscend, LoopsInStep, DependenciesFirst, OfLevel
  <2> QED
    BY <2>1, <2>2, <2>3, <2>4, <2>5, <2>6, <2>7 DEF Inv
<1>7. ASSUME Spawn PROVE Inv'
  <2>1. TypeOK'
    BY <1>0, <1>7 DEF Inv, Spawn, TypeOK, ToSkip
  <2>2. LevelsAscend'
    BY <1>0, <1>7 DEF Inv, Spawn, TypeOK, LevelsAscend, ToSkip
  <2>3. NothingEarly'
    BY <1>0, <1>7 DEF Inv, Spawn, TypeOK, NothingEarly, ToSkip
  <2>4. ResultsTrue'
    BY <1>0, <1>7 DEF Inv, Spawn, TypeOK, NothingEarly, ResultsTrue, LoopsInStep, ToSkip
  <2>5. LoopsInStep'
    BY <1>0, <1>7 DEF Inv, Spawn, TypeOK, LevelsAscend, NothingEarly, LoopsInStep, ResultsTrue, ToSkip
  <2>6. EndTrue'
    BY <1>0, <1>7 DEF Inv, Spawn, TypeOK, NothingEarly, LoopsInStep, EndTrue, ToSkip
  <2>7. DependenciesFirst'
    <3>1. PICK s \in todo :
            /\ pc = "spawn"
            /\ \/ /\ result' \in {[result EXCEPT ![s] = "skipped"], [result EXCEPT ![s] = "missing"]}
                  /\ child' = child
               \/ /\ ~ToSkip(s)
                  /\ child' = [child EXCEPT ![s] = "running"]
                  /\ result' = result
      BY <1>7 DEF Spawn
    <3>2. s \in Stages /\ level[s] = current /\ result[s] = "unset"
      BY <3>1 DEF Inv, TypeOK, LoopsInStep
    <3>3. \A r \in Stages : result[r] = "ok" => result'[r] = "ok"
      BY <3>1, <3>2 DEF Inv, TypeOK
    <3>4. ASSUME ~ToSkip(s) PROVE Unknown(s) = {} /\ \A d \in Deps(s) : result[d] = "ok"
      <4>1. level[s] \in Nat /\ \A d \in Stages : level[d] \in Int
        BY <1>0, <3>1, <3>2 DEF Inv, TypeOK, NothingEarly
      <4>2. Unknown(s) = {} /\ \A d \in Deps(s) : d \in Stages /\ level[d] < current
        BY <3>2, <4>1 DEF Inv, LevelsAscend, Deps
      <4>3. \A d \in Deps(s) : result[d] \in {"skipped", "ok"} /\ result[d] # "skipped"
        BY <3>1, <3>4, <4>2 DEF Inv, LoopsInStep, ToSkip
      <4> QED
        BY <4>2, <4>3
    <3>5. ASSUME NEW r \in Stages, child'[r] # "none" PROVE Unknown(r) = {} /\ \A d \in Deps(r) : result[d] = "ok"
      BY <3>1, <3>2, <3>4, <3>5 DEF Inv, TypeOK, DependenciesFirst
    <3>6. \A r \in Stages : Unknown(r)' = Unknown(r) /\ Deps(r)' = Deps(r)
      BY <1>0, <1>7 DEF Spawn
    <3> QED
      BY <3>3, <3>5, <3>6 DEF DependenciesFirst, Deps
  <2> QED
    BY <2>1, <2>2, <2>3, <2>4, <2>5, <2>6, <2>7 DEF Inv
<1>8. ASSUME AllSpawned PROVE Inv'
  <2>1. TypeOK'
    BY <1>0, <1>8 DEF Inv, AllSpawned, TypeOK, OfLevel
  <2>2. LevelsAscend'
    BY <1>0, <1>8 DEF Inv, AllSpawned, TypeOK, LevelsAscend, OfLevel
  <2>3. NothingEarly'
    BY <1>0, <1>8 DEF Inv, AllSpawned, TypeOK, NothingEarly, OfLevel
  <2>4. ResultsTrue'
    BY <1>0, <1>8 DEF Inv, AllSpawned, TypeOK, NothingEarly, ResultsTrue, LoopsInStep, OfLevel
  <2>5. LoopsInStep'
    BY <1>0, <1>8 DEF Inv, AllSpawned, TypeOK, LevelsAscend, NothingEarly, LoopsInStep, ResultsTrue, OfLevel
  <2>6. EndTrue'
    BY <1>0, <1>8 DEF Inv, AllSpawned, TypeOK, NothingEarly, LoopsInStep, EndTrue, OfLevel
  <2>7. DependenciesFirst'
    BY <1>0, <1>8 DEF Inv, AllSpawned, TypeOK, NothingEarly, LevelsAscend, LoopsInStep, DependenciesFirst, OfLevel
  <2> QED
    BY <2>1, <2>2, <2>3, <2>4, <2>5, <2>6, <2>7 DEF Inv
<1>9. ASSUME Wait PROVE Inv'
  <2>1. TypeOK'
    BY <1>0, <1>9 DEF Inv, Wait, TypeOK
  <2>2. LevelsAscend'
    BY <1>0, <1>9 DEF Inv, Wait, TypeOK, LevelsAscend
  <2>3. NothingEarly'
    BY <1>0, <1>9 DEF Inv, Wait, TypeOK, NothingEarly
  <2>4. ResultsTrue'
    BY <1>0, <1>9 DEF Inv, Wait, TypeOK, NothingEarly, ResultsTrue, LoopsInStep
  <2>5. LoopsInStep'
    BY <1>0, <1>9 DEF Inv, Wait, TypeOK, LevelsAscend, NothingEarly, LoopsInStep, ResultsTrue
  <2>6. EndTrue'
    BY <1>0, <1>9 DEF Inv, Wait, TypeOK, NothingEarly, LoopsInStep, EndTrue
  <2>7. DependenciesFirst'
    BY <1>0, <1>9 DEF Inv, Wait, TypeOK, NothingEarly, LevelsAscend, LoopsInStep, DependenciesFirst
  <2> QED
    BY <2>1, <2>2, <2>3, <2>4, <2>5, <2>6, <2>7 DEF Inv
<1>10. ASSUME LeaveLevel PROVE Inv'
  <2>1. TypeOK'
    BY <1>0, <1>10 DEF Inv, LeaveLevel, TypeOK
  <2>2. LevelsAscend'
    BY <1>0, <1>10 DEF Inv, LeaveLevel, TypeOK, LevelsAscend
  <2>3. NothingEarly'
    BY <1>0, <1>10 DEF Inv, LeaveLevel, TypeOK, NothingEarly
  <2>4. ResultsTrue'
    BY <1>0, <1>10 DEF Inv, LeaveLevel, TypeOK, NothingEarly, ResultsTrue, LoopsInStep
  <2>5. LoopsInStep'
    BY <1>0, <1>10 DEF Inv, LeaveLevel, TypeOK, LevelsAscend, NothingEarly, LoopsInStep, ResultsTrue
  <2>6. EndTrue'
    BY <1>0, <1>10 DEF Inv, LeaveLevel, TypeOK, NothingEarly, LoopsInStep, EndTrue
  <2>7. DependenciesFirst'
    BY <1>0, <1>10 DEF Inv, LeaveLevel, TypeOK, NothingEarly, LevelsAscend, LoopsInStep, DependenciesFirst
  <2> QED
    BY <2>1, <2>2, <2>3, <2>4, <2>5, <2>6, <2>7 DEF Inv
<1>11. ASSUME Complete PROVE Inv'
  <2>1. TypeOK'
    BY <1>0, <1>11 DEF Inv, Complete, TypeOK
  <2>2. LevelsAscend'
    BY <1>0, <1>11 DEF Inv, Complete, TypeOK, LevelsAscend
  <2>3. NothingEarly'
    BY <1>0, <1>11 DEF Inv, Complete, TypeOK, NothingEarly
  <2>4. ResultsTrue'
    BY <1>0, <1>11 DEF Inv, Complete, TypeOK, NothingEarly, ResultsTrue, LoopsInStep
  <2>5. LoopsInStep'
    BY <1>0, <1>11 DEF Inv, Complete, TypeOK, LevelsAscend, NothingEarly, LoopsInStep, ResultsTrue
  <2>6. EndTrue'
    BY <1>0, <1>11 DEF Inv, Complete, TypeOK, NothingEarly, LoopsInStep, EndTrue
  <2>7. DependenciesFirst'
    BY <1>0, <1>11 DEF Inv, Complete, TypeOK, NothingEarly, LevelsAscend, LoopsInStep, DependenciesFirst
  <2> QED
    BY <2>1, <2>2, <2>3, <2>4, <2>5, <2>6, <2>7 DEF Inv
<1>12. ASSUME NEW s \in Stages, ChildEnds(s) PROVE Inv'
  <2>1. TypeOK'
    BY <1>0, <1>12 DEF Inv, ChildEnds, TypeOK
  <2>2. LevelsAscend'
    BY <1>0, <1>12 DEF Inv, ChildEnds, TypeOK, LevelsAscend
  <2>3. NothingEarly'
    BY <1>0, <1>12 DEF Inv, ChildEnds, TypeOK, NothingEarly
  <2>4. ResultsTrue'
    BY <1>0, <1>12 DEF Inv, ChildEnds, TypeOK, NothingEarly, ResultsTrue, LoopsInStep
  <2>5. LoopsInStep'
    BY <1>0, <1>12 DEF Inv, ChildEnds, TypeOK, LevelsAscend, NothingEarly, LoopsInStep, ResultsTrue
  <2>6. EndTrue'
    BY <1>0, <1>12 DEF Inv, ChildEnds, TypeOK, NothingEarly, LoopsInStep, EndTrue
  <2>7. DependenciesFirst'
    BY <1>0, <1>12 DEF Inv, ChildEnds, TypeOK, NothingEarly, LevelsAscend, LoopsInStep, DependenciesFirst
  <2> QED
    BY <2>1, <2>2, <2>3, <2>4, <2>5, <2>6, <2>7 DEF Inv
<1>13. ASSUME WaitFails PROVE Inv'
  <2>1. TypeOK'
    BY <1>0, <1>13 DEF Inv, WaitFails, End, runVars, planVars, recipe, TypeOK
  <2>2. LevelsAscend'
    BY <1>0, <1>13 DEF Inv, WaitFails, End, runVars, planVars, recipe, TypeOK, LevelsAscend
  <2>3. NothingEarly'
    BY <1>0, <1>13 DEF Inv, WaitFails, End, runVars, planVars, recipe, TypeOK, NothingEarly
  <2>4. ResultsTrue'
    BY <1>0, <1>13 DEF Inv, WaitFails, End, runVars, planVars, recipe, TypeOK, NothingEarly, ResultsTrue, LoopsInStep
  <2>5. LoopsInStep'
    BY <1>0, <1>13 DEF Inv, WaitFails, End, runVars, planVars, recipe, TypeOK, LevelsAscend, NothingEarly, LoopsInStep, ResultsTrue
  <2>6. EndTrue'
    BY <1>0, <1>13 DEF Inv, WaitFails, End, runVars, planVars, recipe, TypeOK, NothingEarly, LoopsInStep, EndTrue
  <2>7. DependenciesFirst'
    BY <1>0, <1>13 DEF Inv, WaitFails, End, runVars, planVars, recipe, TypeOK, NothingEarly, LevelsAscend, LoopsInStep, DependenciesFirst
  <2> QED
    BY <2>1, <2>2, <2>3, <2>4, <2>5, <2>6, <2>7 DEF Inv
<1>14. CASE UNCHANGED vars
  BY <1>0, <1>14 DEF Inv, vars, TypeOK, LevelsAscend, NothingEarly, ResultsTrue, LoopsInStep, EndTrue, DependenciesFirst
<1> QED
  BY <1>1, <1>2, <1>3, <1>4, <1>5, <1>6, <1>7, <1>8, <1>9, <1>10, <1>11, <1>12, <1>13, <1>14 DEF Next, Executor

LEMMA Invariance == Spec => []Inv
<1>1. Inv /\ [Next]_vars => Inv'
  BY InvStep
<1> QED
  BY InvInit, <1>1, PTL DEF Spec

\* The variables of cmd_run keep their types, for any recipe.
THEOREM PlanTyped == Spec => []TypeOK
<1>1. Inv => TypeOK
  BY DEF Inv
<1> QED
  BY Invariance, <1>1, PTL

\* No stage's program is started before those it depends on have succeeded,
\* for any number of stages, any dependencies, skipped inputs and failures.
THEOREM StagesAreOrdered == Spec => []DependenciesFirst
<1>1. Inv => DependenciesFirst
  BY DEF Inv
<1> QED
  BY Invariance, <1>1, PTL

\* A run that reports success skipped each stage or saw it exit with 0.
THEOREM SuccessIsTrue == Spec => []SuccessIsWhole
<1>1. Inv => SuccessIsWhole
  BY DEF Inv, TypeOK, EndTrue, ResultsTrue, SuccessIsWhole
<1> QED
  BY Invariance, <1>1, PTL

-----------------------------------------------------------------------------
(* SkipsSpread: skipping is closed, and grounded in a missing input.          *)

\* A stage is skipped for a reason: every set that contains what must be
\* skipped contains it.
SkipsGrounded ==
  \A s \in Stages : result[s] = "skipped" => \A K \in SUBSET Stages : SkipClosed(K) => s \in K

\* No process was started for a stage that lacks an input.
NotOptional == \A s \in Stages : child[s] # "none" => s \notin optional

SkipInv == SkipsGrounded /\ NotOptional

\* A stage that is skipped by spawn_stage is in every set closed under skipping.
LEMMA SkippedWithReason ==
  ASSUME SkipsGrounded, NEW s \in Stages, ToSkip(s), NEW K \in SUBSET Stages, SkipClosed(K)
  PROVE  s \in K
<1>1. CASE s \in optional
  BY <1>1 DEF SkipClosed
<1>2. CASE \E d \in Deps(s) : result[d] = "skipped"
  <2>1. PICK d \in Deps(s) : result[d] = "skipped"
    BY <1>2
  <2>2. d \in Stages
    BY DEF Deps
  <2>3. d \in K
    BY <2>1, <2>2 DEF SkipsGrounded
  <2> QED
    BY <2>3 DEF SkipClosed
<1> QED
  BY <1>1, <1>2 DEF ToSkip

LEMMA SkipStep == TypeOK /\ SkipInv /\ [Next]_vars => SkipInv'
<1> SUFFICES ASSUME TypeOK, SkipInv, [Next]_vars PROVE SkipInv'
  OBVIOUS
<1>0. /\ optional' = optional /\ \A K \in SUBSET Stages : SkipClosed(K)' = SkipClosed(K)
  <2>1. optional' = optional /\ \A s \in Stages : Deps(s)' = Deps(s)
    BY RecipeFixed DEF recipe
  <2> QED
    BY <2>1 DEF SkipClosed, Stages
<1>1. ASSUME NEW s \in Stages, result'[s] = "skipped", result[s] # "skipped"
      PROVE  ToSkip(s)
  <2>1. CASE Spawn
    BY <1>1, <2>1 DEF Spawn, TypeOK
  <2>2. CASE Wait
    BY <1>1, <2>2 DEF Wait, TypeOK
  <2>3. CASE ~Spawn /\ ~Wait
    BY <1>1, <2>3 DEF Next, Executor, vars, runVars, PassOver, RefuseUnknown, AssignLevel, EndPass, StartRun,
       EnterLevel, AllSpawned, LeaveLevel, Complete, WaitFails, ChildEnds
  <2> QED
    BY <2>1, <2>2, <2>3
<1>2. ASSUME NEW s \in Stages, child'[s] # "none", child[s] = "none"
      PROVE  ~ToSkip(s)
  <2>1. CASE Spawn
    BY <1>2, <2>1 DEF Spawn, TypeOK
  <2>2. CASE \E t \in Stages : ChildEnds(t)
    BY <1>2, <2>2 DEF ChildEnds, TypeOK
  <2>3. CASE ~Spawn /\ ~ \E t \in Stages : ChildEnds(t)
    BY <1>2, <2>3 DEF Next, Executor, vars, runVars, PassOver, RefuseUnknown, AssignLevel, EndPass, StartRun,
       EnterLevel, AllSpawned, Wait, LeaveLevel, Complete, WaitFails
  <2> QED
    BY <2>1, <2>2, <2>3
<1>3. SkipsGrounded'
  <2> SUFFICES ASSUME NEW s \in Stages, result'[s] = "skipped", NEW K \in SUBSET Stages, SkipClosed(K)
               PROVE  s \in K
    BY <1>0 DEF SkipsGrounded, Stages
  <2>1. CASE result[s] = "skipped"
    BY <2>1 DEF SkipInv, SkipsGrounded
  <2>2. CASE result[s] # "skipped"
    BY <1>1, <2>2, SkippedWithReason DEF SkipInv
  <2> QED
    BY <2>1, <2>2
<1>4. NotOptional'
  BY <1>0, <1>2 DEF SkipInv, NotOptional, ToSkip, Stages
<1> QED
  BY <1>3, <1>4 DEF SkipInv

\* A successful run skipped the stages that lack an input and those that depend
\* on them at any distance, and no others, for recipes of any length and shape.
THEOREM SkipsAreExact == Spec => []SkipsSpread
<1>1. Init => SkipInv
  BY DEF Init, SkipInv, SkipsGrounded, NotOptional
<1>2. Inv /\ SkipInv => SkipsSpread
  <2> SUFFICES ASSUME Inv, SkipInv, outcome = "success", NEW s \in Stages,
                      \A K \in SUBSET Stages : SkipClosed(K) => s \in K
               PROVE  result[s] = "skipped"
    BY DEF SkipsSpread, SkipInv, SkipsGrounded
  <2> DEFINE Skipped == {t \in Stages : result[t] = "skipped"}
  <2>1. \A t \in Stages \ Skipped : child[t] # "none" /\ result[t] = "ok"
    BY DEF Inv, EndTrue, ResultsTrue
  <2>2. optional \subseteq Skipped
    BY <2>1 DEF Inv, TypeOK, SkipInv, NotOptional
  <2>3. \A t \in Stages : Deps(t) \cap Skipped # {} => t \in Skipped
    BY <2>1 DEF Inv, DependenciesFirst
  <2> QED
    BY <2>2, <2>3 DEF SkipClosed
<1>3. Inv => TypeOK
  BY DEF Inv
<1> QED
  BY <1>1, <1>2, <1>3, SkipStep, Invariance, PTL DEF Spec

-----------------------------------------------------------------------------
(* PlannedIffWellFormed: levels are an order without cycles, and a pass that   *)
(* makes no progress has found a cycle.                                        *)

\* Some stage of a set has the lowest level of the set.
LEMMA LowestLevel ==
  ASSUME NEW C \in SUBSET Stages, C # {}, \A s \in C : level[s] \in Nat
  PROVE  \E s \in C : \A t \in C : level[s] <= level[t]
<1> DEFINE T == {0..level[s] : s \in C}
<1>1. T \subseteq FiniteSubsetsOf(Nat) /\ T # {}
  <2>1. ASSUME NEW s \in C
        PROVE  0..level[s] \in SUBSET Nat /\ IsFiniteSet(0..level[s])
    <3>1. level[s] \in Nat
      OBVIOUS
    <3>2. IsFiniteSet(0..level[s])
      BY <3>1, FS_Interval
    <3> QED
      BY <3>1, <3>2
  <2> QED
    BY <2>1, Zenon DEF FiniteSubsetsOf
<1>2. PICK x \in T : \A y \in T : ~ (<<y, x>> \in StrictSubsetOrdering(Nat))
  <2>1. IsWellFoundedOn(StrictSubsetOrdering(Nat), FiniteSubsetsOf(Nat))
    BY FS_StrictSubsetOrderingWellFounded
  <2> HIDE DEF T
  <2> QED
    BY <1>1, <2>1, WFMin
<1>3. PICK s \in C : x = 0..level[s]
  OBVIOUS
<1>4. ASSUME NEW t \in C, level[t] < level[s]
      PROVE  FALSE
  <2>1. 0..level[t] \in SUBSET Nat /\ 0..level[s] \in SUBSET Nat
    OBVIOUS
  <2>2. 0..level[t] \subseteq 0..level[s] /\ 0..level[t] # 0..level[s]
    BY <1>4
  <2>3. <<0..level[t], 0..level[s]>> \in StrictSubsetOrdering(Nat)
    BY <2>1, <2>2 DEF StrictSubsetOrdering
  <2> QED
    BY <1>2, <1>3, <2>3
<1>5. \A t \in C : level[s] <= level[t]
  <2> SUFFICES ASSUME NEW t \in C PROVE level[s] <= level[t]
    OBVIOUS
  <2>1. level[t] \in Nat /\ level[s] \in Nat
    OBVIOUS
  <2> HIDE DEF T
  <2> QED
    BY <1>4, <2>1
<1> QED
  BY <1>5

\* Levels above those of the dependencies leave no set waiting for itself.
LEMMA LevelsMeanWellFormed ==
  ASSUME TypeOK, LevelsAscend, \A s \in Stages : level[s] >= 0
  PROVE  WellFormed
<1>1. \A s \in Stages : Unknown(s) = {}
  BY DEF LevelsAscend
<1>2. ASSUME NEW C \in SUBSET Stages, C # {}
      PROVE  \E s \in C : Deps(s) \cap C = {}
  <2>1. \A s \in C : level[s] \in Nat
    BY DEF TypeOK
  <2>2. PICK s \in C : \A t \in C : level[s] <= level[t]
    BY <1>2, <2>1, LowestLevel
  <2>3. ASSUME NEW d \in Deps(s), d \in C
        PROVE  FALSE
    <3>1. level[d] < level[s]
      BY DEF LevelsAscend
    <3>2. level[s] <= level[d] /\ level[s] \in Nat /\ level[d] \in Nat
      BY <2>1, <2>2, <2>3
    <3> QED
      BY <3>1, <3>2
  <2> QED
    BY <2>3
<1> QED
  BY <1>1, <1>2 DEF WellFormed

\* A level above the first is the one after that of a dependency.
TightLevels ==
  \A s \in Stages : level[s] > 0 => \E d \in Deps(s) : level[d] >= 0 /\ level[s] = level[d] + 1

\* A pass that made no progress has found every stage it left to be waiting.
PassTrue ==
  pc = "levels" /\ ~progress =>
    \A s \in Stages : s < at /\ level[s] < 0 => Unassigned(s) # {}

\* A run ends without levels only over a recipe that has none.
EndJust == pc = "end" /\ WellFormed => \A s \in Stages : level[s] >= 0

LevelInv == TightLevels /\ PassTrue /\ EndJust

\* A last pass without progress shows a set of stages that waits for itself.
LEMMA StuckIsIllFormed ==
  ASSUME TypeOK, \A s \in Stages : level[s] < 0 => Unassigned(s) # {}, WellFormed
  PROVE  \A s \in Stages : level[s] >= 0
<1> DEFINE C == {s \in Stages : level[s] < 0}
<1>1. \A s \in C : Deps(s) \cap C # {}
  <2> SUFFICES ASSUME NEW s \in C PROVE Deps(s) \cap C # {}
    OBVIOUS
  <2>1. PICK d \in Deps(s) : level[d] < 0
    BY DEF Unassigned
  <2>2. d \in Stages
    BY DEF Deps
  <2> QED
    BY <2>1, <2>2
<1>2. C = {}
  <2>1. C \in SUBSET Stages
    OBVIOUS
  <2> HIDE DEF C
  <2> QED
    BY <1>1, <2>1 DEF WellFormed
<1> QED
  BY <1>2 DEF TypeOK

\* Only AssignLevel gives levels.
LEMMA LevelsKept ==
  ASSUME [Next]_vars, ~AssignLevel
  PROVE  level' = level
BY DEF Next, Executor, vars, planVars, PassOver, RefuseUnknown, EndPass, StartRun, EnterLevel,
   Spawn, AllSpawned, Wait, LeaveLevel, Complete, WaitFails, ChildEnds

LEMMA LevelStep == Inv /\ LevelInv /\ [Next]_vars => LevelInv'
<1> SUFFICES ASSUME Inv, LevelInv, [Next]_vars PROVE LevelInv'
  OBVIOUS
<1> USE NAssumption
<1>0. /\ \A s \in Stages : Deps(s)' = Deps(s) /\ Unknown(s)' = Unknown(s) /\ Deps(s) \subseteq Stages
      /\ Stages' = Stages
  BY RecipeFixed DEF Deps, Stages
<1>1. WellFormed' = WellFormed
  BY <1>0 DEF WellFormed
<1>2. TypeOK /\ LevelsAscend /\ NothingEarly
  BY DEF Inv
<1>3. TightLevels'
  <2>1. CASE AssignLevel
    <3>1. PICK l \in 0..N : LevelAfterDeps(at, l) /\ level' = [level EXCEPT ![at] = l]
      BY <2>1 DEF AssignLevel
    <3>2. at \in Stages /\ level[at] < 0 /\ \A d \in Deps(at) : level[d] >= 0
      BY <1>0, <1>2, <2>1 DEF AssignLevel, TypeOK, Stages, Unassigned
    <3>3. l > 0 => \E d \in Deps(at) : level'[d] >= 0 /\ l = level'[d] + 1
      <4> SUFFICES ASSUME l > 0 PROVE \E d \in Deps(at) : level'[d] >= 0 /\ l = level'[d] + 1
        OBVIOUS
      <4>1. PICK d \in Deps(at) : l = level[d] + 1
        BY <3>1 DEF LevelAfterDeps
      <4>2. level'[d] = level[d] /\ level[d] >= 0
        BY <1>0, <1>2, <3>1, <3>2 DEF TypeOK
      <4> QED
        BY <4>1, <4>2
    <3>4. ASSUME NEW s \in Stages, s # at, level'[s] > 0
          PROVE  \E d \in Deps(s) : level'[d] >= 0 /\ level'[s] = level'[d] + 1
      <4>1. level'[s] = level[s]
        BY <1>2, <3>1, <3>4 DEF TypeOK
      <4>2. PICK d \in Deps(s) : level[d] >= 0 /\ level[s] = level[d] + 1
        BY <3>4, <4>1 DEF LevelInv, TightLevels
      <4>3. level'[d] = level[d]
        BY <1>0, <1>2, <3>1, <3>2, <4>2 DEF TypeOK
      <4> QED
        BY <4>1, <4>2, <4>3
    <3>5. level'[at] = l
      BY <1>2, <3>1, <3>2 DEF TypeOK
    <3> QED
      BY <1>0, <3>3, <3>4, <3>5 DEF TightLevels
  <2>2. CASE ~AssignLevel
    BY <1>0, <2>2, LevelsKept DEF LevelInv, TightLevels
  <2> QED
    BY <2>1, <2>2
<1>4. PassTrue'
  <2> SUFFICES ASSUME pc' = "levels", progress' = FALSE
               PROVE  \A s \in Stages : s < at' /\ level'[s] < 0 => Unassigned(s)' # {}
    <3>1. progress' \in BOOLEAN
      BY InvStep DEF Inv, TypeOK
    <3> QED
      BY <1>0, <3>1 DEF PassTrue
  <2>1. pc = "levels" /\ ~AssignLevel
    BY DEF AssignLevel, Next, Executor, vars, End, PassOver, RefuseUnknown, EndPass, StartRun, EnterLevel,
       Spawn, AllSpawned, Wait, LeaveLevel, Complete, WaitFails, ChildEnds
  <2>2. level' = level /\ \A s \in Stages : Unassigned(s)' = Unassigned(s)
    BY <1>0, <2>1, LevelsKept DEF Unassigned
  <2>3. CASE PassOver
    <3>1. at' = at + 1 /\ progress = FALSE /\ (level[at] >= 0 \/ Unassigned(at) # {})
      BY <2>3 DEF PassOver
    <3>2. \A s \in Stages : s < at + 1 => s < at \/ s = at
      BY <1>2 DEF TypeOK, Stages
    <3> QED
      BY <1>2, <2>1, <2>2, <3>1, <3>2 DEF LevelInv, PassTrue, TypeOK
  <2>4. CASE EndPass
    <3>1. at' = 1
      BY <2>1, <2>4 DEF EndPass, End
    <3> QED
      BY <3>1 DEF Stages
  <2>5. CASE ~PassOver /\ ~EndPass
    <3>1. UNCHANGED <<at, progress>>
      BY <2>1, <2>5 DEF Next, Executor, vars, planVars, End, RefuseUnknown, StartRun, EnterLevel,
         Spawn, AllSpawned, Wait, LeaveLevel, Complete, WaitFails, ChildEnds
    <3> QED
      BY <2>1, <2>2, <3>1 DEF LevelInv, PassTrue
  <2> QED
    BY <2>3, <2>4, <2>5
<1>5. EndJust'
  <2> SUFFICES ASSUME pc' = "end", WellFormed
               PROVE  \A s \in Stages : level'[s] >= 0
    BY <1>0, <1>1 DEF EndJust
  <2>1. ~AssignLevel
    BY DEF AssignLevel
  <2>2. level' = level
    BY <2>1, LevelsKept
  <2>3. CASE pc = "end"
    BY <2>2, <2>3 DEF LevelInv, EndJust
  <2>4. CASE pc \notin {"levels", "end"}
    BY <1>2, <2>2, <2>4 DEF NothingEarly
  <2>5. CASE pc = "levels"
    <3>1. RefuseUnknown \/ EndPass
      BY <2>1, <2>5 DEF Next, Executor, vars, End, PassOver, StartRun, EnterLevel,
         Spawn, AllSpawned, Wait, LeaveLevel, Complete, WaitFails, ChildEnds
    <3>2. CASE RefuseUnknown
      BY <1>2, <3>2 DEF RefuseUnknown, WellFormed, TypeOK, Stages
    <3>3. CASE EndPass
      <4>1. at = N + 1 /\ ~progress
        BY <3>3 DEF EndPass
      <4>2. \A s \in Stages : level[s] < 0 => Unassigned(s) # {}
        BY <2>5, <4>1 DEF LevelInv, PassTrue, Stages
      <4> QED
        BY <1>2, <2>2, <4>2, StuckIsIllFormed
    <3> QED
      BY <3>1, <3>2, <3>3
  <2> QED
    BY <1>2, <2>3, <2>4, <2>5 DEF TypeOK
<1> QED
  BY <1>3, <1>4, <1>5 DEF LevelInv

\* A recipe of any length gets past assign_levels exactly when it has no cycle
\* and no unknown dependency, with each stage as early as its dependencies allow.
THEOREM PlansAreExact == Spec => []PlannedIffWellFormed
<1>1. Init => LevelInv
  BY NAssumption DEF Init, LevelInv, TightLevels, PassTrue, EndJust, Stages
<1>2. Inv /\ LevelInv => PlannedIffWellFormed
  <2> SUFFICES ASSUME Inv, LevelInv PROVE PlannedIffWellFormed
    OBVIOUS
  <2>1. TypeOK /\ LevelsAscend /\ NothingEarly
    BY DEF Inv
  <2>2. ASSUME pc \notin {"levels", "end"}
        PROVE  WellFormed /\ \A s \in Stages : level[s] = 0 \/ \E d \in Deps(s) : level[s] = level[d] + 1
    <3>1. \A s \in Stages : level[s] >= 0
      BY <2>1, <2>2 DEF NothingEarly
    <3>2. WellFormed
      BY <2>1, <3>1, LevelsMeanWellFormed
    <3>3. \A s \in Stages : level[s] = 0 \/ level[s] > 0
      BY <2>1, <3>1 DEF TypeOK
    <3> QED
      BY <3>2, <3>3 DEF LevelInv, TightLevels
  <2> QED
    BY <2>2 DEF PlannedIffWellFormed, LevelInv, EndJust
<1> QED
  BY <1>1, <1>2, LevelStep, Invariance, PTL DEF Spec
-----------------------------------------------------------------------------
(* GraphFollowed: the executor implements StageGraph, step by step.            *)

Lives == [s \in Stages |-> Life(s)]
GraphVars == <<[s \in Stages |-> Deps(s)], optional, Lives, outcome>>

\* Only the life of s changed.
LEMMA OneLifeChanges ==
  ASSUME NEW s \in Stages, NEW from, NEW to, Life(s) = from, Life(s)' = to,
         \A t \in Stages \ {s} : Life(t)' = Life(t)
  PROVE  Graph!Becomes(s, from, to)
<1>1. Lives[s] = from
  BY DEF Lives
<1>2. Lives' = [Lives EXCEPT ![s] = to]
  BY DEF Lives, Stages
<1> QED
  BY <1>1, <1>2 DEF Graph!Becomes, Lives

\* Stages of the current level come after stages that are over.
LEMMA CurrentIsReady ==
  ASSUME Inv, pc = "spawn", NEW s \in todo
  PROVE  /\ s \in Stages /\ Life(s) = "waiting" /\ result[s] = "unset" /\ child[s] = "none"
         /\ \A d \in Deps(s) : d \in Stages /\ Life(d) \in {"ok", "skipped"} /\ Life(d) = result[d]
         /\ ~ToSkip(s) => s \notin optional /\ \A d \in Deps(s) : Life(d) = "ok"
<1>1. s \in Stages /\ level[s] = current /\ result[s] = "unset" /\ child[s] = "none"
  BY DEF Inv, TypeOK, LoopsInStep
<1>2. level[s] \in Nat /\ \A d \in Stages : level[d] \in Int
  BY <1>1 DEF Inv, TypeOK, NothingEarly
<1>3. \A d \in Deps(s) : d \in Stages /\ level[d] < current
  BY <1>1, <1>2 DEF Inv, LevelsAscend, Deps
<1>4. \A d \in Deps(s) : result[d] \in {"ok", "skipped"}
  BY <1>3 DEF Inv, LoopsInStep
<1>5. \A d \in Deps(s) : Life(d) = result[d]
  BY <1>4 DEF Life
<1> QED
  BY <1>1, <1>3, <1>4, <1>5 DEF Life, ToSkip

LEMMA SpawnFollows ==
  ASSUME Inv, Spawn, \A s \in Stages : Deps(s)' = Deps(s)
  PROVE  outcome = "none" /\ \E s \in Stages : Graph!Start(s) \/ Graph!Skip(s) \/ Graph!Fail(s)
<1>1. PICK s \in todo :
        /\ pc = "spawn"
        /\ \/ ToSkip(s) /\ result' = [result EXCEPT ![s] = "skipped"] /\ UNCHANGED <<child, outcome>>
           \/ ~ToSkip(s) /\ child' = [child EXCEPT ![s] = "running"] /\ UNCHANGED <<result, outcome>>
           \/ ~ToSkip(s) /\ result' = [result EXCEPT ![s] = "missing"] /\ outcome' = "failed" /\ UNCHANGED child
  BY DEF Spawn, End
<1>2. /\ s \in Stages /\ Life(s) = "waiting" /\ result[s] = "unset" /\ child[s] = "none"
      /\ \A d \in Deps(s) : d \in Stages /\ Life(d) \in {"ok", "skipped"} /\ Life(d) = result[d]
      /\ ~ToSkip(s) => s \notin optional /\ \A d \in Deps(s) : Life(d) = "ok"
  BY <1>1, CurrentIsReady
<1>3. outcome = "none"
  BY <1>1 DEF Inv, EndTrue
<1>4. result \in [Stages -> {"unset", "skipped", "missing", "ok", "failed"}]
      /\ child \in [Stages -> {"none", "running", "ok", "failed"}]
  BY DEF Inv, TypeOK
<1>5. \A t \in Stages \ {s} : Life(t)' = Life(t)
  BY <1>1, <1>2, <1>4 DEF Life
<1>6. CASE ToSkip(s)
  <2>1. Life(s)' = "skipped" /\ outcome' = outcome
    BY <1>1, <1>2, <1>4, <1>6 DEF Life
  <2>2. Graph!Becomes(s, "waiting", "skipped")
    BY <1>2, <1>5, <2>1, OneLifeChanges
  <2>3. s \in optional \/ \E d \in Deps(s) : Life(d) = "skipped"
    BY <1>2, <1>6 DEF ToSkip
  <2>4. Graph!Skip(s)
    BY <1>2, <2>1, <2>2, <2>3 DEF Graph!Skip
  <2> QED
    BY <1>2, <1>3, <2>4
<1>7. CASE ~ToSkip(s)
  <2>1. Graph!Enabled(s)
    BY <1>2, <1>7 DEF Graph!Enabled
  <2>2. CASE outcome' = outcome
    <3>1. Life(s)' = "running"
      BY <1>1, <1>2, <1>3, <1>4, <1>7, <2>2 DEF Life
    <3>2. Graph!Becomes(s, "waiting", "running")
      BY <1>2, <1>5, <3>1, OneLifeChanges
    <3> QED
      BY <1>2, <1>3, <1>7, <2>1, <2>2, <3>2 DEF Graph!Start
  <2>3. CASE outcome' # outcome
    <3>1. Life(s)' = "failed" /\ outcome' = "failed"
      BY <1>1, <1>2, <1>3, <1>4, <1>7, <2>3 DEF Life
    <3>2. Graph!Becomes(s, "waiting", "failed")
      BY <1>2, <1>5, <3>1, OneLifeChanges
    <3> QED
      BY <1>2, <1>3, <1>7, <2>1, <3>1, <3>2 DEF Graph!Fail
  <2> QED
    BY <2>2, <2>3
<1> QED
  BY <1>6, <1>7

LEMMA WaitFollows ==
  ASSUME Inv, Wait
  PROVE  outcome = "none" /\ \E s \in Stages : Graph!Succeed(s) \/ Graph!Fail(s)
<1>1. PICK s \in todo :
        /\ pc = "wait" /\ child[s] \in {"ok", "failed"} /\ child' = child
        /\ result' = [result EXCEPT ![s] = child[s]]
        /\ outcome' = IF child[s] = "failed" THEN "failed" ELSE outcome
  BY DEF Wait, End
<1>2. s \in Stages /\ result[s] = "unset" /\ outcome = "none"
  BY <1>1 DEF Inv, TypeOK, LoopsInStep, EndTrue
<1>3. result \in [Stages -> {"unset", "skipped", "missing", "ok", "failed"}]
  BY DEF Inv, TypeOK
<1>4. Life(s) = "running" /\ Life(s)' = child[s] /\ \A t \in Stages \ {s} : Life(t)' = Life(t)
  BY <1>1, <1>2, <1>3 DEF Life
<1>5. Graph!Becomes(s, "running", child[s])
  BY <1>2, <1>4, OneLifeChanges
<1>6. CASE child[s] = "ok"
  BY <1>1, <1>2, <1>5, <1>6 DEF Graph!Succeed
<1>7. CASE child[s] = "failed"
  BY <1>1, <1>2, <1>5, <1>7 DEF Graph!Fail
<1> QED
  BY <1>1, <1>6, <1>7

\* A process that ends changes nothing yet.
LEMMA ChildEndsUnseen ==
  ASSUME Inv, NEW s \in Stages, ChildEnds(s)
  PROVE  \A t \in Stages : Life(t)' = Life(t)
<1>1. result[s] = "unset" /\ child[s] = "running" /\ result' = result
  BY DEF Inv, TypeOK, ResultsTrue, ChildEnds
<1>2. child'[s] \in {"ok", "failed"} /\ \A t \in Stages \ {s} : child'[t] = child[t]
  BY DEF Inv, TypeOK, ChildEnds
<1> QED
  BY <1>1, <1>2 DEF Life

LEMMA StepFollows == Inv /\ [Next]_vars => [Graph!Next]_GraphVars
<1> SUFFICES ASSUME Inv, [Next]_vars PROVE [Graph!Next]_GraphVars
  OBVIOUS
<1>1. /\ \A s \in Stages : Deps(s)' = Deps(s)
      /\ optional' = optional /\ [s \in Stages |-> Deps(s)]' = [s \in Stages |-> Deps(s)]
  BY RecipeFixed DEF recipe, Stages
<1>2. CASE Spawn
  BY <1>1, <1>2, SpawnFollows DEF Graph!Next
<1>3. CASE Wait
  BY <1>1, <1>3, WaitFollows DEF Graph!Next
<1>4. CASE \E s \in Stages : ChildEnds(s)
  <2>1. Lives' = Lives /\ outcome' = outcome
    BY <1>4, ChildEndsUnseen DEF Lives, ChildEnds, Stages
  <2> QED
    BY <1>1, <2>1 DEF GraphVars
<1>5. CASE ~Spawn /\ ~Wait /\ ~ \E s \in Stages : ChildEnds(s)
  <2>1. UNCHANGED <<result, child>>
    BY <1>5 DEF Next, Executor, vars, runVars, PassOver, RefuseUnknown, AssignLevel, EndPass, StartRun, EnterLevel,
       AllSpawned, LeaveLevel, Complete, WaitFails
  <2>2. Lives' = Lives
    BY <2>1 DEF Lives, Life, Stages
  <2>3. CASE outcome' = outcome
    BY <1>1, <2>2, <2>3 DEF GraphVars
  <2>4. CASE outcome' # outcome /\ Complete
    <3>1. outcome' = "success" /\ pc = "level" /\ \A s \in Stages : level[s] < current
      BY <2>4 DEF Complete, End
    <3>2. outcome = "none" /\ \A s \in Stages : result[s] \in {"skipped", "ok"}
      BY <3>1 DEF Inv, EndTrue, LoopsInStep
    <3>3. Graph!Finish
      BY <2>2, <3>1, <3>2 DEF Graph!Finish, Lives, Life
    <3> QED
      BY <1>1, <3>2, <3>3 DEF Graph!Next
  <2>5. CASE WaitFails
    <3>1. outcome' = "failed" /\ pc = "wait" /\ todo # {} /\ todo \subseteq Stages
      BY <2>5 DEF WaitFails, End, Inv, TypeOK
    <3>2. outcome = "none" /\ \A s \in todo : result[s] = "unset" /\ child[s] # "none"
      BY <3>1 DEF Inv, EndTrue, LoopsInStep
    <3>3. \E s \in Stages : Life(s) = "running"
      BY <3>1, <3>2 DEF Life
    <3>4. Graph!GiveUp
      BY <2>2, <3>1, <3>3 DEF Graph!GiveUp, Lives
    <3> QED
      BY <1>1, <3>2, <3>4 DEF Graph!Next
  <2>6. CASE outcome' # outcome /\ ~Complete /\ ~WaitFails
    <3>1. outcome' \in {"refused", "planned"} /\ pc \in {"levels", "plan"}
      BY <1>5, <2>6 DEF Next, Executor, vars, PassOver, RefuseUnknown, AssignLevel, EndPass, StartRun, EnterLevel,
         AllSpawned, LeaveLevel, End
    <3>2. outcome = "none" /\ \A s \in Stages : Life(s) = "waiting"
      BY <3>1 DEF Inv, EndTrue, NothingEarly, Life
    <3>3. Graph!Decline
      BY <2>2, <3>1, <3>2 DEF Graph!Decline, Lives
    <3> QED
      BY <1>1, <3>2, <3>3 DEF Graph!Next
  <2> QED
    BY <2>3, <2>4, <2>5, <2>6
<1> QED
  BY <1>2, <1>3, <1>4, <1>5

\* A run goes through the graph of its stages as StageGraph allows: the levels
\* are a schedule of the graph, for recipes of any length and any dependencies.
THEOREM RunFollowsGraph == Spec => GraphFollowed
<1>1. Init => Graph!Init
  BY DEF Init, Graph!Init, Deps, Life, Stages
<1>2. Inv /\ [Next]_vars => [Graph!Next]_<<[s \in Stages |-> Deps(s)], optional, [s \in Stages |-> Life(s)], outcome>>
  BY StepFollows DEF GraphVars, Lives
<1> QED
  BY <1>1, <1>2, Invariance, PTL DEF Spec, GraphFollowed, Graph!Spec

-----------------------------------------------------------------------------
(* RunShortens: a bound on the steps that are left, for recipes of any length.*)

\* The loop over the levels stops behind the highest level.
LevelsBound ==
  /\ current <= N + 1
  /\ pc \in {"spawn", "wait"} => current <= N

LEMMA LevelsBoundStep == Inv /\ LevelsBound /\ [Next]_vars => LevelsBound'
<1> SUFFICES ASSUME Inv, LevelsBound, [Next]_vars PROVE LevelsBound'
  OBVIOUS
<1>1. N \in Nat \ {0} /\ current \in Nat /\ \A s \in Stages : level[s] <= N /\ level[s] \in Int
  BY NAssumption DEF Inv, TypeOK
<1>2. CASE EnterLevel
  BY <1>1, <1>2 DEF EnterLevel, LevelsBound
<1>3. CASE LeaveLevel
  BY <1>1, <1>3 DEF LeaveLevel, LevelsBound
<1>4. CASE ~EnterLevel /\ ~LeaveLevel
  <2>1. current' = current
    BY <1>4 DEF Next, Executor, vars, runVars, PassOver, RefuseUnknown, AssignLevel, EndPass, StartRun,
       Spawn, AllSpawned, Wait, Complete, WaitFails, ChildEnds
  <2>2. pc' \in {"spawn", "wait"} => pc \in {"spawn", "wait"}
    BY <1>4 DEF Next, Executor, vars, End, PassOver, RefuseUnknown, AssignLevel, EndPass, StartRun,
       Spawn, AllSpawned, Wait, Complete, WaitFails, ChildEnds
  <2> QED
    BY <2>1, <2>2 DEF LevelsBound
<1> QED
  BY <1>2, <1>3, <1>4

\* Sets of stages can be counted, and there are at most N of them.
LEMMA StagesCounted ==
  ASSUME NEW S, S \subseteq Stages
  PROVE  IsFiniteSet(S) /\ Cardinality(S) \in Nat /\ Cardinality(S) <= N
<1>1. N \in Nat /\ 1 \in Int /\ N \in Int
  BY NAssumption
<1>2. IsFiniteSet(Stages) /\ Cardinality(Stages) = N
  BY <1>1, FS_Interval DEF Stages
<1> QED
  BY <1>2, FS_Subset, FS_CardinalityType

LEMMA OneLess ==
  ASSUME NEW S, S \subseteq Stages, NEW s \in S
  PROVE  Cardinality(S \ {s}) = Cardinality(S) - 1 /\ Cardinality(S) >= 1
<1>1. IsFiniteSet(S) /\ Cardinality(S) \in Nat /\ Cardinality(S \ {s}) \in Nat
  BY StagesCounted
<1>2. Cardinality(S \ {s}) = Cardinality(S) - 1
  BY <1>1, FS_RemoveElement
<1> QED
  BY <1>1, <1>2

\* A round fewer is at least the length of a round.
LEMMA RoundsShrink ==
  ASSUME NEW a \in Nat, NEW b \in Nat, NEW k \in Nat, b < a
  PROVE  a * k \in Nat /\ b * k \in Nat /\ b * k + k <= a * k
<1>1. PICK c \in Nat : a = b + 1 + c
  <2>1. a - b - 1 \in Nat /\ a = b + 1 + (a - b - 1)
    OBVIOUS
  <2> QED
    BY <2>1
<1>2. c * k \in Nat /\ b * k \in Nat
  OBVIOUS
<1>3. a * k = b * k + k + c * k
  BY <1>1
<1> QED
  BY <1>2, <1>3

\* Each part of the bound is a number.
StepsAreNumbers ==
  /\ Unplaced \in Nat /\ PassesLeft \in Nat /\ PerLevel \in Nat
  /\ PlanSteps \in Nat /\ LevelSteps \in Nat /\ LoopSteps \in Nat /\ ChildSteps \in Nat

LEMMA StepsCounted == Inv /\ LevelsBound => StepsAreNumbers
<1> SUFFICES ASSUME Inv, LevelsBound PROVE StepsAreNumbers
  OBVIOUS
<1>1. N \in Nat \ {0} /\ TypeOK
  BY NAssumption DEF Inv
<1>2. Unplaced \in Nat
  <2>1. {s \in Stages : level[s] < 0} \subseteq Stages
    OBVIOUS
  <2> QED
    BY <2>1, StagesCounted DEF Unplaced
<1>3. PassesLeft \in Nat /\ PerLevel \in Nat
  BY <1>1, <1>2 DEF PassesLeft, PerLevel
<1>4. PlanSteps \in Nat
  <2>1. PassesLeft * (N + 2) \in Nat
    BY <1>1, <1>3
  <2>2. N + 2 - at \in Nat
    BY <1>1 DEF TypeOK
  <2> QED
    BY <2>1, <2>2 DEF PlanSteps
<1>5. LevelSteps \in Nat
  <2>1. Cardinality(todo) \in Nat
    BY <1>1, StagesCounted DEF TypeOK
  <2>2. pc \in {"levels", "plan", "level", "spawn", "wait", "end"} /\ 2 * N + 4 - 1 \in Nat
    BY <1>1 DEF TypeOK
  <2> QED
    BY <1>1, <1>3, <2>1, <2>2 DEF LevelSteps, PerLevel
<1>6. LoopSteps \in Nat
  <2>1. N + 2 - current \in Nat
    BY <1>1 DEF TypeOK, LevelsBound
  <2>2. (N + 2 - current) * PerLevel \in Nat /\ 0 * PerLevel \in Nat
    BY <1>3, <2>1
  <2> QED
    BY <1>5, <2>2 DEF LoopSteps
<1>7. ChildSteps \in Nat
  <2>1. /\ {s \in Stages : child[s] = "none"} \subseteq Stages
        /\ {s \in Stages : child[s] = "running"} \subseteq Stages
    OBVIOUS
  <2>2. /\ Cardinality({s \in Stages : child[s] = "none"}) \in Nat
        /\ Cardinality({s \in Stages : child[s] = "running"}) \in Nat
    BY <2>1, StagesCounted
  <2> QED
    BY <2>2 DEF ChildSteps
<1> QED
  BY <1>2, <1>3, <1>4, <1>5, <1>6, <1>7 DEF StepsAreNumbers

LEMMA StepsCountedNext == (Inv /\ LevelsBound => StepsAreNumbers)'
  BY StepsCounted, PTL

Shorter == 0 <= Remaining' /\ Remaining' < Remaining

\* It is enough that one part shrinks and no other grows.
LEMMA PartsShorten ==
  ASSUME Inv, LevelsBound, Inv', LevelsBound',
         PlanSteps' <= PlanSteps, LoopSteps' <= LoopSteps, ChildSteps' <= ChildSteps,
         PlanSteps' < PlanSteps \/ LoopSteps' < LoopSteps \/ ChildSteps' < ChildSteps
  PROVE  Shorter
<1>1. PlanSteps \in Nat /\ LoopSteps \in Nat /\ ChildSteps \in Nat
  BY StepsCounted DEF StepsAreNumbers
<1>2. PlanSteps' \in Nat /\ LoopSteps' \in Nat /\ ChildSteps' \in Nat
  BY StepsCounted, StepsCountedNext DEF StepsAreNumbers
<1>3. ASSUME NEW a \in Nat, NEW b \in Nat, NEW c \in Nat, NEW d \in Nat, NEW e \in Nat, NEW f \in Nat,
              d <= a, e <= b, f <= c, d < a \/ e < b \/ f < c
      PROVE  0 <= d + e + f /\ d + e + f < a + b + c
  BY <1>3
<1>4. Remaining' = PlanSteps' + LoopSteps' + ChildSteps'
  BY DEF Remaining
<1>5. 0 <= PlanSteps' + LoopSteps' + ChildSteps' /\ PlanSteps' + LoopSteps' + ChildSteps' < PlanSteps + LoopSteps + ChildSteps
  BY <1>1, <1>2, <1>3
<1> QED
  BY <1>4, <1>5 DEF Shorter, Remaining

\* A step of assign_levels that goes on with the pass, or begins another one.
LEMMA PlanningShortens ==
  ASSUME Inv, LevelsBound, Inv', LevelsBound', PassOver \/ AssignLevel \/ (EndPass /\ pc' = "levels")
  PROVE  Shorter
<1>1. /\ N \in Nat \ {0} /\ TypeOK /\ TypeOK' /\ pc = "levels" /\ pc' = "levels"
      /\ UNCHANGED <<current, child>>
  BY NAssumption DEF Inv, PassOver, AssignLevel, EndPass, End, runVars
<1>2. LoopSteps' = LoopSteps /\ ChildSteps' = ChildSteps
  BY <1>1 DEF LoopSteps, LevelSteps, PerLevel, ChildSteps
<1>3. PassesLeft \in Nat /\ PassesLeft' \in Nat
  BY StepsCounted, StepsCountedNext DEF StepsAreNumbers
<1>4. LoopSteps \in Nat /\ ChildSteps \in Nat /\ PlanSteps \in Nat /\ PlanSteps' \in Nat
  BY StepsCounted, StepsCountedNext DEF StepsAreNumbers
<1>5. /\ PlanSteps = PassesLeft * (N + 2) + (N + 2 - at)
      /\ PlanSteps' = PassesLeft' * (N + 2) + (N + 2 - at')
      /\ N + 2 - at \in Nat \ {0} /\ N + 2 - at' \in Nat \ {0} /\ N + 2 - at' <= N + 1
  <2>1. at \in 1..N + 1 /\ at' \in 1..N + 1
    BY <1>1 DEF TypeOK
  <2>2. /\ PlanSteps = PassesLeft * (N + 2) + (N + 2 - at)
        /\ PlanSteps' = PassesLeft' * (N + 2) + (N + 2 - at')
    BY <1>1 DEF PlanSteps
  <2>3. \A n \in Nat : \A i \in 1..n + 1 : n + 2 - i \in Nat \ {0} /\ n + 2 - i <= n + 1
    OBVIOUS
  <2>4. N + 2 - at \in Nat \ {0} /\ N + 2 - at' \in Nat \ {0} /\ N + 2 - at' <= N + 1
    BY <1>1, <2>1, <2>3
  <2> QED
    BY <2>2, <2>4
<1>6. PlanSteps' < PlanSteps
  <2>1. CASE PassOver
    <3>1. PassesLeft' = PassesLeft /\ at' = at + 1
      BY <2>1 DEF PassOver, PassesLeft, Unplaced
    <3>2. PassesLeft * (N + 2) \in Nat /\ at \in Nat
      BY <1>1, <1>3 DEF TypeOK
    <3> QED
      BY <1>1, <1>5, <3>1, <3>2
  <2>2. CASE PassesLeft' < PassesLeft
    <3>1. /\ PassesLeft' * (N + 2) + (N + 2) <= PassesLeft * (N + 2)
          /\ PassesLeft' * (N + 2) \in Nat /\ PassesLeft * (N + 2) \in Nat
      <4> DEFINE k == N + 2
      <4>1. k \in Nat
        BY <1>1
      <4> HIDE DEF k
      <4>2. PassesLeft' * k + k <= PassesLeft * k /\ PassesLeft' * k \in Nat /\ PassesLeft * k \in Nat
        BY <1>3, <2>2, <4>1, RoundsShrink
      <4> QED
        BY <4>2 DEF k
    <3> DEFINE A == PassesLeft * (N + 2)
               B == PassesLeft' * (N + 2)
    <3>2. A \in Nat /\ B \in Nat /\ B + (N + 2) <= A /\ PlanSteps = A + (N + 2 - at) /\ PlanSteps' = B + (N + 2 - at')
      BY <1>5, <3>1
    <3> HIDE DEF A, B
    <3> QED
      BY <1>1, <1>5, <3>2
  <2>3. CASE AssignLevel
    <3>1. PICK l \in 0..N : level' = [level EXCEPT ![at] = l]
      BY <2>3 DEF AssignLevel
    <3>2. at \in Stages /\ level[at] < 0 /\ level \in [Stages -> -1..N] /\ progress' = TRUE
      BY <1>1, <2>3 DEF AssignLevel, TypeOK, Stages
    <3> DEFINE S == {s \in Stages : level[s] < 0}
    <3>3. {s \in Stages : level'[s] < 0} = S \ {at} /\ at \in S /\ S \subseteq Stages
      BY <3>1, <3>2
    <3>4. Unplaced' = Cardinality(S \ {at}) /\ Unplaced = Cardinality(S)
      BY <3>3 DEF Unplaced, Stages
    <3> HIDE DEF S
    <3>5. Unplaced' = Unplaced - 1
      BY <3>3, <3>4, OneLess
    <3>6. Unplaced \in Nat
      BY StepsCounted DEF StepsAreNumbers
    <3>7. PassesLeft' < PassesLeft
      BY <1>1, <3>2, <3>5, <3>6 DEF PassesLeft, TypeOK
    <3> QED
      BY <2>2, <3>7
  <2>4. CASE EndPass /\ pc' = "levels"
    <3>1. progress /\ ~progress' /\ level' = level
      BY <1>1, <2>4 DEF EndPass, End
    <3>2. Unplaced \in Nat /\ Unplaced' = Unplaced
      BY <3>1, StepsCounted, StepsCountedNext DEF Unplaced, Stages, StepsAreNumbers
    <3>3. PassesLeft' < PassesLeft
      BY <3>1, <3>2 DEF PassesLeft
    <3> QED
      BY <2>2, <3>3
  <2> QED
    BY <2>1, <2>3, <2>4
<1> QED
  BY <1>2, <1>4, <1>6, PartsShorten

\* A step that leaves assign_levels, or ends the run.
LEMMA EndingShortens ==
  ASSUME Inv, LevelsBound, Inv', LevelsBound', pc # "end", UNCHANGED child,
         \/ pc' = "end"
         \/ pc = "levels" /\ pc' = "plan" /\ UNCHANGED current
  PROVE  Shorter
<1>1. N \in Nat \ {0} /\ TypeOK
  BY NAssumption DEF Inv
<1>2. /\ PlanSteps \in Nat /\ LoopSteps \in Nat /\ ChildSteps \in Nat /\ PerLevel \in Nat \ {0}
      /\ LevelSteps \in Nat /\ PassesLeft \in Nat
  BY <1>1, StepsCounted DEF PerLevel, StepsAreNumbers
<1>3. ChildSteps' = ChildSteps
  BY DEF ChildSteps, Stages
<1>4. PlanSteps' = 0
  BY DEF PlanSteps
<1>5. CASE pc' = "end"
  <2>1. LoopSteps' = 0
    BY <1>2, <1>5 DEF LoopSteps, LevelSteps, PerLevel
  <2>2. LoopSteps > 0
    <3>1. 1 <= N + 2 - current /\ N + 2 - current \in Nat
      BY <1>1 DEF TypeOK, LevelsBound
    <3>2. 0 < N + 2 - current /\ 0 \in Nat
      BY <3>1
    <3> DEFINE r == N + 2 - current
    <3>3. r \in Nat /\ 0 < r
      BY <3>2, <3>1
    <3>4. LoopSteps = r * PerLevel + LevelSteps
      BY DEF LoopSteps
    <3> HIDE DEF r
    <3>5. 0 * PerLevel + PerLevel <= r * PerLevel /\ r * PerLevel \in Nat
      BY <1>2, <3>3, RoundsShrink
    <3> QED
      BY <1>2, <3>4, <3>5
  <2> QED
    BY <1>2, <1>3, <1>4, <2>1, <2>2, PartsShorten
<1>6. CASE pc = "levels" /\ pc' = "plan" /\ UNCHANGED current
  <2>1. LoopSteps' = LoopSteps
    BY <1>6 DEF LoopSteps, LevelSteps, PerLevel
  <2>2. PlanSteps > 0
    <3>1. PassesLeft * (N + 2) \in Nat /\ N + 2 - at \in Nat \ {0}
      BY <1>1, <1>2 DEF TypeOK
    <3> QED
      BY <1>6, <3>1 DEF PlanSteps
  <2> QED
    BY <1>2, <1>3, <1>4, <2>1, <2>2, PartsShorten
<1> QED
  BY <1>5, <1>6

\* A step of the loops; a child may be started.
LEMMA LoopingShortens ==
  ASSUME Inv, LevelsBound, Inv', LevelsBound', {pc, pc'} \cap {"levels", "end"} = {}, ChildSteps' <= ChildSteps,
         \/ UNCHANGED current /\ LevelSteps' < LevelSteps
         \/ current' = current + 1 /\ LevelSteps' < PerLevel
  PROVE  Shorter
<1>1. N \in Nat \ {0} /\ TypeOK /\ PerLevel' = PerLevel
  BY NAssumption DEF Inv, PerLevel
<1>2. /\ LoopSteps \in Nat /\ ChildSteps \in Nat /\ PerLevel \in Nat /\ LevelSteps \in Nat
  BY StepsCounted DEF StepsAreNumbers
<1>3. LevelSteps' \in Nat
  BY StepsCounted, StepsCountedNext DEF StepsAreNumbers
<1>4. PlanSteps' = 0 /\ PlanSteps = 0
  BY DEF PlanSteps
<1> DEFINE r == N + 2 - current
           q == N + 2 - current'
<1>5. /\ r \in Nat /\ q \in Nat /\ current \in Nat
      /\ current' = current => q = r
      /\ current' = current + 1 => q < r
  <2>1. current \in Nat /\ current' \in Nat /\ current <= N + 1 /\ current' <= N + 1
    BY <1>1 DEF TypeOK, LevelsBound, Inv
  <2>2. \A n, i, j \in Nat : i <= n + 1 /\ j <= n + 1 =>
          /\ n + 2 - i \in Nat /\ n + 2 - j \in Nat
          /\ j = i + 1 => n + 2 - j < n + 2 - i
    OBVIOUS
  <2> QED
    BY <1>1, <2>1, <2>2
<1>6. LoopSteps' = q * PerLevel + LevelSteps'
  BY <1>1 DEF LoopSteps
<1>7. LoopSteps = (IF pc = "end" THEN 0 ELSE r) * PerLevel + LevelSteps
  BY DEF LoopSteps
<1>8. pc # "end" /\ pc # "levels" /\ pc' # "levels" /\ pc' # "end"
  BY <1>3 DEF LevelSteps, Inv, TypeOK
<1> HIDE DEF r, q
<1>9. r * PerLevel \in Nat /\ q * PerLevel \in Nat /\ (q < r => q * PerLevel + PerLevel <= r * PerLevel)
  BY <1>2, <1>5, RoundsShrink
<1>10. LoopSteps' < LoopSteps
  <2>1. \A a, b, x, y, k \in Nat : (b = a /\ y < x) \/ (b + k <= a /\ y < k) => b + y < a + x
    OBVIOUS
  <2> DEFINE A == r * PerLevel
             B == q * PerLevel
  <2>2. A \in Nat /\ B \in Nat /\ LoopSteps = A + LevelSteps /\ LoopSteps' = B + LevelSteps'
    BY <1>6, <1>7, <1>8, <1>9
  <2>3. (B = A /\ LevelSteps' < LevelSteps) \/ (B + PerLevel <= A /\ LevelSteps' < PerLevel)
    BY <1>5, <1>9
  <2> HIDE DEF A, B
  <2>4. B + LevelSteps' < A + LevelSteps
    BY <1>2, <1>3, <2>1, <2>2, <2>3
  <2> QED
    BY <2>2, <2>4
<1>11. LoopSteps' \in Nat
  BY StepsCountedNext DEF StepsAreNumbers
<1>12. LoopSteps' <= LoopSteps /\ PlanSteps' <= PlanSteps
  <2>1. \A a, b \in Nat : a < b => a <= b
    OBVIOUS
  <2> QED
    BY <1>2, <1>4, <1>10, <1>11, <2>1
<1> QED
  BY <1>10, <1>12, PartsShorten

\* Nothing happens to the children.
LEMMA ChildrenRest ==
  ASSUME Inv, LevelsBound, UNCHANGED child
  PROVE  ChildSteps' <= ChildSteps
<1>1. ChildSteps' = ChildSteps /\ ChildSteps \in Nat
  BY StepsCounted DEF StepsAreNumbers, ChildSteps, Stages
<1> QED
  BY <1>1

\* A child is started, or ends.
LEMMA ChildShortens ==
  ASSUME Inv, NEW s \in Stages,
         \/ child[s] = "none" /\ child' = [child EXCEPT ![s] = "running"]
         \/ child[s] = "running" /\ \E how \in {"ok", "failed"} : child' = [child EXCEPT ![s] = how]
  PROVE  ChildSteps' < ChildSteps
<1> DEFINE A == {t \in Stages : child[t] = "none"}
           B == {t \in Stages : child[t] = "running"}
<1>1. child \in [Stages -> {"none", "running", "ok", "failed"}]
  BY DEF Inv, TypeOK
<1>2. A \subseteq Stages /\ B \subseteq Stages
  OBVIOUS
<1>3. ChildSteps = 2 * Cardinality(A) + Cardinality(B)
  BY DEF ChildSteps
<1>4. CASE child[s] = "none" /\ child' = [child EXCEPT ![s] = "running"]
  <2>1. /\ {t \in Stages : child'[t] = "none"} = A \ {s} /\ s \in A
        /\ {t \in Stages : child'[t] = "running"} = B \union {s} /\ s \notin B
    BY <1>1, <1>4
  <2>2. ChildSteps' = 2 * Cardinality(A \ {s}) + Cardinality(B \union {s})
    BY <2>1 DEF ChildSteps, Stages
  <2> HIDE DEF A, B
  <2>3. Cardinality(A \ {s}) = Cardinality(A) - 1 /\ Cardinality(A) \in Nat
    BY <1>2, <2>1, OneLess, StagesCounted
  <2>4. IsFiniteSet(B) /\ Cardinality(B) \in Nat
    BY <1>2, StagesCounted
  <2>5. Cardinality(B \union {s}) = Cardinality(B) + 1
    BY <2>1, <2>4, FS_AddElement
  <2> QED
    BY <1>3, <2>2, <2>3, <2>4, <2>5
<1>5. ASSUME NEW how \in {"ok", "failed"}, child[s] = "running", child' = [child EXCEPT ![s] = how]
      PROVE  ChildSteps' < ChildSteps
  <2>1. /\ {t \in Stages : child'[t] = "none"} = A
        /\ {t \in Stages : child'[t] = "running"} = B \ {s} /\ s \in B
    BY <1>1, <1>5
  <2>2. ChildSteps' = 2 * Cardinality(A) + Cardinality(B \ {s})
    BY <2>1 DEF ChildSteps, Stages
  <2> HIDE DEF A, B
  <2>3. Cardinality(B \ {s}) = Cardinality(B) - 1 /\ Cardinality(B) \in Nat /\ Cardinality(A) \in Nat
    BY <1>2, <2>1, OneLess, StagesCounted
  <2> QED
    BY <1>3, <2>2, <2>3
<1> QED
  BY <1>4, <1>5

\* One stage less to come to, in either loop of execute_level.
LEMMA TodoShortens ==
  ASSUME Inv, LevelsBound, Inv', LevelsBound', pc \in {"spawn", "wait"}, pc' = pc, UNCHANGED current,
         NEW s \in todo, todo' = todo \ {s}, ChildSteps' <= ChildSteps
  PROVE  Shorter
<1>1. todo \subseteq Stages /\ N \in Nat
  BY NAssumption DEF Inv, TypeOK
<1>2. Cardinality(todo') = Cardinality(todo) - 1 /\ Cardinality(todo) \in Nat
  BY <1>1, OneLess, StagesCounted
<1>3. LevelSteps' < LevelSteps
  BY <1>1, <1>2 DEF LevelSteps
<1> QED
  BY <1>3, LoopingShortens

LEMMA SpawnShortens ==
  ASSUME Inv, LevelsBound, Inv', LevelsBound', Spawn
  PROVE  Shorter
<1>1. PICK s \in todo :
        /\ pc = "spawn" /\ UNCHANGED current /\ todo' = todo \ {s}
        /\ \/ pc' = pc /\ UNCHANGED child
           \/ pc' = pc /\ child' = [child EXCEPT ![s] = "running"]
           \/ pc' = "end" /\ UNCHANGED child
  BY DEF Spawn, End
<1>2. CASE pc' = pc /\ UNCHANGED child
  BY <1>1, <1>2, ChildrenRest, TodoShortens
<1>3. CASE pc' = pc /\ child' = [child EXCEPT ![s] = "running"]
  <2>1. s \in Stages /\ child[s] = "none"
    BY <1>1 DEF Inv, TypeOK, LoopsInStep
  <2>2. ChildSteps' < ChildSteps
    BY <1>3, <2>1, ChildShortens
  <2>3. ChildSteps \in Nat /\ ChildSteps' \in Nat
    BY StepsCounted, StepsCountedNext DEF StepsAreNumbers
  <2>4. \A a, b \in Nat : a < b => a <= b
    OBVIOUS
  <2> QED
    BY <1>1, <1>3, <2>2, <2>3, <2>4, TodoShortens
<1>4. CASE pc' = "end" /\ UNCHANGED child
  BY <1>1, <1>4, EndingShortens
<1> QED
  BY <1>1, <1>2, <1>3, <1>4

LEMMA WaitShortens ==
  ASSUME Inv, LevelsBound, Inv', LevelsBound', Wait
  PROVE  Shorter
<1>1. PICK s \in todo :
        /\ pc = "wait" /\ UNCHANGED <<current, child>> /\ todo' = todo \ {s} /\ (pc' = pc \/ pc' = "end")
  BY DEF Wait, End
<1>2. CASE pc' = pc
  BY <1>1, <1>2, ChildrenRest, TodoShortens
<1>3. CASE pc' = "end"
  BY <1>1, <1>3, EndingShortens
<1> QED
  BY <1>1, <1>2, <1>3

\* The plan is begun, a level is entered, gone through once, and left.
LEMMA TurningShortens ==
  ASSUME Inv, LevelsBound, Inv', LevelsBound',
         (StartRun /\ pc' # "end") \/ EnterLevel \/ AllSpawned \/ LeaveLevel
  PROVE  Shorter
<1>1. N \in Nat \ {0} /\ \A S : S \subseteq Stages => Cardinality(S) \in Nat /\ Cardinality(S) <= N
  BY NAssumption, StagesCounted
<1>2. ChildSteps' <= ChildSteps
  BY ChildrenRest DEF StartRun, EnterLevel, AllSpawned, LeaveLevel, runVars
<1>3. CASE StartRun /\ pc' # "end"
  <2>1. pc = "plan" /\ pc' = "level" /\ UNCHANGED current
    BY <1>3 DEF StartRun, End, runVars
  <2>2. LevelSteps' < LevelSteps
    BY <1>1, <2>1 DEF LevelSteps, PerLevel
  <2> QED
    BY <1>2, <2>1, <2>2, LoopingShortens
<1>4. CASE EnterLevel
  <2>1. pc = "level" /\ pc' = "spawn" /\ UNCHANGED current
    BY <1>4 DEF EnterLevel
  <2>2. Cardinality(todo') \in Nat /\ Cardinality(todo') <= N
    BY <1>1, <1>4 DEF EnterLevel, OfLevel
  <2>3. LevelSteps' < LevelSteps
    BY <1>1, <2>1, <2>2 DEF LevelSteps, PerLevel
  <2> QED
    BY <1>2, <2>1, <2>3, LoopingShortens
<1>5. CASE AllSpawned
  <2>1. pc = "spawn" /\ pc' = "wait" /\ UNCHANGED current /\ todo \subseteq Stages
    BY <1>5 DEF AllSpawned, Inv, TypeOK
  <2>2. Cardinality(todo') \in Nat /\ Cardinality(todo') <= N /\ Cardinality(todo) \in Nat
    BY <1>1, <1>5, <2>1 DEF AllSpawned, OfLevel
  <2>3. LevelSteps' < LevelSteps
    BY <1>1, <2>1, <2>2 DEF LevelSteps
  <2> QED
    BY <1>2, <2>1, <2>3, LoopingShortens
<1>6. CASE LeaveLevel
  <2>1. pc = "wait" /\ pc' = "level" /\ current' = current + 1
    BY <1>6 DEF LeaveLevel
  <2>2. LevelSteps' < PerLevel
    BY <1>1, <2>1 DEF LevelSteps, PerLevel
  <2> QED
    BY <1>2, <2>1, <2>2, LoopingShortens
<1> QED
  BY <1>3, <1>4, <1>5, <1>6

LEMMA ChildEndShortens ==
  ASSUME Inv, LevelsBound, Inv', LevelsBound', NEW s \in Stages, ChildEnds(s)
  PROVE  Shorter
<1>1. ChildSteps' < ChildSteps
  BY ChildShortens DEF ChildEnds
<1>2. PlanSteps' = PlanSteps /\ LoopSteps' = LoopSteps
  <2>1. UNCHANGED <<pc, level, progress, at, current, todo>>
    BY DEF ChildEnds, planVars
  <2> QED
    BY <2>1 DEF PlanSteps, PassesLeft, Unplaced, LoopSteps, LevelSteps, PerLevel, Stages
<1>3. PlanSteps \in Nat /\ LoopSteps \in Nat /\ ChildSteps \in Nat /\ ChildSteps' \in Nat
  BY StepsCounted, StepsCountedNext DEF StepsAreNumbers
<1>4. PlanSteps' <= PlanSteps /\ LoopSteps' <= LoopSteps /\ ChildSteps' <= ChildSteps
  <2>1. \A a, b \in Nat : a < b => a <= b
    OBVIOUS
  <2> QED
    BY <1>1, <1>2, <1>3, <2>1
<1> QED
  BY <1>1, <1>4, PartsShorten

\* No recipe keeps akai-run going for ever, whatever its stages do: of each run
\* there is a number of steps that it cannot exceed (RunShortens).
THEOREM RunsShorten == Spec => RunShortens
<1>1. Init => LevelsBound
  BY NAssumption DEF Init, LevelsBound
<1>2. Inv /\ LevelsBound /\ Inv' /\ LevelsBound' /\ [Next]_vars => [Shorter]_vars
  <2> SUFFICES ASSUME Inv, LevelsBound, Inv', LevelsBound', Next PROVE Shorter
    OBVIOUS
  <2>1. CASE PassOver \/ AssignLevel \/ (EndPass /\ pc' = "levels")
    BY <2>1, PlanningShortens
  <2>2. CASE RefuseUnknown \/ (EndPass /\ pc' # "levels") \/ (StartRun /\ pc' = "end") \/ Complete
    <3>1. /\ pc # "end" /\ UNCHANGED child
          /\ pc' = "end" \/ (pc = "levels" /\ pc' = "plan" /\ UNCHANGED current)
      BY <2>2 DEF RefuseUnknown, EndPass, StartRun, Complete, End, runVars
    <3> QED
      BY <3>1, EndingShortens
  <2>3. CASE (StartRun /\ pc' # "end") \/ EnterLevel \/ AllSpawned \/ LeaveLevel
    BY <2>3, TurningShortens
  <2>4. CASE Spawn \/ Wait
    BY <2>4, SpawnShortens, WaitShortens
  <2>5. ASSUME NEW s \in Stages, ChildEnds(s) PROVE Shorter
    BY <2>5, ChildEndShortens
  <2>6. CASE WaitFails
    <3>1. pc # "end" /\ UNCHANGED child /\ pc' = "end"
      BY <2>6 DEF WaitFails, End, runVars
    <3> QED
      BY <3>1, EndingShortens
  <2> QED
    BY <2>1, <2>2, <2>3, <2>4, <2>5, <2>6 DEF Next, Executor
<1>3. [Shorter]_vars => [0 <= Remaining' /\ Remaining' < Remaining]_vars
  BY DEF Shorter
<1> QED
  BY <1>1, <1>2, <1>3, LevelsBoundStep, Invariance, PTL DEF Spec, RunShortens
=============================================================================
