----------------------------- MODULE StageGraph -----------------------------
(* What akai-run promises of the stages of a recipe, whatever the order in    *)
(* which it comes to them: a stage waits for those it depends on, is then run *)
(* or skipped, and the first that fails decides the run. There are no levels  *)
(* here, and no loops.                                                        *)

CONSTANT Stages

VARIABLES
  dependsOn,  \* the stages a stage must come after
  optional,   \* the stages that lack an input
  life,       \* what has become of a stage
  verdict     \* what is said of the run

Init ==
  /\ dependsOn \in [Stages -> SUBSET Stages]
  /\ optional \in SUBSET Stages
  /\ life = [s \in Stages |-> "waiting"]
  /\ verdict = "none"

Becomes(s, from, to) == life[s] = from /\ life' = [life EXCEPT ![s] = to]

\* Every stage that s depends on has succeeded.
Enabled(s) == \A d \in dependsOn[s] : life[d] = "ok"

Start(s) ==
  /\ s \notin optional
  /\ Enabled(s)
  /\ Becomes(s, "waiting", "running")
  /\ verdict' = verdict

\* Those it depends on are over, and one of them was skipped too.
Skip(s) ==
  /\ \A d \in dependsOn[s] : life[d] \in {"ok", "skipped"}
  /\ s \in optional \/ \E d \in dependsOn[s] : life[d] = "skipped"
  /\ Becomes(s, "waiting", "skipped")
  /\ verdict' = verdict

Succeed(s) ==
  /\ Becomes(s, "running", "ok")
  /\ verdict' = verdict

\* A stage fails, or cannot be started: the run has failed with it.
Fail(s) ==
  /\ \/ Becomes(s, "running", "failed")
     \/ s \notin optional /\ Enabled(s) /\ Becomes(s, "waiting", "failed")
  /\ verdict' = "failed"

\* What became of a stage cannot be learned: the run counts as failed.
GiveUp ==
  /\ \E s \in Stages : life[s] = "running"
  /\ verdict' = "failed"
  /\ life' = life

\* Nothing was done.
Decline ==
  /\ \A s \in Stages : life[s] = "waiting"
  /\ verdict' \in {"refused", "planned"}
  /\ life' = life

Finish ==
  /\ \A s \in Stages : life[s] \in {"ok", "skipped"}
  /\ verdict' = "success"
  /\ life' = life

\* Once there is a verdict nothing is started, skipped or waited for.
Next ==
  /\ verdict = "none"
  /\ \/ \E s \in Stages : Start(s) \/ Skip(s) \/ Succeed(s) \/ Fail(s)
     \/ GiveUp \/ Decline \/ Finish
  /\ UNCHANGED <<dependsOn, optional>>

Spec == Init /\ [][Next]_<<dependsOn, optional, life, verdict>>
=============================================================================
