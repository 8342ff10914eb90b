--------------------------- MODULE OnboardingRun ---------------------------
(***************************************************************************)
(* The onboarding runs of src/src/onboarding: a run is a JSON file that    *)
(* names its thirteen stages and their status; the gateway process starts, *)
(* executes and retries runs, and the one that starts after a crash marks  *)
(* the runs it finds `running' as failed.  The draft the user edits is one *)
(* file with a revision; the last stage commits it as the configuration.   *)
(*                                                                         *)
(* A run is saved whole after every change and each save is a step here,   *)
(* so a process may be killed between any two of them.  startRun hands the *)
(* run to a microtask and retry executes it at once: no other request runs *)
(* between the two, which is what `queued' says.                           *)
(***************************************************************************)
EXTENDS Naturals, Sequences

CONSTANTS Runs,         \* run ids that can be created
          Skips,        \* the sets of stages a plan may skip
          Pipelines,    \* the sequences of reports a pass of the pipeline may make
          MaxDrafts,    \* bound on the saves of the draft
          MaxCrashes    \* bound on the kills of the process

ASSUME BoundsAssumption == MaxDrafts \in Nat /\ MaxCrashes \in Nat

VARIABLES
    draft,    \* revision of the draft file, 0 when there is none
    config,   \* revision the configuration was committed from, 0 for the old one
    passed,   \* for each revision, the checks it has passed (history)
    file,     \* the run files
    exec,     \* the executions in memory
    queued,   \* the run that is executed next in the same turn of the event loop
    fresh,    \* runs whose updatedAt is the present millisecond
    up, crashes

vars == <<draft, config, passed, file, exec, queued, fresh, up, crashes>>

NoRun == "no_run"
ASSUME NoRunAssumption == NoRun \notin Runs
NoFile == [status |-> "none"]
NoStage == "no_stage"

----------------------------------------------------------------------------
\* Stages of a run, in the order of the plan.

Single == {"validate_draft", "test_providers", "prepare_workspace",
           "health_check", "commit_config"}

Sources == {"ingest_sources", "extract_sources", "normalize_sources",
            "slice_sources", "audit_slices", "publish_approved"}

Knowledge == Sources \cup {"build_keyword_index", "build_vector_index"}

Stage == Single \cup Knowledge

\* The eight knowledge stages in order.
KnowledgeOrder ==
    <<"ingest_sources", "extract_sources", "normalize_sources", "slice_sources",
      "audit_slices", "publish_approved", "build_keyword_index",
      "build_vector_index">>

\* Variant: the configuration is committed before the last check.
OrderCommitFirst == <<"validate_draft", "test_providers", "prepare_workspace">>
                    \o KnowledgeOrder \o <<"commit_config", "health_check">>

Order == <<"validate_draft", "test_providers", "prepare_workspace",
           "ingest_sources", "extract_sources", "normalize_sources", "slice_sources",
           "audit_slices", "publish_approved", "build_keyword_index",
           "build_vector_index", "health_check", "commit_config">>

Place == [s \in Stage |-> CHOOSE i \in 1 .. 13 : Order[i] = s]

StageStatus == {"pending", "running", "completed", "skipped", "failed"}

Run == [status : {"pending", "running", "failed", "completed"},
        stage : [Stage -> StageStatus],
        action : [Stage -> {"run", "skip"}],
        current : Stage \cup {NoStage},
        retryable : Stage \cup {NoStage}]

\* What a plan may skip: the stages of the sources when it found no file, that of the
\* vectors when they are off or compatible.  The other stages always run.
Skippable == {{}, Sources, {"build_vector_index"},
              Sources \cup {"build_vector_index"}}

ASSUME SkipsAssumption == Skips \subseteq Skippable

Plans == {[s \in Stage |-> IF s \in skipped THEN "skip" ELSE "run"] :
              skipped \in Skips}

NewRun(plan) == [status |-> "pending", stage |-> [s \in Stage |-> "pending"],
                 action |-> plan, current |-> NoStage, retryable |-> NoStage]

\* Variant: whatever was begun is passed over.
SettledOrBegun(status) == status # "pending"

\* What the loop of `execute' passes over.
Settled(status) == status \in {"completed", "skipped"}

\* The loop of `execute' is at s.
IsNext(run, s) ==
    /\ ~Settled(run.stage[s])
    /\ \A t \in Stage : Place[t] < Place[s] => Settled(run.stage[t])

AllSettled(run) == \A s \in Stage : Settled(run.stage[s])

\* startStage, completeStage and skipStage, and a report of the pipeline.
At(run, s, status) == [run EXCEPT !.stage[s] = status, !.current = s]

\* A knowledge stage or a stage the plan skips, at its end.
Close(run, s) ==
    At(run, s, IF run.action[s] = "skip" THEN "skipped" ELSE "completed")

\* retry: the stages from the retryable one on are done again; without one, all.
ResetFrom(run) ==
    [run EXCEPT
        !.status = "pending", !.current = NoStage, !.retryable = NoStage,
        !.stage = [s \in Stage |->
            IF run.retryable # NoStage /\ Place[s] < Place[run.retryable]
            THEN run.stage[s] ELSE "pending"]]

\* failRun, given the run as `execute' holds it.  Before its first stage is done a
\* run has no current stage and no running one either: nothing is marked then, and
\* the retry begins at the first stage.
Failed(run) ==
    [run EXCEPT
        !.status = "failed", !.retryable = run.current,
        !.stage = [s \in Stage |-> IF s = run.current THEN "failed"
                                   ELSE run.stage[s]]]

\* recoverInterrupted: the stages keep their status.
Interrupted(run) == [run EXCEPT !.status = "failed", !.retryable = run.current]

\* The reports one pass of the knowledge pipeline makes after ingest_sources, which
\* is already the current stage: per changed source, then in this order; the
\* vector stage is reported while vectors are built or, without them, at the end.
Reports ==
    {sources \o <<"audit_slices", "publish_approved">> \o indexes :
        sources \in {<<>>, <<"extract_sources", "normalize_sources", "slice_sources">>},
        indexes \in {<<"build_vector_index", "build_keyword_index">>,
                     <<"build_keyword_index">>,
                     <<"build_keyword_index", "build_vector_index">>}}

ASSUME PipelinesAssumption == Pipelines \subseteq Reports

----------------------------------------------------------------------------
\* An execution: the draft it loaded, the run as `execute' holds it (`base'; the
\* file may be ahead of it), what it is doing, and what is left of a list: the
\* reports of the pipeline, or the knowledge stages to close.

Phases == {"loop", "operation", "reload", "pipeline", "close"}

NoExec == [phase |-> "none"]

Loop(d, run) == [phase |-> "loop", draft |-> d, base |-> run, left |-> <<>>]

Exists(r) == file[r] # NoFile
Active == {r \in Runs : Exists(r) /\ file[r].status \in {"pending", "running"}}

\* findActive: the first active run by updatedAt, newest first; within one
\* millisecond any of them.
FindActive == IF Active \cap fresh = {} THEN Active ELSE Active \cap fresh

Save(r, run) == /\ file' = [file EXCEPT ![r] = run]
                /\ fresh' = fresh \cup {r}

Idle == up /\ queued = NoRun

Init ==
    /\ draft = 0 /\ config = 0
    /\ passed = [d \in 1 .. MaxDrafts |-> {}]
    /\ file = [r \in Runs |-> NoFile]
    /\ exec = [r \in Runs |-> NoExec]
    /\ queued = NoRun /\ fresh = {}
    /\ up = TRUE /\ crashes = 0

----------------------------------------------------------------------------
\* Requests of the gateway.

\* PUT /api/onboarding/draft: allowed at any time, also while a run is active.
SaveDraft ==
    /\ Idle /\ draft < MaxDrafts
    /\ draft' = draft + 1
    /\ UNCHANGED <<config, passed, file, exec, queued, fresh, up, crashes>>

\* POST /api/onboarding/runs.
StartRun(r) ==
    /\ Idle /\ draft # 0 /\ ~Exists(r)
    /\ Active = {}
    /\ \E plan \in Plans : Save(r, NewRun(plan))
    /\ queued' = r
    /\ UNCHANGED <<draft, config, passed, exec, up, crashes>>

\* POST /api/onboarding/runs/<id>/retry.
Retry(r) ==
    /\ Idle /\ Exists(r) /\ file[r].status = "failed"
    /\ Save(r, ResetFrom(file[r]))
    /\ queued' = r
    /\ UNCHANGED <<draft, config, passed, exec, up, crashes>>

\* The refresh after a review writes the counters of the latest run; all that
\* shows here is the new updatedAt.
ReviewRefresh ==
    /\ Idle
    /\ \E r \in Runs :
         /\ Exists(r) /\ (fresh = {} \/ r \in fresh)
         /\ fresh' = fresh \cup {r}
    /\ UNCHANGED <<draft, config, passed, file, exec, queued, up, crashes>>

----------------------------------------------------------------------------
\* `execute'.

\* Up to the first await.  It throws when it finds another active run, which
\* leaves the run as it was saved.
Execute(r) ==
    /\ queued = r
    /\ queued' = NoRun
    /\ \E found \in FindActive :
         IF found # r THEN UNCHANGED <<file, exec, fresh>>
         ELSE LET run == [file[r] EXCEPT !.status = "running",
                                         !.retryable = NoStage]
              IN /\ Save(r, run)
                 /\ exec' = [exec EXCEPT ![r] = Loop(draft, run)]
    /\ UNCHANGED <<draft, config, passed, up, crashes>>

In(r, phase) == Idle /\ exec[r].phase = phase

\* The execution goes on with the saved run, or is over.
Continue(r, run) == /\ Save(r, run)
                    /\ exec' = [exec EXCEPT ![r] = Loop(exec[r].draft, run)]
\* Variant: the end of an execution is not saved.
StopUnsaved(r, run) == /\ exec' = [exec EXCEPT ![r] = NoExec]
                       /\ UNCHANGED <<file, fresh>>

Stop(r, run) == /\ Save(r, run)
                /\ exec' = [exec EXCEPT ![r] = NoExec]

Skip(r) ==
    /\ In(r, "loop")
    /\ \E s \in Stage : /\ IsNext(exec[r].base, s)
                        /\ exec[r].base.action[s] = "skip"
                        /\ Continue(r, Close(exec[r].base, s))
    /\ UNCHANGED <<draft, config, passed, queued, up, crashes>>

\* executeSingleStage keeps the started stage to itself: `base' stays.
StartSingle(r) ==
    /\ In(r, "loop")
    /\ \E s \in Single :
         /\ IsNext(exec[r].base, s) /\ exec[r].base.action[s] = "run"
         /\ Save(r, At(exec[r].base, s, "running"))
         /\ exec' = [exec EXCEPT ![r].phase = "operation"]
    /\ UNCHANGED <<draft, config, passed, queued, up, crashes>>

\* Whichever knowledge stage is next, the pipeline runs from ingest_sources on.
StartKnowledge(r) ==
    /\ In(r, "loop")
    /\ \E s \in Knowledge : IsNext(exec[r].base, s) /\ exec[r].base.action[s] = "run"
    /\ LET run == At(exec[r].base, "ingest_sources", "running") IN
         /\ Save(r, run)
         /\ \E reports \in Pipelines :
              exec' = [exec EXCEPT ![r].phase = "pipeline", ![r].base = run,
                                   ![r].left = reports]
    /\ UNCHANGED <<draft, config, passed, queued, up, crashes>>

\* Variant: an answer { ok: false } is taken for a success.
AcceptsAnyAnswer(s, answer) == answer # "throws"

\* assertOk stands behind the provider tests and the health check only; the other
\* operations throw or succeed.
Accepts(s, answer) ==
    /\ answer # "throws"
    /\ s \in {"test_providers", "health_check"} => answer # "not_ok"

\* What a stage may answer.
Answers(s) ==
    IF s \in {"test_providers", "health_check"} THEN {"ok", "not_ok", "throws"}
    ELSE {"ok", "throws"}

\* The operation of the current stage ends well.
StageDone(r) ==
    LET s == file[r].current IN
    /\ In(r, "operation") /\ s # "commit_config"
    /\ \E answer \in Answers(s) :
         /\ Accepts(s, answer)
         /\ passed' = IF answer = "ok"
                      THEN [passed EXCEPT ![exec[r].draft] = @ \cup {s}]
                      ELSE passed
    /\ Continue(r, At(file[r], s, "completed"))
    /\ UNCHANGED <<draft, config, queued, up, crashes>>

\* commitConfig writes the draft the execution loaded over the configuration; the
\* gateway is reloaded then.
Commit(r) ==
    /\ In(r, "operation") /\ file[r].current = "commit_config"
    /\ config' = exec[r].draft
    /\ exec' = [exec EXCEPT ![r].phase = "reload"]
    /\ UNCHANGED <<draft, passed, file, queued, fresh, up, crashes>>

Reloaded(r) ==
    /\ In(r, "reload")
    /\ Continue(r, At(file[r], "commit_config", "completed"))
    /\ UNCHANGED <<draft, config, passed, queued, up, crashes>>

\* A report of the pipeline.
Report(r) ==
    /\ In(r, "pipeline") /\ exec[r].left # <<>>
    /\ Save(r, At(file[r], Head(exec[r].left), "running"))
    /\ exec' = [exec EXCEPT ![r].left = Tail(@)]
    /\ UNCHANGED <<draft, config, passed, queued, up, crashes>>

\* runKnowledge returns: the stages are closed one by one.
PipelineDone(r) ==
    /\ In(r, "pipeline") /\ exec[r].left = <<>>
    /\ exec' = [exec EXCEPT ![r].phase = "close", ![r].left = KnowledgeOrder]
    /\ UNCHANGED <<draft, config, passed, file, queued, fresh, up, crashes>>

CloseStage(r) ==
    LET run == Close(file[r], Head(exec[r].left)) IN
    /\ In(r, "close")
    /\ Save(r, run)
    /\ exec' = [exec EXCEPT
                  ![r] = IF Len(exec[r].left) = 1 THEN Loop(exec[r].draft, run)
                         ELSE [exec[r] EXCEPT !.left = Tail(@)]]
    /\ UNCHANGED <<draft, config, passed, queued, up, crashes>>

\* What an operation answers or throws ends the execution.
Fail(r) ==
    /\ \/ /\ In(r, "operation")
          /\ \E answer \in Answers(file[r].current) :
               ~Accepts(file[r].current, answer)
       \/ In(r, "reload")
       \/ In(r, "pipeline")
    /\ Stop(r, Failed(exec[r].base))
    /\ UNCHANGED <<draft, config, passed, queued, up, crashes>>

Complete(r) ==
    /\ In(r, "loop") /\ AllSettled(exec[r].base)
    /\ Stop(r, [exec[r].base EXCEPT !.status = "completed", !.current = NoStage])
    /\ UNCHANGED <<draft, config, passed, queued, up, crashes>>

----------------------------------------------------------------------------
\* Time and the process.

\* The next save gets a later updatedAt.
Tick ==
    /\ Idle /\ fresh # {}
    /\ fresh' = {}
    /\ UNCHANGED <<draft, config, passed, file, exec, queued, up, crashes>>

Crash ==
    /\ up /\ crashes < MaxCrashes
    /\ up' = FALSE /\ crashes' = crashes + 1
    /\ exec' = [r \in Runs |-> NoExec]
    /\ queued' = NoRun /\ fresh' = {}
    /\ UNCHANGED <<draft, config, passed, file>>

\* Variant: a run without a current stage is left alone.
InheritedInAStage == {r \in Runs : /\ Exists(r) /\ file[r].status = "running"
                                  /\ file[r].current # NoStage}

\* The runs recoverInterrupted treats.
Inherited == {r \in Runs : Exists(r) /\ file[r].status = "running"}

\* startServer: recoverInterrupted before it listens.
Restart ==
    /\ ~up
    /\ up' = TRUE
    /\ file' = [r \in Runs |-> IF r \in Inherited THEN Interrupted(file[r])
                               ELSE file[r]]
    /\ fresh' = Inherited
    /\ UNCHANGED <<draft, config, passed, exec, queued, crashes>>

----------------------------------------------------------------------------

Runner(r) ==
    \/ Skip(r) \/ StartSingle(r) \/ StartKnowledge(r) \/ StageDone(r)
    \/ Commit(r) \/ Reloaded(r) \/ Report(r) \/ PipelineDone(r) \/ CloseStage(r)
    \/ Fail(r) \/ Complete(r)

Next ==
    \/ SaveDraft \/ ReviewRefresh \/ Tick \/ Crash \/ Restart
    \/ \E r \in Runs : StartRun(r) \/ Retry(r) \/ Execute(r) \/ Runner(r)

Spec == Init /\ [][Next]_vars

\* Every operation of a stage ends (the provider calls have timeouts), and its
\* continuation has its turn although requests are served in between (strong: a
\* queued run holds the event loop for a moment); a dead process is started again.
Fairness ==
    /\ \A r \in Runs : WF_vars(Execute(r)) /\ SF_vars(Runner(r))
    /\ WF_vars(Restart)

FairSpec == Spec /\ Fairness

----------------------------------------------------------------------------
\* Properties.

TypeOK ==
    /\ draft \in 0 .. MaxDrafts
    /\ config \in 0 .. MaxDrafts
    /\ passed \in [1 .. MaxDrafts -> SUBSET Stage]
    /\ file \in [Runs -> Run \cup {NoFile}]
    /\ exec \in [Runs -> {NoExec} \cup
                   [phase : Phases, draft : 1 .. MaxDrafts, base : Run,
                    left : Seq(Knowledge)]]
    /\ queued \in Runs \cup {NoRun}
    /\ fresh \in SUBSET Runs
    /\ up \in BOOLEAN
    /\ crashes \in 0 .. MaxCrashes

\* A run is `running' in its file only while the serving process executes it: a
\* kill never leaves a running run that nobody works on.  (It may leave a pending
\* one, see ActiveRunIsExecuted.)
RunningRunIsExecuted ==
    up => \A r \in Runs : Exists(r) /\ file[r].status = "running" => exec[r] # NoExec

\* A run that is reported completed did every stage of its plan, through any mix
\* of failures, retries and kills, and skipped exactly what the plan skips.
CompletedRunIsWhole ==
    \A r \in Runs : Exists(r) /\ file[r].status = "completed" =>
        \A s \in Stage : file[r].stage[s] =
            IF file[r].action[s] = "skip" THEN "skipped" ELSE "completed"

\* The configuration changes in the last stage only, when every other stage of the
\* run that commits it is settled, whichever kills and retries came before.
ConfigIsCommittedLast ==
    [][config' # config =>
         \E r \in Runs :
            /\ Exists(r) /\ file[r].stage["commit_config"] = "running"
            /\ \A s \in Stage \ {"commit_config"} : Settled(file[r].stage[s])]_vars

\* The checks that guard a commit.
Checks == {"validate_draft", "test_providers", "health_check"}

\* No path of failures, retries and kills comes to the commit around a check: each
\* one was passed, by the committed revision of the draft or by an earlier one.
\* (That it was the committed one is CommittedDraftPassed, which is not so.)
CommitFollowsChecks ==
    config # 0 => \A s \in Checks : \E d \in 1 .. config : s \in passed[d]

\* A run that began to execute ends, whatever fails or kills it.
RunningRunSettles ==
    \A r \in Runs : (Exists(r) /\ file[r].status = "running") ~>
                    (file[r].status \in {"completed", "failed"})

\* The four below do not hold (README, section 4), though the design has them
\* (docs/archive/superpowers/specs/2026-06-15-dashboard-onboarding-design.md).

\* Line 515: one run is active at a time.
OneActiveRun == \A r, q \in Active : r = q

\* Line 558: a run that cannot be resumed is marked failed.  Otherwise it is active
\* and nobody works on it: it cannot be retried, and no other run can start.
ActiveRunIsExecuted == up => \A r \in Active : exec[r] # NoExec \/ queued = r

\* Lines 550, 684: runs that fail leave the old configuration.
FailedRunsLeaveConfig ==
    (\A r \in Runs : Exists(r) => file[r].status = "failed") => config = 0

\* Lines 528-536: the draft that is committed passed all the checks.
CommittedDraftPassed == config # 0 => \A s \in Checks : s \in passed[config]

============================================================================
