------------------------ MODULE OnboardingRunProofs ------------------------
(***************************************************************************)
(* Theorems about OnboardingRun, for any number of runs, drafts and kills, *)
(* every plan and every order in which the pipeline reports its stages.    *)
(***************************************************************************)
EXTENDS OnboardingRun, SequenceTheorems, TLAPS

ExecType == [phase : Phases, draft : 1 .. MaxDrafts, base : Run,
             left : Seq(Knowledge)]

\* A stage is completed only if the plan runs it, and skipped only if it does not.
SettledOK(run) ==
    \A s \in Stage : /\ run.stage[s] = "completed" => run.action[s] = "run"
                     /\ run.stage[s] = "skipped" => run.action[s] = "skip"

\* The file says that the stage at which the execution is runs.
InStage(base, run) ==
    \E s \in Single : /\ IsNext(base, s) /\ base.action[s] = "run"
                      /\ run = At(base, s, "running")

ExecGood(e, run) ==
    /\ e.base.status = "running" /\ SettledOK(e.base)
    /\ e.phase \in {"operation", "reload"} => InStage(e.base, run)
    /\ e.phase = "reload" => run.current = "commit_config"
    /\ e.phase = "close" => e.left # <<>>

\* A run that is executed is `running' in its file.
ExecOK ==
    \A r \in Runs : exec[r] # NoExec =>
        /\ up /\ Exists(r) /\ file[r].status = "running"
        /\ ExecGood(exec[r], file[r])

FileOK ==
    \A r \in Runs : Exists(r) =>
        /\ SettledOK(file[r]) /\ draft # 0
        /\ file[r].status = "completed" => AllSettled(file[r])

QueueOK == queued # NoRun => up /\ Exists(queued) /\ file[queued].status = "pending"

Inv == TypeOK /\ FileOK /\ ExecOK /\ QueueOK /\ RunningRunIsExecuted

----------------------------------------------------------------------------
\* Stages and runs.

LEMMA RunsExist ==
  /\ \A run \in Run : run # NoFile
  /\ \A e \in ExecType : e # NoExec
<1>1. \A run \in Run : run.status # NoFile.status
  BY DEF Run, NoFile
<1>2. \A e \in ExecType : e.phase # NoExec.phase
  BY DEF ExecType, NoExec, Phases
<1> QED BY <1>1, <1>2

\* What TypeOK says of one run and one execution.
LEMMA RunTypes ==
  ASSUME TypeOK, NEW r \in Runs
  PROVE  /\ Exists(r) => file[r] \in Run
         /\ exec[r] # NoExec => exec[r] \in ExecType
  BY DEF TypeOK, Exists, ExecType

LEMMA AtRun ==
  ASSUME NEW run \in Run, NEW s \in Stage, NEW status \in StageStatus
  PROVE  /\ At(run, s, status) \in Run
         /\ At(run, s, status).status = run.status
         /\ At(run, s, status).action = run.action
         /\ At(run, s, status).current = s
         /\ At(run, s, status).stage = [run.stage EXCEPT ![s] = status]
  BY DEF At, Run

LEMMA SettledAt ==
  ASSUME NEW run \in Run, NEW s \in Stage, NEW status \in StageStatus, SettledOK(run),
         status = "completed" => run.action[s] = "run",
         status = "skipped" => run.action[s] = "skip"
  PROVE  SettledOK(At(run, s, status))
<1>1. run.stage \in [Stage -> StageStatus]
  BY DEF Run
<1>2. /\ At(run, s, status).action = run.action
      /\ At(run, s, status).stage = [run.stage EXCEPT ![s] = status]
  BY AtRun
<1>3. \A t \in Stage : At(run, s, status).stage[t] = IF t = s THEN status ELSE run.stage[t]
  BY <1>1, <1>2
<1> QED BY <1>2, <1>3 DEF SettledOK

LEMMA CloseRun ==
  ASSUME NEW run \in Run, NEW s \in Stage, SettledOK(run), run.status = "running"
  PROVE  /\ Close(run, s) \in Run /\ Close(run, s).status = "running"
         /\ SettledOK(Close(run, s))
<1>1. run.action[s] \in {"run", "skip"}
  BY DEF Run
<1> QED BY <1>1, AtRun, SettledAt DEF Close, StageStatus

LEMMA StageSets ==
  /\ Single \subseteq Stage /\ Knowledge \subseteq Stage
  /\ "ingest_sources" \in Knowledge /\ "commit_config" \in Single
  BY DEF Single, Knowledge, Sources, Stage

\* The commit is the last stage of the plan.
LEMMA CommitIsLast ==
  \A s \in Stage \ {"commit_config"} : Place[s] < Place["commit_config"]
<1>1. \A s \in Stage : \E i \in 1 .. 13 : Order[i] = s
  <2>1. /\ Order[1] = "validate_draft" /\ Order[2] = "test_providers"
        /\ Order[3] = "prepare_workspace" /\ Order[4] = "ingest_sources"
        /\ Order[5] = "extract_sources" /\ Order[6] = "normalize_sources"
        /\ Order[7] = "slice_sources" /\ Order[8] = "audit_slices"
        /\ Order[9] = "publish_approved" /\ Order[10] = "build_keyword_index"
        /\ Order[11] = "build_vector_index" /\ Order[12] = "health_check"
        /\ Order[13] = "commit_config"
    BY DEF Order
  <2> QED BY <2>1 DEF Stage, Single, Knowledge, Sources
<1>2. \A s \in Stage : Place[s] \in 1 .. 13 /\ Order[Place[s]] = s
  BY <1>1 DEF Place
<1>3. \A i \in 1 .. 13 : Order[i] = "commit_config" <=> i = 13
  BY DEF Order
<1> QED BY <1>2, <1>3, StageSets

\* The reports of the pipeline and the stages to close are knowledge stages.
LEMMA ReportTypes ==
  /\ \A reports \in Pipelines : reports \in Seq(Knowledge)
  /\ KnowledgeOrder \in Seq(Knowledge) /\ KnowledgeOrder # <<>>
<1>1. /\ <<>> \in Seq(Knowledge)
      /\ <<"extract_sources", "normalize_sources", "slice_sources">> \in Seq(Knowledge)
      /\ <<"audit_slices", "publish_approved">> \in Seq(Knowledge)
      /\ <<"build_vector_index", "build_keyword_index">> \in Seq(Knowledge)
      /\ <<"build_keyword_index">> \in Seq(Knowledge)
      /\ <<"build_keyword_index", "build_vector_index">> \in Seq(Knowledge)
  BY DEF Knowledge, Sources
<1>2. \A a, b, c \in Seq(Knowledge) : a \o b \o c \in Seq(Knowledge)
  BY ConcatProperties
<1>3. ASSUME NEW reports \in Reports PROVE reports \in Seq(Knowledge)
  <2>1. PICK sources \in {<<>>, <<"extract_sources", "normalize_sources", "slice_sources">>},
             indexes \in {<<"build_vector_index", "build_keyword_index">>,
                          <<"build_keyword_index">>,
                          <<"build_keyword_index", "build_vector_index">>} :
          reports = sources \o <<"audit_slices", "publish_approved">> \o indexes
    BY DEF Reports
  <2>2. sources \in Seq(Knowledge) /\ indexes \in Seq(Knowledge)
    BY <1>1
  <2> HIDE DEF Knowledge
  <2> QED BY <2>1, <2>2, <1>1, <1>2, Zenon
<1>4. KnowledgeOrder \in Seq(Knowledge) /\ KnowledgeOrder # <<>>
  BY DEF KnowledgeOrder, Knowledge, Sources
<1> QED BY <1>3, <1>4, PipelinesAssumption

----------------------------------------------------------------------------
\* The invariant, by what a step does to a run.

LEMMA InvInit == Init => Inv
<1> SUFFICES ASSUME Init PROVE Inv
  OBVIOUS
<1>1. \A r \in Runs : ~Exists(r) /\ exec[r] = NoExec
  BY DEF Init, Exists
<1>2. TypeOK
  BY BoundsAssumption DEF Init, TypeOK
<1> QED BY <1>1, <1>2 DEF Init, Inv, FileOK, ExecOK, QueueOK, RunningRunIsExecuted

\* An execution goes on with the run as it was just saved.
LEMMA ExecutionGoesOn ==
  ASSUME Inv, NEW r \in Runs, exec[r] # NoExec, NEW run \in Run, NEW e \in ExecType,
         run.status = "running", SettledOK(run), ExecGood(e, run),
         file' = [file EXCEPT ![r] = run], exec' = [exec EXCEPT ![r] = e],
         fresh' \in SUBSET Runs, config' \in 0 .. MaxDrafts,
         passed' \in [1 .. MaxDrafts -> SUBSET Stage],
         UNCHANGED <<draft, queued, up, crashes>>
  PROVE  Inv'
<1>1. TypeOK'
  BY DEF Inv, TypeOK, ExecType
<1>2. /\ file'[r] = run /\ exec'[r] = e /\ run # NoFile /\ e # NoExec
      /\ \A q \in Runs \ {r} : file'[q] = file[q] /\ exec'[q] = exec[q]
  BY RunsExist DEF Inv, TypeOK
<1>3. up /\ Exists(r) /\ file[r].status = "running" /\ draft # 0
  BY DEF Inv, ExecOK, FileOK
<1>4. FileOK'
  BY <1>2, <1>3 DEF Inv, FileOK, Exists
<1>5. ExecOK'
  BY <1>2, <1>3 DEF Inv, ExecOK, Exists
<1>6. QueueOK'
  BY <1>2, <1>3 DEF Inv, QueueOK, Exists, TypeOK
<1>7. RunningRunIsExecuted'
  BY <1>2 DEF Inv, RunningRunIsExecuted, Exists
<1> QED BY <1>1, <1>4, <1>5, <1>6, <1>7 DEF Inv

\* An execution ends.
LEMMA ExecutionEnds ==
  ASSUME Inv, NEW r \in Runs, exec[r] # NoExec, NEW run \in Run,
         run.status \in {"failed", "completed"}, SettledOK(run),
         run.status = "completed" => AllSettled(run),
         file' = [file EXCEPT ![r] = run], exec' = [exec EXCEPT ![r] = NoExec],
         fresh' \in SUBSET Runs,
         UNCHANGED <<draft, config, passed, queued, up, crashes>>
  PROVE  Inv'
<1>1. TypeOK'
  BY DEF Inv, TypeOK
<1>2. /\ file'[r] = run /\ exec'[r] = NoExec /\ run # NoFile
      /\ \A q \in Runs \ {r} : file'[q] = file[q] /\ exec'[q] = exec[q]
  BY RunsExist DEF Inv, TypeOK
<1>3. up /\ Exists(r) /\ file[r].status = "running" /\ draft # 0
  BY DEF Inv, ExecOK, FileOK
<1>4. FileOK'
  BY <1>2, <1>3 DEF Inv, FileOK, Exists
<1>5. ExecOK'
  BY <1>2, <1>3 DEF Inv, ExecOK, Exists
<1>6. QueueOK'
  BY <1>2, <1>3 DEF Inv, QueueOK, Exists, TypeOK
<1>7. RunningRunIsExecuted'
  BY <1>2 DEF Inv, RunningRunIsExecuted, Exists
<1> QED BY <1>1, <1>4, <1>5, <1>6, <1>7 DEF Inv

\* A request saves a run as pending and hands it to the next turn of the event loop.
LEMMA RunIsQueued ==
  ASSUME Inv, Idle, NEW r \in Runs, exec[r] = NoExec, draft # 0, NEW run \in Run,
         run.status = "pending", SettledOK(run), Save(r, run), queued' = r,
         UNCHANGED <<draft, config, passed, exec, up, crashes>>
  PROVE  Inv'
<1>1. TypeOK'
  BY DEF Inv, TypeOK, Save
<1>2. /\ file'[r] = run /\ run # NoFile
      /\ \A q \in Runs \ {r} : file'[q] = file[q]
  BY RunsExist DEF Inv, TypeOK, Save
<1>3. FileOK'
  BY <1>2 DEF Inv, FileOK, Exists
<1>4. ExecOK'
  BY <1>2 DEF Inv, ExecOK, Exists
<1>5. QueueOK'
  BY <1>2 DEF Inv, QueueOK, Exists, Idle
<1>6. RunningRunIsExecuted'
  BY <1>2 DEF Inv, RunningRunIsExecuted, Exists
<1> QED BY <1>1, <1>3, <1>4, <1>5, <1>6 DEF Inv

----------------------------------------------------------------------------
\* The steps.

LEMMA RequestsKeepInv ==
  ASSUME Inv, NEW r \in Runs, StartRun(r) \/ Retry(r) \/ Execute(r)
  PROVE  Inv'
<1>1. TypeOK
  BY DEF Inv
<1>2. CASE StartRun(r)
  <2>1. PICK plan \in Plans : Save(r, NewRun(plan))
    BY <1>2 DEF StartRun
  <2>2. NewRun(plan) \in Run /\ NewRun(plan).status = "pending" /\ SettledOK(NewRun(plan))
    <3>1. plan \in [Stage -> {"run", "skip"}]
      BY DEF Plans
    <3> QED BY <3>1 DEF NewRun, Run, SettledOK, StageStatus
  <2>3. exec[r] = NoExec
    BY <1>2 DEF StartRun, Inv, ExecOK
  <2> QED BY <1>2, <2>1, <2>2, <2>3, RunIsQueued DEF StartRun
<1>3. CASE Retry(r)
  <2> DEFINE run == ResetFrom(file[r])
  <2>1. file[r] \in Run /\ SettledOK(file[r]) /\ draft # 0
    BY <1>1, <1>3, RunTypes DEF Retry, Inv, FileOK
  <2>2. run \in Run /\ run.status = "pending" /\ SettledOK(run)
    <3>1. \A s \in Stage : run.stage[s] \in {file[r].stage[s], "pending"}
      BY <2>1 DEF ResetFrom, Run
    <3>2. run \in Run /\ run.status = "pending" /\ run.action = file[r].action
      BY <2>1 DEF ResetFrom, Run, StageStatus
    <3> QED BY <2>1, <3>1, <3>2 DEF SettledOK
  <2>3. exec[r] = NoExec
    BY <1>3 DEF Retry, Inv, ExecOK
  <2> QED BY <1>3, <2>1, <2>2, <2>3, RunIsQueued DEF Retry
<1>4. CASE Execute(r)
  <2>1. /\ queued = r /\ queued' = NoRun
        /\ UNCHANGED <<draft, config, passed, up, crashes>>
    BY <1>4 DEF Execute
  <2>2. /\ up /\ Exists(r) /\ file[r] \in Run /\ file[r].status = "pending"
        /\ draft # 0 /\ SettledOK(file[r])
    BY <2>1, <1>1, NoRunAssumption, RunTypes DEF Inv, QueueOK, FileOK
  <2>3. CASE UNCHANGED <<file, exec, fresh>>
    BY <2>1, <2>3 DEF Inv, TypeOK, FileOK, ExecOK, QueueOK, RunningRunIsExecuted, Exists
  <2>4. ASSUME NEW run, run = [file[r] EXCEPT !.status = "running", !.retryable = NoStage],
               Save(r, run), exec' = [exec EXCEPT ![r] = Loop(draft, run)]
        PROVE  Inv'
    <3>1. run \in Run /\ run.status = "running" /\ SettledOK(run)
      <4>1. run \in Run /\ run.status = "running"
            /\ run.stage = file[r].stage /\ run.action = file[r].action
        BY <2>2, <2>4 DEF Run
      <4> QED BY <4>1, <2>2 DEF SettledOK
    <3> DEFINE e == Loop(draft, run)
    <3>2. e \in ExecType /\ ExecGood(e, run)
      <4>1. draft \in 1 .. MaxDrafts /\ <<>> \in Seq(Knowledge)
        BY <1>1, <2>2, BoundsAssumption DEF TypeOK
      <4> QED BY <3>1, <4>1 DEF Loop, ExecType, ExecGood, Phases
    <3> HIDE DEF e
    <3>3. exec' = [exec EXCEPT ![r] = e]
      BY <2>4 DEF e
    <3>4. TypeOK'
      BY <1>1, <2>1, <2>4, <3>1, <3>2, <3>3 DEF TypeOK, Save, ExecType
    <3>5. /\ file'[r] = run /\ exec'[r] = e /\ run # NoFile /\ e # NoExec
          /\ \A q \in Runs \ {r} : file'[q] = file[q] /\ exec'[q] = exec[q]
      BY <1>1, <2>4, <3>1, <3>2, <3>3, RunsExist DEF TypeOK, Save
    <3>6. FileOK' /\ ExecOK' /\ QueueOK' /\ RunningRunIsExecuted'
      BY <2>1, <2>2, <3>1, <3>2, <3>5
         DEF Inv, FileOK, ExecOK, QueueOK, RunningRunIsExecuted, Exists
    <3> QED BY <3>4, <3>6 DEF Inv
  <2> QED BY <1>4, <2>3, <2>4 DEF Execute
<1> QED BY <1>2, <1>3, <1>4

\* An operation under way has its stage.
LEMMA StageOfOperation ==
  ASSUME Inv, NEW r \in Runs, exec[r].phase \in {"operation", "reload"}
  PROVE  \E s \in Single :
           /\ IsNext(exec[r].base, s) /\ exec[r].base.action[s] = "run"
           /\ exec[r].base \in Run /\ file[r] = At(exec[r].base, s, "running")
           /\ file[r].current = s /\ file[r].action = exec[r].base.action
<1>1. exec[r] # NoExec /\ exec[r] \in ExecType
  BY RunTypes DEF Inv, NoExec
<1>2. exec[r].base \in Run /\ InStage(exec[r].base, file[r])
  BY <1>1 DEF Inv, ExecOK, ExecGood, ExecType
<1>3. PICK s \in Single : /\ IsNext(exec[r].base, s) /\ exec[r].base.action[s] = "run"
                          /\ file[r] = At(exec[r].base, s, "running")
  BY <1>2 DEF InStage
<1>4. file[r].current = s /\ file[r].action = exec[r].base.action
  <2> DEFINE base == exec[r].base
             run == At(base, s, "running")
  <2>1. run.current = s /\ run.action = base.action
    <3>1. base \in Run
      BY <1>2
    <3> HIDE DEF base
    <3> QED BY <3>1 DEF At, Run
  <2> QED BY <2>1, <1>3
<1> QED BY <1>2, <1>3, <1>4

LEMMA RunnerKeepsInv ==
  ASSUME Inv, NEW r \in Runs, Runner(r)
  PROVE  Inv'
<1> DEFINE base == exec[r].base
           Typed == /\ fresh' \in SUBSET Runs /\ config' \in 0 .. MaxDrafts
                    /\ passed' \in [1 .. MaxDrafts -> SUBSET Stage]
<1>1. TypeOK
  BY DEF Inv
<1>2. exec[r] # NoExec /\ exec[r].phase \in Phases
  BY DEF Runner, Skip, StartSingle, StartKnowledge, StageDone, Commit, Reloaded, Report,
         PipelineDone, CloseStage, Fail, Complete, In, NoExec, Phases
<1>3. /\ exec[r] \in ExecType /\ base \in Run /\ base.status = "running"
      /\ SettledOK(base) /\ exec[r].draft \in 1 .. MaxDrafts
      /\ exec[r].left \in Seq(Knowledge)
  BY <1>1, <1>2, RunTypes DEF Inv, ExecOK, ExecGood, ExecType
<1>4. /\ file[r] \in Run /\ file[r].status = "running" /\ SettledOK(file[r])
      /\ ExecGood(exec[r], file[r]) /\ r \in Runs /\ draft # 0
  BY <1>1, <1>2, RunTypes DEF Inv, ExecOK, FileOK
<1>5. \A run : Save(r, run) => fresh' \in SUBSET Runs
  BY <1>1 DEF Save, TypeOK
<1>6. ASSUME NEW run \in Run, run.status = "running", SettledOK(run), Continue(r, run)
      PROVE  /\ Loop(exec[r].draft, run) \in ExecType
             /\ ExecGood(Loop(exec[r].draft, run), run)
  BY <1>3, <1>6 DEF Loop, ExecType, ExecGood, Phases
<1>7. CASE Skip(r)
  <2>1. PICK s \in Stage : base.action[s] = "skip" /\ Continue(r, Close(base, s))
    BY <1>7 DEF Skip
  <2>2. Close(base, s) \in Run /\ Close(base, s).status = "running" /\ SettledOK(Close(base, s))
    BY <1>3, CloseRun
  <2> QED
    BY <1>1, <1>2, <1>5, <1>6, <1>7, <2>1, <2>2, ExecutionGoesOn
       DEF Skip, Continue, Save, TypeOK
<1>8. CASE StartSingle(r)
  <2>1. PICK s \in Single :
          /\ IsNext(base, s) /\ base.action[s] = "run" /\ Save(r, At(base, s, "running"))
          /\ exec' = [exec EXCEPT ![r].phase = "operation"]
    BY <1>8 DEF StartSingle
  <2> DEFINE run == At(base, s, "running")
             e == [exec[r] EXCEPT !.phase = "operation"]
  <2>2. run \in Run /\ run.status = "running" /\ SettledOK(run)
    BY <1>3, AtRun, SettledAt, StageSets DEF StageStatus
  <2>3. InStage(base, run)
    BY <2>1 DEF InStage
  <2>4. e \in ExecType /\ ExecGood(e, run)
    BY <1>3, <2>3 DEF ExecType, ExecGood, Phases
  <2>5. exec' = [exec EXCEPT ![r] = e]
    BY <1>1, <1>3, <2>1 DEF TypeOK, ExecType
  <2> HIDE DEF run, e
  <2>6. file' = [file EXCEPT ![r] = run] /\ fresh' \in SUBSET Runs
    BY <1>5, <2>1 DEF Save, run
  <2> QED BY <1>1, <1>2, <1>8, <2>2, <2>4, <2>5, <2>6, ExecutionGoesOn DEF StartSingle, TypeOK
<1>9. CASE StartKnowledge(r)
  <2> DEFINE run == At(base, "ingest_sources", "running")
  <2>1. PICK reports \in Pipelines :
          exec' = [exec EXCEPT ![r].phase = "pipeline", ![r].base = run, ![r].left = reports]
    BY <1>9 DEF StartKnowledge
  <2> DEFINE e == [exec[r] EXCEPT !.phase = "pipeline", !.base = run, !.left = reports]
  <2>2. run \in Run /\ run.status = "running" /\ SettledOK(run)
    BY <1>3, AtRun, SettledAt, StageSets DEF StageStatus
  <2>3. file' = [file EXCEPT ![r] = run] /\ fresh' \in SUBSET Runs
    BY <1>5, <1>9 DEF StartKnowledge, Save
  <2> HIDE DEF run
  <2>4. e \in ExecType /\ ExecGood(e, run)
    BY <1>3, <2>2, ReportTypes DEF ExecType, ExecGood, Phases
  <2>5. exec' = [exec EXCEPT ![r] = e]
    BY <1>1, <1>3, <2>1 DEF TypeOK, ExecType
  <2> HIDE DEF e
  <2> QED BY <1>1, <1>2, <1>9, <2>2, <2>3, <2>4, <2>5, ExecutionGoesOn DEF StartKnowledge, TypeOK
<1>10. CASE StageDone(r)
  <2> DEFINE s == file[r].current
             run == At(file[r], s, "completed")
  <2>1. s \in Single /\ s \in Stage /\ file[r].action[s] = "run"
    BY <1>10, StageOfOperation, StageSets DEF StageDone, In
  <2>2. run \in Run /\ run.status = "running" /\ SettledOK(run)
    BY <1>4, <2>1, AtRun, SettledAt DEF StageStatus
  <2>3. passed' \in [1 .. MaxDrafts -> SUBSET Stage]
    BY <1>1, <1>3, <1>10, <2>1 DEF StageDone, TypeOK
  <2>4. Continue(r, run) /\ UNCHANGED <<draft, config, queued, up, crashes>>
    BY <1>10 DEF StageDone
  <2> QED BY <1>1, <1>2, <1>5, <1>6, <2>2, <2>3, <2>4, ExecutionGoesOn DEF Continue, Save, TypeOK
<1>11. CASE Commit(r)
  <2> DEFINE e == [exec[r] EXCEPT !.phase = "reload"]
  <2>1. e \in ExecType /\ ExecGood(e, file[r])
    BY <1>3, <1>4, <1>11 DEF Commit, In, ExecType, ExecGood, Phases
  <2>2. exec' = [exec EXCEPT ![r] = e] /\ file' = [file EXCEPT ![r] = file[r]]
    BY <1>1, <1>3, <1>11 DEF Commit, TypeOK, ExecType
  <2>3. Typed
    BY <1>1, <1>3, <1>11, BoundsAssumption DEF Commit, TypeOK
  <2> HIDE DEF e
  <2> QED BY <1>2, <1>4, <1>11, <2>1, <2>2, <2>3, ExecutionGoesOn DEF Commit
<1>12. CASE Reloaded(r)
  <2> DEFINE run == At(file[r], "commit_config", "completed")
  <2>1. file[r].action["commit_config"] = "run"
    BY <1>4, <1>12, StageOfOperation DEF Reloaded, In, ExecGood
  <2>2. run \in Run /\ run.status = "running" /\ SettledOK(run)
    BY <1>4, <2>1, AtRun, SettledAt, StageSets DEF StageStatus
  <2> QED
    BY <1>1, <1>2, <1>5, <1>6, <1>12, <2>2, ExecutionGoesOn DEF Reloaded, Continue, Save, TypeOK
<1>13. CASE Report(r)
  <2> DEFINE s == Head(exec[r].left)
             run == At(file[r], s, "running")
             e == [exec[r] EXCEPT !.left = Tail(@)]
  <2>1. s \in Knowledge /\ Tail(exec[r].left) \in Seq(Knowledge)
    BY <1>3, <1>13, HeadTailProperties DEF Report
  <2>2. run \in Run /\ run.status = "running" /\ SettledOK(run)
    BY <1>4, <2>1, AtRun, SettledAt, StageSets DEF StageStatus
  <2>3. e \in ExecType /\ ExecGood(e, run)
    BY <1>3, <1>13, <2>1 DEF Report, In, ExecType, ExecGood, Phases
  <2>4. exec' = [exec EXCEPT ![r] = e]
    BY <1>1, <1>3, <1>13 DEF Report, TypeOK, ExecType
  <2>5. file' = [file EXCEPT ![r] = run] /\ fresh' \in SUBSET Runs
    BY <1>5, <1>13 DEF Report, Save
  <2> HIDE DEF run, e
  <2> QED BY <1>1, <1>2, <1>13, <2>2, <2>3, <2>4, <2>5, ExecutionGoesOn DEF Report, TypeOK
<1>14. CASE PipelineDone(r)
  <2> DEFINE e == [exec[r] EXCEPT !.phase = "close", !.left = KnowledgeOrder]
  <2>1. e \in ExecType /\ ExecGood(e, file[r])
    BY <1>3, ReportTypes DEF ExecType, ExecGood, Phases
  <2>2. exec' = [exec EXCEPT ![r] = e] /\ file' = [file EXCEPT ![r] = file[r]]
    BY <1>1, <1>3, <1>14 DEF PipelineDone, TypeOK, ExecType
  <2> HIDE DEF e
  <2> QED BY <1>1, <1>2, <1>4, <1>14, <2>1, <2>2, ExecutionGoesOn DEF PipelineDone, TypeOK
<1>15. CASE CloseStage(r)
  <2> DEFINE s == Head(exec[r].left)
             run == Close(file[r], s)
             e == IF Len(exec[r].left) = 1 THEN Loop(exec[r].draft, run)
                  ELSE [exec[r] EXCEPT !.left = Tail(@)]
  <2>1. /\ s \in Knowledge /\ Tail(exec[r].left) \in Seq(Knowledge)
        /\ Len(exec[r].left) # 1 => Tail(exec[r].left) # <<>>
    <3>1. exec[r].left # <<>>
      BY <1>4, <1>15 DEF CloseStage, In, ExecGood
    <3>2. s \in Knowledge /\ Tail(exec[r].left) \in Seq(Knowledge)
          /\ Len(Tail(exec[r].left)) = Len(exec[r].left) - 1
      BY <1>3, <3>1, HeadTailProperties
    <3>3. Len(exec[r].left) \in Nat /\ Len(exec[r].left) # 0
      BY <1>3, <3>1, LenProperties, EmptySeq
    <3>4. Len(exec[r].left) # 1 => Len(Tail(exec[r].left)) # 0
      BY <3>2, <3>3
    <3>5. Len(<<>>) = 0
      BY EmptySeq
    <3> QED BY <3>2, <3>4, <3>5
  <2>2. run \in Run /\ run.status = "running" /\ SettledOK(run)
    BY <1>4, <2>1, CloseRun, StageSets
  <2>3. e \in ExecType /\ ExecGood(e, run)
    <3>1. CASE Len(exec[r].left) = 1
      BY <1>3, <2>2, <3>1 DEF Loop, ExecType, ExecGood, Phases
    <3>2. CASE Len(exec[r].left) # 1
      BY <1>3, <1>15, <2>1, <3>2 DEF CloseStage, In, ExecType, ExecGood
    <3> QED BY <3>1, <3>2
  <2>4. exec' = [exec EXCEPT ![r] = e] /\ file' = [file EXCEPT ![r] = run]
    BY <1>15 DEF CloseStage, Save
  <2>5. fresh' \in SUBSET Runs
    BY <1>5, <1>15 DEF CloseStage
  <2> HIDE DEF run, e
  <2> QED BY <1>1, <1>2, <1>15, <2>2, <2>3, <2>4, <2>5, ExecutionGoesOn DEF CloseStage, TypeOK
<1>16. CASE Fail(r)
  <2> DEFINE run == Failed(base)
  <2>1. run \in Run /\ run.status = "failed" /\ run.action = base.action
    BY <1>3 DEF Failed, Run, StageStatus
  <2>2. \A s \in Stage : run.stage[s] \in {base.stage[s], "failed"}
    BY <1>3 DEF Failed, Run
  <2>3. SettledOK(run)
    BY <1>3, <2>1, <2>2 DEF SettledOK
  <2>4. Stop(r, run)
    BY <1>16 DEF Fail
  <2> HIDE DEF run
  <2> QED
    BY <1>2, <1>5, <1>16, <2>1, <2>3, <2>4, ExecutionEnds DEF Fail, Stop, Save
<1>17. CASE Complete(r)
  <2> DEFINE run == [base EXCEPT !.status = "completed", !.current = NoStage]
  <2>1. run \in Run /\ run.status = "completed"
        /\ run.stage = base.stage /\ run.action = base.action
    BY <1>3 DEF Run
  <2>2. SettledOK(run) /\ AllSettled(run)
    BY <1>3, <1>17, <2>1 DEF Complete, SettledOK, AllSettled
  <2>3. Stop(r, run)
    BY <1>17 DEF Complete
  <2> HIDE DEF run
  <2> QED
    BY <1>2, <1>5, <1>17, <2>1, <2>2, <2>3, ExecutionEnds DEF Complete, Stop, Save
<1> QED
  BY <1>7, <1>8, <1>9, <1>10, <1>11, <1>12, <1>13, <1>14, <1>15, <1>16, <1>17 DEF Runner

LEMMA InvNext ==
  ASSUME Inv, [Next]_vars
  PROVE  Inv'
<1>1. TypeOK
  BY DEF Inv
<1>2. CASE SaveDraft
  <2>1. TypeOK' /\ draft' # 0
    BY <1>1, <1>2, BoundsAssumption DEF SaveDraft, TypeOK
  <2> QED BY <1>2, <2>1
          DEF SaveDraft, Inv, FileOK, ExecOK, QueueOK, RunningRunIsExecuted, Exists
<1>3. CASE ReviewRefresh \/ Tick \/ UNCHANGED vars
  <2>1. TypeOK'
    BY <1>1, <1>3 DEF ReviewRefresh, Tick, vars, TypeOK
  <2>2. UNCHANGED <<draft, file, exec, queued, up>>
    BY <1>3 DEF ReviewRefresh, Tick, vars
  <2> QED BY <2>1, <2>2 DEF Inv, FileOK, ExecOK, QueueOK, RunningRunIsExecuted, Exists
<1>4. CASE Crash
  <2>1. TypeOK'
    <3>1. crashes' \in 0 .. MaxCrashes
      BY <1>1, <1>4, BoundsAssumption DEF Crash, TypeOK
    <3>2. exec' = [r \in Runs |-> NoExec] /\ UNCHANGED <<draft, config, passed, file>>
      BY <1>4 DEF Crash
    <3>3. up' \in BOOLEAN /\ fresh' \in SUBSET Runs /\ queued' \in Runs \cup {NoRun}
      BY <1>4 DEF Crash
    <3> QED BY <1>1, <3>1, <3>2, <3>3 DEF TypeOK
  <2> QED BY <1>4, <2>1
          DEF Crash, Inv, FileOK, ExecOK, QueueOK, RunningRunIsExecuted, Exists
<1>5. CASE Restart
  <2>1. queued = NoRun /\ \A r \in Runs : exec[r] = NoExec
    BY <1>5 DEF Restart, Inv, QueueOK, ExecOK
  <2>2. \A r \in Runs : Exists(r) =>
          /\ Interrupted(file[r]) \in Run /\ Interrupted(file[r]).status = "failed"
          /\ Interrupted(file[r]).stage = file[r].stage
          /\ Interrupted(file[r]).action = file[r].action
    BY <1>1, RunTypes DEF Interrupted, Run
  <2>3. \A r \in Runs :
          /\ file'[r] = IF r \in Inherited THEN Interrupted(file[r]) ELSE file[r]
          /\ r \in Inherited => Exists(r) /\ file[r].status = "running"
          /\ Exists(r) /\ file[r].status = "running" => r \in Inherited
    BY <1>5 DEF Restart, Inherited
  <2>4. TypeOK'
    <3>1. file' \in [Runs -> Run \cup {NoFile}]
      BY <1>1, <1>5, <2>2, <2>3 DEF Restart, TypeOK
    <3> QED BY <1>1, <1>5, <3>1 DEF Restart, Inherited, TypeOK
  <2>5. \A r \in Runs : Exists(r)' => Exists(r)
    BY <2>3 DEF Exists
  <2>6. FileOK'
    BY <1>5, <2>2, <2>3, <2>5 DEF Restart, Inv, FileOK, SettledOK
  <2>7. ExecOK' /\ QueueOK'
    BY <1>5, <2>1 DEF Restart, ExecOK, QueueOK
  <2>8. RunningRunIsExecuted'
    BY <2>2, <2>3, <2>5 DEF RunningRunIsExecuted
  <2> QED BY <2>4, <2>6, <2>7, <2>8 DEF Inv
<1> QED BY <1>2, <1>3, <1>4, <1>5, RequestsKeepInv, RunnerKeepsInv DEF Next

LEMMA InvHolds == Spec => []Inv
  BY InvInit, InvNext, PTL DEF Spec

----------------------------------------------------------------------------
\* Theorems.

\* Drafts, runs and executions keep their types: what a handler saves is a run.
THEOREM OnboardingTypeCorrect == Spec => []TypeOK
<1>1. Inv => TypeOK
  BY DEF Inv
<1> QED BY <1>1, InvHolds, PTL

\* However runs are started, retried, failed and killed, also two beside each other:
\* a run that is `running' in its file is executed by the process that serves.
THEOREM RunningIsExecuted == Spec => []RunningRunIsExecuted
<1>1. Inv => RunningRunIsExecuted
  BY DEF Inv
<1> QED BY <1>1, InvHolds, PTL

\* A run that is reported completed did the stages of its plan and skipped the others.
THEOREM CompletedIsWhole == Spec => []CompletedRunIsWhole
<1>1. ASSUME Inv PROVE CompletedRunIsWhole
  <2> SUFFICES ASSUME NEW r \in Runs, Exists(r), file[r].status = "completed", NEW s \in Stage
               PROVE  file[r].stage[s] =
                        IF file[r].action[s] = "skip" THEN "skipped" ELSE "completed"
    BY DEF CompletedRunIsWhole
  <2>1. Settled(file[r].stage[s]) /\ SettledOK(file[r])
    BY <1>1 DEF Inv, FileOK, AllSettled
  <2> QED BY <2>1 DEF Settled, SettledOK
<1> QED BY <1>1, InvHolds, PTL

\* The configuration changes only when every other stage of the committing run is
\* settled: a run that fails on the way leaves the old one.
THEOREM CommitComesLast == Spec => ConfigIsCommittedLast
<1> DEFINE Last == \E r \in Runs :
                     /\ Exists(r) /\ file[r].stage["commit_config"] = "running"
                     /\ \A s \in Stage \ {"commit_config"} : Settled(file[r].stage[s])
<1>1. ASSUME Inv, [Next]_vars, config' # config PROVE Last
  <2>1. PICK r \in Runs : Commit(r)
    BY <1>1 DEF Next, Runner, vars, SaveDraft, ReviewRefresh, Tick, Crash, Restart, StartRun,
         Retry, Execute, Skip, StartSingle, StartKnowledge, StageDone, Reloaded, Report,
         PipelineDone, CloseStage, Fail, Complete
  <2> DEFINE base == exec[r].base
  <2>2. /\ IsNext(base, "commit_config") /\ base \in Run
        /\ file[r] = At(base, "commit_config", "running")
    BY <1>1, <2>1, StageOfOperation DEF Commit, In
  <2>3. file[r].stage = [base.stage EXCEPT !["commit_config"] = "running"]
    <3>1. "commit_config" \in Stage /\ "running" \in StageStatus
      BY StageSets DEF StageStatus
    <3> QED BY <2>2, <3>1, AtRun
  <2>4. base.stage \in [Stage -> StageStatus]
    BY <2>2 DEF Run
  <2>5. \A s \in Stage \ {"commit_config"} : Settled(base.stage[s])
    BY <2>2, CommitIsLast DEF IsNext
  <2>6. file[r].stage["commit_config"] = "running"
        /\ \A s \in Stage \ {"commit_config"} : Settled(file[r].stage[s])
    BY <2>3, <2>4, <2>5, StageSets
  <2>7. Exists(r)
    <3>1. exec[r] # NoExec
      BY <2>1 DEF Commit, In, NoExec
    <3> QED BY <1>1, <3>1 DEF Inv, ExecOK
  <2> QED BY <2>6, <2>7
<1>2. ConfigIsCommittedLast <=> [][config' # config => Last]_vars
  BY PTL DEF ConfigIsCommittedLast
<1> QED BY <1>1, <1>2, InvHolds, PTL DEF Spec

----------------------------------------------------------------------------
\* The checks before a commit.

\* The run does every check, and those it has completed were passed by one of the
\* first n revisions of the draft.
Checked(run, n, p) ==
    \A s \in Checks : /\ run.action[s] = "run"
                      /\ run.stage[s] = "completed" => \E d \in 1 .. n : s \in p[d]

CheckInv ==
    /\ \A r \in Runs : Exists(r) => Checked(file[r], draft, passed)
    /\ \A r \in Runs : exec[r] # NoExec =>
         /\ exec[r].draft <= draft
         /\ Checked(exec[r].base, exec[r].draft, passed)
         /\ Checked(file[r], exec[r].draft, passed)
    /\ CommitFollowsChecks

LEMMA CheckSets ==
  /\ Checks \subseteq Stage /\ "commit_config" \notin Checks
  /\ \A s \in Knowledge : s \notin Checks
  /\ \A skipped \in Skippable, s \in Checks : s \notin skipped
  BY DEF Checks, Stage, Single, Knowledge, Sources, Skippable

LEMMA CheckedLater ==
  ASSUME NEW run, NEW n \in Nat, NEW m \in Nat, n <= m, m <= MaxDrafts, NEW p, NEW q,
         \A d \in 1 .. MaxDrafts : p[d] \subseteq q[d], Checked(run, n, p)
  PROVE  Checked(run, m, q)
<1>1. \A d \in 1 .. n : d \in 1 .. m /\ d \in 1 .. MaxDrafts
  BY BoundsAssumption
<1> QED BY <1>1 DEF Checked

LEMMA CheckedAt ==
  ASSUME NEW run \in Run, NEW s \in Stage, NEW status \in StageStatus, NEW n, NEW p,
         Checked(run, n, p),
         status = "completed" /\ s \in Checks => \E d \in 1 .. n : s \in p[d]
  PROVE  Checked(At(run, s, status), n, p)
<1>1. run.stage \in [Stage -> StageStatus]
  BY DEF Run
<1>2. /\ At(run, s, status).action = run.action
      /\ At(run, s, status).stage = [run.stage EXCEPT ![s] = status]
  BY AtRun
<1>3. \A t \in Stage : At(run, s, status).stage[t] = IF t = s THEN status ELSE run.stage[t]
  BY <1>1, <1>2
<1> QED BY <1>2, <1>3, CheckSets DEF Checked

LEMMA CheckedClose ==
  ASSUME NEW run \in Run, NEW s \in Stage, NEW n, NEW p, Checked(run, n, p),
         s \in Knowledge \/ run.action[s] = "skip"
  PROVE  Checked(Close(run, s), n, p)
<1>1. s \notin Checks
  BY CheckSets DEF Checked
<1> DEFINE status == IF run.action[s] = "skip" THEN "skipped" ELSE "completed"
<1>2. status \in StageStatus
  BY DEF StageStatus
<1> HIDE DEF status
<1>3. Checked(At(run, s, status), n, p)
  BY <1>1, <1>2, CheckedAt
<1> QED BY <1>3 DEF Close, status

\* A run with the same plan and no other completed stage.
LEMMA CheckedLess ==
  ASSUME NEW run, NEW other, NEW n, NEW p, Checked(run, n, p), other.action = run.action,
         \A s \in Stage : other.stage[s] = "completed" => run.stage[s] = "completed"
  PROVE  Checked(other, n, p)
  BY CheckSets DEF Checked

\* A step of one execution: no check is forgotten, and the run keeps to its checks.
LEMMA ChecksGoOn ==
  ASSUME Inv, CheckInv, NEW r \in Runs, exec[r] # NoExec, NEW run, NEW e,
         file' = [file EXCEPT ![r] = run], exec' = [exec EXCEPT ![r] = e],
         Checked(run, exec[r].draft, passed'),
         e = NoExec \/ (e.draft = exec[r].draft /\ Checked(e.base, e.draft, passed')),
         \A d \in 1 .. MaxDrafts : passed[d] \subseteq passed'[d],
         config' = config \/ CommitFollowsChecks', draft' = draft
  PROVE  CheckInv'
<1>1. TypeOK /\ draft \in Nat /\ draft <= MaxDrafts
  BY BoundsAssumption DEF Inv, TypeOK
<1>2. /\ file'[r] = run /\ exec'[r] = e
      /\ \A q \in Runs \ {r} : file'[q] = file[q] /\ exec'[q] = exec[q]
  BY <1>1 DEF TypeOK
<1>3. \A q \in Runs : exec[q] # NoExec => exec[q].draft \in Nat /\ exec[q].draft <= MaxDrafts
  BY <1>1, RunTypes, BoundsAssumption DEF ExecType
<1>4. CommitFollowsChecks'
  <2>1. CASE config' = config
    BY <1>1, <2>1, BoundsAssumption DEF CheckInv, CommitFollowsChecks, TypeOK
  <2> QED BY <2>1
<1>5. \A q \in Runs : Exists(q)' => Checked(file'[q], draft, passed')
  <2>1. exec[r].draft <= draft /\ \A q \in Runs : Exists(q) => Checked(file[q], draft, passed)
    BY DEF CheckInv
  <2>2. Checked(run, draft, passed')
    <3>1. \A d \in 1 .. MaxDrafts : passed'[d] \subseteq passed'[d]
      OBVIOUS
    <3> QED BY <1>1, <1>3, <2>1, <3>1, CheckedLater
  <2>3. ASSUME NEW q \in Runs \ {r}, Exists(q)' PROVE Checked(file'[q], draft, passed')
    <3>1. Checked(file[q], draft, passed)
      BY <2>1, <2>3, <1>2 DEF Exists
    <3> QED BY <3>1, <1>1, <1>2, CheckedLater
  <2> QED BY <2>2, <2>3, <1>2
<1>6. \A q \in Runs : exec'[q] # NoExec =>
        /\ exec'[q].draft <= draft
        /\ Checked(exec'[q].base, exec'[q].draft, passed')
        /\ Checked(file'[q], exec'[q].draft, passed')
  <2>1. ASSUME NEW q \in Runs \ {r}, exec[q] # NoExec
        PROVE  /\ exec[q].draft <= draft
               /\ Checked(exec[q].base, exec[q].draft, passed')
               /\ Checked(file[q], exec[q].draft, passed')
    <3>1. /\ exec[q].draft <= draft
          /\ Checked(exec[q].base, exec[q].draft, passed)
          /\ Checked(file[q], exec[q].draft, passed)
      BY <2>1 DEF CheckInv
    <3> QED BY <3>1, <1>3, <2>1, CheckedLater
  <2>2. exec[r].draft <= draft
    BY DEF CheckInv
  <2> QED BY <2>1, <2>2, <1>2
<1> QED BY <1>4, <1>5, <1>6 DEF CheckInv, Exists

LEMMA RunnerKeepsChecks ==
  ASSUME Inv, CheckInv, NEW r \in Runs, Runner(r)
  PROVE  CheckInv'
<1> DEFINE base == exec[r].base
           n == exec[r].draft
           Grows == \A d \in 1 .. MaxDrafts : passed[d] \subseteq passed'[d]
<1>1. TypeOK
  BY DEF Inv
<1>2. exec[r] # NoExec
  BY DEF Runner, Skip, StartSingle, StartKnowledge, StageDone, Commit, Reloaded, Report,
         PipelineDone, CloseStage, Fail, Complete, In, NoExec
<1>3. /\ exec[r] \in ExecType /\ base \in Run /\ SettledOK(base) /\ Checked(base, n, passed)
      /\ file[r] \in Run /\ Checked(file[r], n, passed) /\ n \in 1 .. MaxDrafts
      /\ exec[r].left \in Seq(Knowledge)
  BY <1>1, <1>2, RunTypes DEF Inv, ExecOK, ExecGood, ExecType, CheckInv
<1>4. CASE Skip(r)
  <2>1. PICK s \in Stage : base.action[s] = "skip" /\ Continue(r, Close(base, s))
    BY <1>4 DEF Skip
  <2>2. Checked(Close(base, s), n, passed)
    BY <1>3, <2>1, CheckedClose
  <2>3. UNCHANGED <<draft, config, passed>>
    BY <1>4 DEF Skip
  <2> QED BY <1>2, <2>1, <2>2, <2>3, ChecksGoOn DEF Continue, Save, Loop
<1>5. CASE StartSingle(r)
  <2>1. PICK s \in Single : /\ Save(r, At(base, s, "running"))
                            /\ exec' = [exec EXCEPT ![r].phase = "operation"]
    BY <1>5 DEF StartSingle
  <2> DEFINE e == [exec[r] EXCEPT !.phase = "operation"]
  <2>2. Checked(At(base, s, "running"), n, passed)
    BY <1>3, CheckedAt, StageSets DEF StageStatus
  <2>3. exec' = [exec EXCEPT ![r] = e] /\ e.draft = n /\ e.base = base
    BY <1>1, <1>3, <2>1 DEF TypeOK, ExecType
  <2>4. UNCHANGED <<draft, config, passed>>
    BY <1>5 DEF StartSingle
  <2> HIDE DEF e
  <2> QED BY <1>2, <1>3, <2>1, <2>2, <2>3, <2>4, ChecksGoOn DEF Save
<1>6. CASE StartKnowledge(r)
  <2> DEFINE run == At(base, "ingest_sources", "running")
  <2>1. PICK reports \in Pipelines :
          exec' = [exec EXCEPT ![r].phase = "pipeline", ![r].base = run, ![r].left = reports]
    BY <1>6 DEF StartKnowledge
  <2> DEFINE e == [exec[r] EXCEPT !.phase = "pipeline", !.base = run, !.left = reports]
  <2>2. Checked(run, n, passed)
    BY <1>3, CheckedAt, StageSets DEF StageStatus
  <2>3. file' = [file EXCEPT ![r] = run] /\ UNCHANGED <<draft, config, passed>>
    BY <1>6 DEF StartKnowledge, Save
  <2> HIDE DEF run
  <2>4. exec' = [exec EXCEPT ![r] = e] /\ e.draft = n /\ e.base = run
    BY <1>1, <1>3, <2>1 DEF TypeOK, ExecType
  <2> HIDE DEF e
  <2> QED BY <1>2, <2>2, <2>3, <2>4, ChecksGoOn
<1>7. CASE StageDone(r)
  <2> DEFINE s == file[r].current
             run == At(file[r], s, "completed")
  <2>1. s \in Stage
    BY <1>7, StageOfOperation, StageSets DEF StageDone, In
  <2>2. passed' = [passed EXCEPT ![n] = @ \cup {s}]
    <3>1. PICK answer \in Answers(s) :
            /\ Accepts(s, answer)
            /\ passed' = IF answer = "ok" THEN [passed EXCEPT ![n] = @ \cup {s}] ELSE passed
      BY <1>7 DEF StageDone
    <3>2. answer = "ok"
      BY <3>1 DEF Answers, Accepts
    <3> QED BY <3>1, <3>2
  <2>3. Grows /\ s \in passed'[n] /\ n \in 1 .. n
    BY <1>1, <1>3, <2>2 DEF TypeOK
  <2>4. Checked(base, n, passed') /\ Checked(file[r], n, passed')
    <3>1. n \in Nat /\ n <= MaxDrafts
      BY <1>3, BoundsAssumption
    <3> QED BY <1>3, <2>3, <3>1, CheckedLater
  <2>5. Checked(run, n, passed')
    BY <1>3, <2>1, <2>3, <2>4, CheckedAt DEF StageStatus
  <2>6. Continue(r, run) /\ UNCHANGED <<draft, config>>
    BY <1>7 DEF StageDone
  <2> HIDE DEF run
  <2> QED BY <1>2, <2>3, <2>5, <2>6, ChecksGoOn DEF Continue, Save, Loop
<1>8. CASE Commit(r)
  <2> DEFINE e == [exec[r] EXCEPT !.phase = "reload"]
  <2>1. exec' = [exec EXCEPT ![r] = e] /\ e.draft = n /\ e.base = base
    BY <1>1, <1>3, <1>8 DEF Commit, TypeOK, ExecType
  <2>2. /\ file' = [file EXCEPT ![r] = file[r]] /\ UNCHANGED <<draft, passed>>
        /\ config' = n
    BY <1>1, <1>8 DEF Commit, TypeOK
  <2>3. IsNext(base, "commit_config")
    BY <1>8, StageOfOperation DEF Commit, In
  <2>4. \A s \in Checks : base.stage[s] = "completed"
    BY <1>3, <2>3, CommitIsLast, CheckSets DEF IsNext, Settled, SettledOK, Checked
  <2>5. CommitFollowsChecks'
    BY <1>3, <2>2, <2>4 DEF CommitFollowsChecks, Checked
  <2> HIDE DEF e
  <2> QED BY <1>2, <1>3, <2>1, <2>2, <2>5, ChecksGoOn
<1>9. CASE Reloaded(r)
  <2> DEFINE run == At(file[r], "commit_config", "completed")
  <2>1. Checked(run, n, passed)
    BY <1>3, CheckedAt, CheckSets, StageSets DEF StageStatus
  <2>2. Continue(r, run) /\ UNCHANGED <<draft, config, passed>>
    BY <1>9 DEF Reloaded
  <2> HIDE DEF run
  <2> QED BY <1>2, <2>1, <2>2, ChecksGoOn DEF Continue, Save, Loop
<1>10. CASE Report(r)
  <2> DEFINE s == Head(exec[r].left)
             run == At(file[r], s, "running")
             e == [exec[r] EXCEPT !.left = Tail(@)]
  <2>1. s \in Stage
    BY <1>3, <1>10, HeadTailProperties, StageSets DEF Report
  <2>2. Checked(run, n, passed)
    BY <1>3, <2>1, CheckedAt DEF StageStatus
  <2>3. exec' = [exec EXCEPT ![r] = e] /\ e.draft = n /\ e.base = base
    BY <1>1, <1>3, <1>10 DEF Report, TypeOK, ExecType
  <2>4. file' = [file EXCEPT ![r] = run] /\ UNCHANGED <<draft, config, passed>>
    BY <1>10 DEF Report, Save
  <2> HIDE DEF run, e
  <2> QED BY <1>2, <1>3, <2>2, <2>3, <2>4, ChecksGoOn
<1>11. CASE PipelineDone(r)
  <2> DEFINE e == [exec[r] EXCEPT !.phase = "close", !.left = KnowledgeOrder]
  <2>1. exec' = [exec EXCEPT ![r] = e] /\ e.draft = n /\ e.base = base
    BY <1>1, <1>3, <1>11 DEF PipelineDone, TypeOK, ExecType
  <2>2. file' = [file EXCEPT ![r] = file[r]] /\ UNCHANGED <<draft, config, passed>>
    BY <1>1, <1>11 DEF PipelineDone, TypeOK
  <2> HIDE DEF e
  <2> QED BY <1>2, <1>3, <2>1, <2>2, ChecksGoOn
<1>12. CASE CloseStage(r)
  <2> DEFINE s == Head(exec[r].left)
             run == Close(file[r], s)
             e == IF Len(exec[r].left) = 1 THEN Loop(exec[r].draft, run)
                  ELSE [exec[r] EXCEPT !.left = Tail(@)]
  <2>1. s \in Knowledge
    <3>1. exec[r].left # <<>>
      BY <1>2, <1>12 DEF CloseStage, In, ExecGood, Inv, ExecOK
    <3> QED BY <1>3, <3>1, HeadTailProperties
  <2>2. Checked(run, n, passed)
    BY <1>3, <2>1, CheckedClose, StageSets
  <2>3. exec' = [exec EXCEPT ![r] = e] /\ file' = [file EXCEPT ![r] = run]
    BY <1>12 DEF CloseStage, Save
  <2> HIDE DEF run
  <2>4. e.draft = n /\ Checked(e.base, n, passed)
    BY <1>3, <2>2 DEF Loop, ExecType
  <2>5. UNCHANGED <<draft, config, passed>>
    BY <1>12 DEF CloseStage
  <2> HIDE DEF e
  <2> QED BY <1>2, <2>2, <2>3, <2>4, <2>5, ChecksGoOn
<1>13. CASE Fail(r) \/ Complete(r)
  <2>1. PICK run : /\ Stop(r, run) /\ run.action = base.action
                   /\ \A s \in Stage : run.stage[s] \in {base.stage[s], "failed"}
    <3>1. CASE Fail(r)
      <4>1. /\ Failed(base).action = base.action
            /\ \A s \in Stage : Failed(base).stage[s] \in {base.stage[s], "failed"}
        BY <1>3 DEF Failed, Run
      <4> QED BY <3>1, <4>1 DEF Fail
    <3>2. CASE Complete(r)
      <4> DEFINE run == [base EXCEPT !.status = "completed", !.current = NoStage]
      <4>1. run.action = base.action /\ run.stage = base.stage
        BY <1>3 DEF Run
      <4>2. Stop(r, run)
        BY <3>2 DEF Complete
      <4> HIDE DEF run
      <4> QED BY <4>1, <4>2
    <3> QED BY <1>13, <3>1, <3>2
  <2>2. Checked(run, n, passed)
    BY <1>3, <2>1, CheckedLess
  <2>3. UNCHANGED <<draft, config, passed>>
    BY <1>13 DEF Fail, Complete
  <2> QED BY <1>2, <2>1, <2>2, <2>3, ChecksGoOn DEF Stop, Save
<1> QED
  BY <1>4, <1>5, <1>6, <1>7, <1>8, <1>9, <1>10, <1>11, <1>12, <1>13 DEF Runner

\* A request or a restart saves runs with the plan they had and no more completed
\* stages; the execution that begins takes the draft of now.
LEMMA RequestsKeepChecks ==
  ASSUME Inv, CheckInv, NEW r \in Runs, StartRun(r) \/ Retry(r) \/ Execute(r)
  PROVE  CheckInv'
<1>1. TypeOK /\ UNCHANGED <<draft, config, passed>>
  BY DEF Inv, StartRun, Retry, Execute
<1>2. ASSUME NEW run, run # NoFile, file' = [file EXCEPT ![r] = run], exec[r] = NoExec,
             Checked(run, draft, passed),
             exec' = exec \/ exec' = [exec EXCEPT ![r] = Loop(draft, run)]
      PROVE  CheckInv'
  <2>1. /\ file'[r] = run
        /\ \A q \in Runs \ {r} : file'[q] = file[q] /\ exec'[q] = exec[q]
    BY <1>1, <1>2 DEF TypeOK
  <2>2. /\ exec'[r] = NoExec \/ exec'[r] = Loop(draft, run)
        /\ Loop(draft, run).draft = draft /\ Loop(draft, run).base = run
    BY <1>1, <1>2 DEF TypeOK, Loop
  <2>3. draft <= draft
    BY <1>1, BoundsAssumption DEF TypeOK
  <2> QED BY <1>1, <1>2, <2>1, <2>2, <2>3 DEF CheckInv, CommitFollowsChecks, Exists
<1>3. CASE StartRun(r)
  <2>1. PICK plan \in Plans : Save(r, NewRun(plan))
    BY <1>3 DEF StartRun
  <2>2. PICK skipped \in Skips : plan = [s \in Stage |-> IF s \in skipped THEN "skip" ELSE "run"]
    BY DEF Plans
  <2>3. \A s \in Checks : plan[s] = "run"
    BY <2>2, CheckSets, SkipsAssumption
  <2>4. Checked(NewRun(plan), draft, passed) /\ NewRun(plan) # NoFile
    <3>1. NewRun(plan).action = plan /\ NewRun(plan).status = "pending"
          /\ \A s \in Stage : NewRun(plan).stage[s] = "pending"
      BY DEF NewRun
    <3> QED BY <2>3, <3>1, CheckSets DEF Checked, NoFile
  <2>5. exec[r] = NoExec /\ exec' = exec
    BY <1>3 DEF StartRun, Inv, ExecOK
  <2> QED BY <2>1, <2>4, <2>5, <1>2 DEF Save
<1>4. CASE Retry(r)
  <2> DEFINE run == ResetFrom(file[r])
  <2>1. file[r] \in Run /\ Checked(file[r], draft, passed)
    BY <1>1, <1>4, RunTypes DEF Retry, CheckInv
  <2>2. /\ run.action = file[r].action /\ run.status = "pending"
        /\ \A s \in Stage : run.stage[s] \in {file[r].stage[s], "pending"}
    BY <2>1 DEF ResetFrom, Run
  <2>3. file' = [file EXCEPT ![r] = run] /\ exec' = exec /\ exec[r] = NoExec
    BY <1>4 DEF Retry, Save, Inv, ExecOK
  <2> HIDE DEF run
  <2>4. Checked(run, draft, passed) /\ run # NoFile
    BY <2>1, <2>2, CheckedLess DEF NoFile
  <2> QED BY <2>3, <2>4, <1>2
<1>5. CASE Execute(r)
  <2>1. /\ Exists(r) /\ file[r] \in Run /\ file[r].status = "pending"
        /\ Checked(file[r], draft, passed)
    BY <1>1, <1>5, NoRunAssumption, RunTypes DEF Execute, Inv, QueueOK, CheckInv
  <2>2. exec[r] = NoExec
    BY <2>1 DEF Inv, ExecOK
  <2>3. CASE UNCHANGED <<file, exec, fresh>>
    BY <1>1, <2>3 DEF CheckInv, CommitFollowsChecks, Exists
  <2>4. ASSUME NEW run, run = [file[r] EXCEPT !.status = "running", !.retryable = NoStage],
               Save(r, run), exec' = [exec EXCEPT ![r] = Loop(draft, run)]
        PROVE  CheckInv'
    <3>1. run \in Run /\ run.stage = file[r].stage /\ run.action = file[r].action
      BY <2>1, <2>4 DEF Run
    <3>2. Checked(run, draft, passed) /\ run # NoFile
      BY <2>1, <3>1, CheckedLess, RunsExist
    <3> QED BY <2>2, <2>4, <3>2, <1>2 DEF Save
  <2> QED BY <1>5, <2>3, <2>4 DEF Execute
<1> QED BY <1>3, <1>4, <1>5

LEMMA ChecksNext ==
  ASSUME Inv, CheckInv, [Next]_vars
  PROVE  CheckInv'
<1>1. TypeOK
  BY DEF Inv
<1>2. CASE SaveDraft
  <2>1. draft \in Nat /\ draft' \in Nat /\ draft <= draft' /\ draft' <= MaxDrafts
        /\ UNCHANGED <<config, passed, file, exec>>
    BY <1>1, <1>2, BoundsAssumption DEF SaveDraft, TypeOK
  <2>2. \A r \in Runs : Exists(r) => Checked(file[r], draft', passed)
    BY <2>1, CheckedLater DEF CheckInv
  <2>3. \A r \in Runs : exec[r] # NoExec => exec[r].draft <= draft'
    <3>1. \A r \in Runs : exec[r] # NoExec => exec[r].draft \in Nat
      BY <1>1, RunTypes DEF ExecType
    <3> QED BY <2>1, <3>1 DEF CheckInv
  <2> QED BY <2>1, <2>2, <2>3 DEF CheckInv, CommitFollowsChecks, Exists
<1>3. CASE ReviewRefresh \/ Tick \/ UNCHANGED vars
  <2>1. UNCHANGED <<draft, config, passed, file, exec>>
    BY <1>3 DEF ReviewRefresh, Tick, vars
  <2> QED BY <2>1 DEF CheckInv, CommitFollowsChecks, Exists
<1>4. CASE Crash
  BY <1>4 DEF Crash, CheckInv, CommitFollowsChecks, Exists
<1>5. CASE Restart
  <2>1. \A r \in Runs : exec'[r] = NoExec
    BY <1>5 DEF Restart, Inv, ExecOK
  <2>2. ASSUME NEW r \in Runs, Exists(r)' PROVE Checked(file'[r], draft, passed)
    <3>1. file'[r] = IF r \in Inherited THEN Interrupted(file[r]) ELSE file[r]
      BY <1>5 DEF Restart
    <3>2. Exists(r)
      BY <2>2, <3>1 DEF Exists, Inherited
    <3>3. file[r] \in Run /\ Checked(file[r], draft, passed)
      BY <1>1, <3>2, RunTypes DEF CheckInv
    <3>4. Interrupted(file[r]).stage = file[r].stage /\ Interrupted(file[r]).action = file[r].action
      BY <3>3 DEF Interrupted, Run
    <3>5. Checked(Interrupted(file[r]), draft, passed)
      BY <3>3, <3>4, CheckedLess
    <3> QED BY <3>1, <3>3, <3>5
  <2> QED BY <1>5, <2>1, <2>2 DEF Restart, CheckInv, CommitFollowsChecks, Exists
<1> QED BY <1>2, <1>3, <1>4, <1>5, RequestsKeepChecks, RunnerKeepsChecks DEF Next

\* What is committed passed the validation, the provider tests and the health check,
\* in the committed revision of the draft or in an earlier one; no mix of retries,
\* edits and kills leads around a check.
THEOREM CommitIsBehindChecks == Spec => []CommitFollowsChecks
<1>1. Init => CheckInv
  BY DEF Init, CheckInv, CommitFollowsChecks, Exists
<1>2. CheckInv => CommitFollowsChecks
  BY DEF CheckInv
<1> QED BY <1>1, <1>2, ChecksNext, InvHolds, PTL DEF Spec
============================================================================
