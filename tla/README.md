# super-helper in TLA+

super-helper is a chat-first diagnostic assistant that runs on one machine. A
gateway process (Node, TypeScript) serves a dashboard; each user message becomes
a *turn* that looks into approved experience, a local knowledge base, read-only
MCP evidence and, if these do not suffice, the Claude Code CLI. Everything it
knows is files under one data root, shared with a command line that may run
beside the gateway. This directory holds TLA+ models of the parts of it where
order, crashes and stale copies decide, the TLC configurations that check them,
and TLAPS proofs of theorems about them.

Paths below are relative to the repository root, which holds a `src/` of its own.

    tlc -workers 2 -config GenerationStore.cfg MCGenerationStore
    tlapm GenerationStoreProofs.tla

## 1. The system

| Component | State | Operations | Talks to |
|---|---|---|---|
| Knowledge generation store (`src/knowledge/generation-store.ts`, `generation-recovery.ts`, `application/knowledge-rebuild-service.ts`) | `generations/<id>/` directories, `active.json`, the lock directory with `owner.json`, `dirty.flag` | rebuild with retry, vector build, publish, rollback, stale-lock recovery | every process on the root; readers |
| Knowledge readers and retrieval (`src/retrieval`, `src/knowledge/documents`) | the generation a request resolved | BM25 and embedding recall, fusion, one candidate per document, rerank | generation files, *today's* documents and report; embedding and rerank providers |
| Case store and session routes (`src/sessions`, `src/gateway/routes`) | one JSON file per case: messages, runs, events, status, `archivedAt` | chat, retry, archive, pin, title, delete, list, stale check | turns (whole-file saves) |
| Turn queue and life cycle (`src/runtime/turn-queue.ts`, `session-lifecycle.ts`, `diagnostic-runtime.ts`) | a promise chain per case, a copy of the case per running turn | accept, start, progress, complete, fail, start-up scan | case store, worker, retrieval |
| Turn pipeline decisions (`src/runtime/*`) | none of its own; runs and events of the turn's copy | preflight, experience, knowledge, MCP, worker, review gate, reply | providers, worker, evidence |
| Claude Code worker (`src/workers/claude`) | the static map of locks, a child process per call | lock per session, spawn, time out, retry while busy | `claude` CLI, one session per case |
| Onboarding runs (`src/onboarding`) | a draft file, run files with thirteen stages, the configuration | start, execute, fail, retry, recover, commit | knowledge pipeline, providers, gateway reload |
| Ingestion and slices (`src/knowledge/ingest.ts`, `slicer.ts`, `publish*.ts`, `quality`, `repair.ts`, `case-review.ts`) | copies of source files, slice files with two statuses, documents, the last quality report, the last repair plan | take in, slice, audit, approve, review, repair, publish, curate and review a case | the onboarding pipeline, the dashboard reviewer and the command line all work on the same files; generation store |
| Chunking (`src/knowledge/documents/chunk*.ts`) | none | text to children | the index |
| Providers, settings, dashboard, logs | configuration files; none | I/O at the rim | everything above |

What is hard in it, and therefore what the models are about:

- *Several operating system processes share files.* A rebuild in the CLI, one in
  the gateway, a rollback and a lock recovery interleave at file operations; any
  of them may be killed between two.
- *A turn holds a copy of its case across awaits* and saves the whole copy. Other
  requests for the case, a reload of the configuration (a second runtime with a
  queue of its own) and the clock run in between.
- *Recovery at start-up* repairs what a killed process left: an inherited turn, an
  interrupted onboarding run, a lock. The repair is itself several saves.
- *Decisions made in one place bind another.* A turn's evidence is judged, reviewed,
  frozen, projected and replied with by different services; a slice approved under one
  report is published under another; a chunk indexed under one status is searched when
  its document has a different one.
- *Retries*: of a publication that lost a race, of an interrupted turn, of a failed
  stage, of a busy CLI session. Each starts from a state somebody else may have
  changed.

What makes each part correct is stated as the properties of section 3; the list
of places where it could go wrong, line by line, is under `hazards` in
`PROJECT.json`.

## 2. The modules

| Module | Models | Abstracts from |
|---|---|---|
| `ActivePointer` | what the store promises: a pointer moved by compare-and-set over complete generations | everything else |
| `GenerationStore` | publish, vector build, rollback, retry, recovery, readers, dirty flag, kills | file contents: a generation holds the *version* of the documents it was built from |
| `CaseTurns` | one case: every request that changes it, the queue, turns, failure, retry, stale check, reload, kills | the text of messages: a message is a kind and the question it answers |
| `OnboardingRun` | draft revisions, runs, stages, pipeline reports, failure, retry, kills, recovery, commit | what a stage computes: it answers ok, not ok, or throws |
| `Places` | operators: the places of a sequence left when some of it is dropped, and what is at chosen ones; a finite set in an order | everything else |
| `SessionLine` | what the worker's lock promises: one line of calls per session, first come first served | everything else |
| `ClaudeWorker` | the lock, children, timeout, busy retry, follow-up, run numbers, reload, kills | the result: usable or not |
| `Preflight` | the request of a turn: which messages and runs it quotes, what it calls a fact, which items it asks for | text: a message is its text, a text the patterns it matches |
| `Claims`, `EvidenceJudge`, `AnswerReview`, `TurnEvidence` | operators: evidence and claims; the judge of knowledge and the second investigation; structure, coverage review, gate, projection, reply; what memory, MCP and the worker bring | wording; scores keep the code's numbers where a threshold reads them |
| `TurnPipeline` | one turn from its request to its reply, a step from one await to the next, with generations published meanwhile | the providers: sets of answers |
| `Slicing` | operators: blocks to slices, text to children | characters: a sentence is a name, a number and a length |
| `Retrieval` | operators: recall, filters, fusion, dedupe, rerank | BM25 and cosine scores: the number of words shared; a reranker's scores: whole numbers |
| `KnowledgeSearch` | source files, slices, report, repair plan, documents, the index and the searches of it, worked on by pipeline, reviewer, command line and curation | the generation store: a rebuild publishes if nobody else did since it began |
| `MC*` | model values and small sets for TLC | |
| `*Proofs` | the theorems of section 5 | |

How state and actions correspond to the code, per module:

**GenerationStore.** A step is a file operation, because a call into the store is
synchronous in its process and only *other processes* come between. `pc[p]` is the
line a process has reached, `op[p]` its locals (`expectedActive`, the new id, the
attempt). `ReadExpected` and `Prepare` are the part before the lock
(`build.ts`, `knowledge-rebuild-service.ts`); `AcquireLock` ... `Release` are
`acquireLock` and the `try`/`finally` of `publishKnowledgeGeneration` and
`rollbackKnowledgeGeneration`; every step in the `try` can throw (`StepFails`), also
after the pointer moved (`SwapPointer` with result `failed`: the fsync of the
directory), and so can the removals in the `catch` and `finally` blocks and in the
recovery (`UnwindFails`, `CleanupFails`, `ReleaseFails`, `CleanFails`, `UnlockFails`): a
removal that throws skips whatever stands behind it, and one that breaks off may have
taken `owner.json` and not the lock. The lock belongs to whoever created the directory;
`owner.json` follows in a second step. A reader resolves the generation once (`pin`) and
reads four times. `OneOperator` is a premise about the operators, not about the code:
the recovery is `recoverStaleLock` of the publisher (`generation-store.ts:63`), reached
through `recoverKnowledgePublishLock` (`knowledge-rebuild-service.ts:175`), which is
exported and called by nothing in the repository but its tests; nothing keeps two calls
apart.

**CaseTurns.** The gateway is one event loop: a handler runs to its first await, but
saves several times on the way, and the process may be killed between two saves. A
handler therefore computes the *list* of its saves (`pending`), which `Flush` writes
one by one and `Crash` cuts off. `turns[t].snap` is the copy a turn works on. Promise
reactions (a queued turn starting behind a settled one) run before the next request;
`Macrotask` and `Starting` encode that order, down to which of two rejections is
recorded first.

**OnboardingRun.** One step per save of the run file. `exec[r].base` is the run as
`execute` holds it, `file[r]` what is on disk: they differ because
`executeSingleStage` and `failRun` work on different copies (`runner.ts:168`).

**ClaudeWorker.** Only what decides over a child is kept of a turn: which case, which
runtime, how many runs its copy holds. `tail` is the static map `sessionQueues`,
`prev` the promise a call found in it. The mode (`--session-id` for `run_01`,
`--resume` otherwise) is fixed when the run is numbered.

**Preflight.** `Ask`, `Retry` and `Interrupt` are what brings a turn into being; the
model's dispatch (`ModelDispatches`) is reconciled with what the runtime reads off the
messages itself (`Resolve`, `Reconcile`, `MustAnswer`). A statement is a text and the
message it is from. The model may list facts of the user's (in its order, also twice; of
two with one text the later is meant, as in the `Map` of `resolved-turn.ts:81`) and
statements of the three other kinds with any text and source; each list then keeps the
first of equal statements and the last `ListWindow` of them (`UniqueStatements`). A
cutoff keeps what was asked after the question out of a retried turn.

**TurnPipeline.** `pc` is the stage; each action runs from the return of one await to the
next, so that in between another process may publish a generation (`active`). `stage`
holds the result under review and where it came from, `escalation` what the judge left
in the request for the worker. The review of a result (`AnswerReview`) is a chain of
operators in the order of the code: `Structure`, `Current` and `Reviewable` (what may be
reviewed), `Review`, `Frozen`, `FreezeOutcome`, `Decision`, `Projection`,
`ApplyProjection`. Of what is cited, `Holds` asks that the generation active at the start of
the review holds it, active, of good quality and grounded; that it was *verified of late*
the code asks only of what an earlier conversation cited (`Library`,
`knowledge-experience-resolver.ts:16`), not of a hit of the search.

**KnowledgeSearch.** `drafts[s]` are the slices of a source with `pipeline_status` and
`quality_status`, `docs` the documents by *path* (so that two slices with one path are
one file), `report` the issues of the last audit, `index` the documents the active
generation was made from. The pipeline's audit, approval, publication and snapshot have
no await between them and are one step; taking in and slicing are steps of their own,
between which the command line, another process, may act, and a kill may end the run.
`builds` are the generations being embedded; a publication makes all others fail
(`Overtaken`), which is what `GenerationStore` has in detail, and only if no two chunks
have one id (`ChunkIdsDiffer`, `generation-validation.ts:36`); `knowledge init` ends there
too, with its slices written and no index. `approved` and `found` are
history: who was ever approved, and the answer of the last search. The blocks of the
source files are constants (`Page`), and their slices and children are computed by
`Slicing` once (`FilesAssumption`).

Definitions marked *Mutant* or *Variant* are not part of the models: each is the
form a definition would have with a plausible bug, and shows that a property would
notice it.

## 3. The runs

| Run | Instance | Checks |
|---|---|---|
| `store` | 3 processes, 2 generations, 2 document versions, 2 attempts, all kinds | `OneWriter`, `ActiveIsComplete`, `ContentNeverRegresses`, implements `ActivePointer` |
| `store_live` | 2 processes, 2 generations, 1 reader, 1 attempt, persistent recovery | `TypeOK`, `PinnedRequestReadsOneGeneration`, `LockOfUnfinishedPublishIsCleared` |
| `turns` | 2 messages, 4 turns, 2 runtimes, 2 kills, every request | `TypeOK`, `TurnsRunInOrder`, `OnePlaceholder`, `InterruptionKeepsPlaceholder`, `FormalReplyHasItsQuestion`, `StartOffersRetry` |
| `turns_live` | 2 messages, 3 turns, 2 kills, fair | `TurnsSettle`, `CaseDoesNotStayActive` |
| `onboarding` | 2 runs, one plan, 1 kill, fair | `RunningRunIsExecuted`, `RunningRunSettles` |
| `onboarding_plans` | 1 run, every plan and pipeline order, 2 drafts, 2 kills | `CompletedRunIsWhole`, `CommitFollowsChecks`, `ConfigIsCommittedLast` |
| `worker` | 1 case, 2 turns, 2 runtimes, 1 retry, 1 kill, fair | `TypeOK`, `OneChildPerSession`, `MapHoldsOutstandingCalls`, `SessionIsBegunOnce`, `CallsEnd`, implements `SessionLine` |
| `preflight` | 4 questions, 4 texts, 1 interruption, 4 proposals; windows 3, 2, 3 and 1 | `ContextIsPast`, `FactsAreObserved`, `OnlyFullListsForget`, `ItemsWereReviewed` |
| `pipeline` | 2 items, 2 generations, every kind of pack, tool call and worker output, fair | `SupportedConclusion`, `KnowledgeAnswerIsCurrent`, `ReplyAgreesWithStatus`, `ConflictIsNeverFinal`, `TurnEnds` |
| `knowledge_search` | 2 files with 4 slices, 1 case; 2 pipeline runs, 3 commands or reviews, 4 of both together; every search in every state | `PipelinePublishesOnlyClean`, `ActiveDocumentsWereApproved`, `AnswersComeFromApprovedDocuments`, `RerankLosesNothing`, `TextIsKept` |
| `turns_lost`, `published_overwritten` | smallest that shows it | one statement of a document each, which the code does not keep (section 4) |

Why the bounds are enough to be of use:

- *Three processes* let a third one publish between the two comparisons of a second
  one while a first one is dead with the lock; *two generations* are the active one and
  a candidate; *two document versions* suffice for "older than". Symmetry (of
  processes and of generations, which no operator tells apart) is used in
  `store` only, which checks no liveness.
- *Two messages and four turns* give each message a first turn and a retry; *two
  runtimes* are needed for two turns of one case at once; the *second kill* is what
  interrupts a message twice or falls into the repair of the first.
- *Two runs* are needed for one to become active beside the other; *two drafts* for a
  retry with another revision than the one that was checked. `onboarding` uses one
  plan, `onboarding_plans` all of them with one run: which plan a run has and whether
  another run exists do not meet in the code. `onboarding` has one draft:
  which revision it is does not decide whether an execution goes on.
- *One session* in `worker`: sessions share nothing but the map, whose entries are
  per session; that other sessions do not disturb is in the proofs, which are for any
  number. Two turns make up to four calls of one session.

- *Four questions* let one be retried after later ones were answered, and more be asked
  than any window holds; the windows (of messages looked at, statements listed, messages
  and runs quoted: 12, 8, 8 and 3 in the code) are small enough that each of them binds.
  The four proposals between them demote facts, repeat one, claim a guess, add statements
  of each kind, equal ones, and so many that they fill a list.
- *Two items* are needed for an answer to part of a question; *two generations* for an
  answer that is out of date; the tool calls, outputs and packs hold one of each kind the
  operators tell apart (found or not, stated or inferred, current or retired, cited or
  invented, contradicting, failing).
- In `knowledge_search` the guide has a section long enough for two slices, one slice with a
  flaw of its own, and one whose file name is that of another; the faq has a flaw of
  its source. Four steps of people and pipelines are the shortest histories in which an
  approval, a new slicing, a stale report and a publication meet. The limits of recall
  and fusion (3) and of the results (2) cut in the larger indexes. The lengths (10, 4 and
  3 characters) keep the order of the code's: overlap below minimum below maximum.
  `TextIsKept` is about operators: it is evaluated for some nine thousand texts and
  thirteen hundred pages, with lengths at and around each limit.

The model checker reaches every action of every module in the passing runs.
`CHECK_DEADLOCK FALSE` is set where bounded inputs run out and the system rests.

### Fairness

- `GenerationStore`: a live process takes its next step; time passes
  (`LockAges`). `LockOfUnfinishedPublishIsCleared` needs in addition that somebody
  calls the recovery again and again (`PersistentRecovery`, strong because the
  recovery is possible only while no other one runs), and that a removal which is tried
  again and again succeeds once. No publish or kill is fair.
- `CaseTurns`: the event loop runs (`Flush`, `RecordFailure`, starts); an awaited call
  ends, strongly because other events may come between any two reactions of a turn
  (the provider adapters abort after `timeoutMs`, 60 s by default, the child gets
  SIGTERM; a worker with
  `timeoutMs` 0 is outside this assumption); a killed process is started again; the
  dashboard polls the session (`web/src/dashboard/use-chat.ts`).
- `OnboardingRun`: an execution goes on, strongly for the same reason; restart.
- `TurnPipeline`: the turn goes on (`WF_vars(Next)`): every await of it has a timeout, or
  ends with the child of the worker, which `CallsEnd` is about.
- `Preflight`, `KnowledgeSearch`: none; they have safety properties only.
- `ClaudeWorker`: the event loop does what is its own (`OwnStep`). A child need not
  end by itself; one that got SIGTERM does. The code sends no SIGKILL: a child that
  ignores SIGTERM would hold its session for ever, which is the premise of `CallsEnd`
  and a weakness of the code.

## 4. Where the code departs from what it says

Two runs end in a violation, each of one statement of the repository:

| Run | The code | The statement |
|---|---|---|
| `turns_lost` | a turn saves the copy it loaded over a message accepted meanwhile (`file-memory-store.ts:159`) | `docs/standards/development.md:102` |
| `published_overwritten` | the file of a slice is named after the ASCII words of its title: the parts of two Chinese sections are both `1.md`, the later is written over the earlier and both are reported published (`publish.ts:231`) | `openspec/specs/knowledge-diagnosis-hardening/spec.md:108` |

Further statements are definitions of the modules (marked "Not so" there) that the code does
not keep either. Each is false in the model, and TLC shows it within seconds when the
definition is given as the only invariant or property to the `.cfg` named, with the change
named (of the bounds, unless a specification is named):

| Definition | The code | The statement | Reproduce with |
|---|---|---|---|
| `GenerationStore!LiveOwnerReleases` | the `finally` block removes the temporary directory and then the lock: if the first removal throws, the lock stays with a live owner, which no recovery touches (`generation-store.ts:168`) | `openspec/changes/fix-answer-fidelity-and-retrieval-quality/design.md:353` | `GenerationStoreLive.cfg`, `SPECIFICATION FairSpec`, `Procs = {p1}`, `Gens = {g1}`, `Readers = {}` |
| `GenerationStore!CleanMeansCurrent` | `finalizeKnowledgeIndexGeneration` removes `dirty.flag` whatever was written since the documents were read (`indexes/build.ts:111`) | `openspec/specs/layered-knowledge-diagnosis/spec.md:201` | `GenerationStore.cfg` |
| `CaseTurns!InheritedTurnIsRetryable` | a message that was interrupted once is skipped by every later start, so a second interruption of it offers no retry (`stale-turn.ts:25`). `StartOffersRetry` says, and `RetryIsOffered` proves, that only messages the user has retried before are skipped | interruption-recovery design, line 270 | `CaseTurnsLive.cfg` (two kills) |
| `OnboardingRun!OneActiveRun` | `retry` makes its run the newest and then finds itself (`runner.ts:159`, 74) | onboarding design, line 515 | `OnboardingRun.cfg` |
| `OnboardingRun!ActiveRunIsExecuted` | a run saved as pending when the process dies stays pending: it is not marked failed, cannot be retried and blocks every other (`run-repository.ts:50`) | onboarding design, line 558 | `OnboardingRun.cfg` |
| `OnboardingRun!FailedRunsLeaveConfig` | the configuration is written and the reload behind it throws, or the process dies: the run is failed, the configuration new (`runner.ts:180`) | onboarding design, lines 550 and 684 | `OnboardingRunPlans.cfg` |
| `OnboardingRun!CommittedDraftPassed` | a retry loads the draft anew but keeps the completed checks, so an edited draft is committed unchecked (`runner.ts:79`, 97). What remains is `CommitFollowsChecks`: the committed revision or an earlier one passed | onboarding design, lines 528-536 | `OnboardingRunPlans.cfg` |
| `Preflight!ModelOnlyDemotes` | the statements a model adds go behind the user's and the list keeps its last eight, so they push out what the user said (`resolved-turn.ts:126`) | `src/agents/input-review.md:57`, `docs/architecture/runtime/question-contract.md:17` | `Preflight.cfg` |
| `ClaudeWorker!ResumedSessionWasBegun` | `--session-id` is used for `run_01` only, also when that run never reached the worker (`claude-code-worker.ts:121`) | `test/supper-helper.test.mjs:867` | `ClaudeWorker.cfg` |
| (an escalation with `attempt > 1` has a route without risks) | the judge returns on implementation signals before it looks at the risks, so a question of high risk gets its second investigation (`evidence-judge.ts:80`) | `openspec/specs/knowledge-diagnosis-hardening/spec.md:427` | `TurnPipeline.cfg` |

The interruption-recovery design is
`docs/superpowers/specs/2026-07-25-session-turn-interruption-recovery-design.md`, the
onboarding design `docs/archive/superpowers/specs/2026-06-15-dashboard-onboarding-design.md`.

Other behaviour met while modelling, which the models contain and no property
forbids; a change of the code should be aware of it:

- A request that starts before the first generation is active is not pinned
  (`pin` is `NoGen`) and may mix the flat files with a generation that appears
  (`chunks.ts:19`; `docs/runbooks/knowledge-migration.md:55` says otherwise).
- Two operators recovering one lock can remove the lock of a publisher that came in
  between (`generation-recovery.ts:26`): with `OneOperator` FALSE, `OneWriter` fails.
- A kill after the swap and before the release leaves a lock whose owner names the
  previous generation; the recovery refuses it for ever (`generation-recovery.ts:21`).
- A retry is accepted while another turn of the case runs with an older copy, and then
  a second time (`diagnostic-runtime.ts:148`); an archive, pin or title is overwritten
  by a running turn, a deleted case written again (`file-memory-store.ts:211`).
- A single stage that fails marks the stage before it as the one to retry
  (`runner.ts:168`).
- A source that was taken in when the process died is reused by every later run and never
  sliced (`ingest.ts:152`, `knowledge-pipeline.ts:69`); `knowledge slice` repairs it.
- A slice sent back with `request_edits` is approved by the next run of the pipeline if the
  audit finds nothing in it (`publish.ts:174`); rejecting a slice that is published leaves its
  document active; publishing writes `quality_status: ok` over `unchecked` whenever any
  report exists (`publish.ts:240`). An answer is therefore promised to come from a document
  somebody *once* approved (`approved` in `AnswersComeFromApprovedDocuments`).
- Two documents with one id (a case curated again after it was converted) have chunks with
  the same ids. Such a generation is refused (`generation-validation.ts:36`), so nothing at
  all is published until one of the two is gone.
- The flaw `too_short` is never found in a slice, since the provenance lines it ends with
  count (`slice-rules.ts:73`), so the repair that merges short neighbours is never planned.
- The number of an MCP claim is `claims.length + index + 1` while `claims` grows with the same
  loop (`mcp/evidence-service.ts:186`): after 3 and 2 claims of two calls the first of a third
  call is number 6 again, which the review answers with a global blocker.
- After a reload and in two runtimes at once, two turns of one case may both number a
  run `run_01`; `SessionIsBegunOnce` is for a gateway that does not reload.

## 5. What is proved

With TLAPS, for every value of the constants that satisfies the named assumptions:

| Theorem | Says | Argument |
|---|---|---|
| `GenerationStoreProofs!TypeCorrect` | `TypeOK` | inductive |
| `...!ActiveAlwaysComplete` | the pointer and every pinned generation are complete, also with concurrent recoveries | see below |
| `...!MutualExclusion` | one writer, if recoveries do not overlap | `LockInv` |
| `...!PublishGoesForward` | content never regresses except by rollback, same premise | `ContentInv` on top of `LockInv` |
| `...!RequestsStayPinned` | a request that resolved a generation reads that one only | `PinInv` |
| `...!StoreIsAPointer` | the store implements `ActivePointer`, same premise as one writer | refinement, on `LockInv` |
| `CaseTurnsProofs!CaseTypeCorrect` | `TypeOK` | inductive, with a lemma per kind of save |
| `...!TurnOrder` | turns of one runtime run one at a time, in order | `QueueOK` |
| `...!PlaceholderOnce` | `OnePlaceholder` | `FileOK` |
| `...!PlaceholderKept` | an interrupted message keeps its placeholder until it is retried | `FileOK` |
| `...!FormalReplySupported` | a formal reply has its question | `FileOK` |
| `...!RetryIsOffered` | after any number of kills a start offers the unanswered message for retry, or the user has retried an earlier interruption of it | step of `Restart`, on `FileOK` |
| `ClaudeWorkerProofs!WorkerTypeCorrect` | `TypeOK`, i.e. also the bound on attempts and on calls per turn | `TurnOK`, `AttemptOK` |
| `...!OneChild` | one call of a session is past the lock | `LockOK` |
| `...!MapIsExact` | the map has entries for exactly the sessions with a call | `TailOK` |
| `...!BegunOnce` | one begin per session before a reload | `BegunOK` |
| `...!LockIsALine` | the lock implements `SessionLine` | refinement, on `LockOK` and `CountOK` |
| `OnboardingRunProofs!OnboardingTypeCorrect` | `TypeOK` | part of `Inv` |
| `...!RunningIsExecuted` | a running run has its execution | `Inv` |
| `...!CompletedIsWhole` | a completed run did its plan | `SettledOK` |
| `...!CommitComesLast` | the configuration changes in the last stage | `InStage` |
| `...!CommitIsBehindChecks` | no way around a check: the committed revision or an earlier one passed | `CheckInv` on top of `Inv` |
| `PreflightProofs!RequestKnowsItsPast` | a request, also of a retried turn, quotes nothing after its question | `Inv` |
| `...!FactsAreTheUsers` | a fact is what the user said, of a message of the turn, and no guess, whatever the model proposes | `ResolvedOK` |
| `...!NothingElseForgets` | what the user said is in the request, unless newer statements or a full list pushed it out | `ResolvedOK`, `UniqueKeeps` |
| `...!ItemsAreReviewed` | the items to answer are those the review accepted | `AnswerOK` |
| `TurnPipelineProofs!ContradictionEscalates` | contradictory knowledge never ends in a conclusion | `StageOK`, `ReviewOK` |
| `...!ReplyIsHonest` | reply, decision, case status and run agree | `RunsOK`, `ReviewOK` |
| `...!ConclusionIsSupported` | a final reply has a bound primary claim for each item | `StageOK`, `ReviewOK` |
| `...!KnowledgeIsOfNow` | what a conclusion cites, the generation active at the review holds | `StageOK`, `ReviewOK` |
| `KnowledgeSearchProofs!KnowledgeTypeCorrect` | `TypeOK` | part of `Inv` |
| `...!KnowledgeActiveWasApproved` | `ActiveDocumentsWereApproved` | `ApprovedOK`, `DocsOK` |
| `...!KnowledgePublishesOnlyClean` | `PipelinePublishesOnlyClean` | `Inv`, and what the strict gate lets through |
| `...!AnswersAreApproved` | `AnswersComeFromApprovedDocuments` | every stage of a search keeps `Hit` |
| `...!RerankKeepsAll` | `RerankLosesNothing` | the reranked places are a permutation |
| `...!SlicesKeepAll` | `SlicesKeepText` of every page of blocks | what a fold keeps (`FoldKeeps`) |
| `...!ChildrenKeepAll` | `ChildrenKeepText` of every text whose sentences differ | `Echoes`, kept by every step of the packing |
| `...!TextStaysKept` | `TextIsKept`, for any sample pages and texts | the two before |

The assumptions are those the modules declare. Bounds are natural numbers, a
runtime exists, a plan skips and a pipeline reports what the code can, the "none" values
are none of the values they stand beside; the turns of `ClaudeWorker` are finitely many,
because its refinement counts them. Of the providers the proofs assume
only the shape of what the adapters and parsers let through: a pack, the claims of a
tool or of an output are sequences, an output has one of the parsed statuses, a
reranker answers a sequence of places with whole scores, any place and any number of
them, where the code takes any finite number. In `KnowledgeSearch`, the slices of a
file and the children of a slice are sequences, every path a document can get is
listed, a question has finitely many words, and the sample pages and texts are blocks and
texts (`SamplesAssumption`, which TLC evaluates). `StoreIsAPointer`, `MutualExclusion` and
`PublishGoesForward` have `OneOperator` as a premise: without it the statements are false
(section 4). Nothing is assumed about the sizes
of `Procs`, `Gens`, `Readers`, `Sessions`, `Messages` or `Items`, nor that they are finite.

*The store.* That the pointer names a complete generation is not inductive: a swap
would break it unless the target were complete. The strengthening says that a
process at `recheck` or `swap` has a complete target, and follows it back to the step
that made it so; no step makes a complete directory incomplete, since a cleanup
removes temporary ones only. `OneWriter` needs `LockInv`: who is in the locked section
owns the lock directory that is there, and a recovery past its owner check looks at
the lock of a dead process, which stays because the dead do not release and nobody
else recovers. `ContentInv` adds what a process at the swap may rely on: what it
expects is active, and its candidate was built from documents read *after* the
pointer was. This is where the order of `ReadExpected` and `Prepare` matters.
The refinement maps a process between its `acquire` and its swap to a request
of `ActivePointer`; that the swap is a compare-and-set holds although the comparison is
several steps earlier, because in between nobody else is in the locked section. Every other step is
shown to be a stutter. `PinInv` adds to the property that a request has read nothing
before it resolves.

*The queue.* `TurnsRunInOrder` speaks of all earlier turns, the code only of the one
before. `QueueOK` closes the gap: everything unsettled before a turn is at or before
the one it waits for, and the map's tail is at or behind everything unsettled, also
after an entry was deleted.

*The case file.* What a file says of its interruptions (`CaseOK`: one placeholder, which is
there exactly as long as an interrupted message is not retried, and a question for
every formal reply) is not inductive of the file alone. Whatever a running turn holds
and whatever is still to be saved will be the file one day, so `FileOK` says it of all
three, and of a turn's copy that it holds the turn's question; that is why a copy of any age may be
written over the file. The lemmas follow the code: what is appended, removed, or
logged leaves `CaseOK`, in the order `markInterrupted` and the retry have them.

*The worker.* `LockOK` is of the same kind, in four parts: a call waits for an earlier
one of its session (`PrevOK`), what is outstanding before it is at or before that one
(`WaitOK`), the map holds the last outstanding call (`TailOK`), nothing is outstanding
before a call that has passed the lock (`PassOK`). `LockDispatch` shows that a new
call preserves them, `LockMove` that any step of one call does; the actions follow
from the two. In the refinement a call's place in the line is its rank among the
outstanding calls of its session (`PlacesProofs` has what dropping one does to the ranks),
and `CountOK` bounds the calls by two per turn. `BegunOK` says that before the first
reload a case has one live turn, whose copy holds as many runs as the file, and that
the file of a session that was begun holds a run: so the next run is not `run_01`.

*Onboarding.* The executions and the files disagree on purpose (`base`, `file[r]`), so
the invariant relates them: an execution whose run is in an operation has a file that
is `base` with exactly that stage running, and that stage is the next of `base`
(`InStage`); what is completed was to run and what is skipped was to be skipped
(`SettledOK`), in both. A queued run is pending, hence not executed. `CheckInv` adds that
the checks a run has completed were passed by a revision up to the one its execution
loaded. `ExecutionGoesOn`, `ExecutionEnds` and `RunIsQueued` say once what a kind of step
preserves; every action is one of the three.

*The request.* `Preflight` has an invariant per place a message can be in: messages are in the
order they were asked (`MessagesOK`), a run's question is one of its sources (`RunsOK`), and what
a turn has resolved, quoted and had reviewed is judged against its own question and not
against the newest (`ResolvedOK`, `QuotedOK`). That a retried turn quotes nothing later
rests on the identifiers of the questions growing along the messages, which the cutoff
looks for (`MessagesOK`). That nothing else is forgotten is a matter of counting: a statement
that is not among the last of a list has at least so many behind it (`LatestCount`), so what
the local lists leave out has enough newer ones of its kind, and what the merged list leaves
out is missing from a full one (`UniqueKeeps`); a fact the model does not list is among what
is merged (`DemotedIsSaid`).

*The pipeline.* At a review, the result and its envelopes are of a known origin: `StageOK`
names the pack, the memory, the calls or the output they were made from. From there the proof
is about the operators: `ReviewOK` says that what is presented is the result of the chain of
`AnswerReview` on that stage with some review of the model, and the four properties follow
from what each link preserves. Only `RunsOK` follows the run as such. Why a
contradiction stays one: only the judge writes the escalation, and every freeze reads it,
that of the second investigation too.

*Publication.* That active documents were approved is not inductive: a slice approved now
is published later, so `ApprovedOK` says who approved a slice is on record for as long as
it is approved, and `DocsOK` carries that to the documents. `DocsOK` also says that the
path of a solved case holds that case, which a review relies on when it moves the document,
and which publications keep because they write below another folder. Slicing anew, repairs
and reviews change slices one by one (`SlicesStaySlices`); what a publication writes is
`PublishWritesItsSlices`, which needs that of the slices with one path there is a last one.
What the strict gate passes is clean (`StrictGateIsClean`) because the report is of the same
step: the issues of the drafts before the automatic approval are those after it.

*The search.* Each stage of a retrieval keeps one statement of its candidates (`Hit`): of its
fields, and that a candidate which is active and not missing has a parent that is active
*now*. `RankedIs`, `TakeIs`, `FusedAreHits`, `DedupedAre`, `RerankedAre` follow a question
through sorting, limits, fusion, one candidate per document and rerank. The reranker's
answer is first reduced to its valid places, each once, and the rest is appended: the
places are then a permutation, whatever was answered. Scores are sums and rescaled
values, and sorting needs that they can be compared: that sums over a sequence are
numbers, that a finite set has a least and a greatest and that its sorted sequence lists it
is shown by the least number for which it fails (`LeastNat`), since the induction theorems
of the library cannot be instantiated. While an answer is found nothing else happens (`FoundIsStill`), so what holds of the
moment of the search holds in the state that shows it.

*The slices.* The loops of `Slicing` are folds, which the library defines by recursion
over the set of places. `FoldExists` shows that such a recursion has a solution, `FoldRuns`
that any solution goes through one value per place, in order, and `FoldKeeps` that what
each step preserves holds at the end; all three, and what `FlattenSeq` computes
(`FlattenIs`, `FlattenConcat`), are in `PlacesProofs`. With them a block put under a heading
is appended to the text of the groups (`PutUnderHeading`), one put into a draft group to the
text of the drafts, and the parts stay as short as they may be: a block joins headings
alone, or there is room (`PutInDraftKeeps`). The blocks of the slices are then those of the
groups (`SlicesOfGroups`), which are the included ones. Of a block it assumes that its
sentences are a sequence and their lengths natural numbers (`IsBlock`).

*The children.* "The first time each sentence is said, in order, gives back the text" is not
kept by the steps of the packing: it says nothing of what stands before or after. What is
kept is stronger (`Echoes`): whatever was noted before, noting what the children say has the
effect of noting the sentences themselves, and they say at most so many sentences more.
Echoes can be put one after the other (`EchoesJoin`) and echoed again (`EchoesAgain`), and an
overlap, being the last sentence said, adds one repetition and nothing else
(`EchoesOverlap`). So each sentence put into a window (`PutSentenceKeeps`), each paragraph
packed (`PutParagraphKeeps`) and each child mended from the last to the first (`MendIs`) adds
at most one: a cut of two children into others gives back what both said
(`SidesAre`, `HalvesAre`), and the right side may begin with the overlap of the left. Lengths
go along: a window or a child under construction is longer than `MaxChars` by no more than an
overlap and the two line ends behind it. Of distinct sentences `After` is the text itself
(`AfterDistinct`). `EverySeq`, an induction over sequences drawn from `EveryNat`, stands in
for the library's. Of a text it assumes that its paragraphs are not empty and that its
sentences have lengths and differ (`IsText`): two equal sentences cannot be told from one and
its overlap.

Only model-checked: liveness (`LockOfUnfinishedPublishIsCleared`, `TurnsSettle`, `CaseDoesNotStayActive`,
`RunningRunSettles`, `CallsEnd`, `TurnEnds`): fairness is beyond the prover.

## 6. What is not modelled

- The composition of `TurnPipeline` with `CaseTurns`: which answer a turn gives is a free
  choice there, and the decisions read nothing of the case that `Preflight` does not hold
  against a cutoff.
- Extraction of DOCX and Markdown into blocks, the taxonomy, front matter, terms, tokens, BM25
  and cosine scores, the choice of an answer span: conversions of text; a search counts shared
  words. Module, intent, visibility and source type filters are left out of `Retrieval`.
- Of the quality rules, two stand for all that can be wrong with a slice (one of its content,
  one of its length), one for what can be wrong with its source. `--legacy-active-publish`, which
  bypasses review on purpose, and the repair that merges short slices (never planned, see
  section 4) are not modelled. `--quality-gate off` is: as a parameter of `Publishable`, not in
  the runs.
- `KnowledgeSearch` takes an embedding provider as configured: without one a rebuild has no await
  and publishes in the step it begins in. Reads of one search are one step there;
  `GenerationStore` has the reads apart.
- Health, migration, acceptance and evaluation reports (`knowledge/health*.ts`, `migration.ts`,
  `acceptance.ts`, `runtime/retrieval-evaluation.ts`): they read and report.
- Provider adapters, settings, command line, static files, logs, dashboard rendering:
  I/O without state that others race for. What can go wrong in them appears as a
  nondeterministic outcome of the module that calls them.
- A second gateway process on the same root, and torn writes below the level of a
  rename: the code assumes neither.

## 7. Plan

Done: the modules of section 2 and the theorems of section 5; every safety and action
property a run checks has its theorem. What would come next:

1. `TurnPipeline` inside `CaseTurns`: the saves of a turn with what they say.
2. `DashboardPolling`: the client's generations, cancel and retry against `CaseTurns`.
3. Settings and secrets: whole-file saves of one configuration beside an onboarding commit.
