---------------------------- MODULE TurnPipeline ----------------------------
(***************************************************************************)
(* One turn from its diagnostic request (Preflight) to its reply.  An      *)
(* earlier conversation is tried first, then the knowledge base, MCP and   *)
(* the worker, which may be asked a second time; the first that yields a   *)
(* result has it reviewed and ends the turn.                               *)
(*                                                                         *)
(*   src/src/runtime/diagnostic-runtime.ts, experience-turn.ts             *)
(*   src/src/runtime/knowledge-turn.ts, knowledge-diagnosis.ts             *)
(*   src/src/runtime/worker-diagnosis.ts, worker-turn.ts                   *)
(*   src/src/runtime/review-presentation.ts, turn-completion.ts            *)
(*                                                                         *)
(* A step runs from one await to the next.  In between, another process    *)
(* may publish a generation of the knowledge base.  What a stage found is  *)
(* forgotten when the turn has moved on.                                   *)
(***************************************************************************)
EXTENDS EvidenceJudge, TurnEvidence

CONSTANTS
  Items,         \* the items the question must be answered in
  Unknowns,      \* what the request says is unknown
  Routes,        \* what the router may read off the question, and whether a
                 \* model is configured to judge the evidence (rag)
  MemoryLists,   \* the earlier conversations there may be
  LastGeneration, \* bound: generations are published in the order 1..n
  Packs,         \* generation -> what retrieval finds there, by source types or not
  Library,       \* generation -> the verified, fresh evidence it holds
  RagAnswers,    \* what the model may say of the evidence it is shown
  McpCalls,      \* what a call may bring
  WorkerOutputs  \* what the worker may print

ASSUME ItemsAssumption == Items # {}
ASSUME GenerationsAssumption == LastGeneration \in Nat \ {0}
ASSUME RoutesAssumption == \A r \in Routes : r.typed \in BOOLEAN /\ r.rag \in BOOLEAN
ASSUME PacksAssumption ==
  \A g \in 1..LastGeneration : \A x \in BOOLEAN :
    \A pack \in Packs[g][x] : pack \in Seq(Members(pack))
ASSUME MemoriesAssumption ==
  \A ms \in MemoryLists : \A m \in Members(ms) : IsResult(m.run.result)
ASSUME RagAssumption == \A a \in RagAnswers : a.claims \in Seq(Members(a.claims))
ASSUME McpAssumption ==
  \A c \in McpCalls : c.kind = "explicit" => c.claims \in Seq(Members(c.claims))
ASSUME WorkerAssumption ==
  \A o \in WorkerOutputs :
    /\ o.kind \in {"disabled", "broken", "subtype", "prose", "bare", "answer"}
    /\ o.kind = "answer" =>
         /\ o.status \in Statuses /\ DOMAIN o.claims \subseteq Nat
         /\ \A c \in Members(o.claims) : c.visible \in BOOLEAN

VARIABLES
  pc,
  active,     \* the generation active now
  route, memories,
  know,       \* the knowledge stage: typed, pinned, pack
  escalation, \* what it left in the request: {} or one escalation
  calls,      \* the MCP calls so far
  runs,       \* run -> its status
  stage,      \* the result under review and where it came from
  review,     \* what the review knows of it
  answer      \* the reply

vars == <<pc, active, route, memories, know, escalation, calls, runs, stage,
          review, answer>>
env == <<route, memories, active>>

Nothing == [pinned |-> 0]

Init ==
  /\ pc = "experience" /\ active = 1
  /\ route \in Routes /\ memories \in MemoryLists
  /\ know = Nothing /\ escalation = {} /\ calls = <<>> /\ runs = <<>>
  /\ stage = Nothing /\ review = Nothing /\ answer = Nothing

Publish ==
  /\ active < LastGeneration /\ pc \notin {"done", "failed"}
  /\ active' = active + 1
  /\ UNCHANGED <<pc, route, memories, know, escalation, calls, runs, stage,
                 review, answer>>

(* addRun of a run that has its result already, and the start of the       *)
(* review: nothing is awaited in between.                                  *)
ReviewOf(source, run, result, envelopes, failed) ==
  /\ stage' = [source |-> source, run |-> run, raw |-> result, failed |-> failed,
               envelopes |-> envelopes, active |-> active,
               structure |-> Structure(result)]
  /\ pc' = "coverage"

-----------------------------------------------------------------------------
(* ExperienceTurnService.answer *)
Experience ==
  /\ pc = "experience"
  /\ \/ \E m \in Matches(memories, Items, Library[active]) :
          /\ runs' = Append(runs, "running")
          /\ ReviewOf("experience", 1, m.run.result,
                      ExperienceEnvelopes(m.run.result, active, 1), FALSE)
     \/ /\ Matches(memories, Items, Library[active]) = {}
        /\ pc' = "retrieve" /\ UNCHANGED <<runs, stage>>
  /\ UNCHANGED <<env, know, escalation, calls, review, answer>>

(* prepareKnowledgeDiagnosis, without documents *)
NoKnowledge ==
  /\ pc = "retrieve"
  /\ pc' = "mcp"
  /\ UNCHANGED <<env, know, escalation, calls, runs, stage, review, answer>>

(* A retrieval resolves its generation once, at its start.                 *)
Retrieve ==
  /\ pc = "retrieve"
  /\ know' = [typed |-> route.typed, pinned |-> active, pack |-> <<>>]
  /\ pc' = "retrieving"
  /\ UNCHANGED <<env, escalation, calls, runs, stage, review, answer>>

(* Mutant: the second retrieval is as narrow as the first. *)
AgainAsBefore(k) == [k EXCEPT !.pinned = active]
Again(k) == [typed |-> FALSE, pinned |-> active, pack |-> k.pack]

(* What follows once the judgement is final: a direct answer, or the       *)
(* request goes on with what the knowledge stage knows.                    *)
Conclude(k, judge, rag) ==
  IF judge.answerable
  THEN /\ runs' = Append(runs, "running")
       /\ ReviewOf("knowledge", Len(runs) + 1,
                   KnowledgeResult(k.pack, route, rag, Items),
                   KnowledgeEnvelopes(k.pack, k.pinned, active, Len(runs) + 1), FALSE)
       /\ know' = k /\ UNCHANGED escalation
  ELSE /\ escalation' = {Escalation(route, judge)}
       /\ pc' = "mcp" /\ know' = Nothing /\ UNCHANGED <<runs, stage>>

Retrieved ==
  /\ pc = "retrieving"
  /\ \E pack \in Packs[know.pinned][know.typed] :
       LET k == [know EXCEPT !.pack = pack]
       IN  CASE pack = <<>> /\ know.typed ->
                  /\ know' = Again(know)
                  /\ UNCHANGED <<pc, escalation, runs, stage>>
             [] pack # <<>> /\ route.rag ->
                  /\ know' = k /\ pc' = "rag"
                  /\ UNCHANGED <<escalation, runs, stage>>
             [] OTHER -> Conclude(k, Judge(route, pack), RagOff)
  /\ UNCHANGED <<env, calls, review, answer>>

RagAnswered ==
  /\ pc = "rag"
  /\ \E rag \in {ValidateRag(a, RagIds(know.pack), Items) : a \in RagAnswers}
                \cup {ConservativeUnknown} :
       Conclude(know, FinalJudge(Judge(route, know.pack), rag), rag)
  /\ UNCHANGED <<env, calls, review, answer>>

-----------------------------------------------------------------------------
(* McpEvidenceService.run: the calls it planned, one after the other, and  *)
(* then an answer of their own or the worker.                              *)
CallTool ==
  /\ pc = "mcp" /\ Len(calls) < MaxCalls
  /\ \E call \in McpCalls : calls' = Append(calls, call)
  /\ UNCHANGED <<env, pc, know, escalation, runs, stage, review, answer>>

(* Also when fewer tools are allowed.  createRunningDiagnosticRun follows. *)
ToolsDone ==
  /\ pc = "mcp"
  /\ \/ \E result \in McpResult(calls, Items) :
          /\ runs' = Append(runs, result.status)
          /\ ReviewOf("mcp", Len(runs) + 1, result, McpEnvelopes(calls, Len(runs) + 1), FALSE)
     \/ /\ McpResult(calls, Items) = {}
        /\ runs' = Append(runs, "running")
        /\ pc' = "worker" /\ UNCHANGED stage
  /\ calls' = <<>>
  /\ UNCHANGED <<env, know, escalation, review, answer>>

(* WorkerDiagnosisService.diagnose.  Output that is JSON but no result     *)
(* makes the turn throw (currentWorkerCoverageEvidence); its run stays.    *)
WorkerAnswers ==
  /\ pc = "worker"
  /\ \E output \in WorkerOutputs :
       IF output.kind = "bare"
       THEN pc' = "failed" /\ UNCHANGED <<runs, stage>>
       ELSE LET result == WorkerResult(output, Items, Unknowns)
            IN  /\ runs' = [runs EXCEPT ![Len(runs)] = result.status]
                /\ ReviewOf("worker", Len(runs), result,
                            WorkerEnvelopes(output, Len(runs)), WorkerFailed(output))
  /\ UNCHANGED <<env, know, escalation, calls, review, answer>>

-----------------------------------------------------------------------------
(* ReviewPresentationService.reviewAndFormat: three awaits.                *)

(* What the model may say of the claims it is shown: that they answer the  *)
(* whole question or not, by their own evidence or by all that is cited.   *)
(* Whatever else it may say comes to an unknown review.                    *)
Replies(segments) ==
  LET ids == {c.id : c \in segments}
      Of(id) == CHOOSE c \in segments : c.id = id
      Bind(items, own) ==
        [id \in DOMAIN items |->
           [items |-> items[id],
            evidence |-> IF own THEN Of(id).evidence ELSE Cited(segments)]]
      Says(items, own, whole) ==
        [status |-> "accepted", bindings |-> Bind(items, own), ids |-> whole,
         full |-> IF whole = {} THEN "partial" ELSE "full", missing |-> FALSE]
  IN  {Says(items, own, whole) :
         items \in UNION {[bound -> SUBSET Items \ {{}}] : bound \in SUBSET ids},
         own \in BOOLEAN, whole \in SUBSET ids}
      \cup {UnknownReview}

Reviews(segments, reviewable) ==
  IF ~reviewable THEN {UnknownReview}
  ELSE {Review(reply, segments, Items) : reply \in Replies(segments)}

CoverageReviewed ==
  /\ pc = "coverage"
  /\ LET result   == stage.structure.result
         segments == Segments(result.claims, Items)
         asked    == Reviewable(result, Items, stage.envelopes, stage.run)
     IN  \E r \in Reviews(segments, asked) :
           review' = Freeze(stage.structure, Items, r, escalation)
  /\ pc' = "prompts"
  /\ UNCHANGED <<env, know, escalation, calls, runs, stage, answer>>

(* The run gets the outcome before the reply is arranged.                  *)
PromptsReviewed ==
  /\ pc = "prompts"
  /\ \E reply \in SUBSET Prompts(review.result) :
       answer' = Presented(review, reply, stage.failed)
  /\ runs' = [runs EXCEPT ![stage.run] = answer'.result.status]
  /\ pc' = "present"
  /\ UNCHANGED <<env, know, escalation, calls, stage, review>>

(* A second investigation, at most once (WorkerDiagnosisService.diagnose). *)
GoesOn ==
  /\ stage.source = "worker" /\ stage.run = 1
  /\ ShouldFollowUp(answer.decision, stage.raw, stage.failed)
  /\ MayGoOn(escalation, stage.raw, stage.failed, answer.decision)

FollowUp ==
  /\ pc = "present" /\ GoesOn
  /\ escalation' = GoOn(escalation)
  /\ runs' = Append(runs, "running")
  /\ pc' = "worker"
  /\ stage' = Nothing /\ review' = Nothing /\ answer' = Nothing
  /\ UNCHANGED <<env, know, calls>>

(* completePresentedTurn *)
Complete ==
  /\ pc = "present" /\ ~GoesOn
  /\ pc' = "done"
  /\ UNCHANGED <<env, know, escalation, calls, runs, stage, review, answer>>

Next ==
  \/ Publish \/ Experience \/ NoKnowledge \/ Retrieve \/ Retrieved \/ RagAnswered
  \/ CallTool \/ ToolsDone \/ WorkerAnswers
  \/ CoverageReviewed \/ PromptsReviewed \/ FollowUp \/ Complete

(* Every await of a turn ends: the adapters of the model, of MCP and of the *)
(* worker give up after a time (CaseTurns, ClaudeWorker).                  *)
Spec == Init /\ [][Next]_vars /\ WF_vars(Next)

-----------------------------------------------------------------------------
Final == pc = "done" /\ answer.decision = "final"
Primaries ==
  {c \in Members(answer.result.claims) :
     Is(c, "primary_answer") /\ c.type \in Stated /\ c.visible}
Holds(generation) ==
  {r.id : r \in {q \in UNION {Members(p) : p \in UNION {Packs[generation][x] : x \in BOOLEAN}} :
                   q.canonical /\ Fit(q)}}
Found(output) ==
  IF output.kind = "answer"
  THEN {item.id : item \in {e \in Members(output.evidence) : e.found}} ELSE {}

(* A final reply answers every item with a claim that says so itself and   *)
(* can be shown; what the worker answers cites only what is in the         *)
(* workspace, what MCP answers only tools that stated it.  The model's     *)
(* word for what is answered is not enough, nor the worker's for what it   *)
(* saw (answer-coverage-service.ts:41, coverage-evidence.ts:9).            *)
SupportedConclusion ==
  Final => \A item \in Items : \E c \in Primaries :
             /\ item \in c.answers /\ c.id \in review.bound
             /\ stage.source = "worker" =>
                  c.evidence \subseteq UNION {Found(o) : o \in WorkerOutputs}
             /\ stage.source = "mcp" =>
                  \A e \in Members(answer.result.evidence) :
                    e.id \in c.evidence => e.conf = "high"

(* A final reply from the knowledge base or from an earlier conversation   *)
(* rests on evidence that the generation active when the review began      *)
(* holds: active, of good quality and grounded, and for the conversation   *)
(* verified of late as well; not on one replaced while the providers were  *)
(* awaited (knowledge-turn.ts:137, knowledge-experience-resolver.ts:16).   *)
KnowledgeAnswerIsCurrent ==
  Final => \A c \in Primaries : c.id \in review.frozen =>
             /\ stage.source = "knowledge"  => c.evidence \subseteq Holds(stage.active)
             /\ stage.source = "experience" => c.evidence \subseteq Library[stage.active]

(* The reply, the decision, the case and the run say the same: a           *)
(* conclusion is called one exactly when the case is concluded, a failure  *)
(* never is, and a case waits for input only when the user is told for     *)
(* what (review-presentation.ts:89, safe-answer-projection.ts:213).        *)
ReplyAgreesWithStatus ==
  pc = "done" =>
    /\ answer.reply = "conclusion" <=> answer.decision = "final"
    /\ answer.reply = "conclusion" <=> answer.status = "concluded"
    /\ answer.decision = "ask_user" <=> answer.status = "need_input"
    /\ answer.status = "need_input" => Prompts(answer.result) # {}
    /\ runs[stage.run] = answer.status
    /\ \A r \in DOMAIN runs : runs[r] # "running"

(* A turn whose knowledge stage met a contradiction in the knowledge base  *)
(* does not end in a conclusion, whatever the worker finds, also in its    *)
(* second attempt (review-presentation.ts:228).                            *)
ConflictIsNeverFinal ==
  Final => \A e \in escalation : ~e.judge.conflict

(* Every turn ends in a reply, or with the error its queue records.        *)
TurnEnds == <>(pc \in {"done", "failed"})
=============================================================================
