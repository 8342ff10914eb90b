---------------------------- MODULE EvidenceJudge ----------------------------
(***************************************************************************)
(* What a turn concludes from the knowledge base: whether the evidence     *)
(* that was retrieved can be answered from directly, what the model says   *)
(* of it, the result it answers with, and the investigation of the code    *)
(* that follows when it cannot.  Operators only; TurnPipeline applies them.*)
(*                                                                         *)
(*   src/src/runtime/evidence-judge.ts, rag-answerability-service.ts       *)
(*   src/src/runtime/knowledge-diagnosis.ts, knowledge-turn.ts             *)
(*   src/src/runtime/deep-query-planner.ts, query-correction.ts            *)
(*   src/src/runtime/worker-turn.ts                                        *)
(*                                                                         *)
(* A pack is the sequence of retrieved results, best first; a route says   *)
(* what the router read off the question.  Scores are in hundredths.       *)
(***************************************************************************)
EXTENDS Claims, FiniteSetsExt

Clamp(x, lo, hi) == Max({lo, Min({hi, x})})

-----------------------------------------------------------------------------
(* evidence-judge.ts *)

IsStale(r) ==
  r.status \in {"deprecated", "archived", "review_required", "draft"}
  \/ ~r.verified

(* detectConflicts: an active result beside a retired one of one topic.    *)
Conflicts(pack) ==
  \E r, s \in Members(pack) :
    /\ r.module = s.module /\ r.intent = s.intent
    /\ r.status = "active"
    /\ s.status \in {"deprecated", "archived", "review_required"}

(* passesRetrievalConfidenceGate *)
Confident(r) ==
  IF r.reranked THEN r.score >= 70 ELSE r.terms >= 2 /\ r.score > 0

(* What stands against an answer from the first result. *)
TopBlockers(r, route) ==
  {b \in {"module_mismatch", "unknown_module", "missing_span", "low_quality",
          "missing_provenance", "low_signal_terms", "low_confidence"} :
     CASE b = "module_mismatch"    -> route.modules # {} /\ r.module \notin route.modules
       [] b = "unknown_module"     -> route.modules # {} /\ ~r.known
       [] b = "missing_span"       -> ~r.span
       [] b = "low_quality"        -> r.severity \notin {"ok", "info"}
       [] b = "missing_provenance" -> ~r.grounded
       [] b = "low_signal_terms"   -> r.terms < 2
       [] b = "low_confidence"     -> ~Confident(r)}

Authority(type) ==
  CASE type \in {"faq", "runbook"} -> 90
    [] type = "whitepaper"         -> 85
    [] type = "module_doc"         -> 80
    [] type = "solved_case"        -> 75
    [] type = "glossary"           -> 45
    [] type = "unresolved_case"    -> 25
    [] OTHER                       -> 40

(* computeBreakdown and scoreFromBreakdown, of a pack that is not empty.   *)
AnswerScore(route, pack) ==
  LET top       == Head(pack)
      When(p, x, y) == IF p THEN x ELSE y
      relevance == Clamp(18 * top.terms + When(top.titled, 25, 0)
                         + When(route.modules = {} \/ top.module \in route.modules, 15, 0),
                         10, 100)
      coverage  == When(top.type \in {"faq", "runbook", "whitepaper", "solved_case"}, 85, 45)
      freshness == When(IsStale(top), 35, 90)
      version   == When(top.status = "active", 80, 45)
      agreement == When(Conflicts(pack), 20, When(Len(pack) > 1, 90, 75))
      action    == When(top.type \in {"faq", "runbook", "solved_case"}, 90, 65)
      penalty   == When(Conflicts(pack), 25, 0) + When(top.terms < 2, 15, 0)
                   + When(route.risks # {}, 20, 0)
                   + When(top.severity = "error", 30, When(top.severity = "warn", 10, 0))
      weighted  == 25 * relevance + 15 * coverage + 15 * Authority(top.type)
                   + 10 * freshness + 10 * version + 10 * agreement + 15 * action
  IN  Clamp((weighted - 100 * penalty + 50) \div 100, 0, 100)

(* directAnswerThreshold *)
Threshold(r) ==
  IF r.type \in {"faq", "runbook"} THEN 70
  ELSE IF r.intent = "troubleshooting" THEN 78 ELSE 68

Judgement(answerable, blockers, conflict, action) ==
  [answerable |-> answerable, blockers |-> blockers, conflict |-> conflict,
   action |-> action]

(* judgeKnowledgeEvidence.  A question about the implementation is not     *)
(* looked at any further: it carries no blocker for the risk it may have.  *)
Judge(route, pack) ==
  LET top        == Head(pack)
      against    == TopBlockers(top, route)
      conflict   == Conflicts(pack)
      answerable == against = {} /\ AnswerScore(route, pack) >= Threshold(top)
      Code(bs)   == Judgement(FALSE, bs, conflict, "dispatch_code_diagnosis")
  IN  CASE route.signals -> Code({"implementation_detail"})
        [] ~route.signals /\ pack = <<>> -> Code({"no_active_evidence"})
        [] OTHER ->
           IF conflict THEN Code(against \cup {"conflicting_knowledge"})
           ELSE IF route.risks # {}
           THEN Judgement(FALSE, against \cup {"high_risk_uncertainty"}, FALSE,
                          "escalate_to_human")
           ELSE IF IsStale(top) THEN Code(against \cup {"stale_knowledge"})
           ELSE IF answerable THEN Judgement(TRUE, {}, FALSE, "final_answer")
           ELSE Code(against)

-----------------------------------------------------------------------------
(* rag-answerability-service.ts: says is one of "full", "partial", "none", *)
(* or anything else; escalate one of "yes", "no", "unset".                 *)

ConservativeUnknown == [says |-> "unknown", claims |-> <<>>]

CoveredItems(claims) == UNION {claims[i].items : i \in DOMAIN claims}
CitedIds(answer) ==
  answer.selected \cup UNION {c.evidence : c \in Members(answer.claims)}

(* validateRagAnswerability: ids are those of the results it was shown.    *)
ValidateRag(answer, ids, items) ==
  LET known == [i \in DOMAIN answer.claims |->
                  [answer.claims[i] EXCEPT !.items = @ \cap items]]
      sound == /\ answer.says \in {"full", "partial", "none"}
               /\ CitedIds(answer) \subseteq ids
               /\ answer.says = "none" \/ (answer.selected # {} /\ known # <<>>)
               /\ answer.says = "full" =>
                    /\ ~answer.missing /\ answer.escalate # "yes"
                    /\ items \subseteq CoveredItems(known)
               /\ answer.says # "full" => answer.escalate # "no"
  IN  IF ~sound THEN ConservativeUnknown
      ELSE [says   |-> answer.says,
            claims |-> IF answer.says = "none" THEN <<>> ELSE known]

RagOff == [says |-> "off", claims |-> <<>>]
RagTopN == 3
RagIds(pack) == {pack[i].id : i \in {k \in DOMAIN pack : k <= RagTopN}}

(* KnowledgeTurnService.answer: the judgement the turn goes by.            *)
FinalJudge(judge, rag) ==
  IF rag.says \in {"off", "full"} THEN judge
  ELSE Judgement(FALSE, judge.blockers \cup {"question_not_answered"},
                 judge.conflict, "dispatch_code_diagnosis")

-----------------------------------------------------------------------------
(* diagnosticResultFromKnowledge: the result of a direct answer.  A claim  *)
(* without an identity of its own is numbered by the review (AnswerReview).*)

KnowledgeEvidence(pack) ==
  LET active == {i \in DOMAIN pack : pack[i].status = "active"} IN
  [i \in {k \in active : Rank(active, k) <= 6} |->
     Evidence(pack[i].id, "knowledge", pack[i].conf)]

KnowledgeClaims(pack, route, rag, items) ==
  LET evidence == KnowledgeEvidence(pack)
      ids      == Ids(evidence)
      covered  == {i \in DOMAIN rag.claims : rag.claims[i].evidence \cap ids # {}}
      By(i)    == rag.claims[i].evidence \cap ids
      Note(by) == Claim(Unnamed, "inference", "supporting_context", {}, by)
  IN  IF rag.says = "full" /\ rag.claims # <<>>
      THEN [i \in covered \cup {Len(rag.claims) + 1} |->
              IF i \in covered
              THEN Claim(rag.claims[i].id, "fact", "primary_answer", rag.claims[i].items, By(i))
              ELSE Note(IF covered = {} THEN ids ELSE UNION {By(j) : j \in covered})]
      ELSE IF route.overview \/ Cardinality(DOMAIN evidence) > 1
      THEN [i \in DOMAIN evidence |->
              Claim(Unnamed, "fact", "primary_answer", items, {evidence[i].id})]
      ELSE <<Claim(Unnamed, "fact", "primary_answer", items, ids), Note(ids)>>

KnowledgeResult(pack, route, rag, items) ==
  Result("concluded", "final_answer", {}, KnowledgeEvidence(pack),
         KnowledgeClaims(pack, route, rag, items))

Fit(r) == r.status = "active" /\ r.severity = "ok" /\ r.grounded
ShownBy(pack, pinned, active, run) ==
  {Envelope(r.id, "knowledge", run, pinned, active, Fit(r)) :
     r \in {q \in Members(pack) : q.canonical}}

(* Mutant: the generation of the request counts as the current one. *)
KnowledgeEnvelopesPinned(pack, pinned, active, run) ==
  ShownBy(pack, pinned, pinned, run)

(* Lines 137 to 168: what the pack shows of the generation active now.     *)
KnowledgeEnvelopes(pack, pinned, active, run) ==
  IF pinned # active THEN {} ELSE ShownBy(pack, pinned, active, run)

-----------------------------------------------------------------------------
(* The investigation of the code. *)

MaxAttempts == 2
Artifacts == {"scheduler", "queue", "callback", "state_machine", "permission",
              "payment", "config", "route", "service", "template", "widget",
              "controller"}

(* attachKnowledgeCodeEscalationContext, planDeepQuery: what the worker's  *)
(* request carries of the knowledge stage.                                 *)
Escalation(route, judge) ==
  [judge |-> judge, attempt |-> 1,
   targets |-> IF route.targets = {} THEN {"service"} ELSE route.targets]

(* PIVOT_FAMILIES, of the targets the planner may choose.                  *)
Family(target) ==
  CASE target = "scheduler"  -> {"queue", "callback", "state_machine",
                                 "state_update", "job_dispatch", "cron"}
    [] target = "route"      -> {"controller", "service", "repository", "config",
                                 "feature_flag", "middleware"}
    [] target = "controller" -> {"service", "repository", "config", "middleware"}
    [] target = "service"    -> {"repository", "config", "middleware", "feature_flag"}
    [] target = "payment"    -> {"order", "refund", "permission", "audit_log",
                                 "transaction_state", "config"}
    [] target = "permission" -> {"auth", "role", "policy", "tenant_scope",
                                 "middleware", "role_mapping"}
    [] target = "config"     -> {"env", "settings", "feature_flag", "admin_ui",
                                 "runtime_loader", "default_config"}
    [] OTHER                 -> {}

(* nextDeepQueryPivot: {} when the investigation stops.                    *)
Pivot(escalation) ==
  LET judge    == escalation.judge
      families == UNION {Family(t) : t \in escalation.targets}
  IN  CASE judge.answerable \/ escalation.attempt >= MaxAttempts
           \/ "high_risk_uncertainty" \in judge.blockers -> {}
        [] OTHER ->
           IF judge.blockers \cap {"no_active_evidence", "stale_knowledge"} # {}
           THEN {"static_workspace_search", "module_aliases", "glossary"}
           ELSE IF families # {} THEN families
           ELSE {"module_aliases", "static_workspace_search"}

(* prepareDeepQueryRetry: whether, and with what, the worker goes on; the  *)
(* escalation is {} when the knowledge base took no part.                  *)
MayGoOn(escalation, result, failed, decision) ==
  \/ escalation = {}
  \/ \E e \in escalation :
       /\ ~failed /\ decision # "escalate" /\ result.next # "ask_user"
       /\ Pivot(e) # {} /\ Pivot(e) # e.targets

GoOn(escalation) ==
  {[e EXCEPT !.attempt = @ + 1, !.targets = Pivot(e)] : e \in escalation}
=============================================================================
