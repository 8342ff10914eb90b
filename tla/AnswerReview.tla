---------------------------- MODULE AnswerReview ----------------------------
(***************************************************************************)
(* The review every result passes before a user sees it: its structure is  *)
(* checked, a model says which claims answer which items from which        *)
(* evidence, the outcome is frozen, and the reply is built from what may   *)
(* be shown.  Operators only; TurnPipeline applies them.                   *)
(*                                                                         *)
(*   src/src/runtime/result-validator.ts, review-gate.ts                   *)
(*   src/src/runtime/coverage-evidence-provenance.ts                       *)
(*   src/src/runtime/answer-coverage.ts, answer-coverage-service.ts        *)
(*   src/src/runtime/review-presentation.ts, visible-prompt-safety.ts      *)
(*   src/src/runtime/safe-answer-projection.ts, safe-answer-renderer.ts    *)
(*                                                                         *)
(* The limits on lengths and numbers do not bind here.                     *)
(***************************************************************************)
EXTENDS Claims, FiniteSetsExt

Stated == {"fact", "inference"}
Types == Stated \cup {"assumption", "unknown"}
Roles == {"primary_answer", "supporting_context", "evidence_locator",
          "process_note", "next_action", "unknown"}
Is(claim, role) == claim.role = role
Outcome(status, next) == [status |-> status, next |-> next]

-----------------------------------------------------------------------------
(* result-validator.ts: validateDiagnosticStructure *)

(* uniqueEvidence *)
Distinct(evidence) ==
  Restrict(evidence, {i \in DOMAIN evidence : \A j \in DOMAIN evidence :
                        j < i => evidence[j].id # evidence[i].id})

Numbered(claims) ==
  [i \in DOMAIN claims |->
     IF claims[i].id = Unnamed THEN [claims[i] EXCEPT !.id = <<"claim", Rank(DOMAIN claims, i)>>]
     ELSE claims[i]]

Firm(item) == item.kind # "unknown" /\ item.conf \in {"medium", "high"}

Sound(claim, evidence) ==
  /\ claim.type \in Types /\ claim.role \in Roles
  /\ Is(claim, "primary_answer") => claim.answers # {}
  /\ claim.evidence \subseteq Ids(evidence)
  /\ claim.type \in Stated => claim.evidence # {}
  /\ claim.type = "fact" =>
       \E item \in Members(evidence) : item.id \in claim.evidence /\ Firm(item)

(* An identity counts as used also when its first claim is not sound.      *)
Structure(result) ==
  LET evidence == Distinct(result.evidence)
      claims   == Numbered(result.claims)
      again    == {i \in DOMAIN claims : \E j \in DOMAIN claims :
                     j < i /\ claims[j].id = claims[i].id}
      accepted == Restrict(claims, {i \in DOMAIN claims \ again : Sound(claims[i], evidence)})
      blocked(b) == IF b = "duplicate_claim_id" THEN again # {}
                    ELSE evidence # result.evidence
  IN  [result   |-> [result EXCEPT !.evidence = evidence, !.claims = accepted],
       clean    |-> accepted = claims /\ evidence = result.evidence,
       blockers |-> {b \in {"duplicate_claim_id", "duplicate_evidence_id"} : blocked(b)}]

-----------------------------------------------------------------------------
(* coverage-evidence-provenance.ts *)

(* Mutant: what was current in an earlier run still is. *)
EligibleAlways(envelope, run) == TRUE
(* No part of the runtime makes an envelope for what the user wrote.       *)
Eligible(envelope, run) ==
  CASE envelope.kind \in {"workspace", "log"} -> envelope.run = run
    [] envelope.kind = "mcp"                  -> envelope.run = run /\ envelope.fit
    [] envelope.kind = "knowledge"            -> envelope.fit /\ envelope.gen = envelope.cur
    [] OTHER                                  -> FALSE

Current(evidence, envelopes, run) ==
  {id \in Ids(evidence) :
     \E item \in Members(evidence), e \in envelopes :
       item.id = id /\ e.ev = id /\ e.kind = item.kind /\ Eligible(e, run)}

(* answer-coverage.ts: what the model is asked about, unless some of it    *)
(* cites evidence that is not current: then nothing is asked.              *)
Segments(claims, items) ==
  {c \in Members(claims) :
     /\ c.type \in Stated
     /\ c.role \in {"primary_answer", "next_action", "supporting_context"}
     /\ c.answers \cap items # {}}
Cited(segments) == UNION {c.evidence : c \in segments}
Reviewable(result, items, envelopes, run) ==
  Cited(Segments(result.claims, items)) \subseteq Current(result.evidence, envelopes, run)

-----------------------------------------------------------------------------
(* answer-coverage-service.ts: a reply binds claims to items and evidence  *)
(* (the last binding of a claim counts) and names the claims that answer   *)
(* the whole question.                                                     *)

UnknownReview == [status |-> "unknown", bindings |-> <<>>, full |-> "unknown",
                  ids |-> {}, missing |-> FALSE]

(* Mutant: the bindings are taken as they come. *)
ReviewTrusting(reply, segments, items) == reply
(* validateAnswerCoverageReview *)
Review(reply, segments, items) ==
  LET ids == {c.id : c \in segments}
      BoundBy(id) == reply.bindings[id]
      Of(id) == CHOOSE c \in segments : c.id = id
      Honest(id) ==
        /\ id \in ids
        /\ BoundBy(id).items # {} /\ BoundBy(id).items \subseteq items \cap Of(id).answers
        /\ BoundBy(id).evidence # {} /\ BoundBy(id).evidence \subseteq Of(id).evidence
      sound ==
        /\ reply.status = "accepted"
        /\ \A id \in DOMAIN reply.bindings : Honest(id)
        /\ reply.ids \subseteq ids
        /\ reply.full = "full" =>
             /\ ~reply.missing /\ reply.ids # {}
             /\ \A id \in reply.ids :
                  Is(Of(id), "primary_answer") /\ id \in DOMAIN reply.bindings
  IN  IF sound THEN reply ELSE UnknownReview

(* answer-coverage.ts, selectFrozenPrimaryClaimIds: the primary claims     *)
(* that add an item to those before them, when together they leave none.   *)
Frozen(claims, items, review) ==
  LET Answers(c) == /\ Is(c, "primary_answer") /\ c.type \in Stated
                    /\ c.id \in DOMAIN review.bindings
      eligible   == {i \in DOMAIN claims : Answers(claims[i])}
      Covers(i)  == review.bindings[claims[i].id].items
      Before(i)  == UNION {Covers(j) : j \in {k \in eligible : k < i}}
      chosen     == {i \in eligible : ~(Covers(i) \subseteq Before(i))}
  IN  IF \/ review.status # "accepted" \/ review.full # "full" \/ review.missing
         \/ ~(review.ids \subseteq {claims[i].id : i \in eligible})
         \/ ~(items \subseteq UNION {Covers(i) : i \in eligible})
      THEN {}
      ELSE {claims[i].id : i \in chosen} \cup review.ids

-----------------------------------------------------------------------------
(* review-gate.ts and freezeReviewedDiagnosticResult *)

(* Mutant: what the knowledge stage found against an answer is forgotten. *)
UpstreamBlockersNone(escalation) == {}
(* upstreamGlobalBlockers; escalation is {} without a knowledge stage.     *)
UpstreamBlockers(escalation) ==
  UNION {(IF e.judge.conflict \/ "conflicting_knowledge" \in e.judge.blockers
          THEN {"evidence_conflict"} ELSE {})
         \cup (IF "high_risk_uncertainty" \in e.judge.blockers
               THEN {"identity_or_safety_blocker"} ELSE {}) : e \in escalation}

FreezeOutcome(result, complete, blockers) ==
  CASE result.next = "escalate_to_human"
       \/ blockers \cap {"evidence_conflict", "identity_or_safety_blocker"} # {}
         -> Outcome("partial", "escalate_to_human")
    [] OTHER ->
       IF result.status = "need_input" \/ result.next = "ask_user"
       THEN Outcome("need_input", "ask_user")
       ELSE IF result.status = "partial" \/ result.next = "continue_diagnosis"
       THEN Outcome("partial", "continue_diagnosis")
       ELSE IF complete /\ blockers = {} THEN Outcome("concluded", "final_answer")
       ELSE IF result.missing # {} THEN Outcome("need_input", "ask_user")
       ELSE Outcome("partial", "continue_diagnosis")

With(result, outcome) ==
  [result EXCEPT !.status = outcome.status, !.next = outcome.next]

(* What the review knows once the coverage is in.                          *)
Freeze(structure, items, review, escalation) ==
  LET result   == structure.result
      frozen   == Frozen(result.claims, items, review)
      blockers == structure.blockers \cup UpstreamBlockers(escalation)
                  \cup (IF frozen = {} /\ (result.status = "concluded"
                                           \/ result.next = "final_answer")
                        THEN {"primary_coverage_incomplete"} ELSE {})
  IN  [result |-> With(result, FreezeOutcome(result, frozen # {}, blockers)),
       frozen |-> frozen, bound |-> DOMAIN review.bindings]

PrimaryShape(result) ==
  \E c \in Members(result.claims) :
    /\ Is(c, "primary_answer") /\ c.type \in Stated
    /\ c.answers # {} /\ c.evidence # {} /\ Sound(c, result.evidence)

IsFinal(result) ==
  result.status = "concluded" /\ result.next = "final_answer" /\ PrimaryShape(result)

Decision(result) ==
  CASE result.next = "ask_user" \/ result.status = "need_input" -> "ask_user"
    [] result.next = "escalate_to_human" /\ result.status # "need_input" -> "escalate"
    [] OTHER -> IF IsFinal(result) THEN "final" ELSE "partial"

CaseStatus(result) ==
  CASE IsFinal(result)                -> "concluded"
    [] result.status = "need_input"   -> "need_input"
    [] OTHER                          -> "partial"

(* shouldRunFollowUp: by the review's decision and the result as it came.  *)
ShouldFollowUp(decision, raw, error) ==
  decision = "partial" /\ raw.next = "continue_diagnosis" /\ ~error

-----------------------------------------------------------------------------
(* safe-answer-projection.ts, visible-prompt-safety.ts *)

(* collectVisiblePromptCandidates *)
Prompts(result) ==
  {c.id : c \in {d \in Members(result.claims) :
                   d.visible /\ (Is(d, "unknown") \/ d.type = "unknown")}}
  \cup result.missing

(* VisiblePromptSafetyService.review: a reply with a foreign prompt, or no *)
(* reply (accepted \notin ...), lets none through.                         *)
AcceptedPrompts(candidates, reply) ==
  IF reply \subseteq candidates THEN reply ELSE {}

(* buildSafeFrozenAnswerProjection *)
Projection(review, prompts) ==
  LET result   == review.result
      Shown(c) == c.visible /\ c.type \in Stated
      concludes == result.status = "concluded" /\ result.next = "final_answer"
      wanted   == IF review.frozen # {} THEN review.frozen
                  ELSE IF concludes THEN {}
                  ELSE {c.id : c \in {d \in Members(result.claims) :
                          /\ Is(d, "primary_answer") /\ d.type \in Stated
                          /\ d.id \in review.bound}}
      primary  == {c.id : c \in {d \in Members(result.claims) :
                          d.id \in wanted /\ Is(d, "primary_answer") /\ Shown(d)}}
      blocked  == \/ primary # wanted
                  \/ \E c \in Members(result.claims) :
                       Is(c, "next_action") /\ c.id \in review.bound /\ ~Shown(c)
      plain    == CASE result.next = "escalate_to_human" -> "escalate"
                    [] result.next # "escalate_to_human"
                       /\ (result.status = "need_input" \/ result.next = "ask_user") -> "ask_user"
                    [] OTHER -> IF concludes THEN "final" ELSE "partial"
      outcome  == IF blocked /\ plain # "escalate" THEN "partial" ELSE plain
  IN  [primary |-> primary,
       outcome |-> IF outcome = "ask_user" /\ prompts = {} THEN "partial" ELSE outcome]

(* Mutant: what cannot be shown leaves the result as it was. *)
ApplyProjectionNot(result, projection) == result
(* applyProjectionOutcome *)
ApplyProjection(result, projection) ==
  CASE projection.outcome = "final"    -> result
    [] projection.outcome = "ask_user" -> With(result, Outcome("need_input", "ask_user"))
    [] projection.outcome = "escalate" -> With(result, Outcome("partial", "escalate_to_human"))
    [] OTHER -> With(result, Outcome("partial", "continue_diagnosis"))

(* workerFailedBeforeUsableResult *)
FailedFirst(failed, result) ==
  failed /\ ~\E item \in Members(result.evidence) : item.kind # "log" /\ item.conf # "low"

(* The rest of reviewAndFormat, and what the reply says of itself          *)
(* (renderSafeFrozenAnswer): the model that arranges it may not change it. *)
Presented(review, accepted, failed) ==
  LET result == ApplyProjection(review.result, Projection(review, accepted))
      shown  == Projection([review EXCEPT !.result = result], accepted)
  IN  [result   |-> result,
       decision |-> Decision(result),
       status   |-> CaseStatus(result),
       reply    |-> IF FailedFirst(failed, result) THEN "failure"
                    ELSE IF shown.primary = {} THEN "no_conclusion"
                    ELSE IF shown.outcome = "final" THEN "conclusion" ELSE "preliminary"]
=============================================================================
