------------------------- MODULE TurnPipelineProofs --------------------------
(***************************************************************************)
(* Theorems about TurnPipeline, for any questions, evidence and answers of *)
(* the model, of the tools and of the worker.                              *)
(***************************************************************************)
EXTENDS TurnPipeline, PlacesProofs, SequenceTheorems, FiniteSetTheorems,
        NaturalsInduction, WellFoundedInduction, TLAPS

-----------------------------------------------------------------------------
(* The structure of a result: its claims keep their places, are sound and  *)
(* differ in their identities.                                             *)

LEMMA NumberedClaims ==
  ASSUME NEW claims, \A c \in Members(claims) : IsClaim(c)
  PROVE  /\ DOMAIN Numbered(claims) = DOMAIN claims
         /\ \A c \in Members(Numbered(claims)) : IsClaim(c)
<1>1. DOMAIN Numbered(claims) = DOMAIN claims
  BY DEF Numbered
<1>2. ASSUME NEW i \in DOMAIN claims PROVE IsClaim(Numbered(claims)[i])
  <2>1. IsClaim(claims[i])
    BY DEF Members
  <2>2. CASE claims[i].id # Unnamed
    BY <2>1, <2>2 DEF Numbered
  <2>3. CASE claims[i].id = Unnamed
    <3> DEFINE id == <<"claim", Rank(DOMAIN claims, i)>>
               c  == [claims[i] EXCEPT !.id = id]
    <3>1. Numbered(claims)[i] = c
      BY <2>3 DEF Numbered
    <3> HIDE DEF id
    <3>2. c = [id |-> id, type |-> claims[i].type, role |-> claims[i].role,
               answers |-> claims[i].answers, evidence |-> claims[i].evidence,
               visible |-> claims[i].visible]
      BY <2>1 DEF IsClaim
    <3> QED BY <2>1, <3>1, <3>2 DEF IsClaim
  <2> QED BY <2>2, <2>3
<1> QED BY <1>1, <1>2 DEF Members

LEMMA StructureIs ==
  ASSUME NEW result, IsResult(result)
  PROVE  LET s == Structure(result).result IN
         /\ IsResult(s)
         /\ s.status = result.status /\ s.next = result.next
         /\ s.evidence = Distinct(result.evidence)
         /\ Members(s.evidence) \subseteq Members(result.evidence)
         /\ \A c \in Members(s.claims) : Sound(c, s.evidence)
         /\ \A c, d \in Members(s.claims) : c.id = d.id => c = d
         /\ DOMAIN s.claims \subseteq DOMAIN result.claims
         /\ \A i \in DOMAIN s.claims : s.claims[i] = Numbered(result.claims)[i]
<1> DEFINE evidence == Distinct(result.evidence)
           claims   == Numbered(result.claims)
           again    == {i \in DOMAIN claims : \E j \in DOMAIN claims :
                          j < i /\ claims[j].id = claims[i].id}
           kept     == {i \in DOMAIN claims \ again : Sound(claims[i], evidence)}
           accepted == Restrict(claims, kept)
           s        == Structure(result).result
<1>1. s = [result EXCEPT !.evidence = evidence, !.claims = accepted]
  BY DEF Structure
<1>2. DOMAIN claims = DOMAIN result.claims /\ \A c \in Members(claims) : IsClaim(c)
  BY NumberedClaims DEF IsResult
<1>3. DOMAIN accepted = kept /\ \A i \in kept : accepted[i] = claims[i]
  BY DEF Restrict
<1>4. Members(evidence) \subseteq Members(result.evidence)
  BY DEF Distinct, Restrict, Members
<1>5. \A i, j \in kept : claims[i].id = claims[j].id => i = j
  BY <1>2 DEF IsResult
<1>6. kept \subseteq Nat /\ kept \subseteq DOMAIN result.claims
  BY <1>2 DEF IsResult
<1>7. \A i \in kept : Sound(claims[i], evidence) /\ IsClaim(claims[i])
  BY <1>2 DEF Members
<1> HIDE DEF evidence, claims, kept, accepted, s
<1>8. s = Result(result.status, result.next, result.missing, evidence, accepted)
  BY <1>1 DEF IsResult, Result
<1>9. /\ s.status = result.status /\ s.next = result.next /\ s.missing = result.missing
      /\ s.evidence = evidence /\ s.claims = accepted
  BY <1>8 DEF Result
<1>10. Members(accepted) = {claims[i] : i \in kept}
  BY <1>3 DEF Members
<1>11. IsResult(s)
  BY <1>3, <1>6, <1>7, <1>8, <1>9, <1>10 DEF IsResult
<1>12. /\ \A c \in Members(accepted) : Sound(c, evidence)
       /\ \A c, d \in Members(accepted) : c.id = d.id => c = d
  BY <1>5, <1>7, <1>10
<1> QED BY <1>3, <1>4, <1>6, <1>9, <1>11, <1>12 DEF evidence, claims, s

-----------------------------------------------------------------------------
(* The review: what it binds is a claim it was shown, by the items that    *)
(* claim answers; what it freezes covers the question.                     *)

(* A binding is of a segment. *)
Binds(segments, r) ==
  \A id \in DOMAIN r.bindings :
    \E c \in segments : c.id = id /\ r.bindings[id].items \subseteq Items \cap c.answers

LEMMA UnknownBinds == DOMAIN UnknownReview.bindings = {} /\ UnknownReview.status = "unknown"
  BY DEF UnknownReview

LEMMA ReviewsBind ==
  ASSUME NEW segments, NEW reviewable \in BOOLEAN, NEW r \in Reviews(segments, reviewable)
  PROVE  /\ Binds(segments, r)
         /\ r # UnknownReview => reviewable
<1>1. CASE r = UnknownReview
  BY <1>1, UnknownBinds DEF Binds
<1>2. CASE r # UnknownReview
  <2>1. reviewable
    BY <1>2 DEF Reviews
  <2>2. PICK reply \in Replies(segments) : r = Review(reply, segments, Items)
    BY <2>1 DEF Reviews
  <2> DEFINE Of(id) == CHOOSE c \in segments : c.id = id
  <2>3. /\ r = reply
        /\ \A id \in DOMAIN reply.bindings :
             /\ id \in {c.id : c \in segments}
             /\ reply.bindings[id].items \subseteq Items \cap Of(id).answers
    BY <1>2, <2>2 DEF Review
  <2>4. ASSUME NEW id \in {c.id : c \in segments}
        PROVE  Of(id) \in segments /\ Of(id).id = id
    BY <2>4
  <2> HIDE DEF Of
  <2> QED BY <2>1, <2>3, <2>4 DEF Binds
<1> QED BY <1>1, <1>2

(* A claim that may be frozen. *)
Answering(c, r) ==
  Is(c, "primary_answer") /\ c.type \in Stated /\ c.id \in DOMAIN r.bindings

LEMMA FrozenCovers ==
  ASSUME NEW claims, DOMAIN claims \subseteq Nat, NEW items, NEW r,
         Frozen(claims, items, r) # {}
  PROVE  /\ r # UnknownReview
         /\ \A id \in Frozen(claims, items, r) :
              \E c \in Members(claims) : c.id = id /\ Answering(c, r)
         /\ \A item \in items :
              \E c \in Members(claims) :
                /\ Answering(c, r) /\ c.id \in Frozen(claims, items, r)
                /\ item \in r.bindings[c.id].items
<1> DEFINE eligible  == {i \in DOMAIN claims : Answering(claims[i], r)}
           Covers(i) == r.bindings[claims[i].id].items
           Before(i) == UNION {Covers(j) : j \in {k \in eligible : k < i}}
           chosen    == {i \in eligible : ~(Covers(i) \subseteq Before(i))}
<1>1. /\ Frozen(claims, items, r) = {claims[i].id : i \in chosen} \cup r.ids
      /\ r.status = "accepted"
      /\ r.ids \subseteq {claims[i].id : i \in eligible}
      /\ items \subseteq UNION {Covers(i) : i \in eligible}
  BY DEF Frozen, Answering
<1>2. \A i \in eligible : claims[i] \in Members(claims) /\ Answering(claims[i], r)
  BY DEF Members
<1>3. chosen \subseteq eligible /\ eligible \subseteq Nat
  OBVIOUS
<1>4. ASSUME NEW item \in items PROVE \E i \in chosen : item \in Covers(i)
  <2> DEFINE by == {i \in eligible : item \in Covers(i)}
  <2>1. by \subseteq Nat /\ by # {}
    BY <1>1, <1>3
  <2>2. PICK i \in by : \A j \in by : <<j, i>> \notin OpToRel(<, Nat)
    BY <2>1, WFMin, NatLessThanWellFounded
  <2>3. \A j \in by : ~(j < i)
    BY <2>1, <2>2 DEF OpToRel
  <2>4. item \notin Before(i)
    BY <2>3
  <2> QED BY <2>4
<1> HIDE DEF eligible, chosen, Covers
<1>5. \A id \in Frozen(claims, items, r) : \E i \in eligible : claims[i].id = id
  BY <1>1, <1>3
<1>6. ASSUME NEW item \in items
      PROVE  \E i \in eligible : claims[i].id \in Frozen(claims, items, r) /\ item \in Covers(i)
  BY <1>1, <1>3, <1>4
<1> QED BY <1>1, <1>2, <1>5, <1>6, UnknownBinds DEF Covers

-----------------------------------------------------------------------------
(* The outcome, from the review to the reply.                              *)

OutcomeOf(result) == Outcome(result.status, result.next)
Outcomes == {Outcome("concluded", "final_answer"), Outcome("need_input", "ask_user"),
             Outcome("partial", "escalate_to_human"),
             Outcome("partial", "continue_diagnosis")}
SameContent(r, s) ==
  r.missing = s.missing /\ r.evidence = s.evidence /\ r.claims = s.claims
IsRecord(r) == r = Result(r.status, r.next, r.missing, r.evidence, r.claims)

(* A result with another outcome has the content it had. *)
LEMMA WithIs ==
  ASSUME NEW r, IsRecord(r), NEW o \in Outcomes
  PROVE  IsRecord(With(r, o)) /\ SameContent(With(r, o), r) /\ OutcomeOf(With(r, o)) = o
<1> DEFINE w == With(r, o)
<1>1. w = Result(o.status, o.next, r.missing, r.evidence, r.claims)
  <2> DEFINE x == [r EXCEPT !.status = o.status]
             y == Result(o.status, r.next, r.missing, r.evidence, r.claims)
  <2>1. \A a, b, c, d, e, p :
          [Result(a, b, c, d, e) EXCEPT !.status = p] = Result(p, b, c, d, e)
    BY DEF Result
  <2>2. x = y
    BY <2>1 DEF IsRecord
  <2>3. w = [x EXCEPT !.next = o.next]
    BY DEF With
  <2>4. \A a, b, c, d, e, p :
          [Result(a, b, c, d, e) EXCEPT !.next = p] = Result(a, p, c, d, e)
    BY DEF Result
  <2> HIDE DEF w, x
  <2> QED BY <2>2, <2>3, <2>4
<1>2. /\ w.status = o.status /\ w.next = o.next /\ w.missing = r.missing
      /\ w.evidence = r.evidence /\ w.claims = r.claims
  BY <1>1 DEF Result
<1>3. Outcome(o.status, o.next) = o
  BY DEF Outcomes, Outcome
<1> HIDE DEF w
<1> QED BY <1>1, <1>2, <1>3 DEF w, IsRecord, SameContent, OutcomeOf

LEMMA FreezeIs ==
  ASSUME NEW structure, IsResult(structure.result), NEW items, NEW r, NEW esc
  PROVE  LET f == Freeze(structure, items, r, esc) IN
         /\ f = [result |-> f.result, frozen |-> f.frozen, bound |-> f.bound]
         /\ f.frozen = Frozen(structure.result.claims, items, r)
         /\ f.bound = DOMAIN r.bindings
         /\ IsRecord(f.result) /\ SameContent(f.result, structure.result)
         /\ OutcomeOf(f.result) \in Outcomes
         /\ OutcomeOf(f.result) = Outcome("concluded", "final_answer") => f.frozen # {}
         /\ (\E e \in esc : e.judge.conflict)
              => OutcomeOf(f.result) = Outcome("partial", "escalate_to_human")
<1> DEFINE result   == structure.result
           frozen   == Frozen(result.claims, items, r)
           blockers == structure.blockers \cup UpstreamBlockers(esc)
                       \cup (IF frozen = {} /\ (result.status = "concluded"
                                                \/ result.next = "final_answer")
                             THEN {"primary_coverage_incomplete"} ELSE {})
           outcome  == FreezeOutcome(result, frozen # {}, blockers)
           f        == Freeze(structure, items, r, esc)
<1>1. f = [result |-> With(result, outcome), frozen |-> frozen, bound |-> DOMAIN r.bindings]
  BY DEF Freeze
<1>2. outcome \in Outcomes
  BY DEF FreezeOutcome, Outcomes
<1>3. outcome = Outcome("concluded", "final_answer") => frozen # {}
  BY DEF FreezeOutcome, Outcome
<1>4. ASSUME \E e \in esc : e.judge.conflict
      PROVE  outcome = Outcome("partial", "escalate_to_human")
  <2>1. "evidence_conflict" \in UpstreamBlockers(esc)
    BY <1>4 DEF UpstreamBlockers
  <2>2. "evidence_conflict" \in blockers
    BY <2>1
  <2> HIDE DEF blockers
  <2> QED BY <2>2 DEF FreezeOutcome
<1>5. IsRecord(result)
  BY DEF IsResult, IsRecord
<1> HIDE DEF outcome
<1>6. /\ IsRecord(With(result, outcome)) /\ SameContent(With(result, outcome), result)
      /\ OutcomeOf(With(result, outcome)) = outcome
  BY <1>2, <1>5, WithIs
<1> HIDE DEF frozen, result, f
<1>7. f.result = With(result, outcome) /\ f.frozen = frozen /\ f.bound = DOMAIN r.bindings
  BY <1>1
<1> QED BY <1>1, <1>2, <1>3, <1>4, <1>6, <1>7 DEF f, frozen, result

(* The projection calls final only what is concluded and can be shown.     *)
LEMMA ProjectionIs ==
  ASSUME NEW v, OutcomeOf(v.result) \in Outcomes, NEW prompts
  PROVE  LET p == Projection(v, prompts) IN
         /\ p.outcome \in {"final", "ask_user", "escalate", "partial"}
         /\ p.outcome = "final" =>
              /\ OutcomeOf(v.result) = Outcome("concluded", "final_answer")
              /\ v.frozen # {} => p.primary = v.frozen
         /\ p.outcome = "ask_user" => prompts # {}
         /\ OutcomeOf(v.result) = Outcome("partial", "escalate_to_human")
              => p.outcome = "escalate"
         /\ \A id \in p.primary :
              \E c \in Members(v.result.claims) :
                c.id = id /\ Is(c, "primary_answer") /\ c.visible /\ c.type \in Stated
<1> DEFINE result == v.result
           Shown(c) == c.visible /\ c.type \in Stated
           concludes == result.status = "concluded" /\ result.next = "final_answer"
           wanted   == IF v.frozen # {} THEN v.frozen
                       ELSE IF concludes THEN {}
                       ELSE {c.id : c \in {d \in Members(result.claims) :
                               /\ Is(d, "primary_answer") /\ d.type \in Stated
                               /\ d.id \in v.bound}}
           primary  == {c.id : c \in {d \in Members(result.claims) :
                               d.id \in wanted /\ Is(d, "primary_answer") /\ Shown(d)}}
           blocked  == \/ primary # wanted
                       \/ \E c \in Members(result.claims) :
                            Is(c, "next_action") /\ c.id \in v.bound /\ ~Shown(c)
           plain    == CASE result.next = "escalate_to_human" -> "escalate"
                         [] result.next # "escalate_to_human"
                            /\ (result.status = "need_input" \/ result.next = "ask_user") -> "ask_user"
                         [] OTHER -> IF concludes THEN "final" ELSE "partial"
           outcome  == IF blocked /\ plain # "escalate" THEN "partial" ELSE plain
           p        == Projection(v, prompts)
<1>1. p = [primary |-> primary,
           outcome |-> IF outcome = "ask_user" /\ prompts = {} THEN "partial" ELSE outcome]
  BY DEF Projection
<1>2. \A id \in primary :
        \E c \in Members(v.result.claims) :
          c.id = id /\ Is(c, "primary_answer") /\ c.visible /\ c.type \in Stated
  OBVIOUS
<1>3. v.frozen # {} => wanted = v.frozen
  OBVIOUS
<1>4. ~blocked => primary = wanted
  OBVIOUS
<1>5. /\ plain \in {"final", "ask_user", "escalate", "partial"}
      /\ plain = "final" => concludes
      /\ result.next = "escalate_to_human" => plain = "escalate"
  OBVIOUS
<1>6. /\ concludes => OutcomeOf(v.result) = Outcome("concluded", "final_answer")
      /\ OutcomeOf(v.result) = Outcome("partial", "escalate_to_human")
           => result.next = "escalate_to_human"
  BY DEF OutcomeOf, Outcome
<1> HIDE DEF blocked, plain, concludes, primary, wanted, result
<1>7. /\ outcome \in {"final", "ask_user", "escalate", "partial"}
      /\ outcome = "final" => concludes /\ primary = wanted
      /\ plain = "escalate" => outcome = "escalate"
  BY <1>4, <1>5
<1> HIDE DEF outcome, p
<1>8. /\ p.primary = primary
      /\ p.outcome = IF outcome = "ask_user" /\ prompts = {} THEN "partial" ELSE outcome
  BY <1>1
<1> QED BY <1>2, <1>3, <1>5, <1>6, <1>7, <1>8 DEF p

IsReview(v) ==
  /\ v = [result |-> v.result, frozen |-> v.frozen, bound |-> v.bound]
  /\ IsRecord(v.result) /\ OutcomeOf(v.result) \in Outcomes

(* The reply has the content of the result that was reviewed, and says of  *)
(* it no more than the projection lets through.                            *)
LEMMA PresentedIs ==
  ASSUME NEW v, IsReview(v), NEW accepted, NEW failed
  PROVE  LET a == Presented(v, accepted, failed)
             p == Projection(v, accepted) IN
         /\ IsRecord(a.result) /\ SameContent(a.result, v.result)
         /\ OutcomeOf(a.result) \in Outcomes
         /\ a.result.status = "concluded" => p.outcome = "final" /\ a.result = v.result
         /\ a.result.status = "need_input" => accepted # {}
         /\ OutcomeOf(v.result) = Outcome("partial", "escalate_to_human")
              => OutcomeOf(a.result) = Outcome("partial", "escalate_to_human")
         /\ a.decision = Decision(a.result) /\ a.status = CaseStatus(a.result)
         /\ a.reply = "conclusion" =>
              OutcomeOf(a.result) = Outcome("concluded", "final_answer") /\ p.primary # {}
         /\ p.outcome = "final" /\ p.primary # {} /\ ~FailedFirst(failed, v.result)
              => a.reply = "conclusion" /\ a.result = v.result
<1> DEFINE a == Presented(v, accepted, failed)
           p == Projection(v, accepted)
           result == ApplyProjection(v.result, p)
           w      == [v EXCEPT !.result = result]
           shown  == Projection(w, accepted)
<1>1. /\ p.outcome \in {"final", "ask_user", "escalate", "partial"}
      /\ p.outcome = "final" => OutcomeOf(v.result) = Outcome("concluded", "final_answer")
      /\ p.outcome = "ask_user" => accepted # {}
      /\ OutcomeOf(v.result) = Outcome("partial", "escalate_to_human")
           => p.outcome = "escalate"
  BY ProjectionIs DEF IsReview
<1> HIDE DEF p
<1>2. /\ Outcome("need_input", "ask_user") \in Outcomes
      /\ Outcome("partial", "escalate_to_human") \in Outcomes
      /\ Outcome("partial", "continue_diagnosis") \in Outcomes
  BY DEF Outcomes
<1>3. /\ p.outcome = "final" => result = v.result
      /\ p.outcome = "ask_user" => result = With(v.result, Outcome("need_input", "ask_user"))
      /\ p.outcome = "escalate" =>
           result = With(v.result, Outcome("partial", "escalate_to_human"))
      /\ p.outcome = "partial" =>
           result = With(v.result, Outcome("partial", "continue_diagnosis"))
  BY DEF ApplyProjection
<1> HIDE DEF result
<1>4. \A o \in Outcomes : /\ IsRecord(With(v.result, o)) /\ SameContent(With(v.result, o), v.result)
                          /\ OutcomeOf(With(v.result, o)) = o
  BY WithIs DEF IsReview
<1>5. SameContent(v.result, v.result)
  BY DEF SameContent
<1>6. /\ IsRecord(result) /\ SameContent(result, v.result)
      /\ p.outcome # "final" =>
           OutcomeOf(result) = CASE p.outcome = "ask_user" -> Outcome("need_input", "ask_user")
                                 [] p.outcome = "escalate" -> Outcome("partial", "escalate_to_human")
                                 [] OTHER -> Outcome("partial", "continue_diagnosis")
  BY <1>1, <1>2, <1>3, <1>4, <1>5 DEF IsReview
<1>7. OutcomeOf(result) \in Outcomes
  BY <1>1, <1>2, <1>3, <1>6 DEF IsReview
<1>8. /\ result.status = OutcomeOf(result).status
      /\ Outcome("need_input", "ask_user").status = "need_input"
      /\ Outcome("partial", "escalate_to_human").status = "partial"
      /\ Outcome("partial", "continue_diagnosis").status = "partial"
      /\ Outcome("concluded", "final_answer").status = "concluded"
  BY DEF OutcomeOf, Outcome
<1>9. /\ result.status = "concluded" => p.outcome = "final"
      /\ result.status = "need_input" => p.outcome = "ask_user"
  BY <1>1, <1>3, <1>6, <1>8
<1>10. /\ a.result = result /\ a.decision = Decision(result) /\ a.status = CaseStatus(result)
       /\ a.reply = IF FailedFirst(failed, result) THEN "failure"
                    ELSE IF shown.primary = {} THEN "no_conclusion"
                    ELSE IF shown.outcome = "final" THEN "conclusion" ELSE "preliminary"
  BY DEF Presented, result, p
<1>11. w.result = result /\ (result = v.result => w = v)
  <2>1. \A x, y, z, u : [[result |-> x, frozen |-> y, bound |-> z] EXCEPT !.result = u]
                          = [result |-> u, frozen |-> y, bound |-> z]
    OBVIOUS
  <2>2. w = [result |-> result, frozen |-> v.frozen, bound |-> v.bound]
    BY <2>1 DEF IsReview
  <2> HIDE DEF w
  <2> QED BY <2>2 DEF IsReview
<1>12. shown.outcome = "final" => OutcomeOf(result) = Outcome("concluded", "final_answer")
  <2> HIDE DEF w
  <2> QED BY <1>7, <1>11, ProjectionIs
<1>13. result = v.result => shown = p
  BY <1>11 DEF p
<1> HIDE DEF w, shown, a
<1>14. a.reply = "conclusion" =>
         OutcomeOf(result) = Outcome("concluded", "final_answer") /\ p.primary # {}
  BY <1>3, <1>8, <1>9, <1>10, <1>12, <1>13
<1>15. p.outcome = "final" /\ p.primary # {} /\ ~FailedFirst(failed, v.result)
         => a.reply = "conclusion"
  BY <1>3, <1>10, <1>13
<1> QED BY <1>1, <1>3, <1>6, <1>7, <1>9, <1>10, <1>14, <1>15 DEF a, p

(* The reviews of a result, with the evidence it came with. *)
ReviewsOf(result, envelopes, run) ==
  Reviews(Segments(result.claims, Items), Reviewable(result, Items, envelopes, run))

-----------------------------------------------------------------------------
(* The turn.                                                               *)

InReview == {"coverage", "prompts", "present", "done"}

TypeOK ==
  /\ pc \in {"experience", "retrieve", "retrieving", "rag", "mcp", "worker", "failed"}
            \cup InReview
  /\ active \in 1..LastGeneration
  /\ route \in Routes /\ memories \in MemoryLists
  /\ pc \in {"retrieving", "rag"} =>
       /\ know = [typed |-> know.typed, pinned |-> know.pinned, pack |-> know.pack]
       /\ know.typed \in BOOLEAN /\ know.pinned \in 1..active
  /\ pc = "rag" => know.pack \in Packs[know.pinned][know.typed]
  /\ calls \in Seq(McpCalls)
  /\ runs \in Seq(Statuses \cup {"running"})

(* A run is under way while the worker is, or its review. *)
RunsOK ==
  /\ pc \in {"experience", "retrieve", "retrieving", "rag", "mcp"} => runs = <<>>
  /\ pc = "worker" =>
       /\ runs # <<>>
       /\ \A i \in 1..(Len(runs) - 1) : runs[i] # "running"
  /\ pc \in {"coverage", "prompts"} =>
       /\ stage.run \in DOMAIN runs
       /\ \A i \in DOMAIN runs \ {stage.run} : runs[i] # "running"
  /\ pc \in {"present", "done"} =>
       /\ stage.run \in DOMAIN runs /\ runs[stage.run] = answer.result.status
       /\ \A i \in DOMAIN runs : runs[i] # "running"

(* Where the result under review came from, and what shows its evidence.   *)
FromKnowledge ==
  \E pack, rag :
    /\ \E typed \in BOOLEAN : \E pinned \in 1..LastGeneration :
         /\ pack \in Packs[pinned][typed]
         /\ stage.envelopes = KnowledgeEnvelopes(pack, pinned, stage.active, stage.run)
    /\ stage.raw = KnowledgeResult(pack, route, rag, Items)
FromExperience ==
  /\ \E m \in Members(memories) :
       stage.raw = m.run.result /\ Reusable(m, Items, Library[stage.active])
  /\ stage.envelopes = ExperienceEnvelopes(stage.raw, stage.active, stage.run)
FromTools ==
  \E cs \in Seq(McpCalls) :
    /\ stage.raw \in McpResult(cs, Items)
    /\ stage.envelopes = McpEnvelopes(cs, stage.run)
FromWorker ==
  \E o \in WorkerOutputs :
    /\ o.kind # "bare" /\ stage.raw = WorkerResult(o, Items, Unknowns)
    /\ stage.envelopes = WorkerEnvelopes(o, stage.run)
    /\ stage.failed = WorkerFailed(o)

StageOK ==
  pc \in InReview =>
    /\ IsResult(stage.raw) /\ stage.structure = Structure(stage.raw)
    /\ \/ stage.source = "knowledge"  /\ ~stage.failed /\ FromKnowledge
       \/ stage.source = "experience" /\ ~stage.failed /\ FromExperience
       \/ stage.source = "mcp"        /\ ~stage.failed /\ FromTools
       \/ stage.source = "worker"     /\ FromWorker

ReviewedBy(r) ==
  /\ r \in ReviewsOf(stage.structure.result, stage.envelopes, stage.run)
  /\ review = Freeze(stage.structure, Items, r, escalation)

ReviewOK ==
  /\ pc \in {"prompts", "present", "done"} => \E r : ReviewedBy(r)
  /\ pc \in {"present", "done"} =>
       \E accepted \in SUBSET Prompts(review.result) :
         answer = Presented(review, accepted, stage.failed)

Inv == TypeOK /\ RunsOK /\ StageOK /\ ReviewOK

-----------------------------------------------------------------------------
(* What the stages answer with is a result. *)

LEMMA NewClaim ==
  ASSUME NEW id, NEW type, NEW role, NEW answers, NEW evidence
  PROVE  IsClaim(Claim(id, type, role, answers, evidence))
  BY DEF IsClaim, Claim

LEMMA NewResult ==
  ASSUME NEW status \in Statuses, NEW next, NEW missing, NEW evidence, NEW claims,
         DOMAIN claims \subseteq Nat, \A i \in DOMAIN claims : IsClaim(claims[i])
  PROVE  LET r == Result(status, next, missing, evidence, claims) IN
         /\ IsResult(r)
         /\ r.status = status /\ r.evidence = evidence /\ r.claims = claims
<1> DEFINE r == Result(status, next, missing, evidence, claims)
<1>1. /\ r.status = status /\ r.next = next /\ r.missing = missing
      /\ r.evidence = evidence /\ r.claims = claims
  BY DEF Result
<1>2. \A c \in Members(claims) : IsClaim(c)
  BY DEF Members
<1> HIDE DEF r
<1>3. r = Result(r.status, r.next, r.missing, r.evidence, r.claims)
  BY <1>1 DEF r
<1> QED BY <1>1, <1>2, <1>3 DEF r, IsResult

LEMMA KnowledgeIsResult ==
  ASSUME NEW pack, pack \in Seq(Members(pack)), NEW rag, rag.claims \in Seq(Members(rag.claims))
  PROVE  LET r == KnowledgeResult(pack, route, rag, Items) IN
         IsResult(r) /\ r.status = "concluded" /\ r.evidence = KnowledgeEvidence(pack)
<1> DEFINE evidence == KnowledgeEvidence(pack)
           claims   == KnowledgeClaims(pack, route, rag, Items)
<1>1. DOMAIN evidence \subseteq Nat
  <2>1. DOMAIN pack = 1..Len(pack) /\ Len(pack) \in Nat
    BY LenProperties
  <2> QED BY <2>1 DEF KnowledgeEvidence
<1>2. DOMAIN rag.claims = 1..Len(rag.claims) /\ Len(rag.claims) \in Nat
  BY LenProperties
<1> HIDE DEF evidence
<1>3. DOMAIN claims \subseteq Nat /\ \A i \in DOMAIN claims : IsClaim(claims[i])
  <2>1. CASE rag.says = "full" /\ rag.claims # <<>>
    BY <1>2, <2>1, NewClaim DEF KnowledgeClaims
  <2>2. CASE ~(rag.says = "full" /\ rag.claims # <<>>)
             /\ (route.overview \/ Cardinality(DOMAIN evidence) > 1)
    BY <1>1, <2>2, NewClaim DEF KnowledgeClaims, evidence
  <2>3. CASE ~(rag.says = "full" /\ rag.claims # <<>>)
             /\ ~(route.overview \/ Cardinality(DOMAIN evidence) > 1)
    BY <2>3, NewClaim DEF KnowledgeClaims, evidence
  <2> QED BY <2>1, <2>2, <2>3
<1>4. "concluded" \in Statuses
  BY DEF Statuses
<1> HIDE DEF claims
<1> QED BY <1>3, <1>4, NewResult DEF KnowledgeResult, claims, evidence

LEMMA NormalizedClaims ==
  ASSUME NEW claims, DOMAIN claims \subseteq Nat, NEW items, NEW known,
         \A c \in Members(claims) : c.visible \in BOOLEAN
  PROVE  LET n == Normalized(claims, items, known) IN
         DOMAIN n \subseteq Nat /\ \A i \in DOMAIN n : IsClaim(n[i])
<1> DEFINE n == Normalized(claims, items, known)
<1>1. DOMAIN n \subseteq DOMAIN claims
  BY DEF Normalized
<1>2. ASSUME NEW i \in DOMAIN n PROVE IsClaim(n[i])
  <2>1. PICK answers :
          n[i] = [Claim(claims[i].id, claims[i].type, claims[i].role, answers,
                        claims[i].evidence \cap known) EXCEPT !.visible = claims[i].visible]
    BY DEF Normalized
  <2>2. claims[i].visible \in BOOLEAN
    BY <1>1 DEF Members
  <2> DEFINE id == claims[i].id      type == claims[i].type
             role == claims[i].role  ev   == claims[i].evidence \cap known
             x == claims[i].visible
  <2>3. n[i] = [Claim(id, type, role, answers, ev) EXCEPT !.visible = x]
    BY <2>1
  <2> HIDE DEF n, id, type, role, ev, x
  <2>4. n[i] = [id |-> id, type |-> type, role |-> role, answers |-> answers,
                evidence |-> ev, visible |-> x]
    BY <2>3 DEF Claim
  <2>5. x \in BOOLEAN
    BY <2>2 DEF x
  <2> QED BY <2>4, <2>5 DEF IsClaim
<1> QED BY <1>1, <1>2

LEMMA WorkerIsResult ==
  ASSUME NEW o \in WorkerOutputs, o.kind # "bare"
  PROVE  IsResult(WorkerResult(o, Items, Unknowns))
<1>1. /\ o.kind \in {"disabled", "broken", "subtype", "prose", "answer"}
      /\ o.kind = "answer" =>
           /\ o.status \in Statuses /\ DOMAIN o.claims \subseteq Nat
           /\ \A c \in Members(o.claims) : c.visible \in BOOLEAN
  BY WorkerAssumption
<1>2. "partial" \in Statuses
  BY DEF Statuses
<1>3. \A type, role, ev : IsClaim(Note(type, role, ev))
  BY NewClaim DEF Note
<1>4. ASSUME NEW a, IsClaim(a)
      PROVE  DOMAIN <<a>> \subseteq Nat /\ \A i \in DOMAIN <<a>> : IsClaim(<<a>>[i])
  BY <1>4
<1>5. ASSUME NEW a, IsClaim(a), NEW b, IsClaim(b)
      PROVE  DOMAIN <<a, b>> \subseteq Nat /\ \A i \in DOMAIN <<a, b>> : IsClaim(<<a, b>>[i])
  BY <1>5
<1>6. CASE o.kind = "disabled"
  BY <1>2, <1>3, <1>4, <1>6, NewResult DEF WorkerResult
<1>7. CASE o.kind = "broken"
  BY <1>2, <1>3, <1>5, <1>7, NewResult DEF WorkerResult
<1>8. CASE o.kind = "subtype"
  BY <1>2, <1>3, <1>4, <1>8, NewResult DEF WorkerResult
<1>9. CASE o.kind = "prose"
  BY <1>2, <1>3, <1>4, <1>9, NewResult DEF WorkerResult
<1>10. CASE o.kind = "answer"
  <2>1. LET n == Normalized(o.claims, Items, Ids(o.evidence)) IN
        DOMAIN n \subseteq Nat /\ \A i \in DOMAIN n : IsClaim(n[i])
    BY <1>1, <1>10, NormalizedClaims
  <2> QED BY <1>1, <1>10, <2>1, NewResult DEF WorkerResult
<1> QED BY <1>1, <1>6, <1>7, <1>8, <1>9, <1>10

LEMMA ToolsAreResult ==
  ASSUME NEW cs \in Seq(McpCalls), NEW r \in McpResult(cs, Items)
  PROVE  IsResult(r) /\ r.status = "concluded" /\ r.evidence = McpEvidence(cs)
<1> DEFINE stated == StatedBy(cs, Explicit(cs))
           claims == McpClaims(cs, Items)
<1>1. r = Result("concluded", "final_answer", {}, McpEvidence(cs), claims)
  BY DEF McpResult
<1>2. Cardinality(stated) \in Nat
  <2>1. DOMAIN cs = 1..Len(cs) /\ Len(cs) \in Nat /\ \A i \in DOMAIN cs : cs[i] \in McpCalls
    BY LenProperties, ElementOfSeq
  <2>2. IsFiniteSet(Explicit(cs)) /\ Explicit(cs) \subseteq DOMAIN cs
    <3>1. IsFiniteSet(DOMAIN cs)
      BY <2>1, FS_Interval
    <3> QED BY <3>1, FS_Subset DEF Explicit
  <2> DEFINE Of(i) == {i} \X DOMAIN cs[i].claims
             sets == {Of(i) : i \in Explicit(cs)}
  <2>3. ASSUME NEW i \in Explicit(cs) PROVE IsFiniteSet(Of(i))
    <3>1. cs[i].claims \in Seq(Members(cs[i].claims))
      BY <2>1, McpAssumption DEF Explicit
    <3>2. DOMAIN cs[i].claims = 1..Len(cs[i].claims) /\ Len(cs[i].claims) \in Nat
      BY <3>1, LenProperties
    <3>3. IsFiniteSet(DOMAIN cs[i].claims)
      BY <3>2, FS_Interval
    <3> QED BY <3>3, FS_Singleton, FS_Product
  <2>4. IsFiniteSet(sets)
    <3> DEFINE f == [i \in Explicit(cs) |-> Of(i)]
    <3>1. f \in Surjection(Explicit(cs), sets)
      BY DEF Surjection
    <3> HIDE DEF f, sets
    <3> QED BY <2>2, <3>1, FS_Surjection
  <2>5. IsFiniteSet(UNION sets)
    <3> HIDE DEF Of
    <3> QED BY <2>3, <2>4, FS_UNION
  <2>6. stated = UNION sets
    BY DEF StatedBy
  <2> HIDE DEF sets, stated
  <2> QED BY <2>5, <2>6, FS_CardinalityType
<1>3. DOMAIN claims \subseteq Nat /\ \A i \in DOMAIN claims : IsClaim(claims[i])
  BY <1>2, NewClaim DEF McpClaims, McpClaim
<1>4. "concluded" \in Statuses
  BY DEF Statuses
<1> HIDE DEF claims
<1> QED BY <1>1, <1>3, <1>4, NewResult

(* An MCP call that stated its claims is cited as such: no other call of   *)
(* the turn has its evidence identity.                                     *)
LEMMA ToolEvidence ==
  ASSUME NEW cs \in Seq(McpCalls), NEW i \in Explicit(cs),
         NEW e \in Members(McpEvidence(cs)), e.id = McpEvidenceId(cs, i)
  PROVE  e.conf = "high"
<1>1. DOMAIN cs = 1..Len(cs) /\ Len(cs) \in Nat
  BY LenProperties
<1>2. PICK k \in Completed(cs) : e = McpEvidence(cs)[k]
  BY DEF Members, McpEvidence
<1>3. e = Evidence(McpEvidenceId(cs, k), "mcp", IF k \in Explicit(cs) THEN "high" ELSE "medium")
  BY <1>2 DEF McpEvidence
<1>4. e.id = McpEvidenceId(cs, k) /\ (k \in Explicit(cs) => e.conf = "high")
  BY <1>3 DEF Evidence
<1>5. i \in Completed(cs) /\ Completed(cs) \in SUBSET (1..Len(cs))
  BY <1>1 DEF Explicit, Completed
<1>6. Rank(Completed(cs), i) = Rank(Completed(cs), k)
  BY <1>4 DEF McpEvidenceId
<1>7. i = k
  BY <1>1, <1>2, <1>5, <1>6, RankIsOneToOne
<1> QED BY <1>4, <1>7

-----------------------------------------------------------------------------
(* The invariant. *)

LEMMA InvInit == Init => Inv
<1> SUFFICES ASSUME Init PROVE Inv
  OBVIOUS
<1>1. TypeOK
  BY GenerationsAssumption DEF Init, TypeOK
<1>2. RunsOK /\ StageOK /\ ReviewOK
  BY DEF Init, RunsOK, StageOK, ReviewOK, InReview
<1> QED BY <1>1, <1>2 DEF Inv

(* Outside the review, only the types and the runs matter. *)
LEMMA NotInReview ==
  ASSUME pc' \notin InReview
  PROVE  StageOK' /\ ReviewOK'
  BY DEF StageOK, ReviewOK, InReview

(* The stage stays when nothing it is about changes. *)
LEMMA StageStays ==
  ASSUME StageOK, pc \in InReview, UNCHANGED <<stage, route, memories>>
  PROVE  StageOK'
<1>1. /\ FromKnowledge => FromKnowledge'
      /\ FromExperience => FromExperience'
      /\ FromTools => FromTools'
      /\ FromWorker => FromWorker'
  BY DEF FromKnowledge, FromExperience, FromTools, FromWorker
<1> QED BY <1>1 DEF StageOK

LEMMA InvExperience == Inv /\ Experience => Inv'
<1> SUFFICES ASSUME Inv, Experience PROVE Inv'
  OBVIOUS
<1>1. TypeOK /\ pc = "experience" /\ runs = <<>>
  BY DEF Inv, RunsOK, Experience
<1>2. CASE Matches(memories, Items, Library[active]) = {}
  <2>1. pc' = "retrieve" /\ UNCHANGED <<env, know, escalation, calls, runs, stage>>
    BY <1>1, <1>2 DEF Experience
  <2>2. TypeOK'
    BY <1>1, <2>1 DEF TypeOK, InReview, env
  <2>3. RunsOK'
    BY <1>1, <2>1 DEF RunsOK
  <2> QED BY <2>1, <2>2, <2>3, NotInReview DEF Inv, InReview
<1>3. ASSUME NEW m \in Matches(memories, Items, Library[active]),
             runs' = Append(runs, "running"),
             ReviewOf("experience", 1, m.run.result,
                      ExperienceEnvelopes(m.run.result, active, 1), FALSE)
      PROVE  Inv'
  <2>1. m \in Members(memories) /\ Reusable(m, Items, Library[active])
    BY DEF Matches, Members
  <2>2. IsResult(m.run.result)
    BY <1>1, <2>1, MemoriesAssumption DEF TypeOK
  <2>3. /\ pc' = "coverage" /\ UNCHANGED <<env, know, escalation, calls, review, answer>>
        /\ runs' = <<"running">> /\ DOMAIN runs' = {1}
    BY <1>1, <1>3 DEF Experience, ReviewOf
  <2>4. /\ stage'.source = "experience" /\ stage'.run = 1 /\ stage'.raw = m.run.result
        /\ stage'.failed = FALSE
        /\ stage'.envelopes = ExperienceEnvelopes(m.run.result, active, 1)
        /\ stage'.active = active /\ stage'.structure = Structure(m.run.result)
    BY <1>3 DEF ReviewOf
  <2>5. TypeOK'
    BY <1>1, <2>3 DEF TypeOK, InReview, env
  <2>6. RunsOK'
    BY <2>3, <2>4 DEF RunsOK
  <2>7. FromExperience'
    BY <2>1, <2>3, <2>4 DEF FromExperience, env
  <2>8. StageOK'
    BY <2>2, <2>4, <2>7 DEF StageOK
  <2>9. ReviewOK'
    BY <2>3 DEF ReviewOK
  <2> QED BY <2>5, <2>6, <2>8, <2>9 DEF Inv
<1> QED BY <1>2, <1>3 DEF Experience

LEMMA InvRetrieve == Inv /\ (NoKnowledge \/ Retrieve) => Inv'
<1> SUFFICES ASSUME Inv, NoKnowledge \/ Retrieve PROVE Inv'
  OBVIOUS
<1>1. TypeOK /\ RunsOK /\ pc = "retrieve" /\ pc' \in {"mcp", "retrieving"}
      /\ UNCHANGED <<env, escalation, calls, runs, stage>>
  BY DEF Inv, NoKnowledge, Retrieve
<1>2. TypeOK'
  <2>1. route.typed \in BOOLEAN
    BY <1>1, RoutesAssumption DEF TypeOK
  <2>2. CASE pc' = "mcp"
    BY <1>1, <2>2 DEF TypeOK, env
  <2>3. CASE pc' = "retrieving"
    <3>1. know' = [typed |-> route.typed, pinned |-> active, pack |-> <<>>]
      BY <2>3 DEF NoKnowledge, Retrieve
    <3> QED BY <1>1, <2>1, <2>3, <3>1 DEF TypeOK, env
  <2> QED BY <1>1, <2>2, <2>3
<1>3. RunsOK'
  BY <1>1 DEF RunsOK
<1> QED BY <1>1, <1>2, <1>3, NotInReview DEF Inv, InReview

(* The knowledge stage ends with a result of the pack it read, or leaves   *)
(* the turn to the tools.                                                  *)
LEMMA InvConclude ==
  ASSUME Inv, pc \in {"retrieving", "rag"}, UNCHANGED <<env, calls, review, answer>>,
         NEW k, NEW typed \in BOOLEAN, NEW pinned \in 1..LastGeneration,
         k.pinned = pinned, k.pack \in Packs[pinned][typed],
         NEW judge, NEW rag, rag.claims \in Seq(Members(rag.claims)),
         Conclude(k, judge, rag)
  PROVE  Inv'
<1>1. TypeOK /\ runs = <<>>
  BY DEF Inv, RunsOK
<1>2. CASE ~judge.answerable
  <2>1. pc' = "mcp" /\ UNCHANGED <<runs, stage>>
    BY <1>2 DEF Conclude
  <2>2. TypeOK'
    BY <1>1, <2>1 DEF TypeOK, env
  <2>3. RunsOK'
    BY <1>1, <2>1 DEF RunsOK
  <2> QED BY <2>1, <2>2, <2>3, NotInReview DEF Inv, InReview
<1>3. CASE judge.answerable
  <2> DEFINE result    == KnowledgeResult(k.pack, route, rag, Items)
             envelopes == KnowledgeEnvelopes(k.pack, k.pinned, active, Len(runs) + 1)
  <2>1. runs' = Append(runs, "running")
        /\ ReviewOf("knowledge", Len(runs) + 1, result, envelopes, FALSE)
    BY <1>3 DEF Conclude
  <2>2. Len(runs) + 1 = 1 /\ runs' = <<"running">> /\ DOMAIN runs' = {1}
    BY <1>1, <2>1
  <2> HIDE DEF result, envelopes
  <2>3. /\ pc' = "coverage"
        /\ stage'.source = "knowledge" /\ stage'.run = 1 /\ stage'.raw = result
        /\ stage'.failed = FALSE /\ stage'.envelopes = envelopes
        /\ stage'.active = active /\ stage'.structure = Structure(result)
    BY <2>1, <2>2 DEF ReviewOf
  <2>4. IsResult(result)
    <3>1. k.pack \in Seq(Members(k.pack))
      BY PacksAssumption
    <3> QED BY <3>1, KnowledgeIsResult DEF result
  <2>5. TypeOK'
    BY <1>1, <2>2, <2>3 DEF TypeOK, InReview, env
  <2>6. RunsOK'
    BY <2>2, <2>3 DEF RunsOK
  <2>7. FromKnowledge'
    <3>1. /\ stage'.envelopes = KnowledgeEnvelopes(k.pack, pinned, stage'.active, stage'.run)
          /\ stage'.raw = KnowledgeResult(k.pack, route', rag, Items)
      BY <2>2, <2>3 DEF result, envelopes, env
    <3> QED BY <3>1 DEF FromKnowledge
  <2>8. StageOK'
    BY <2>3, <2>4, <2>7 DEF StageOK
  <2>9. ReviewOK'
    BY <2>3 DEF ReviewOK
  <2> QED BY <2>5, <2>6, <2>8, <2>9 DEF Inv
<1> QED BY <1>2, <1>3

LEMMA InvRetrieved == Inv /\ Retrieved => Inv'
<1> SUFFICES ASSUME Inv, Retrieved PROVE Inv'
  OBVIOUS
<1>1. /\ TypeOK /\ RunsOK /\ pc = "retrieving" /\ UNCHANGED <<env, calls, review, answer>>
      /\ know = [typed |-> know.typed, pinned |-> know.pinned, pack |-> know.pack]
      /\ know.typed \in BOOLEAN /\ know.pinned \in 1..active /\ active \in 1..LastGeneration
      /\ know.pinned \in 1..LastGeneration
  BY GenerationsAssumption DEF Inv, TypeOK, Retrieved
<1>2. PICK pack \in Packs[know.pinned][know.typed] :
        LET k == [know EXCEPT !.pack = pack]
        IN  CASE pack = <<>> /\ know.typed ->
                   /\ know' = Again(know)
                   /\ UNCHANGED <<pc, escalation, runs, stage>>
              [] pack # <<>> /\ route.rag ->
                   /\ know' = k /\ pc' = "rag"
                   /\ UNCHANGED <<escalation, runs, stage>>
              [] OTHER -> Conclude(k, Judge(route, pack), RagOff)
  BY DEF Retrieved
<1> DEFINE typed == know.typed  pinned == know.pinned
           k == [know EXCEPT !.pack = pack]
<1>3. k = [typed |-> typed, pinned |-> pinned, pack |-> pack]
  BY <1>1
<1> HIDE DEF k
<1>4. k.typed = typed /\ k.pinned = pinned /\ k.pack = pack
  BY <1>3
<1>5. CASE pack = <<>> /\ know.typed
  <2>1. know' = Again(know) /\ UNCHANGED <<pc, escalation, runs, stage>>
    BY <1>2, <1>5
  <2>2. know' = [typed |-> FALSE, pinned |-> active, pack |-> know.pack]
    BY <2>1 DEF Again
  <2>3. TypeOK'
    BY <1>1, <2>1, <2>2 DEF TypeOK, env, Inv
  <2>4. RunsOK'
    BY <1>1, <2>1 DEF RunsOK
  <2>5. pc' \notin InReview
    BY <1>1, <2>1 DEF InReview
  <2> QED BY <2>3, <2>4, <2>5, NotInReview DEF Inv
<1>6. CASE ~(pack = <<>> /\ know.typed) /\ pack # <<>> /\ route.rag
  <2>1. know' = k /\ pc' = "rag" /\ UNCHANGED <<runs, stage>>
    BY <1>2, <1>6 DEF k
  <2>2. TypeOK'
    BY <1>1, <1>3, <1>4, <2>1 DEF TypeOK, env, Inv
  <2>3. RunsOK'
    BY <1>1, <2>1 DEF RunsOK
  <2> QED BY <2>1, <2>2, <2>3, NotInReview DEF Inv, InReview
<1>7. CASE ~(pack = <<>> /\ know.typed) /\ ~(pack # <<>> /\ route.rag)
  <2>1. Conclude(k, Judge(route, pack), RagOff)
    BY <1>2, <1>7 DEF k
  <2>2. RagOff.claims \in Seq(Members(RagOff.claims))
    BY DEF RagOff
  <2> QED BY <1>1, <1>4, <2>1, <2>2, InvConclude
<1> QED BY <1>5, <1>6, <1>7

LEMMA ValidatedIsSequence ==
  ASSUME NEW a \in RagAnswers, NEW ids
  PROVE  LET rag == ValidateRag(a, ids, Items) IN rag.claims \in Seq(Members(rag.claims))
<1> DEFINE known == [i \in DOMAIN a.claims |-> [a.claims[i] EXCEPT !.items = @ \cap Items]]
           rag   == ValidateRag(a, ids, Items)
<1>1. a.claims \in Seq(Members(a.claims))
  BY RagAssumption
<1>2. DOMAIN a.claims = 1..Len(a.claims) /\ Len(a.claims) \in Nat
  BY <1>1, LenProperties
<1>3. known \in [1..Len(a.claims) -> Members(known)]
  BY <1>2 DEF Members
<1>4. known \in Seq(Members(known))
  BY <1>2, <1>3, IsASeq
<1>5. <<>> \in Seq(Members(<<>>))
  OBVIOUS
<1>6. rag.claims \in {<<>>, known}
  BY DEF ValidateRag, ConservativeUnknown
<1> HIDE DEF known, rag
<1> QED BY <1>4, <1>5, <1>6 DEF rag

LEMMA InvRagAnswered == Inv /\ RagAnswered => Inv'
<1> SUFFICES ASSUME Inv, RagAnswered PROVE Inv'
  OBVIOUS
<1>1. /\ pc = "rag" /\ UNCHANGED <<env, calls, review, answer>>
      /\ know.typed \in BOOLEAN /\ know.pinned \in 1..LastGeneration
      /\ know.pack \in Packs[know.pinned][know.typed]
  BY GenerationsAssumption DEF Inv, TypeOK, RagAnswered
<1>2. PICK rag \in {ValidateRag(a, RagIds(know.pack), Items) : a \in RagAnswers}
                    \cup {ConservativeUnknown} :
        Conclude(know, FinalJudge(Judge(route, know.pack), rag), rag)
  BY DEF RagAnswered
<1>3. rag.claims \in Seq(Members(rag.claims))
  <2>1. ConservativeUnknown.claims \in Seq(Members(ConservativeUnknown.claims))
    BY DEF ConservativeUnknown
  <2> QED BY <1>2, <2>1, ValidatedIsSequence
<1> QED BY <1>1, <1>2, <1>3, InvConclude

LEMMA InvTools == Inv /\ (CallTool \/ ToolsDone) => Inv'
<1> SUFFICES ASSUME Inv, CallTool \/ ToolsDone PROVE Inv'
  OBVIOUS
<1>1. TypeOK /\ RunsOK /\ pc = "mcp" /\ runs = <<>>
      /\ UNCHANGED <<env, know, escalation, review, answer>>
  BY DEF Inv, RunsOK, CallTool, ToolsDone
<1>2. CASE CallTool
  <2>1. UNCHANGED <<pc, runs, stage>> /\ calls' \in Seq(McpCalls)
    BY <1>1, <1>2, AppendProperties DEF CallTool, TypeOK
  <2>2. TypeOK'
    BY <1>1, <2>1 DEF TypeOK, env
  <2>3. RunsOK'
    BY <1>1, <2>1 DEF RunsOK
  <2>4. pc' \notin InReview
    BY <1>1, <2>1 DEF InReview
  <2> QED BY <2>2, <2>3, <2>4, NotInReview DEF Inv
<1>3. CASE ToolsDone /\ McpResult(calls, Items) = {}
  <2>1. runs' = <<"running">> /\ pc' = "worker" /\ calls' = <<>>
    BY <1>1, <1>3 DEF ToolsDone
  <2>2. TypeOK'
    BY <1>1, <2>1 DEF TypeOK, env
  <2>3. RunsOK'
    BY <2>1 DEF RunsOK
  <2> QED BY <2>1, <2>2, <2>3, NotInReview DEF Inv, InReview
<1>4. ASSUME NEW result \in McpResult(calls, Items), calls' = <<>>,
             runs' = Append(runs, result.status),
             ReviewOf("mcp", Len(runs) + 1, result, McpEnvelopes(calls, Len(runs) + 1), FALSE)
      PROVE  Inv'
  <2>1. calls \in Seq(McpCalls) /\ IsResult(result) /\ result.status = "concluded"
    BY <1>1, ToolsAreResult DEF TypeOK
  <2>2. Len(runs) + 1 = 1 /\ runs' = <<"concluded">> /\ DOMAIN runs' = {1}
    BY <1>1, <1>4, <2>1
  <2>3. /\ pc' = "coverage"
        /\ stage'.source = "mcp" /\ stage'.run = 1 /\ stage'.raw = result
        /\ stage'.failed = FALSE /\ stage'.envelopes = McpEnvelopes(calls, 1)
        /\ stage'.structure = Structure(result)
    BY <1>4, <2>2 DEF ReviewOf
  <2>4. TypeOK'
    BY <1>1, <1>4, <2>2, <2>3 DEF TypeOK, InReview, env, Statuses
  <2>5. RunsOK'
    BY <2>2, <2>3 DEF RunsOK
  <2>6. FromTools'
    BY <2>1, <2>3 DEF FromTools
  <2>7. StageOK'
    BY <2>1, <2>3, <2>6 DEF StageOK
  <2>8. ReviewOK'
    BY <2>3 DEF ReviewOK
  <2> QED BY <2>4, <2>5, <2>7, <2>8 DEF Inv
<1> QED BY <1>2, <1>3, <1>4 DEF ToolsDone

LEMMA InvWorkerAnswers == Inv /\ WorkerAnswers => Inv'
<1> SUFFICES ASSUME Inv, WorkerAnswers PROVE Inv'
  OBVIOUS
<1>1. /\ TypeOK /\ RunsOK /\ pc = "worker"
      /\ UNCHANGED <<env, know, escalation, calls, review, answer>>
  BY DEF Inv, WorkerAnswers
<1>2. PICK output \in WorkerOutputs :
        IF output.kind = "bare"
        THEN pc' = "failed" /\ UNCHANGED <<runs, stage>>
        ELSE LET result == WorkerResult(output, Items, Unknowns)
             IN  /\ runs' = [runs EXCEPT ![Len(runs)] = result.status]
                 /\ ReviewOf("worker", Len(runs), result,
                             WorkerEnvelopes(output, Len(runs)), WorkerFailed(output))
  BY DEF WorkerAnswers
<1>3. CASE output.kind = "bare"
  <2>1. pc' = "failed" /\ UNCHANGED <<runs, stage>>
    BY <1>2, <1>3
  <2>2. TypeOK'
    BY <1>1, <2>1 DEF TypeOK, env
  <2>3. RunsOK'
    BY <2>1 DEF RunsOK
  <2> QED BY <2>1, <2>2, <2>3, NotInReview DEF Inv, InReview
<1>4. CASE output.kind # "bare"
  <2> DEFINE result == WorkerResult(output, Items, Unknowns)
             n == Len(runs)
  <2>1. /\ runs' = [runs EXCEPT ![n] = result.status]
        /\ ReviewOf("worker", n, result, WorkerEnvelopes(output, n), WorkerFailed(output))
    BY <1>2, <1>4
  <2>2. IsResult(result) /\ result.status \in Statuses
    BY <1>4, WorkerIsResult DEF IsResult
  <2> HIDE DEF result
  <2>3. /\ pc' = "coverage"
        /\ stage'.source = "worker" /\ stage'.run = n /\ stage'.raw = result
        /\ stage'.failed = WorkerFailed(output)
        /\ stage'.envelopes = WorkerEnvelopes(output, n)
        /\ stage'.structure = Structure(result)
    BY <2>1 DEF ReviewOf
  <2>4. runs \in Seq(Statuses \cup {"running"}) /\ runs # <<>>
    BY <1>1 DEF TypeOK, RunsOK
  <2>5. /\ n \in 1..n /\ DOMAIN runs = 1..n /\ DOMAIN runs' = 1..n
        /\ runs' \in Seq(Statuses \cup {"running"})
        /\ \A i \in 1..n : i # n => runs'[i] = runs[i]
    <3>1. n \in Nat /\ n # 0 /\ DOMAIN runs = 1..n
      BY <2>4, LenProperties, EmptySeq
    <3>2. runs' \in Seq(Statuses \cup {"running"})
      BY <2>1, <2>2, <2>4, <3>1, ExceptSeq
    <3>3. n \in 1..n
      BY <3>1
    <3> HIDE DEF n
    <3> QED BY <2>1, <3>1, <3>2, <3>3
  <2>6. TypeOK'
    BY <1>1, <2>3, <2>5 DEF TypeOK, InReview, env
  <2>7. RunsOK'
    <3>1. \A i \in 1..(n - 1) : runs[i] # "running"
      BY <1>1 DEF RunsOK
    <3> HIDE DEF n
    <3>2. \A i \in 1..n : i # n => i \in 1..(n - 1)
      BY <2>5
    <3> QED BY <2>3, <2>5, <3>1, <3>2 DEF RunsOK
  <2>8. FromWorker'
    BY <1>4, <2>3 DEF FromWorker, result
  <2>9. StageOK'
    BY <2>2, <2>3, <2>8 DEF StageOK
  <2>10. ReviewOK'
    BY <2>3 DEF ReviewOK
  <2> QED BY <2>6, <2>7, <2>9, <2>10 DEF Inv
<1> QED BY <1>3, <1>4

(* What is under review is a review of the structure of a result. *)
LEMMA ReviewIs ==
  ASSUME StageOK, pc \in InReview, NEW r, ReviewedBy(r)
  PROVE  /\ IsReview(review) /\ SameContent(review.result, stage.structure.result)
         /\ IsResult(stage.structure.result)
         /\ stage.structure.result.evidence = Distinct(stage.raw.evidence)
         /\ Members(stage.structure.result.evidence) \subseteq Members(stage.raw.evidence)
         /\ \A c \in Members(stage.structure.result.claims) :
              Sound(c, stage.structure.result.evidence)
         /\ OutcomeOf(review.result) = Outcome("concluded", "final_answer") => review.frozen # {}
         /\ (\E e \in escalation : e.judge.conflict)
              => OutcomeOf(review.result) = Outcome("partial", "escalate_to_human")
<1>1. IsResult(stage.raw) /\ stage.structure = Structure(stage.raw)
  BY DEF StageOK
<1>2. /\ IsResult(stage.structure.result)
      /\ stage.structure.result.evidence = Distinct(stage.raw.evidence)
      /\ Members(stage.structure.result.evidence) \subseteq Members(stage.raw.evidence)
      /\ \A c \in Members(stage.structure.result.claims) :
           Sound(c, stage.structure.result.evidence)
  BY <1>1, StructureIs
<1>3. review = Freeze(stage.structure, Items, r, escalation)
  BY DEF ReviewedBy
<1>4. /\ review = [result |-> review.result, frozen |-> review.frozen, bound |-> review.bound]
      /\ IsRecord(review.result) /\ SameContent(review.result, stage.structure.result)
      /\ OutcomeOf(review.result) \in Outcomes
      /\ OutcomeOf(review.result) = Outcome("concluded", "final_answer") => review.frozen # {}
      /\ (\E e \in escalation : e.judge.conflict)
           => OutcomeOf(review.result) = Outcome("partial", "escalate_to_human")
  BY <1>2, <1>3, FreezeIs
<1> QED BY <1>2, <1>4 DEF IsReview

LEMMA InvCoverageReviewed == Inv /\ CoverageReviewed => Inv'
<1> SUFFICES ASSUME Inv, CoverageReviewed PROVE Inv'
  OBVIOUS
<1>1. /\ TypeOK /\ RunsOK /\ StageOK /\ pc = "coverage" /\ pc' = "prompts"
      /\ UNCHANGED <<env, know, escalation, calls, runs, stage, answer>>
  BY DEF Inv, CoverageReviewed
<1>2. TypeOK'
  BY <1>1 DEF TypeOK, InReview, env
<1>3. RunsOK'
  BY <1>1 DEF RunsOK
<1>4. StageOK'
  BY <1>1, StageStays DEF InReview, env
<1>5. \E r : ReviewedBy(r)'
  <2>1. PICK r \in Reviews(Segments(stage.structure.result.claims, Items),
                   Reviewable(stage.structure.result, Items, stage.envelopes, stage.run)) :
          review' = Freeze(stage.structure, Items, r, escalation)
    BY DEF CoverageReviewed
  <2>2. ReviewedBy(r)'
    BY <1>1, <2>1 DEF ReviewedBy, ReviewsOf
  <2> QED BY <2>2
<1>6. ReviewOK'
  BY <1>1, <1>5 DEF ReviewOK
<1> QED BY <1>2, <1>3, <1>4, <1>6 DEF Inv

LEMMA InvPromptsReviewed == Inv /\ PromptsReviewed => Inv'
<1> SUFFICES ASSUME Inv, PromptsReviewed PROVE Inv'
  OBVIOUS
<1>1. /\ TypeOK /\ RunsOK /\ StageOK /\ pc = "prompts" /\ pc' = "present"
      /\ UNCHANGED <<env, know, escalation, calls, stage, review>>
      /\ runs' = [runs EXCEPT ![stage.run] = answer'.result.status]
  BY DEF Inv, PromptsReviewed
<1>2. PICK reply \in SUBSET Prompts(review.result) :
        answer' = Presented(review, reply, stage.failed)
  BY DEF PromptsReviewed
<1>3. PICK r : ReviewedBy(r)
  BY <1>1 DEF Inv, ReviewOK
<1>4. IsReview(review)
  BY <1>1, <1>3, ReviewIs DEF InReview
<1>5. answer'.result.status \in Statuses
  <2>1. OutcomeOf(answer'.result) \in Outcomes
    BY <1>2, <1>4, PresentedIs
  <2> QED BY <2>1 DEF OutcomeOf, Outcomes, Outcome, Statuses
<1>6. stage.run \in DOMAIN runs /\ \A i \in DOMAIN runs \ {stage.run} : runs[i] # "running"
  BY <1>1 DEF RunsOK
<1>7. /\ runs' \in Seq(Statuses \cup {"running"}) /\ DOMAIN runs' = DOMAIN runs
      /\ runs'[stage.run] = answer'.result.status
      /\ \A i \in DOMAIN runs : runs'[i] # "running"
  <2>1. runs \in Seq(Statuses \cup {"running"})
    BY <1>1 DEF TypeOK
  <2>2. DOMAIN runs = 1..Len(runs)
    BY <2>1, LenProperties
  <2>3. runs' \in Seq(Statuses \cup {"running"})
    BY <1>1, <1>5, <1>6, <2>1, <2>2, ExceptSeq
  <2> QED BY <1>1, <1>5, <1>6, <2>3 DEF Statuses
<1>8. TypeOK'
  BY <1>1, <1>7 DEF TypeOK, InReview, env
<1>9. RunsOK'
  BY <1>1, <1>6, <1>7 DEF RunsOK
<1>10. StageOK'
  BY <1>1, StageStays DEF InReview, env
<1>11. ReviewOK'
  <2>1. ReviewedBy(r)'
    BY <1>1, <1>3 DEF ReviewedBy
  <2>2. answer' = Presented(review', reply, stage'.failed)
        /\ reply \in SUBSET Prompts(review'.result)
    BY <1>1, <1>2
  <2> QED BY <2>1, <2>2 DEF ReviewOK
<1> QED BY <1>8, <1>9, <1>10, <1>11 DEF Inv

LEMMA InvFollowUp == Inv /\ FollowUp => Inv'
<1> SUFFICES ASSUME Inv, FollowUp PROVE Inv'
  OBVIOUS
<1>1. /\ TypeOK /\ RunsOK /\ pc = "present" /\ pc' = "worker"
      /\ runs' = Append(runs, "running") /\ UNCHANGED <<env, know, calls>>
  BY DEF Inv, FollowUp
<1>2. runs \in Seq(Statuses \cup {"running"}) /\ DOMAIN runs = 1..Len(runs)
      /\ \A i \in 1..Len(runs) : runs[i] # "running"
  <2>1. runs \in Seq(Statuses \cup {"running"})
    BY <1>1 DEF TypeOK
  <2> QED BY <1>1, <2>1, LenProperties DEF RunsOK
<1>3. /\ runs' \in Seq(Statuses \cup {"running"}) /\ Len(runs') = Len(runs) + 1
      /\ \A i \in 1..Len(runs) : runs'[i] = runs[i]
      /\ Len(runs) \in Nat
  BY <1>1, <1>2, AppendProperties, LenProperties
<1>4. TypeOK'
  BY <1>1, <1>3 DEF TypeOK, env
<1>5. RunsOK'
  <2>1. runs' # <<>>
    BY <1>3, EmptySeq
  <2> QED BY <1>1, <1>2, <1>3, <2>1 DEF RunsOK
<1> QED BY <1>1, <1>4, <1>5, NotInReview DEF Inv, InReview

LEMMA InvRest ==
  ASSUME Inv, Publish \/ Complete \/ UNCHANGED vars
  PROVE  Inv'
<1>1. /\ TypeOK /\ RunsOK /\ StageOK /\ ReviewOK
      /\ UNCHANGED <<route, memories, know, escalation, calls, runs, stage, review, answer>>
      /\ active' \in {active, active + 1} /\ active' <= LastGeneration
      /\ \/ pc' = pc
         \/ pc = "present" /\ pc' = "done"
  BY GenerationsAssumption DEF Inv, TypeOK, Publish, Complete, vars, env
<1>2. active' \in 1..LastGeneration /\ \A p \in 1..active : p \in 1..active'
  BY <1>1, GenerationsAssumption DEF TypeOK
<1>3. TypeOK'
  BY <1>1, <1>2 DEF TypeOK, InReview
<1>4. RunsOK'
  BY <1>1 DEF RunsOK
<1>5. StageOK'
  <2>1. CASE pc' \in InReview
    BY <1>1, <2>1, StageStays DEF InReview
  <2>2. CASE pc' \notin InReview
    BY <2>2, NotInReview
  <2> QED BY <2>1, <2>2
<1>6. ReviewOK'
  <2>1. \A r : ReviewedBy(r) => ReviewedBy(r)'
    BY <1>1 DEF ReviewedBy
  <2> QED BY <1>1, <2>1 DEF ReviewOK
<1> QED BY <1>3, <1>4, <1>5, <1>6 DEF Inv

LEMMA InvNext == Inv /\ [Next]_vars => Inv'
  BY InvExperience, InvRetrieve, InvRetrieved, InvRagAnswered, InvTools,
     InvWorkerAnswers, InvCoverageReviewed, InvPromptsReviewed, InvFollowUp, InvRest
  DEF Next

(* A turn is where it says it is: what it reviews is what a stage          *)
(* answered, what it replies is what was reviewed.                         *)
THEOREM TurnIsSound == Spec => []Inv
  BY InvInit, InvNext, PTL DEF Spec

-----------------------------------------------------------------------------
(* What a conclusion rests on. *)

(* A worker that failed states nothing that answers an item. *)
LEMMA FailureAnswersNothing ==
  ASSUME NEW o \in WorkerOutputs, WorkerFailed(o), o.kind # "bare",
         NEW c \in Members(Structure(WorkerResult(o, Items, Unknowns)).result.claims)
  PROVE  ~Is(c, "primary_answer")
<1> DEFINE raw == WorkerResult(o, Items, Unknowns)
           s   == Structure(raw).result
<1>1. /\ DOMAIN s.claims \subseteq DOMAIN raw.claims
      /\ \A i \in DOMAIN s.claims : s.claims[i] = Numbered(raw.claims)[i]
  BY WorkerIsResult, StructureIs
<1>2. PICK i \in DOMAIN raw.claims : c = Numbered(raw.claims)[i]
  BY <1>1 DEF Members
<1>3. IsClaim(raw.claims[i]) /\ raw.claims[i].role \in {"process_note", "unknown"}
  <2>1. IsClaim(raw.claims[i])
    BY WorkerIsResult DEF IsResult, Members
  <2>2. \A type, role, ev : Note(type, role, ev).role = role
    BY DEF Note, Claim
  <2>3. CASE o.kind = "disabled"
    <3>1. raw.claims = <<Note("assumption", "process_note", "ev_preflight")>>
      BY <2>3 DEF WorkerResult, Result
    <3> HIDE DEF raw
    <3> QED BY <2>1, <2>2, <3>1
  <2>4. CASE o.kind = "broken"
    <3>1. raw.claims = <<Note("fact", "process_note", "ev_failure"),
                         Note("unknown", "unknown", "ev_failure")>>
      BY <2>4 DEF WorkerResult, Result
    <3> HIDE DEF raw
    <3> QED BY <2>1, <2>2, <3>1
  <2> QED BY <2>3, <2>4 DEF WorkerFailed
<1>4. c.role = raw.claims[i].role
  <2> HIDE DEF raw
  <2> QED BY <1>2, <1>3 DEF Numbered, IsClaim
<1> QED BY <1>3, <1>4 DEF Is

(* What is frozen: the model's word for it was checked against the claims, *)
(* and their evidence against what is current.                             *)
LEMMA FrozenIsCurrent ==
  ASSUME StageOK, pc \in InReview, NEW r, ReviewedBy(r), review.frozen # {}
  PROVE  /\ \A c \in Members(stage.structure.result.claims) : c.id \in review.frozen =>
              /\ Answering(c, r) /\ c.id \in review.bound
              /\ c.evidence \subseteq Current(stage.structure.result.evidence, stage.envelopes, stage.run)
         /\ \A item \in Items : \E c \in Members(stage.structure.result.claims) :
              /\ Answering(c, r) /\ c.id \in review.frozen /\ item \in c.answers
<1> DEFINE result   == stage.structure.result
           segments == Segments(result.claims, Items)
           asked    == Reviewable(result, Items, stage.envelopes, stage.run)
<1>1. /\ IsResult(result)
      /\ \A c, d \in Members(result.claims) : c.id = d.id => c = d
  BY StructureIs DEF StageOK
<1>2. /\ review.frozen = Frozen(result.claims, Items, r) /\ review.bound = DOMAIN r.bindings
  BY <1>1, FreezeIs DEF ReviewedBy
<1>3. /\ r # UnknownReview
      /\ \A id \in review.frozen : \E c \in Members(result.claims) : c.id = id /\ Answering(c, r)
      /\ \A item \in Items : \E c \in Members(result.claims) :
           Answering(c, r) /\ c.id \in review.frozen /\ item \in r.bindings[c.id].items
  <2>1. DOMAIN result.claims \subseteq Nat /\ Frozen(result.claims, Items, r) # {}
    BY <1>1, <1>2 DEF IsResult
  <2> HIDE DEF result
  <2> QED BY <1>2, <2>1, FrozenCovers
<1>4. asked \in BOOLEAN
  BY DEF Reviewable
<1>5. Binds(segments, r) /\ asked
  BY <1>3, <1>4, ReviewsBind DEF ReviewedBy, ReviewsOf
<1>6. segments \subseteq Members(result.claims)
  BY DEF Segments
<1>7. \A c \in segments : c.evidence \subseteq Current(result.evidence, stage.envelopes, stage.run)
  BY <1>5 DEF Reviewable, Cited
<1> HIDE DEF result, segments, asked
<1>8. ASSUME NEW c \in Members(result.claims), c.id \in DOMAIN r.bindings
      PROVE  c \in segments /\ r.bindings[c.id].items \subseteq c.answers
  BY <1>1, <1>5, <1>6, <1>8 DEF Binds
<1>9. ASSUME NEW c \in Members(result.claims), c.id \in review.frozen
      PROVE  Answering(c, r) /\ c.id \in DOMAIN r.bindings
  BY <1>1, <1>3, <1>9 DEF Answering
<1>10. \A c \in Members(result.claims) : Answering(c, r) => c.id \in DOMAIN r.bindings
  BY DEF Answering
<1> QED BY <1>2, <1>3, <1>7, <1>8, <1>9, <1>10 DEF result

LEMMA Conclusion ==
  ASSUME StageOK, pc \in InReview, NEW r, ReviewedBy(r), NEW accepted,
         Projection(review, accepted).outcome = "final"
  PROVE  /\ Projection(review, accepted).primary # {}
         /\ review.frozen = Projection(review, accepted).primary
         /\ IsFinal(review.result) /\ ~stage.failed
         /\ \A c \in Members(review.result.claims) : c.id \in review.frozen =>
              /\ Is(c, "primary_answer") /\ c.type \in Stated /\ c.visible
              /\ c.id \in review.bound
              /\ c.evidence \subseteq
                   Current(review.result.evidence, stage.envelopes, stage.run)
         /\ \A item \in Items : \E c \in Members(review.result.claims) :
              c.id \in review.frozen /\ item \in c.answers
<1> DEFINE p == Projection(review, accepted)
           result == stage.structure.result
<1>1. /\ IsReview(review) /\ SameContent(review.result, result) /\ IsResult(result)
      /\ \A c \in Members(result.claims) : Sound(c, result.evidence)
      /\ OutcomeOf(review.result) = Outcome("concluded", "final_answer") => review.frozen # {}
  BY ReviewIs
<1>2. /\ review.result.claims = result.claims /\ review.result.evidence = result.evidence
  BY <1>1 DEF SameContent
<1>3. /\ OutcomeOf(review.result) = Outcome("concluded", "final_answer")
      /\ review.frozen # {} => p.primary = review.frozen
      /\ \A id \in p.primary : \E c \in Members(review.result.claims) :
           c.id = id /\ Is(c, "primary_answer") /\ c.visible /\ c.type \in Stated
  BY <1>1, ProjectionIs DEF IsReview
<1>4. review.frozen # {} /\ p.primary = review.frozen
  BY <1>1, <1>3
<1>5. /\ IsResult(stage.raw) /\ stage.structure = Structure(stage.raw)
  BY DEF StageOK
<1>6. /\ \A c \in Members(result.claims) : c.id \in review.frozen =>
           /\ Answering(c, r) /\ c.id \in review.bound
           /\ c.evidence \subseteq Current(result.evidence, stage.envelopes, stage.run)
      /\ \A item \in Items : \E c \in Members(result.claims) :
           Answering(c, r) /\ c.id \in review.frozen /\ item \in c.answers
  BY <1>4, FrozenIsCurrent
<1>7. \A c, d \in Members(result.claims) : c.id = d.id => c = d
  BY <1>5, StructureIs
<1> HIDE DEF p, result
<1>8. \A c \in Members(result.claims) : c.id \in review.frozen => c.visible
  BY <1>2, <1>3, <1>4, <1>7
<1>9. PICK c \in Members(result.claims) :
        Is(c, "primary_answer") /\ c.type \in Stated /\ c.visible
  BY <1>2, <1>3, <1>4
<1>10. ~stage.failed
  <2> SUFFICES ASSUME stage.failed PROVE FALSE
    OBVIOUS
  <2>1. FromWorker
    BY DEF StageOK
  <2>2. PICK o \in WorkerOutputs :
          /\ o.kind # "bare" /\ stage.raw = WorkerResult(o, Items, Unknowns)
          /\ WorkerFailed(o)
    BY <2>1 DEF FromWorker
  <2> QED BY <1>5, <1>9, <2>2, FailureAnswersNothing DEF result
<1>11. IsFinal(review.result)
  <2>1. review.result.status = "concluded" /\ review.result.next = "final_answer"
    BY <1>3 DEF OutcomeOf, Outcome
  <2>2. Sound(c, review.result.evidence)
    BY <1>1, <1>2, <1>9 DEF result
  <2>3. c.answers # {} /\ c.evidence # {}
    BY <1>9, <2>2 DEF Sound
  <2> QED BY <1>2, <1>9, <2>1, <2>2, <2>3 DEF IsFinal, PrimaryShape
<1> QED BY <1>2, <1>4, <1>6, <1>8, <1>10, <1>11 DEF p, Answering

(* What a final reply is: the result as it was reviewed, and its frozen    *)
(* claims are shown and current.                                           *)
LEMMA FinalIs ==
  ASSUME Inv, Final
  PROVE  /\ answer.result = review.result
         /\ \A c \in Members(answer.result.claims) : c.id \in review.frozen =>
              /\ c \in Primaries /\ c.id \in review.bound
              /\ c.evidence \subseteq
                   Current(review.result.evidence, stage.envelopes, stage.run)
         /\ \A item \in Items : \E c \in Members(answer.result.claims) :
              c.id \in review.frozen /\ item \in c.answers
         /\ \A e \in escalation : ~e.judge.conflict
<1>1. pc = "done" /\ StageOK /\ ReviewOK /\ answer.decision = "final" /\ pc \in InReview
  BY DEF Inv, Final, InReview
<1>2. PICK r, accepted : /\ ReviewedBy(r) /\ accepted \in SUBSET Prompts(review.result)
                         /\ answer = Presented(review, accepted, stage.failed)
  BY <1>1 DEF ReviewOK
<1>3. /\ IsReview(review)
      /\ (\E e \in escalation : e.judge.conflict)
           => OutcomeOf(review.result) = Outcome("partial", "escalate_to_human")
  BY <1>1, <1>2, ReviewIs
<1>4. /\ answer.result.status = "concluded" =>
           Projection(review, accepted).outcome = "final" /\ answer.result = review.result
      /\ OutcomeOf(review.result) = Outcome("partial", "escalate_to_human")
           => OutcomeOf(answer.result) = Outcome("partial", "escalate_to_human")
      /\ answer.decision = Decision(answer.result)
  BY <1>2, <1>3, PresentedIs
<1>5. answer.result.status = "concluded"
  BY <1>1, <1>4 DEF Decision, IsFinal
<1>6. OutcomeOf(answer.result) # Outcome("partial", "escalate_to_human")
  BY <1>5 DEF OutcomeOf, Outcome
<1>7. /\ answer.result = review.result
      /\ \A c \in Members(review.result.claims) : c.id \in review.frozen =>
              /\ Is(c, "primary_answer") /\ c.type \in Stated /\ c.visible
              /\ c.id \in review.bound
              /\ c.evidence \subseteq
                   Current(review.result.evidence, stage.envelopes, stage.run)
      /\ \A item \in Items : \E c \in Members(review.result.claims) :
              c.id \in review.frozen /\ item \in c.answers
  BY <1>1, <1>2, <1>4, <1>5, Conclusion
<1> QED BY <1>3, <1>4, <1>6, <1>7 DEF Primaries

(* After a contradiction in the knowledge base no reply is final. *)
THEOREM ContradictionEscalates == Spec => []ConflictIsNeverFinal
<1>1. Inv => ConflictIsNeverFinal
  BY FinalIs DEF ConflictIsNeverFinal
<1> QED BY <1>1, TurnIsSound, PTL

(* The reply, the decision, the case and the run say the same. *)
THEOREM ReplyIsHonest == Spec => []ReplyAgreesWithStatus
<1>1. ASSUME Inv, pc = "done" PROVE ReplyAgreesWithStatus
  <2>1. StageOK /\ ReviewOK /\ RunsOK /\ pc \in InReview
    BY <1>1 DEF Inv, InReview
  <2>2. PICK r, accepted : /\ ReviewedBy(r) /\ accepted \in SUBSET Prompts(review.result)
                           /\ answer = Presented(review, accepted, stage.failed)
    BY <1>1, <2>1 DEF ReviewOK
  <2> DEFINE p == Projection(review, accepted)
             result == answer.result
  <2>3. /\ IsReview(review) /\ SameContent(review.result, stage.structure.result)
        /\ \A c \in Members(stage.structure.result.claims) :
             Sound(c, stage.structure.result.evidence)
    BY <2>1, <2>2, ReviewIs
  <2>4. /\ SameContent(result, review.result) /\ OutcomeOf(result) \in Outcomes
        /\ result.status = "concluded" => p.outcome = "final" /\ result = review.result
        /\ result.status = "need_input" => accepted # {}
        /\ answer.decision = Decision(result) /\ answer.status = CaseStatus(result)
        /\ answer.reply = "conclusion" =>
             OutcomeOf(result) = Outcome("concluded", "final_answer") /\ p.primary # {}
        /\ p.outcome = "final" /\ p.primary # {} /\ ~FailedFirst(stage.failed, review.result)
             => answer.reply = "conclusion" /\ result = review.result
    BY <2>2, <2>3, PresentedIs
  <2>5. p.outcome = "final" =>
          p.primary # {} /\ IsFinal(review.result) /\ ~FailedFirst(stage.failed, review.result)
    BY <2>1, <2>2, Conclusion DEF FailedFirst
  <2> HIDE DEF p, result
  <2>6. /\ OutcomeOf(result) = Outcome("concluded", "final_answer") => result.status = "concluded"
        /\ result.status \in Statuses
        /\ result.status = "need_input" <=> result.next = "ask_user"
        /\ result.status = "concluded" <=> result.next = "final_answer"
    BY <2>4 DEF OutcomeOf, Outcomes, Outcome, Statuses
  <2>7. result.status = "concluded" <=> IsFinal(result)
    BY <2>4, <2>5 DEF IsFinal
  <2>8. answer.reply = "conclusion" <=> result.status = "concluded"
    BY <2>4, <2>5, <2>6
  <2>9. /\ answer.decision = "final" <=> result.status = "concluded"
        /\ answer.decision = "ask_user" <=> result.status = "need_input"
    BY <2>4, <2>6, <2>7 DEF Decision
  <2>10. answer.status = result.status
    BY <2>4, <2>6, <2>7 DEF CaseStatus, Statuses
  <2>11. Prompts(result) = Prompts(review.result)
    BY <2>4 DEF SameContent, Prompts
  <2>12. result.status = "need_input" => Prompts(result) # {}
    BY <2>2, <2>4, <2>11
  <2>13. runs[stage.run] = result.status /\ \A i \in DOMAIN runs : runs[i] # "running"
    BY <1>1, <2>1 DEF RunsOK, result
  <2> QED BY <2>8, <2>9, <2>10, <2>12, <2>13 DEF ReplyAgreesWithStatus, Statuses, result
<1>2. Inv => ReplyAgreesWithStatus
  BY <1>1 DEF ReplyAgreesWithStatus
<1> QED BY <1>2, TurnIsSound, PTL

-----------------------------------------------------------------------------
(* What current evidence is, by the stage that answered. *)

LEMMA CurrentIs ==
  ASSUME NEW evidence, NEW envelopes, NEW run, NEW id \in Current(evidence, envelopes, run)
  PROVE  /\ \E item \in Members(evidence) : item.id = id
         /\ \E e \in envelopes : e.ev = id /\ Eligible(e, run)
  BY DEF Current

LEMMA CurrentOfWorker ==
  ASSUME NEW o, NEW run, NEW evidence,
         NEW id \in Current(evidence, WorkerEnvelopes(o, run), run)
  PROVE  id \in Found(o)
<1>1. PICK e \in WorkerEnvelopes(o, run) : e.ev = id
  BY CurrentIs
<1>2. o.kind = "answer"
  BY <1>1 DEF WorkerEnvelopes
<1>3. PICK item \in Members(o.evidence) :
        item.found /\ e = Envelope(item.id, "workspace", run, 0, 0, TRUE)
  BY <1>1, <1>2 DEF WorkerEnvelopes
<1>4. item.id = id
  BY <1>1, <1>3 DEF Envelope
<1> QED BY <1>2, <1>3, <1>4 DEF Found

LEMMA CurrentOfTools ==
  ASSUME NEW cs \in Seq(McpCalls), NEW run, NEW evidence,
         NEW id \in Current(evidence, McpEnvelopes(cs, run), run),
         NEW item \in Members(McpEvidence(cs)), item.id = id
  PROVE  item.conf = "high"
<1>1. PICK e \in McpEnvelopes(cs, run) : e.ev = id
  BY CurrentIs
<1>2. PICK i \in Explicit(cs) : e = Envelope(McpEvidenceId(cs, i), "mcp", run, 0, 0, TRUE)
  BY <1>1 DEF McpEnvelopes
<1>3. item.id = McpEvidenceId(cs, i)
  BY <1>1, <1>2 DEF Envelope
<1> QED BY <1>3, ToolEvidence

LEMMA CurrentOfKnowledge ==
  ASSUME NEW typed \in BOOLEAN, NEW pinned, NEW pack \in Packs[pinned][typed],
         NEW now, NEW run, NEW evidence,
         NEW id \in Current(evidence, KnowledgeEnvelopes(pack, pinned, now, run), run)
  PROVE  id \in Holds(now)
<1>1. PICK e \in KnowledgeEnvelopes(pack, pinned, now, run) : e.ev = id /\ Eligible(e, run)
  BY CurrentIs
<1>2. pinned = now /\ e \in ShownBy(pack, pinned, now, run)
  BY <1>1 DEF KnowledgeEnvelopes
<1>3. PICK q \in Members(pack) :
        q.canonical /\ e = Envelope(q.id, "knowledge", run, pinned, now, Fit(q))
  BY <1>2 DEF ShownBy
<1>4. e.ev = q.id /\ e.kind = "knowledge" /\ e.fit = Fit(q)
  BY <1>3 DEF Envelope
<1>5. Fit(q)
  BY <1>1, <1>4 DEF Eligible
<1>6. q \in UNION {Members(x) : x \in UNION {Packs[now][y] : y \in BOOLEAN}}
  BY <1>2
<1> QED BY <1>1, <1>3, <1>4, <1>5, <1>6 DEF Holds

LEMMA StructuredEvidence ==
  ASSUME Inv, Final
  PROVE  /\ StageOK /\ pc \in InReview
         /\ review.result.evidence = Distinct(stage.raw.evidence)
         /\ Members(review.result.evidence) \subseteq Members(stage.raw.evidence)
<1>1. StageOK /\ ReviewOK /\ pc = "done" /\ pc \in InReview
  BY DEF Inv, Final, InReview
<1>2. PICK r : ReviewedBy(r)
  BY <1>1 DEF ReviewOK
<1> QED BY <1>1, <1>2, ReviewIs DEF SameContent

(* A final reply answers every item with claims whose evidence was found,  *)
(* or stated by a tool.                                                    *)
THEOREM ConclusionIsSupported == Spec => []SupportedConclusion
<1>1. ASSUME Inv, Final, NEW item \in Items
      PROVE  \E c \in Primaries :
               /\ item \in c.answers /\ c.id \in review.bound
               /\ stage.source = "worker" =>
                    c.evidence \subseteq UNION {Found(o) : o \in WorkerOutputs}
               /\ stage.source = "mcp" =>
                    \A e \in Members(answer.result.evidence) :
                      e.id \in c.evidence => e.conf = "high"
  <2>1. PICK c \in Members(answer.result.claims) :
          /\ item \in c.answers /\ c \in Primaries /\ c.id \in review.bound
          /\ c.evidence \subseteq Current(review.result.evidence, stage.envelopes, stage.run)
    BY <1>1, FinalIs
  <2>2. /\ StageOK /\ pc \in InReview /\ answer.result = review.result
        /\ Members(review.result.evidence) \subseteq Members(stage.raw.evidence)
    BY <1>1, FinalIs, StructuredEvidence
  <2>3. ASSUME stage.source = "worker"
        PROVE  c.evidence \subseteq UNION {Found(o) : o \in WorkerOutputs}
    <3>1. FromWorker
      BY <2>2, <2>3 DEF StageOK
    <3>2. PICK o \in WorkerOutputs : stage.envelopes = WorkerEnvelopes(o, stage.run)
      BY <3>1 DEF FromWorker
    <3>3. c.evidence \subseteq Found(o)
      BY <2>1, <3>2, CurrentOfWorker
    <3> QED BY <3>3
  <2>4. ASSUME stage.source = "mcp", NEW e \in Members(answer.result.evidence),
               e.id \in c.evidence
        PROVE  e.conf = "high"
    <3>1. FromTools
      BY <2>2, <2>4 DEF StageOK
    <3>2. PICK cs \in Seq(McpCalls) : /\ stage.raw \in McpResult(cs, Items)
                                      /\ stage.envelopes = McpEnvelopes(cs, stage.run)
      BY <3>1 DEF FromTools
    <3>3. e \in Members(McpEvidence(cs))
      BY <2>2, <2>4, <3>2, ToolsAreResult
    <3>4. e.id \in Current(review.result.evidence, McpEnvelopes(cs, stage.run), stage.run)
      BY <2>1, <2>4, <3>2
    <3> QED BY <3>3, <3>4, CurrentOfTools
  <2> QED BY <2>1, <2>3, <2>4
<1>2. Inv => SupportedConclusion
  BY <1>1 DEF SupportedConclusion
<1> QED BY <1>2, TurnIsSound, PTL

(* What is concluded from the knowledge base, now or once, is still held   *)
(* by the generation that is active when it is reviewed.                   *)
THEOREM KnowledgeIsOfNow == Spec => []KnowledgeAnswerIsCurrent
<1>1. ASSUME Inv, Final, NEW c \in Primaries, c.id \in review.frozen, NEW id \in c.evidence
      PROVE  /\ stage.source = "knowledge" => id \in Holds(stage.active)
             /\ stage.source = "experience" => id \in Library[stage.active]
  <2>1. /\ StageOK /\ pc \in InReview
        /\ Members(review.result.evidence) \subseteq Members(stage.raw.evidence)
    BY <1>1, StructuredEvidence
  <2>2. c \in Members(answer.result.claims)
    BY DEF Primaries
  <2>3. id \in Current(review.result.evidence, stage.envelopes, stage.run)
    BY <1>1, <2>2, FinalIs
  <2>4. CASE stage.source = "knowledge"
    <3>1. FromKnowledge
      BY <2>1, <2>4 DEF StageOK
    <3>2. PICK pack : \E typed \in BOOLEAN : \E pinned \in 1..LastGeneration :
            /\ pack \in Packs[pinned][typed]
            /\ stage.envelopes = KnowledgeEnvelopes(pack, pinned, stage.active, stage.run)
      BY <3>1 DEF FromKnowledge
    <3>3. PICK typed \in BOOLEAN, pinned \in 1..LastGeneration :
            /\ pack \in Packs[pinned][typed]
            /\ stage.envelopes = KnowledgeEnvelopes(pack, pinned, stage.active, stage.run)
      BY <3>2
    <3>4. id \in Holds(stage.active)
      BY <2>3, <3>3, CurrentOfKnowledge
    <3> QED BY <2>4, <3>4
  <2>5. CASE stage.source = "experience"
    <3>1. FromExperience
      BY <2>1, <2>5 DEF StageOK
    <3>2. \A item \in Members(stage.raw.evidence) : Resolves(item, Library[stage.active])
      BY <3>1 DEF FromExperience, Reusable
    <3>3. PICK item \in Members(review.result.evidence) : item.id = id
      BY <2>3, CurrentIs
    <3>4. Resolves(item, Library[stage.active])
      BY <2>1, <3>2
    <3> QED BY <2>5, <3>3, <3>4 DEF Resolves
  <2> QED BY <2>4, <2>5
<1>2. Inv => KnowledgeAnswerIsCurrent
  BY <1>1 DEF KnowledgeAnswerIsCurrent
<1> QED BY <1>2, TurnIsSound, PTL
=============================================================================
