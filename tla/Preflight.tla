------------------------------ MODULE Preflight ------------------------------
(***************************************************************************)
(* How a turn turns its question, the earlier messages and the earlier     *)
(* runs of the case into the diagnostic request it works on.               *)
(*                                                                         *)
(*   src/src/sessions/turn-context-snapshot.ts, context-builder.ts         *)
(*   src/src/runtime/resolved-turn.ts, answer-goal*.ts, preflight-*.ts     *)
(*   src/src/runtime/request-builder.ts                                    *)
(*                                                                         *)
(* A turn that was interrupted is run again after later questions were     *)
(* asked and answered: a cutoff keeps them out of its context.  The model  *)
(* classifies what the user said and splits the question into items; both  *)
(* are held against what the runtime reads itself.  The chat route refuses *)
(* an empty message and a case always has a workspace, so the local        *)
(* decision is always to dispatch.  A message is its text; a text carries  *)
(* the patterns it matches; the cap on its length is left out.             *)
(***************************************************************************)
EXTENDS Naturals, Sequences, FiniteSetsExt, Places

CONSTANTS
  Texts,        \* what a user may write
  Marks,        \* text -> the patterns of resolved-turn.ts it matches
  Proposals,    \* the dispatches a model may propose
  Direct,       \* the item 'direct_answer'
  TurnWindow,   \* user messages a resolved turn looks back on (12)
  ListWindow,   \* statements of one kind it keeps (8)
  RecentWindow, \* messages the request quotes (8)
  RunWindow,    \* runs the request quotes (3)
  MaxItems,     \* items a model may propose (5)
  MaxQuestions, \* bound: user messages
  MaxInterrupts \* bound: processes that die during a turn

ASSUME TextsAssumption ==
  /\ Direct \notin Texts
  /\ Marks \in [Texts -> SUBSET {"unknown", "hypothesis", "observable",
                                 "question", "reference"}]
ASSUME WindowsAssumption ==
  /\ TurnWindow \in Nat \ {0} /\ ListWindow \in Nat
  /\ RecentWindow \in Nat /\ RunWindow \in Nat
(* CaseTurns has the second death of a process under the same question.    *)
ASSUME InterruptsAssumption == MaxInterrupts \in {0, 1}
(* What a model says of the turn: whether it lists facts and which texts   *)
(* it takes for them, and the statements it adds, of whatever source.      *)
Said == Seq([text : Texts, source : Nat])
ASSUME ProposalsAssumption ==
  \A p \in Proposals :
    /\ p.listsFacts \in BOOLEAN /\ p.facts \in Seq(Texts)
    /\ p.claims \in Said /\ p.hypotheses \in Said /\ p.unknowns \in Said
    /\ p.items \subseteq Texts

VARIABLES
  msgs,        \* the messages of the case, oldest first
  runs,        \* its runs
  turn,        \* the running turn
  interrupted, \* the question that may be retried, 0 if none
  asked,       \* user messages so far; the next id
  interrupts

vars == <<msgs, runs, turn, interrupted, asked, interrupts>>

Questions == 1..MaxQuestions
UserMessage(m, text) == [role |-> "user", id |-> m, text |-> text]
HelperMessage(m, asks) == [role |-> "helper", re |-> m, asks |-> asks]
Idle == [pc |-> "idle"]

LastOf(s, n) == SubSeq(s, IF Len(s) > n THEN Len(s) - n + 1 ELSE 1, Len(s))
At(m) == CHOOSE i \in DOMAIN msgs : msgs[i].role = "user" /\ msgs[i].id = m
TextOf(m) == msgs[At(m)].text
Matches(text, mark) == mark \in Marks[text]
(* The n latest of a set of numbers: messages are numbered as they come,   *)
(* runs by their place.                                                    *)
Latest(S, n) == {x \in S : Cardinality({y \in S : y > x}) < n}

-----------------------------------------------------------------------------
(* turn-context-snapshot.ts: the case as the turn of question m sees it.   *)

(* Mutant: the snapshot ends with the last message of the case. *)
TurnMessagesUncut(m) == msgs
TurnMessages(m) == SubSeq(msgs, 1, At(m))
UserMessagesOf(s) == {i \in DOMAIN s : s[i].role = "user"}
UserIds(m) ==
  LET seen == TurnMessages(m) IN {seen[i].id : i \in UserMessagesOf(seen)}

(* Mutant: every run of the case counts. *)
TurnRunsUncut(m) == DOMAIN runs
TurnRuns(m) == {i \in DOMAIN runs : runs[i].sources \subseteq UserIds(m)}

(* buildDiagnosticRequestContext: what the request quotes. *)
Quoted(m) ==
  LET finished == {i \in TurnRuns(m) : runs[i].result} IN
  [messages |-> LastOf(TurnMessages(m), RecentWindow),
   runs     |-> {runs[i] : i \in Latest(finished, RunWindow)}]

-----------------------------------------------------------------------------
(* resolved-turn.ts *)

Statement(m) == [text |-> TextOf(m), source |-> m]

KindOf(text) ==
  CASE Matches(text, "unknown")    -> "unknowns"
    [] Matches(text, "hypothesis") -> "hypotheses"
    [] Matches(text, "observable") /\ ~Matches(text, "question") -> "facts"
    [] OTHER -> "claims"

(* The latest of some user messages, as statements. *)
Statements(said) ==
  LET kept == Ascending(Latest(said, ListWindow))
  IN  [i \in DOMAIN kept |-> Statement(kept[i])]

Resolve(m) ==
  LET users    == Latest(UserIds(m), TurnWindow)
      told     == {u \in users \ {m} : ~Matches(TextOf(u), "unknown")}
      previous == IF told = {} THEN 0 ELSE Max(told)
      followUp == Cardinality(users) > 1 \/ TurnRuns(m) # {}
      before   == msgs[At(m) - 1]
      clarifies == /\ At(m) > 1 /\ previous # 0
                   /\ before.role = "helper" /\ before.re = previous
                   /\ before.asks
      List(kind) == Statements({u \in users : KindOf(TextOf(u)) = kind})
  IN  [query |-> IF previous = 0 THEN {TextOf(m)}
                 ELSE IF Matches(TextOf(m), "unknown") THEN {TextOf(previous)}
                 ELSE IF followUp /\ (Matches(TextOf(m), "reference") \/ clarifies)
                 THEN {TextOf(previous), TextOf(m)}
                 ELSE {TextOf(m)},
       facts |-> List("facts"), claims |-> List("claims"),
       hypotheses |-> List("hypotheses"), unknowns |-> List("unknowns"),
       sources |-> users]

(* uniqueStatements: the first of each statement, then the latest of them. *)
UniqueStatements(list) ==
  LET first == {i \in DOMAIN list : \A j \in 1..(i - 1) : list[j] # list[i]}
  IN  Selected(list, Latest(first, ListWindow))

(* Mutant: what the model takes for a fact is a fact. *)
FactsTrusted(local, p) ==
  [i \in DOMAIN p.facts |-> [text |-> p.facts[i], source |-> turn.question]]
(* The facts a model leaves: of those it lists, in its order, the user's;  *)
(* of two with one text, the later.                                        *)
FactsLeft(local, p) ==
  LET Saying(text) == {i \in DOMAIN local : local[i].text = text}
      listed == Selected(p.facts, {i \in DOMAIN p.facts : Saying(p.facts[i]) # {}})
  IN  IF p.listsFacts
      THEN [i \in DOMAIN listed |-> local[Max(Saying(listed[i]))]]
      ELSE local

(* Mutant: a fact the model does not list is gone. *)
NoneDemoted(local, facts) == <<>>
Demoted(local, facts) ==
  Selected(local, {i \in DOMAIN local :
                     \A j \in DOMAIN facts : facts[j].text # local[i].text})

(* The model may demote a fact to a claim and add statements that are not  *)
(* facts.  Without a resolved turn of the model the local one stays, as    *)
(* with one that lists no facts and adds nothing.                          *)
Reconcile(local, p) ==
  LET facts == FactsLeft(local.facts, p) IN
  [local EXCEPT
     !.facts      = facts,
     !.claims     = UniqueStatements(@ \o Demoted(local.facts, facts) \o p.claims),
     !.hypotheses = UniqueStatements(@ \o p.hypotheses),
     !.unknowns   = UniqueStatements(@ \o p.unknowns)]

-----------------------------------------------------------------------------
(* answer-goal-reconciliation.ts: items is what the model proposed, review *)
(* what the completeness review said of them.                              *)

InScope(items, query) ==
  items # {} /\ Cardinality(items) <= MaxItems /\ items \subseteq query

MustAnswer(items, query, review) ==
  IF InScope(items, query) /\ review = "complete" THEN items ELSE {Direct}

Request(m, resolved, items) ==
  [question |-> m, resolved |-> resolved, quoted |-> Quoted(m), items |-> items]
LocalRequest(m) == Request(m, Resolve(m), {Direct})

-----------------------------------------------------------------------------
Turn(pc, m) == [pc |-> pc, question |-> m]
Ready(m, request, review) ==
  turn' = [pc |-> "answer", question |-> m, request |-> request, review |-> review]

(* startUserTurn, with the turn it starts. *)
Ask(text) ==
  /\ turn = Idle /\ asked < MaxQuestions
  /\ asked' = asked + 1
  /\ msgs' = Append(msgs, UserMessage(asked + 1, text))
  /\ turn' = Turn("model", asked + 1)
  /\ UNCHANGED <<runs, interrupted, interrupts>>

(* retryInterruptedTurn: the placeholder goes, the turn runs again. *)
Retry ==
  /\ turn = Idle /\ interrupted # 0
  /\ \E i \in DOMAIN msgs :
       /\ msgs[i].role = "helper" /\ msgs[i].re = interrupted
       /\ msgs' = SubSeq(msgs, 1, i - 1) \o SubSeq(msgs, i + 1, Len(msgs))
  /\ turn' = Turn("model", interrupted) /\ interrupted' = 0
  /\ UNCHANGED <<runs, asked, interrupts>>

(* No model, a model call or an answer that cannot be used, or a model     *)
(* that would rather ask: the local request.                               *)
ModelDoesNotDispatch ==
  /\ turn.pc = "model"
  /\ Ready(turn.question, LocalRequest(turn.question), "none")
  /\ UNCHANGED <<msgs, runs, interrupted, asked, interrupts>>

ModelDispatches(p) ==
  LET m        == turn.question
      resolved == Reconcile(Resolve(m), p)
  IN  /\ turn.pc = "model"
      /\ IF InScope(p.items, resolved.query)
         THEN turn' = [pc |-> "review", question |-> m,
                       resolved |-> resolved, items |-> p.items]
         ELSE Ready(m, Request(m, resolved, {Direct}), "none")
      /\ UNCHANGED <<msgs, runs, interrupted, asked, interrupts>>

(* Mutant: the certificate of the scope check stands in for the review. *)
ItemsUnreviewed(items, query, review) == MustAnswer(items, query, "complete")
ItemsReviewed(items, query, review) == MustAnswer(items, query, review)

(* validateCompletenessReview: an answer that is malformed, complete with  *)
(* elements missing, or a failed call is 'unknown'.                        *)
CompletenessReviewed(review) ==
  /\ turn.pc = "review"
  /\ LET resolved == turn.resolved
         items == ItemsReviewed(turn.items, resolved.query, review)
     IN  Ready(turn.question, Request(turn.question, resolved, items), review)
  /\ UNCHANGED <<msgs, runs, interrupted, asked, interrupts>>

(* The rest of the turn: its run, with or without a result, and its reply, *)
(* which may ask for what is missing.                                      *)
Answered(result, asks) ==
  /\ turn.pc = "answer"
  /\ runs' = Append(runs, [question |-> turn.question, result |-> result,
                           sources |-> turn.request.resolved.sources])
  /\ msgs' = Append(msgs, HelperMessage(turn.question, asks))
  /\ turn' = Idle
  /\ UNCHANGED <<interrupted, asked, interrupts>>

(* The process dies; the next one leaves a placeholder for the question.   *)
(* The interrupted turn may have recorded a run without a result.          *)
Interrupt(recorded) ==
  /\ turn # Idle /\ interrupts < MaxInterrupts
  /\ recorded => turn.pc = "answer"
  /\ runs' = IF recorded
             THEN Append(runs, [question |-> turn.question, result |-> FALSE,
                                sources |-> turn.request.resolved.sources])
             ELSE runs
  /\ msgs' = Append(msgs, HelperMessage(turn.question, FALSE))
  /\ interrupted' = turn.question /\ turn' = Idle
  /\ interrupts' = interrupts + 1
  /\ UNCHANGED asked

Init ==
  /\ msgs = <<>> /\ runs = <<>> /\ turn = Idle
  /\ interrupted = 0 /\ asked = 0 /\ interrupts = 0

Next ==
  \/ \E text \in Texts : Ask(text)
  \/ Retry
  \/ ModelDoesNotDispatch
  \/ \E p \in Proposals : ModelDispatches(p)
  \/ \E review \in {"complete", "incomplete", "unknown"} :
       CompletenessReviewed(review)
  \/ \E result, asks \in BOOLEAN : Answered(result, asks)
  \/ \E recorded \in BOOLEAN : Interrupt(recorded)

Spec == Init /\ [][Next]_vars

-----------------------------------------------------------------------------
HasRequest == turn.pc = "answer"

(* A turn that is retried after later questions were answered does not see *)
(* them: neither a later message nor the run of a later question is part   *)
(* of its request (bindTurnContextCutoff, turnMessages, turnRuns).         *)
ContextIsPast ==
  HasRequest =>
    LET quoted == turn.request.quoted IN
    /\ \A i \in DOMAIN quoted.messages :
         quoted.messages[i].role = "user" => quoted.messages[i].id <= turn.question
    /\ \A run \in quoted.runs : run.question <= turn.question
    /\ \A m \in turn.request.resolved.sources : m <= turn.question

(* What the request calls a confirmed fact is what the user observed, in   *)
(* the user's words and of a message of the turn: a model cannot add a     *)
(* fact or turn a guess into one (reconcileResolvedTurnContext).           *)
FactsAreObserved ==
  HasRequest =>
    LET resolved == turn.request.resolved IN
    \A f \in Range(resolved.facts) :
      /\ f.source \in resolved.sources /\ f.text = TextOf(f.source)
      /\ KindOf(f.text) = "facts"

(* The list a statement is in when it is no fact.                          *)
ListOf(resolved, kind) == IF kind = "facts" THEN resolved.claims ELSE resolved[kind]
IsListed(resolved, s) ==
  s \in UNION {Range(resolved.facts), Range(resolved.claims),
               Range(resolved.hypotheses), Range(resolved.unknowns)}

(* Newer statements of the kind of u's.                                    *)
Newer(sources, u) ==
  {v \in sources : v > u /\ KindOf(TextOf(v)) = KindOf(TextOf(u))}

(* The statement of u is in a list or its words are a fact's; or newer     *)
(* statements or a full list pushed it out.                                *)
Remembers(resolved, u) ==
  \/ IsListed(resolved, Statement(u))
  \/ \E f \in Range(resolved.facts) : f.text = TextOf(u)
  \/ Len(ListOf(resolved, KindOf(TextOf(u)))) = ListWindow
  \/ ~(Cardinality(Newer(resolved.sources, u)) < ListWindow)

(* What the user said is in the request, as what it was or demoted: no     *)
(* path through the local resolution and the reconciliation with the model *)
(* loses it but the cap of the lists (buildResolvedTurnContext,            *)
(* reconcileResolvedTurnContext, uniqueStatements).                        *)
OnlyFullListsForget ==
  HasRequest => LET resolved == turn.request.resolved
                IN  \A u \in resolved.sources : Remembers(resolved, u)

(* Not so (README, section 4): src/agents/input-review.md:57 has the model *)
(* demote what the user said at most.  The statements it adds may push the *)
(* user's out of a full list.                                              *)
ModelOnlyDemotes ==
  HasRequest =>
    LET local == Resolve(turn.question) IN
    \A s \in UNION {Range(local.facts), Range(local.claims),
                    Range(local.hypotheses), Range(local.unknowns)} :
      \/ IsListed(turn.request.resolved, s)
      \/ \E f \in Range(turn.request.resolved.facts) : f.text = s.text

(* The items an answer has to cover are the model's only when each of them *)
(* is part of the question and the completeness review of this very turn   *)
(* accepted them; otherwise the question is answered as a whole            *)
(* (reconcileMustAnswerItems, called twice).                               *)
ItemsWereReviewed ==
  HasRequest =>
    LET items == turn.request.items IN
    \/ items = {Direct}
    \/ items \subseteq turn.request.resolved.query /\ turn.review = "complete"
=============================================================================
