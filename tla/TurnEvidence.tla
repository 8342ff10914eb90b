---------------------------- MODULE TurnEvidence ----------------------------
(***************************************************************************)
(* What a turn may answer from besides the knowledge base: an earlier      *)
(* conversation, the tools of an MCP server, the Claude Code worker.       *)
(* Operators only; TurnPipeline applies them.                              *)
(*                                                                         *)
(*   src/src/runtime/experience-agent.ts, knowledge-experience-resolver.ts *)
(*   src/src/mcp/evidence-service.ts, policy.ts, normalizer.ts             *)
(*   src/src/workers/claude/claude-output-parser.ts, coverage-evidence.ts  *)
(*   src/src/workers/claude/worker-result-normalizer.ts, claude-code-worker*)
(***************************************************************************)
EXTENDS AnswerReview

-----------------------------------------------------------------------------
(* An earlier question of the same user in the same workspace: how close   *)
(* it is in hundredths, whether it was replied to, how many runs name it   *)
(* as their source, and that run.  library: what the active generation     *)
(* holds that is verified, fresh and visible to the user, by identity.     *)

CloseEnough == 92

(* KnowledgeExperienceEvidenceResolver.resolve *)
Resolves(item, library) == item.kind = "knowledge" /\ item.id \in library

(* Mutant: what was concluded once is concluded for good. *)
ReusableAsItWas(memory, goal, library) ==
  memory.run.status = "concluded" /\ memory.run.goal = goal
(* reusabilityIssue, for a run that findSourceRun attributes to it.        *)
Reusable(memory, goal, library) ==
  LET result    == memory.run.result
      structure == Structure(result)
  IN  /\ memory.run.status = "concluded"
      /\ result.status = "concluded" /\ result.next = "final_answer"
      /\ memory.run.goal = goal /\ goal # {}
      /\ result.evidence # <<>>
      /\ \A item \in Members(result.evidence) : Resolves(item, library)
      /\ structure.clean /\ structure.blockers = {}
      /\ \E c \in Members(structure.result.claims) : Is(c, "primary_answer")

(* findExperienceMatch: the best of them, the first of equals.             *)
Matches(memories, goal, library) ==
  LET Fits(i) == /\ memories[i].close >= CloseEnough
                 /\ memories[i].replied /\ memories[i].runs = 1
                 /\ Reusable(memories[i], goal, library)
      fit == {i \in DOMAIN memories : Fits(i)}
  IN  {memories[i] : i \in {j \in fit : \A k \in fit :
                              \/ memories[k].close < memories[j].close
                              \/ memories[k].close = memories[j].close /\ j <= k}}

ExperienceEnvelopes(result, active, run) ==
  {Envelope(id, "knowledge", run, active, active, TRUE) : id \in Ids(result.evidence)}

-----------------------------------------------------------------------------
(* MCP.  A call is failed (refused, not found, timed out, broken), plain   *)
(* (completed, with text only) or explicit (it states claims).             *)

MaxCalls == 2
Completed(calls) == {i \in DOMAIN calls : calls[i].kind # "failed"}
Explicit(calls) == {i \in DOMAIN calls : calls[i].kind = "explicit"}
McpEvidenceId(calls, i) == <<"mcp_ev", Rank(Completed(calls), i)>>

McpEvidence(calls) ==
  [i \in Completed(calls) |->
     Evidence(McpEvidenceId(calls, i), "mcp",
              IF i \in Explicit(calls) THEN "high" ELSE "medium")]

(* extractExplicitResult, lines 163 to 194.  The claims number themselves  *)
(* by how many there are already and by their own place among those of the *)
(* call, 1, 3, 5 ...: a later call may use a number again.                 *)
StatedBy(calls, some) == UNION {{i} \X DOMAIN calls[i].claims : i \in some}
StatedBefore(calls, i) == Cardinality(StatedBy(calls, {j \in Explicit(calls) : j < i}))
McpClaim(calls, i, k, items) ==
  LET c == calls[i].claims[k] IN
  Claim(<<"mcp", StatedBefore(calls, i) + 2 * k - 1>>, c.type, c.role,
        IF Is(c, "primary_answer") THEN c.answers \cap items ELSE {},
        {McpEvidenceId(calls, i)})

McpClaims(calls, items) ==
  LET stated == StatedBy(calls, Explicit(calls))
      At(n)  == CHOOSE at \in stated : StatedBefore(calls, at[1]) + at[2] = n
  IN  [n \in 1..Cardinality(stated) |-> McpClaim(calls, At(n)[1], At(n)[2], items)]

McpResult(calls, items) ==
  LET claims  == McpClaims(calls, items)
      covered == UNION {c.answers : c \in {d \in Members(claims) : Is(d, "primary_answer")}}
  IN  IF items \subseteq covered
      THEN {Result("concluded", "final_answer", {}, McpEvidence(calls), claims)}
      ELSE {}

(* currentCoverageEvidence; a tool that may not be read is never called.   *)
McpEnvelopes(calls, run) ==
  {Envelope(McpEvidenceId(calls, i), "mcp", run, 0, 0, TRUE) : i \in Explicit(calls)}

-----------------------------------------------------------------------------
(* The worker.  Its output is disabled (it was not started), broken (the   *)
(* process failed), subtype (the CLI gave up), prose (no JSON), bare (JSON *)
(* without claims or evidence) or an answer.                               *)

Note(type, role, ev) == Claim(Unnamed, type, role, {}, {ev})

(* normalizeWorkerDiagnosticResult *)
Normalized(claims, items, known) ==
  LET Kept(c) == Is(c, "next_action") =>
                   c.proposed /\ c.evidence \cap known # {} /\ c.answers \cap items # {}
      May(c)  == c.role \in {"primary_answer", "next_action", "supporting_context"}
  IN  [i \in {k \in DOMAIN claims : Kept(claims[k])} |->
         [Claim(claims[i].id, claims[i].type, claims[i].role,
                IF May(claims[i]) THEN claims[i].answers \cap items ELSE {},
                claims[i].evidence \cap known)
            EXCEPT !.visible = claims[i].visible]]

(* mockDiagnosticResult, failedExecutionDiagnosticResult, parseClaudeOutput *)
WorkerResult(output, items, unknowns) ==
  CASE output.kind = "disabled" ->
         Result("partial", IF unknowns # {} THEN "ask_user" ELSE "continue_diagnosis",
                unknowns, <<Evidence("ev_preflight", "manual", "low")>>,
                <<Note("assumption", "process_note", "ev_preflight")>>)
    [] output.kind = "broken" ->
         Result("partial", "escalate_to_human", {},
                <<Evidence("ev_failure", "log", "high")>>,
                <<Note("fact", "process_note", "ev_failure"),
                  Note("unknown", "unknown", "ev_failure")>>)
    [] output.kind = "subtype" ->
         Result("partial", "continue_diagnosis", {},
                <<Evidence("ev_subtype", "log", "low")>>,
                <<Note("unknown", "unknown", "ev_subtype")>>)
    [] output.kind = "prose" ->
         Result("partial", "escalate_to_human", {},
                <<Evidence("ev_raw", "unknown", "low")>>,
                <<Note("unknown", "unknown", "ev_raw")>>)
    [] output.kind = "answer" ->
         Result(output.status, output.next, output.missing,
                [i \in DOMAIN output.evidence |->
                   Evidence(output.evidence[i].id, output.evidence[i].kind,
                            output.evidence[i].conf)],
                Normalized(output.claims, items, Ids(output.evidence)))

WorkerFailed(output) == output.kind \in {"disabled", "broken"}

(* Mutant: whatever the worker calls evidence counts as seen. *)
WorkerEnvelopesUnread(output, run) ==
  IF output.kind # "answer" THEN {}
  ELSE {Envelope(item.id, item.kind, run, 0, 0, TRUE) : item \in Members(output.evidence)}
(* currentWorkerCoverageEvidence: what is found in the workspace again.    *)
WorkerEnvelopes(output, run) ==
  IF output.kind # "answer" THEN {}
  ELSE {Envelope(item.id, "workspace", run, 0, 0, TRUE) :
          item \in {e \in Members(output.evidence) :
                      e.kind = "workspace" /\ e.conf # "low" /\ e.found}}
=============================================================================
