--------------------------- MODULE MCTurnPipeline ---------------------------
EXTENDS TurnPipeline, TLC

CONSTANTS i1, i2

(* An entry of the knowledge base that can be answered from, and variants. *)
Good == [id |-> "kb_a", status |-> "active", verified |-> TRUE, terms |-> 3,
         titled |-> TRUE, module |-> "orders", known |-> TRUE, type |-> "faq",
         intent |-> "how_to", span |-> TRUE, severity |-> "ok", grounded |-> TRUE,
         reranked |-> TRUE, score |-> 80, conf |-> "high", canonical |-> TRUE]
Other == [Good EXCEPT !.id = "kb_b", !.grounded = FALSE]
Old == [Good EXCEPT !.id = "kb_e", !.verified = FALSE]
Retired == [Good EXCEPT !.id = "kb_c", !.status = "deprecated"]

MCPacks == <<[x \in BOOLEAN |-> IF x THEN {<<>>}
                ELSE {<<>>, <<Good>>, <<Good, Other>>, <<Good, Retired>>,
                      <<Good, Old>>}],
             [x \in BOOLEAN |-> IF x THEN {<<>>}
                ELSE {<<[Good EXCEPT !.id = "kb_d"]>>}]>>
MCUnknowns == {<<"missing", "order">>}
MCLibrary == <<{"kb_a"}, {"kb_d"}>>

Plain == [signals |-> FALSE, risks |-> {}, modules |-> {"orders"}, overview |-> FALSE,
          targets |-> {"route"}, typed |-> FALSE, rag |-> TRUE]
MCRoutes == {Plain, [Plain EXCEPT !.typed = TRUE, !.rag = FALSE],
             [Plain EXCEPT !.overview = TRUE, !.rag = FALSE],
             [Plain EXCEPT !.signals = TRUE, !.risks = {"payment"}],
             [Plain EXCEPT !.risks = {"payment"}, !.targets = {"payment"}]}

Said(claims, ids) == Result("concluded", "final_answer", {},
                            [i \in DOMAIN ids |-> Evidence(ids[i], "knowledge", "high")], claims)
Once(ids) == [close |-> 95, replied |-> TRUE, runs |-> 1,
              run |-> [status |-> "concluded", goal |-> Items,
                       result |-> Said(<<Claim(<<"old", 1>>, "fact", "primary_answer",
                                               Items, {ids[1]})>>, ids)]]
MCMemoryLists == {<<>>, <<[Once(<<"kb_a">>) EXCEPT !.close = 91],
                          [Once(<<"kb_a">>) EXCEPT !.runs = 2],
                          [Once(<<"kb_a">>) EXCEPT !.run.goal = {i1}], Once(<<"kb_z">>)>>,
                  <<Once(<<"kb_a">>)>>}

Stating(id, items, by) == [id |-> id, items |-> items, evidence |-> by]
MCRagAnswers ==
  {[says |-> "full", selected |-> {"kb_a"}, missing |-> FALSE, escalate |-> "no",
    claims |-> <<Stating(<<"claim", 2>>, {i1, i2}, {"kb_a"})>>],
   [says |-> "full", selected |-> {"kb_a"}, missing |-> FALSE, escalate |-> "unset",
    claims |-> <<Stating(<<"rag", 1>>, {i1}, {"kb_a"}), Stating(<<"rag", 2>>, {i2}, {"kb_a"})>>],
   [says |-> "full", selected |-> {"kb_a"}, missing |-> FALSE, escalate |-> "unset",
    claims |-> <<Stating(<<"rag", 1>>, {i1}, {"kb_a"}), Stating(<<"rag", 2>>, {i2}, {"kb_b", "kb_a"})>>],
   [says |-> "partial", selected |-> {"kb_a"}, missing |-> TRUE, escalate |-> "unset",
    claims |-> <<Stating(<<"rag", 1>>, {i1}, {"kb_a"})>>]}

ToolSays(items) == [type |-> "fact", role |-> "primary_answer", answers |-> items]
MCMcpCalls == {[kind |-> "failed"], [kind |-> "plain"],
               [kind |-> "explicit", claims |-> <<ToolSays({i1}), ToolSays({i2})>>],
               [kind |-> "explicit", claims |-> <<ToolSays({i1})>>]}

File(id, found) == [id |-> id, kind |-> "workspace", conf |-> "high", found |-> found]
Seen == File("ev_seen", TRUE)
Unseen == File("ev_unseen", FALSE)
Says(role, items, by) ==
  Claim(Unnamed, "fact", role, items, by) @@ [proposed |-> role = "next_action"]
Answer(next, status, evidence, claims, missing) ==
  [kind |-> "answer", status |-> status, next |-> next, evidence |-> evidence,
   claims |-> claims, missing |-> missing]
MCWorkerOutputs ==
  {[kind |-> k] : k \in {"disabled", "broken", "subtype", "prose", "bare"}} \cup
  {Answer("final_answer", "concluded", <<Seen>>,
          <<Says("primary_answer", {i1}, {"ev_seen"}), Says("primary_answer", {i1, i2}, {"ev_seen"})>>, {}),
   Answer("final_answer", "concluded", <<Seen, Unseen>>,
          <<Says("primary_answer", {i1, i2}, {"ev_unseen"})>>, {<<"missing", "log">>}),
   Answer("final_answer", "concluded", <<Seen, Seen>>,
          <<Says("primary_answer", {i1, i2}, {"ev_seen"})>>, {}),
   Answer("final_answer", "concluded", <<Seen>>,
          <<[Says("primary_answer", {i1, i2}, {"ev_seen"}) EXCEPT !.visible = FALSE]>>, {}),
   Answer("continue_diagnosis", "partial", <<Seen>>,
          <<Says("primary_answer", {i1}, {"ev_seen"}), Says("next_action", {i2}, {"ev_seen"})>>, {}),
   Answer("ask_user", "need_input", <<Seen>>, <<Says("primary_answer", {i1}, {"ev_seen"})>>, {<<"missing", "log">>})}
=============================================================================
