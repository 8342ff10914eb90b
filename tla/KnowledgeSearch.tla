-------------------------- MODULE KnowledgeSearch --------------------------
(***************************************************************************)
(* From source files to answers: files are taken in and sliced, the drafts *)
(* audited, reviewed, repaired and published, the documents indexed, and   *)
(* the index searched.  The onboarding pipeline, the dashboard reviewer,   *)
(* the command line and the conversations work on the same files.          *)
(*                                                                         *)
(*   src/src/onboarding/knowledge-pipeline.ts, review-service.ts           *)
(*   src/src/onboarding/review-state.ts                                    *)
(*   src/src/knowledge/ingest.ts, init.ts, publish.ts, publish-review.ts   *)
(*   src/src/knowledge/repair.ts, repair-plan.ts, quality/*.ts             *)
(*   src/src/knowledge/case-review.ts, runtime/case-curator.ts             *)
(*   src/src/knowledge/indexes/build.ts, cli/knowledge/command-pipeline.ts *)
(*   src/src/application/knowledge-rebuild-service.ts                      *)
(*                                                                         *)
(* An id is <<source, number>> for a slice, <<source, 0>> for the source   *)
(* itself and <<case, 0>> for a solved case.  A path is <<folder, name>>   *)
(* for a case and <<"whitepapers", source, slug>> for a slice.             *)
(***************************************************************************)
EXTENDS Slicing, Retrieval

CONSTANTS
  Page,           \* the blocks of each source file, after normalization
  SlicesOf,       \* the slices of each page
  CaseText,       \* the text of each solved case
  ChildrenOf,     \* the children of each slice and case
  Listing,        \* every path a document can be at, in listing order
  Questions, RerankAnswers,
  Folders,        \* bound: the sets of files a run may find
  SamplePages, SampleTexts,
  MaxRuns,        \* bound: runs of the pipeline
  MaxDecisions,   \* bound: commands and reviews
  MaxSteps,       \* bound: runs, commands and reviews together
  NoReport, NoBuild, NoResult

Sources == DOMAIN Page
Cases == DOMAIN CaseText
Paths == Range(Listing)
Builders == {"pipeline", "review", "update"}

ASSUME FoldersAssumption == Folders \subseteq SUBSET Sources
ASSUME BoundsAssumption == MaxRuns \in Nat /\ MaxDecisions \in Nat
ASSUME SamplesAssumption ==
  /\ \A page \in SamplePages :
       page \in Seq(Range(page)) /\ \A b \in Range(page) : IsBlock(b)
  /\ \A text \in SampleTexts : IsText(text)

VARIABLES
  intaken,    \* the sources with a copy and its metadata
  drafts,     \* [source -> its draft slices, [pipeline, quality] each]
  report,     \* the last quality report: its issues
  plan,       \* the last repair plan: the files it marks
  docs,       \* [path -> the document there, [id, status, quality]]
  published,  \* the ids in the last publish report
  index,      \* the active generation: what it was made from, vectors or not
  builds,     \* [builder -> the generation it is preparing, or NoBuild]
  pc, todo,   \* the pipeline run: where it is, the sources it has to slice
  approved,   \* history: the ids somebody approved, or the clean audit
  found,      \* the answer of the search just made
  runs, decisions

vars == <<intaken, drafts, report, plan, docs, published, index, builds, pc, todo,
          approved, found, runs, decisions>>
run == <<pc, todo, runs>>
work == <<intaken, drafts, report, plan>>

-----------------------------------------------------------------------------
(* What the files say.                                                     *)
SliceIds == UNION {{s} \X DOMAIN SlicesOf[s] : s \in Sources}
CaseIds == {<<c, 0>> : c \in Cases}

Slice(id) == SlicesOf[id[1]][id[2]]
PathOf(id) == <<"whitepapers", id[1], Slice(id).slug>>
SolvedPath(c) == <<"solved", c>>
UnresolvedPath(c) == <<"unresolved", c>>

BodyOf(id) == SelectSeq(Slice(id).blocks, LAMBDA b : b.kind # "heading")
TextOf(id) ==
  IF id \in CaseIds THEN CaseText[id[1]]
  ELSE [k \in DOMAIN BodyOf(id) |-> BodyOf(id)[k].sentences]

FreshDrafts(s) ==
  [i \in DOMAIN SlicesOf[s] |-> [pipeline |-> "draft", quality |-> "unchecked"]]
DraftIds(slices) == {id \in SliceIds : slices[id[1]] # <<>>}
DraftAt(slices, id) == slices[id[1]][id[2]]

(* The files are cut up once, into what the code cuts them into; the lines *)
(* a slice ends with, its source and blocks, are a child of their own.     *)
ASSUME FilesAssumption ==
  /\ SlicesOf = [s \in Sources |-> Slices(Page[s])]
  /\ ChildrenOf = [id \in SliceIds \cup CaseIds |->
       PackSection(TextOf(id)) \o (IF id \in CaseIds THEN <<>> ELSE <<Child(<<>>, FALSE, 0)>>)]

ASSUME SlicesAssumption == \A s \in Sources : SlicesOf[s] \in Seq(Range(SlicesOf[s]))
ASSUME ListingAssumption ==
  /\ Listing \in Seq(Range(Listing))
  /\ \A id \in SliceIds : PathOf(id) \in Paths
  /\ \A c \in Cases : {SolvedPath(c), UnresolvedPath(c)} \subseteq Paths
ASSUME ChildrenAssumption ==
  \A id \in SliceIds \cup CaseIds : ChildrenOf[id] \in Seq(Range(ChildrenOf[id]))

(* A question is some words; a reranker answers with numbers.              *)
ASSUME QuestionsAssumption == \A q \in Questions : IsFiniteSet(q.exact) /\ IsFiniteSet(q.near)
ASSUME AnswersAssumption ==
  \A a \in RerankAnswers : a \in Seq(Range(a)) /\ \A i \in DOMAIN a : a[i].score \in Int

(* The chunks of every document, in listing order.                         *)
Chunks(snapshot) ==
  LET listed == {k \in DOMAIN Listing : snapshot[Listing[k]] # NoDoc}
      DocAt(k) == snapshot[Listing[k]]
      places == UNION {{k} \X DOMAIN ChildrenOf[DocAt(k).id] : k \in listed}
      order == InOrder(places, {p \in places \X places :
                                  \/ p[1][1] < p[2][1]
                                  \/ p[1][1] = p[2][1] /\ p[1][2] < p[2][2]})
      ChunkAt(k, n) ==
        LET child == ChildrenOf[DocAt(k).id][n]
        IN  [id |-> <<DocAt(k).id, n>>, parent |-> DocAt(k).id, path |-> Listing[k],
             words |-> {s[1] : s \in Range(Flat(child.text))},
             status |-> DocAt(k).status, quality |-> DocAt(k).quality,
             small |-> child.small, manual |-> child.manual]
  IN  [i \in DOMAIN order |-> ChunkAt(order[i][1], order[i][2])]

-----------------------------------------------------------------------------
(* The audit: what is wrong with a slice, a document, a chunk, a source.   *)
Issue(id, code, severity, draft) ==
  [id |-> id, code |-> code, severity |-> severity, draft |-> draft]

FlawsOf(id) ==
  (IF \E i \in DOMAIN Slice(id).blocks : Slice(id).blocks[i].answers
     THEN {} ELSE {"not_answer_bearing"})
  \cup (IF Total(BodyOf(id), BlockLength) + Provenance > MaxParent THEN {"too_long"} ELSE {})
Flaws == [id \in SliceIds |-> FlawsOf(id)]

DocumentIssues(now) ==
  LET ids == {now[p].id : p \in {q \in Paths : now[q] # NoDoc}}
  IN  {Issue(id, "missing_source_document", "error", FALSE) : id \in ids \cap CaseIds}
      \cup UNION {{Issue(id, code, "warn", FALSE) : code \in Flaws[id]} : id \in ids \cap SliceIds}

DraftIssues(slices) ==
  UNION {{Issue(id, code, "warn", TRUE) : code \in Flaws[id]} : id \in DraftIds(slices)}

ChunkIssues(now, snapshot) ==
  LET Held(p) == snapshot[p] # NoDoc
  IN  {Issue(snapshot[p].id, "too_long", "warn", FALSE) :
         p \in {q \in Paths : Held(q) /\ \E i \in DOMAIN ChildrenOf[snapshot[q].id] :
                                           ChildrenOf[snapshot[q].id][i].manual}}
      \cup {Issue(now[p].id, "missing_parent", "warn", FALSE) :
              p \in {q \in Paths : now[q] # NoDoc /\ now[q].status = "active"
                                   /\ \A r \in Paths : Held(r) => snapshot[r].id # now[q].id}}

(* A file without a heading is a broken structure, its source's fault.     *)
SourceIssues(slices) ==
  {Issue(<<s, 0>>, "heading_structure_broken", "warn", FALSE) :
     s \in {t \in Sources : slices[t] # <<>> /\ \A i \in DOMAIN Page[t] : Page[t][i].kind # "heading"}}

Audit(slices, now, snapshot) ==
  DocumentIssues(now) \cup DraftIssues(slices) \cup ChunkIssues(now, snapshot)
    \cup SourceIssues(slices)

SeveritiesOf(rep, ids) ==
  IF rep = NoReport THEN {} ELSE {i.severity : i \in {j \in rep : j.id \in ids}}

-----------------------------------------------------------------------------
(* Review and publish.                                                     *)
Decided(draft, action) ==
  CASE action = "approve" -> [draft EXCEPT !.pipeline = "approved"]
    [] action = "accept_warnings" -> [pipeline |-> "approved", quality |-> "warn"]
    [] action = "reject" -> [pipeline |-> "rejected", quality |-> "error"]
    [] OTHER -> [draft EXCEPT !.pipeline = "review_required"]

Reviewed(slices, ids, action) ==
  [s \in Sources |-> [i \in DOMAIN slices[s] |->
     IF <<s, i>> \in ids THEN Decided(slices[s][i], action) ELSE slices[s][i]]]

(* highestQualitySeverity: the slice's own quality, or what the report     *)
(* says of it or of its source.                                            *)
Severity(slices, rep, id) ==
  LET quality == DraftAt(slices, id).quality
      said == SeveritiesOf(rep, {id, <<id[1], 0>>})
  IN  IF quality \in {"error", "warn"} THEN quality
      ELSE IF "error" \in said THEN "error"
      ELSE IF "warn" \in said THEN "warn" ELSE "ok"

AutoApprovable(slices, rep) ==
  {id \in DraftIds(slices) : DraftAt(slices, id).pipeline \in {"draft", "review_required"}
                             /\ Severity(slices, rep, id) = "ok"}

(* Mutant: the strict gate stops an error only.                            *)
PublishableLax(draft, id, rep, gate) ==
  /\ draft.pipeline = "approved" /\ draft.quality # "error"
  /\ rep # NoReport \/ gate = "off"
  /\ gate # "off" => "error" \notin SeveritiesOf(rep, {id})

(* Mutant: what is not rejected passes.                                    *)
PublishableUnreviewed(draft, id, rep, gate) ==
  /\ draft.pipeline # "rejected" /\ draft.quality # "error"
  /\ rep # NoReport \/ gate = "off"
  /\ gate # "off" => "error" \notin SeveritiesOf(rep, {id})
  /\ gate = "strict" => draft.quality # "warn" /\ "warn" \notin SeveritiesOf(rep, {id})

(* publishBlockReason, for an approved slice.                              *)
Publishable(draft, id, rep, gate) ==
  /\ draft.pipeline = "approved" /\ draft.quality # "error"
  /\ rep # NoReport \/ gate = "off"
  /\ gate # "off" => "error" \notin SeveritiesOf(rep, {id})
  /\ gate = "strict" => draft.quality # "warn" /\ "warn" \notin SeveritiesOf(rep, {id})

PublishableIds(slices, rep, gate) ==
  {id \in DraftIds(slices) : Publishable(DraftAt(slices, id), id, rep, gate)}

(* publishOneDraft: a slice is written to the path of its title, in the    *)
(* order of the slices, so that of two with one path the last one stays.   *)
Written(slices, rep, id) ==
  LET quality == DraftAt(slices, id).quality
  IN  [id |-> id, status |-> "active",
       quality |-> IF quality = "unchecked" /\ rep # NoReport THEN "ok" ELSE quality]

LastOf(ids) == CHOOSE id \in ids : \A other \in ids : other[2] <= id[2]

WithPublished(ids, slices, rep, now) ==
  [p \in Paths |-> IF \A id \in ids : PathOf(id) # p THEN now[p]
                   ELSE Written(slices, rep, LastOf({id \in ids : PathOf(id) = p}))]

Preparing(b, now) == [builds EXCEPT ![b] = [docs |-> now, valid |-> TRUE]]
Overtaken ==
  [b \in Builders |-> IF builds[b] = NoBuild THEN NoBuild ELSE [builds[b] EXCEPT !.valid = FALSE]]

-----------------------------------------------------------------------------
(* bound: nothing happens between an answer found and its delivery.        *)
Quiet == found = NoResult

Init ==
  /\ intaken = {}
  /\ drafts = [s \in Sources |-> <<>>]
  /\ report = NoReport /\ plan = {}
  /\ docs = [p \in Paths |-> NoDoc]
  /\ published = {}
  /\ index = [docs |-> docs, hybrid |-> FALSE]
  /\ builds = [b \in Builders |-> NoBuild]
  /\ pc = "idle" /\ todo = {}
  /\ approved = {} /\ found = NoResult
  /\ runs = 0 /\ decisions = 0

(* executeKnowledgePipeline.  Every file is taken in, and only those that  *)
(* were not there are to be sliced.                                        *)
PipelineStart(files) ==
  /\ Quiet /\ pc = "idle" /\ runs < MaxRuns /\ runs + decisions < MaxSteps
  /\ pc' = "slice" /\ todo' = files \ intaken /\ runs' = runs + 1
  /\ intaken' = intaken \cup files
  /\ UNCHANGED <<drafts, report, plan, docs, published, index, builds, approved, found, decisions>>

PipelineSlice(s) ==
  /\ Quiet /\ pc = "slice" /\ s \in todo
  /\ todo' = todo \ {s}
  /\ drafts' = [drafts EXCEPT ![s] = FreshDrafts(s)]
  /\ UNCHANGED <<intaken, report, plan, docs, published, index, builds, pc, approved, found,
                 runs, decisions>>

(* Audit, approval of what is clean, publication under the strict gate,    *)
(* and the snapshot the embedding starts from: no await between them.      *)
PipelinePublish ==
  /\ Quiet /\ pc = "slice" /\ todo = {}
  /\ report' = Audit(drafts, docs, index.docs)
  /\ approved' = approved \cup AutoApprovable(drafts, report')
  /\ drafts' = Reviewed(drafts, AutoApprovable(drafts, report'), "approve")
  /\ published' = PublishableIds(drafts', report', "strict")
  /\ docs' = WithPublished(published', drafts', report', docs)
  /\ builds' = Preparing("pipeline", docs')
  /\ pc' = "rebuild"
  /\ UNCHANGED <<intaken, plan, index, todo, found, runs, decisions>>

(* validateGenerationFiles: no chunk id twice.                             *)
ChunkIdsDiffer(now) ==
  \A p, q \in Paths :
    now[p] # NoDoc /\ now[q] # NoDoc /\ now[p].id = now[q].id /\ p # q
      => ChildrenOf[now[p].id] = <<>>

(* A generation is published if it is valid and no other was since it was  *)
(* begun; a failed embedding publishes nothing.                            *)
EndOfRun(b) == pc' = IF b = "pipeline" THEN "idle" ELSE pc

RebuildPublishes(b) ==
  /\ Quiet /\ builds[b] # NoBuild /\ builds[b].valid
  /\ ChunkIdsDiffer(builds[b].docs)
  /\ index' = [docs |-> builds[b].docs, hybrid |-> TRUE]
  /\ builds' = [Overtaken EXCEPT ![b] = NoBuild]
  /\ EndOfRun(b)
  /\ UNCHANGED <<work, docs, published, todo, approved, found, runs, decisions>>

RebuildFails(b) ==
  /\ Quiet /\ builds[b] # NoBuild
  /\ builds' = [builds EXCEPT ![b] = NoBuild]
  /\ EndOfRun(b)
  /\ UNCHANGED <<work, docs, published, index, todo, approved, found, runs, decisions>>

(* The gateway dies: its run and its review's rebuild with it.             *)
Crash ==
  /\ Quiet /\ (pc # "idle" \/ builds["review"] # NoBuild)
  /\ pc' = "idle" /\ todo' = {}
  /\ builds' = [builds EXCEPT !["pipeline"] = NoBuild, !["review"] = NoBuild]
  /\ UNCHANGED <<work, docs, published, index, approved, found, runs, decisions>>

-----------------------------------------------------------------------------
(* The command line, a process of its own.                                 *)
Decide == Quiet /\ decisions < MaxDecisions /\ runs + decisions < MaxSteps /\ decisions' = decisions + 1

(* knowledge init: new files are taken in and sliced, what is published is *)
(* indexed without vectors, and then all is audited, if the index could be *)
(* published.                                                              *)
InitCommand(files) ==
  /\ Decide
  /\ intaken' = intaken \cup files
  /\ drafts' = [s \in Sources |-> IF s \in files \ intaken THEN FreshDrafts(s) ELSE drafts[s]]
  /\ \/ /\ ChunkIdsDiffer(docs)
        /\ index' = [docs |-> docs, hybrid |-> FALSE]
        /\ builds' = Overtaken
        /\ report' = Audit(drafts', docs, docs)
     \/ ~ChunkIdsDiffer(docs) /\ UNCHANGED <<index, builds, report>>
  /\ UNCHANGED <<run, plan, docs, published, approved, found>>

SliceCommand ==
  /\ Decide
  /\ drafts' = [s \in Sources |-> IF s \in intaken THEN FreshDrafts(s) ELSE drafts[s]]
  /\ UNCHANGED <<run, intaken, report, plan, docs, published, index, builds, approved, found>>

AuditCommand ==
  /\ Decide
  /\ report' = Audit(drafts, docs, index.docs)
  /\ UNCHANGED <<run, intaken, drafts, plan, docs, published, index, builds, approved, found>>

(* knowledge update: the audit is made with the chunks to be published.    *)
UpdateCommand(gate) ==
  /\ Decide /\ builds["update"] = NoBuild
  /\ report' = Audit(drafts, docs, docs)
  /\ builds' = IF gate = "strict" /\ \E i \in report' : i.severity = "error" THEN builds
               ELSE Preparing("update", docs)
  /\ UNCHANGED <<run, intaken, drafts, plan, docs, published, index, approved, found>>

(* repair --plan: of the safe repairs only one changes what is decided of  *)
(* a slice; its file is the document's, if that has the flaw, or the       *)
(* draft's.                                                                *)
RepairPlan ==
  /\ Decide /\ report # NoReport
  /\ plan' = {[id |-> i.id, draft |-> i.draft] :
                i \in {j \in report : j.code = "not_answer_bearing"
                         /\ (j.draft => [j EXCEPT !.draft = FALSE] \notin report)}}
  /\ UNCHANGED <<run, intaken, drafts, report, docs, published, index, builds, approved, found>>

RepairApply ==
  LET marked == {i.id : i \in {j \in plan : j.draft}}
      files == {PathOf(i.id) : i \in {j \in plan : ~j.draft}}
  IN  /\ Decide /\ plan # {}
      /\ drafts' = [s \in Sources |-> [i \in DOMAIN drafts[s] |->
           IF <<s, i>> \in marked THEN [pipeline |-> "review_required", quality |-> "error"]
           ELSE drafts[s][i]]]
      /\ docs' = [p \in Paths |-> IF p \in files /\ docs[p] # NoDoc
                                    THEN [docs[p] EXCEPT !.quality = "error"] ELSE docs[p]]
      /\ UNCHANGED <<run, intaken, report, plan, published, index, builds, approved, found>>

(* knowledge review: a whole source, whatever the audit said of it.        *)
ReviewSource(s, action) ==
  LET ids == {id \in SliceIds : id[1] = s}
  IN  /\ Decide /\ drafts[s] # <<>>
      /\ drafts' = Reviewed(drafts, ids, action)
      /\ approved' = IF action \in {"approve", "accept_warnings"} THEN approved \cup ids ELSE approved
      /\ UNCHANGED <<run, intaken, report, plan, docs, published, index, builds, found>>

PublishCommand(gate) ==
  /\ Decide
  /\ published' = PublishableIds(drafts, report, gate)
  /\ docs' = WithPublished(published', drafts, report, docs)
  /\ UNCHANGED <<run, work, index, builds, approved, found>>

-----------------------------------------------------------------------------
(* The dashboard: what the pipeline left for a reviewer.                   *)
ReviewSeverity(id) ==
  LET severity == Severity(drafts, report, id)
  IN  IF severity = "ok" /\ DraftAt(drafts, id).pipeline = "review_required" THEN "warn"
      ELSE IF severity = "warn" /\ "error" \in SeveritiesOf(report, {id, <<id[1], 0>>}) THEN "error"
      ELSE severity

ReviewItems ==
  {id \in DraftIds(drafts) : DraftAt(drafts, id).pipeline \notin {"approved", "rejected"}
                             /\ ReviewSeverity(id) # "ok"}

SubmitReview(ids, action) ==
  LET passes == action \in {"approve", "accept_warnings"}
  IN  /\ Decide /\ pc # "slice" /\ builds["review"] = NoBuild
      /\ ids # {} /\ ids \subseteq ReviewItems
      /\ passes => \A id \in ids : ReviewSeverity(id) # "error"
      /\ drafts' = Reviewed(drafts, ids, action)
      /\ published' = PublishableIds(drafts', report, "warn")
      /\ docs' = WithPublished(published', drafts', report, docs)
      /\ builds' = Preparing("review", docs')
      /\ approved' = IF passes THEN approved \cup ids ELSE approved
      /\ UNCHANGED <<run, intaken, report, plan, index, found>>

(* A confirmed case becomes a document that waits for its reviewer.        *)
Curate(c) ==
  /\ Decide
  /\ docs' = [docs EXCEPT ![SolvedPath(c)] =
                [id |-> <<c, 0>>, status |-> "review_required", quality |-> "unchecked"]]
  /\ UNCHANGED <<run, work, published, index, builds, approved, found>>

ReviewCase(c, action) ==
  LET document == docs[SolvedPath(c)]
      status == IF action \in {"approve", "convert_to_unresolved"} THEN "active"
                ELSE "review_required"
      reviewed == [document EXCEPT !.status = status]
  IN  /\ Decide /\ document # NoDoc
      /\ docs' = IF action = "convert_to_unresolved"
                   THEN [docs EXCEPT ![UnresolvedPath(c)] = reviewed, ![SolvedPath(c)] = NoDoc]
                   ELSE [docs EXCEPT ![SolvedPath(c)] = reviewed]
      /\ approved' = IF status = "active" THEN approved \cup {<<c, 0>>} ELSE approved
      /\ UNCHANGED <<run, work, published, index, builds, found>>

(* A question: what the generation in use recalls, fused and reranked.      *)
Search(question, semantic, answer) ==
  LET chunks == Chunks(index.docs)
      issues == IF report = NoReport THEN {} ELSE report
      recalled == RecallLexical(chunks, docs, issues, question)
                  \o (IF semantic THEN RecallSemantic(chunks, docs, issues, question) ELSE <<>>)
  IN  /\ Quiet /\ (semantic => index.hybrid)
      /\ found' = Retrieve(recalled, answer)
      /\ UNCHANGED <<run, work, docs, published, index, builds, approved, decisions>>

Deliver ==
  /\ found # NoResult /\ found' = NoResult
  /\ UNCHANGED <<run, work, docs, published, index, builds, approved, decisions>>

ReviewActions == {"approve", "accept_warnings", "reject", "request_edits"}

Command ==
  \/ \E files \in Folders : InitCommand(files)
  \/ SliceCommand \/ AuditCommand \/ RepairPlan \/ RepairApply
  \/ \E gate \in {"warn", "strict"} : UpdateCommand(gate) \/ PublishCommand(gate)
  \/ \E s \in Sources, action \in ReviewActions : ReviewSource(s, action)

(* bound: the reviewer decides on one slice or on all that are shown.      *)
Review ==
  \/ \E action \in ReviewActions :
       \E ids \in {ReviewItems} \cup {{id} : id \in ReviewItems} : SubmitReview(ids, action)
  \/ \E c \in Cases : Curate(c)
  \/ \E c \in Cases, action \in {"approve", "reject", "convert_to_unresolved"} :
       ReviewCase(c, action)

Pipeline ==
  \/ \E files \in Folders : PipelineStart(files)
  \/ \E s \in Sources : PipelineSlice(s)
  \/ PipelinePublish \/ Crash
  \/ \E b \in Builders : RebuildPublishes(b) \/ RebuildFails(b)

Ask == \E question \in Questions, semantic \in BOOLEAN, answer \in RerankAnswers :
         Search(question, semantic, answer)

Next == Pipeline \/ Command \/ Review \/ Ask \/ Deliver

Spec == Init /\ [][Next]_vars

-----------------------------------------------------------------------------
Draft == [pipeline : {"draft", "approved", "rejected", "review_required"},
          quality : {"unchecked", "warn", "error"}]
Document == [id : SliceIds \cup CaseIds, status : {"active", "review_required"},
             quality : {"unchecked", "ok", "warn", "error"}]
Snapshot == [Paths -> Document \cup {NoDoc}]

TypeOK ==
  /\ intaken \subseteq Sources /\ todo \subseteq intaken
  /\ DOMAIN drafts = Sources
  /\ \A s \in Sources : drafts[s] = <<>> \/ drafts[s] \in [DOMAIN SlicesOf[s] -> Draft]
  /\ docs \in Snapshot
  /\ index \in [docs : Snapshot, hybrid : BOOLEAN]
  /\ builds \in [Builders -> [docs : Snapshot, valid : BOOLEAN] \cup {NoBuild}]
  /\ published \subseteq SliceIds /\ approved \subseteq SliceIds \cup CaseIds
  /\ pc \in {"idle", "slice", "rebuild"}
  /\ runs \in 0..MaxRuns /\ decisions \in 0..MaxDecisions

ActiveIds == {docs[p].id : p \in {q \in Paths : docs[q] # NoDoc /\ docs[q].status = "active"}}

(* A document is active only if its slice or case was approved, by a       *)
(* reviewer or, with a clean audit, by the pipeline: not by a slice cut    *)
(* anew, a repair, or the review of another slice of its source            *)
(* (publishBlockReason, computeNextStatus, applyReviewAction).             *)
ActiveDocumentsWereApproved == ActiveIds \subseteq approved

(* The pipeline publishes on its own only what its own audit finds nothing *)
(* in: no document it writes is of a slice with a flaw, of a slice a       *)
(* reviewer rejected or only accepted with its warnings, or of doubtful    *)
(* quality, however old the approvals and whatever the report said before  *)
(* (approveQualityCleanDraftSlices, publishBlockReason).                   *)
PipelinePublishesOnlyClean ==
  [][pc = "slice" /\ pc' = "rebuild" =>
       \A p \in Paths : docs'[p] # docs[p] =>
         /\ Flaws[docs'[p].id] = {}
         /\ docs'[p].status = "active" /\ docs'[p].quality = "ok"
         /\ DraftAt(drafts, docs'[p].id).quality \notin {"warn", "error"}]_vars

(* An answer quotes an active document only if that document is active     *)
(* when the question is put, whatever was indexed, and somebody approved   *)
(* it (createKnowledgeRetrievalCandidate).                                 *)
AnswersComeFromApprovedDocuments ==
  found # NoResult =>
    \A i \in DOMAIN found.results :
      LET r == found.results[i]
      IN  r.status = "active" /\ ~r.missing => r.parent \in ActiveIds \cap approved

(* Whatever the reranker answers, twice the same place, places that do not *)
(* exist or only some, the results are the documents fused on top, each    *)
(* once, up to the limit (dedupeByParent, rerank/service.ts).              *)
RerankLosesNothing ==
  found # NoResult =>
    LET parents == {found.top[i].parent : i \in DOMAIN found.top}
        given == {found.results[i].parent : i \in DOMAIN found.results}
    IN  /\ given \subseteq parents
        /\ Cardinality(given) = Len(found.results)
        /\ Len(found.results) = IF Cardinality(parents) <= ResultLimit THEN Cardinality(parents)
                                ELSE ResultLimit

(* From a file to the text that is searched nothing is lost or put out of  *)
(* order (splitBlockGroupIntoDraftGroups, packSection, rebalancePair): for *)
(* the sample pages and texts, looked at in the states before any file.    *)
TextIsKept ==
  intaken = {} /\ decisions = 0 =>
    /\ \A page \in SamplePages : SlicesKeepText(page)
    /\ \A text \in SampleTexts : ChildrenKeepText(text)

(* The publish report's claim: each id it names has its document, written  *)
(* or updated, active.                                                     *)
PublishedSlicesHaveTheirDocument == published \subseteq ActiveIds
=============================================================================
