----------------------- MODULE KnowledgeSearchProofs -----------------------
(***************************************************************************)
(* Theorems about KnowledgeSearch, for any source files and cases, any     *)
(* number of runs, commands and reviews, and whatever the audit finds; and *)
(* about Slicing, for any page and any text.                               *)
(***************************************************************************)
EXTENDS KnowledgeSearch, PlacesProofs, WellFoundedInduction, TLAPS

DraftsOK(slices) ==
  /\ DOMAIN slices = Sources
  /\ \A s \in Sources : slices[s] = <<>> \/ slices[s] \in [DOMAIN SlicesOf[s] -> Draft]

\* Who approved a slice is known for as long as it is approved.
ApprovedOK(slices, who) ==
  \A id \in DraftIds(slices) : DraftAt(slices, id).pipeline = "approved" => id \in who

\* An active document was approved; at the path of a solved case is that case.
DocsOK(now, who) ==
  /\ now \in [Paths -> Document \cup {NoDoc}]
  /\ \A p \in Paths : now[p] # NoDoc /\ now[p].status = "active" => now[p].id \in who
  /\ \A c \in Cases : now[SolvedPath(c)] # NoDoc => now[SolvedPath(c)].id = <<c, 0>>

\* What is indexed, or about to be, was the documents at some time.
Indexing == /\ index \in [docs : Snapshot, hybrid : BOOLEAN]
            /\ builds \in [Builders -> [docs : Snapshot, valid : BOOLEAN] \cup {NoBuild}]

Inv == TypeOK /\ ApprovedOK(drafts, approved) /\ DocsOK(docs, approved)

-----------------------------------------------------------------------------
(* A slice's id is the pair of its source and its number.                  *)
LEMMA SliceIdIsPair ==
  ASSUME NEW id \in SliceIds
  PROVE  /\ id = <<id[1], id[2]>> /\ id[1] \in Sources
         /\ id[2] \in DOMAIN SlicesOf[id[1]] /\ id[2] \in Nat
<1>1. PICK s \in Sources : id \in {s} \X DOMAIN SlicesOf[s]
  BY DEF SliceIds
<1>2. SlicesOf[s] \in Seq(Range(SlicesOf[s]))
  BY SlicesAssumption
<1>3. DOMAIN SlicesOf[s] \subseteq Nat
  BY <1>2
<1> QED
  BY <1>1, <1>3

(* A draft slice has its decision and quality.                             *)
LEMMA DraftIsTyped ==
  ASSUME NEW slices, DraftsOK(slices), NEW id \in DraftIds(slices)
  PROVE  DraftAt(slices, id) \in Draft
<1>1. id \in SliceIds /\ slices[id[1]] # <<>>
  BY DEF DraftIds
<1>2. slices[id[1]] \in [DOMAIN SlicesOf[id[1]] -> Draft] /\ id[2] \in DOMAIN SlicesOf[id[1]]
  BY <1>1, SliceIdIsPair DEF DraftsOK
<1> QED
  BY <1>2 DEF DraftAt

(* A decision is a decision, approves only when it says so, and leaves the *)
(* quality alone when it only approves (computeNextStatus).                *)
LEMMA DecidedIsDraft ==
  ASSUME NEW d \in Draft, NEW action
  PROVE  /\ Decided(d, action) \in Draft
         /\ Decided(d, action).pipeline = "approved" => action \in {"approve", "accept_warnings"}
         /\ action = "approve" => Decided(d, action).quality = d.quality
BY DEF Decided, Draft

LEMMA NothingIsEmpty ==
  ASSUME NEW F
  PROVE  [i \in {} |-> F[i]] = <<>>
OBVIOUS

(* Every slice of a source has its decision and quality.                   *)
LEMMA SlicesAreTyped ==
  ASSUME NEW slices, DraftsOK(slices), NEW s \in Sources, NEW i \in DOMAIN slices[s]
  PROVE  slices[s][i] \in Draft
<1>1. slices[s] # <<>>
  OBVIOUS
<1>2. slices[s] \in [DOMAIN SlicesOf[s] -> Draft]
  BY <1>1 DEF DraftsOK
<1> QED
  BY <1>2

(* Slices that are changed one by one stay slices, and no more of them.    *)
LEMMA SlicesStaySlices ==
  ASSUME NEW slices, DraftsOK(slices), NEW after, DOMAIN after = Sources,
         \A s \in Sources : /\ DOMAIN after[s] = DOMAIN slices[s]
                            /\ after[s] = [i \in DOMAIN after[s] |-> after[s][i]]
                            /\ \A i \in DOMAIN slices[s] : after[s][i] \in Draft
  PROVE  /\ DraftsOK(after)
         /\ \A id \in DraftIds(after) : id \in DraftIds(slices) /\ id[2] \in DOMAIN slices[id[1]]
<1>1. ASSUME NEW s \in Sources, slices[s] = <<>>
      PROVE  after[s] = <<>>
  <2>1. DOMAIN slices[s] = {}
    BY <1>1
  <2> DEFINE F(i) == after[s][i]
  <2>2. after[s] = [i \in {} |-> F(i)]
    BY <2>1
  <2> HIDE DEF F
  <2> QED
    BY <2>2
<1>2. ASSUME NEW s \in Sources, slices[s] # <<>>
      PROVE  after[s] \in [DOMAIN SlicesOf[s] -> Draft]
  <2>1. slices[s] \in [DOMAIN SlicesOf[s] -> Draft]
    BY <1>2 DEF DraftsOK
  <2> QED
    BY <2>1
<1>3. DraftsOK(after)
  BY <1>1, <1>2 DEF DraftsOK
<1>4. ASSUME NEW id \in DraftIds(after)
      PROVE  id \in DraftIds(slices) /\ id[2] \in DOMAIN slices[id[1]]
  <2>1. id \in SliceIds /\ after[id[1]] # <<>>
    BY <1>4 DEF DraftIds
  <2>2. id[1] \in Sources /\ id[2] \in DOMAIN SlicesOf[id[1]]
    BY <2>1, SliceIdIsPair
  <2>3. slices[id[1]] # <<>>
    BY <2>1, <2>2, <1>1
  <2> QED
    BY <2>1, <2>2, <2>3 DEF DraftIds, DraftsOK
<1> QED
  BY <1>3, <1>4

(* A review decides on the slices it names and on no other.                *)
LEMMA ReviewDecides ==
  ASSUME NEW slices, DraftsOK(slices), NEW ids, NEW action
  PROVE  /\ DraftsOK(Reviewed(slices, ids, action))
         /\ \A id \in DraftIds(Reviewed(slices, ids, action)) :
              /\ id \in DraftIds(slices)
              /\ DraftAt(Reviewed(slices, ids, action), id) =
                   IF id \in ids THEN Decided(DraftAt(slices, id), action) ELSE DraftAt(slices, id)
<1> DEFINE Then(s, i) ==
             IF <<s, i>> \in ids THEN Decided(slices[s][i], action) ELSE slices[s][i]
           after == Reviewed(slices, ids, action)
<1>1. DOMAIN after = Sources /\ \A s \in Sources : after[s] = [i \in DOMAIN slices[s] |-> Then(s, i)]
  BY DEF Reviewed
<1>2. \A s \in Sources : \A i \in DOMAIN slices[s] : Then(s, i) \in Draft
  BY SlicesAreTyped, DecidedIsDraft
<1>3. \A id \in SliceIds : id = <<id[1], id[2]>> /\ id[1] \in Sources
  BY SliceIdIsPair
<1> HIDE DEF after
<1>4. /\ DraftsOK(after)
      /\ \A id \in DraftIds(after) : id \in DraftIds(slices) /\ id[2] \in DOMAIN slices[id[1]]
  <2> HIDE DEF Then
  <2> QED
    BY <1>1, <1>2, SlicesStaySlices
<1>5. \A id \in DraftIds(after) : DraftAt(after, id) = Then(id[1], id[2])
  <2> HIDE DEF Then
  <2> QED
    BY <1>1, <1>3, <1>4 DEF DraftAt, DraftIds
<1> QED
  BY <1>3, <1>4, <1>5 DEF DraftAt, DraftIds, after

(* Slices cut anew are undecided.                                          *)
LEMMA FreshDraftsAreUndecided ==
  ASSUME NEW slices, DraftsOK(slices), NEW fresh \in SUBSET Sources, NEW after,
         after = [s \in Sources |-> IF s \in fresh THEN FreshDrafts(s) ELSE slices[s]]
  PROVE  /\ DraftsOK(after)
         /\ \A id \in DraftIds(after) :
              DraftAt(after, id).pipeline = "approved" =>
                id \in DraftIds(slices) /\ DraftAt(after, id) = DraftAt(slices, id)
<1>1. \A s \in Sources : FreshDrafts(s) \in [DOMAIN SlicesOf[s] -> Draft]
  BY DEF FreshDrafts, Draft
<1>2. DraftsOK(after)
  BY <1>1 DEF DraftsOK
<1>3. ASSUME NEW id \in DraftIds(after), id[1] \in fresh
      PROVE  DraftAt(after, id).pipeline = "draft"
  BY <1>3, SliceIdIsPair DEF DraftIds, DraftAt, FreshDrafts
<1>4. ASSUME NEW id \in DraftIds(after), id[1] \notin fresh
      PROVE  id \in DraftIds(slices) /\ DraftAt(after, id) = DraftAt(slices, id)
  BY <1>4, SliceIdIsPair DEF DraftIds, DraftAt
<1> QED
  BY <1>2, <1>3, <1>4

-----------------------------------------------------------------------------
(* A nonempty set of numbers up to n has a greatest one.                   *)
LEMMA Greatest ==
  ASSUME NEW n \in Nat, NEW S \in SUBSET (1..n), S # {}
  PROVE  \E m \in S : \A k \in S : k <= m
<1> DEFINE T == {n - m : m \in S}
<1>1. T \subseteq Nat /\ T # {}
  <2>1. \A m \in S : m \in 1..n
    OBVIOUS
  <2>2. \A m \in 1..n : n - m \in Nat
    OBVIOUS
  <2> QED
    BY <2>1, <2>2
<1>2. PICK x \in T : \A y \in T : ~(<<y, x>> \in OpToRel(<, Nat))
  BY <1>1, WFMin, NatLessThanWellFounded
<1>3. \A y \in T : ~(y < x)
  BY <1>1, <1>2 DEF OpToRel
<1>4. PICK m \in S : x = n - m
  OBVIOUS
<1>5. \A k \in S : k <= m
  BY <1>3, <1>4
<1> QED
  BY <1>5

(* Of some slices of one source one is the last.                           *)
LEMMA LastExists ==
  ASSUME NEW ids \in SUBSET SliceIds, ids # {}, NEW s, \A id \in ids : id[1] = s
  PROVE  LastOf(ids) \in ids
<1> DEFINE numbers == {id[2] : id \in ids}
<1>1. s \in Sources /\ numbers \subseteq DOMAIN SlicesOf[s] /\ numbers # {}
  BY SliceIdIsPair
<1>2. SlicesOf[s] \in Seq(Range(SlicesOf[s]))
  BY <1>1, SlicesAssumption
<1>3. PICK n \in Nat : DOMAIN SlicesOf[s] = 1..n
  BY <1>2
<1>4. PICK m \in numbers : \A k \in numbers : k <= m
  <2> HIDE DEF numbers
  <2> QED
    BY <1>1, <1>3, Greatest
<1>5. \E id \in ids : \A other \in ids : other[2] <= id[2]
  BY <1>4
<1> QED
  BY <1>5 DEF LastOf

(* Publishing changes only the documents of the slices it publishes.       *)
LEMMA PublishWritesItsSlices ==
  ASSUME NEW ids \in SUBSET SliceIds, NEW slices, NEW rep, NEW now, NEW p \in Paths
  PROVE  \/ WithPublished(ids, slices, rep, now)[p] = now[p] /\ \A id \in ids : PathOf(id) # p
         \/ \E id \in ids : /\ PathOf(id) = p
                            /\ WithPublished(ids, slices, rep, now)[p] = Written(slices, rep, id)
<1> DEFINE here == {id \in ids : PathOf(id) = p}
<1>1. CASE here = {}
  BY <1>1 DEF WithPublished
<1>2. CASE here # {}
  <2>1. PICK first \in here : TRUE
    BY <1>2
  <2>2. \A id \in here : id[1] = first[1]
    BY <2>1 DEF PathOf
  <2>3. LastOf(here) \in here
    BY <1>2, <2>2, LastExists
  <2>4. WithPublished(ids, slices, rep, now)[p] = Written(slices, rep, LastOf(here))
    BY <1>2 DEF WithPublished
  <2> QED
    BY <2>3, <2>4
<1> QED
  BY <1>1, <1>2

(* A slice that is published was approved, and its document is a document. *)
LEMMA PublishableIsApproved ==
  ASSUME NEW slices, DraftsOK(slices), NEW rep, NEW gate, NEW who, ApprovedOK(slices, who),
         NEW id \in PublishableIds(slices, rep, gate)
  PROVE  /\ id \in SliceIds /\ id \in who
         /\ Written(slices, rep, id) \in Document
         /\ Written(slices, rep, id).id = id
<1>1. id \in DraftIds(slices) /\ DraftAt(slices, id).pipeline = "approved"
  BY DEF PublishableIds, Publishable
<1>2. id \in SliceIds /\ id \in who
  BY <1>1 DEF DraftIds, ApprovedOK
<1>3. DraftAt(slices, id).quality \in {"unchecked", "warn", "error"}
  BY <1>1, DraftIsTyped DEF Draft
<1> QED
  BY <1>2, <1>3 DEF Written, Document

(* Publishing leaves approved documents, and no solved case is overwritten.*)
LEMMA PublishingKeepsDocs ==
  ASSUME NEW slices, DraftsOK(slices), NEW rep, NEW gate, NEW who, ApprovedOK(slices, who),
         NEW now, DocsOK(now, who)
  PROVE  /\ PublishableIds(slices, rep, gate) \subseteq SliceIds
         /\ DocsOK(WithPublished(PublishableIds(slices, rep, gate), slices, rep, now), who)
<1> DEFINE ids == PublishableIds(slices, rep, gate)
           after == WithPublished(ids, slices, rep, now)
<1>1. ids \subseteq SliceIds
  BY PublishableIsApproved
<1>2. ASSUME NEW p \in Paths
      PROVE  \/ after[p] = now[p]
             \/ /\ after[p] \in Document /\ after[p].id \in who
                /\ \E id \in SliceIds : PathOf(id) = p
  <2>1. \/ after[p] = now[p]
        \/ \E id \in ids : PathOf(id) = p /\ after[p] = Written(slices, rep, id)
    BY <1>1, PublishWritesItsSlices
  <2> QED
    BY <2>1, PublishableIsApproved
<1>3. after = [p \in Paths |-> after[p]]
  BY DEF WithPublished
<1>4. \A c \in Cases : SolvedPath(c) \in Paths
  BY ListingAssumption
<1>5. \A c \in Cases, id \in SliceIds : PathOf(id) # SolvedPath(c)
  BY DEF PathOf, SolvedPath
<1> HIDE DEF after
<1>6. DocsOK(after, who)
  BY <1>2, <1>3, <1>4, <1>5 DEF DocsOK
<1> QED
  BY <1>1, <1>6 DEF after

-----------------------------------------------------------------------------
(* What is decided and published, apart from the counters and the control. *)
Decisions == /\ DraftsOK(drafts) /\ ApprovedOK(drafts, approved) /\ DocsOK(docs, approved)
             /\ published \subseteq SliceIds /\ approved \subseteq SliceIds \cup CaseIds

Control == /\ intaken \subseteq Sources /\ todo \subseteq intaken
           /\ pc \in {"idle", "slice", "rebuild"}
           /\ runs \in 0..MaxRuns /\ decisions \in 0..MaxDecisions

LEMMA InvParts == Inv <=> Decisions /\ Control /\ Indexing
BY DEF Inv, TypeOK, Decisions, Control, Indexing, DraftsOK, DocsOK, Snapshot

LEMMA InvInit ==
  ASSUME Init
  PROVE  Inv
<1>1. Control
  BY BoundsAssumption DEF Init, Control
<1>2. DraftsOK(drafts) /\ DraftIds(drafts) = {}
  <2>1. DOMAIN drafts = Sources /\ \A s \in Sources : drafts[s] = <<>>
    BY DEF Init
  <2> QED
    BY <2>1, SliceIdIsPair DEF DraftsOK, DraftIds
<1>3. DocsOK(docs, approved)
  BY ListingAssumption DEF Init, DocsOK
<1>4. Decisions
  BY <1>2, <1>3 DEF Init, Decisions, ApprovedOK
<1>5. Indexing
  BY <1>3 DEF Init, Indexing, DocsOK, Snapshot
<1> QED
  BY <1>1, <1>4, <1>5, InvParts

(* The counters and the control, whatever the step.                        *)
LEMMA ControlStep ==
  ASSUME Control, Next
  PROVE  Control'
<1> USE DEF Control
<1>1. CASE Pipeline
  <2>1. ASSUME NEW files \in Folders, PipelineStart(files)
        PROVE  Control'
    BY <2>1, FoldersAssumption, BoundsAssumption DEF PipelineStart
  <2>2. ASSUME NEW s \in Sources, PipelineSlice(s)
        PROVE  Control'
    BY <2>2 DEF PipelineSlice
  <2>3. CASE PipelinePublish
    BY <2>3 DEF PipelinePublish
  <2>4. CASE Crash
    BY <2>4 DEF Crash, work
  <2>5. ASSUME NEW b \in Builders, RebuildPublishes(b) \/ RebuildFails(b)
        PROVE  Control'
    BY <2>5 DEF RebuildPublishes, RebuildFails, EndOfRun, work
  <2> QED
    BY <1>1, <2>1, <2>2, <2>3, <2>4, <2>5 DEF Pipeline
<1>2. CASE Command
  <2> USE BoundsAssumption DEF Decide, run, work
  <2>1. ASSUME NEW files \in Folders, InitCommand(files)
        PROVE  Control'
    BY <2>1, FoldersAssumption DEF InitCommand
  <2>2. ASSUME SliceCommand \/ AuditCommand \/ RepairPlan \/ RepairApply
        PROVE  Control'
    BY <2>2 DEF SliceCommand, AuditCommand, RepairPlan, RepairApply
  <2>3. ASSUME NEW gate, UpdateCommand(gate) \/ PublishCommand(gate)
        PROVE  Control'
    BY <2>3 DEF UpdateCommand, PublishCommand
  <2>4. ASSUME NEW s, NEW action, ReviewSource(s, action)
        PROVE  Control'
    BY <2>4 DEF ReviewSource
  <2> QED
    BY <1>2, <2>1, <2>2, <2>3, <2>4 DEF Command
<1>3. CASE Review
  <2> USE BoundsAssumption DEF Decide, run, work
  <2>1. ASSUME NEW ids, NEW action, SubmitReview(ids, action)
        PROVE  Control'
    BY <2>1 DEF SubmitReview
  <2>2. ASSUME NEW c, Curate(c)
        PROVE  Control'
    BY <2>2 DEF Curate
  <2>3. ASSUME NEW c, NEW action, ReviewCase(c, action)
        PROVE  Control'
    BY <2>3 DEF ReviewCase
  <2> QED
    BY <1>3, <2>1, <2>2, <2>3 DEF Review
<1>4. CASE Ask
  BY <1>4 DEF Ask, Search, run, work
<1>5. CASE Deliver
  BY <1>5 DEF Deliver, run, work
<1> QED
  BY <1>1, <1>2, <1>3, <1>4, <1>5 DEF Next

(* Approvals are never forgotten: what they allowed they still allow.      *)
LEMMA MoreApproved ==
  ASSUME NEW who, NEW more, who \subseteq more
  PROVE  /\ \A slices : ApprovedOK(slices, who) => ApprovedOK(slices, more)
         /\ \A now : DocsOK(now, who) => DocsOK(now, more)
BY DEF ApprovedOK, DocsOK

(* A review that approves is recorded.                                     *)
LEMMA ReviewIsRecorded ==
  ASSUME NEW slices, DraftsOK(slices), NEW ids, NEW action, NEW who, NEW more,
         ApprovedOK(slices, who), who \subseteq more,
         action \in {"approve", "accept_warnings"} => ids \subseteq more
  PROVE  /\ DraftsOK(Reviewed(slices, ids, action))
         /\ ApprovedOK(Reviewed(slices, ids, action), more)
<1>1. DraftsOK(Reviewed(slices, ids, action))
  BY ReviewDecides
<1>2. ASSUME NEW id \in DraftIds(Reviewed(slices, ids, action)),
             DraftAt(Reviewed(slices, ids, action), id).pipeline = "approved"
      PROVE  id \in more
  <2>1. /\ id \in DraftIds(slices)
        /\ DraftAt(Reviewed(slices, ids, action), id) =
             IF id \in ids THEN Decided(DraftAt(slices, id), action) ELSE DraftAt(slices, id)
    BY ReviewDecides
  <2>2. CASE id \in ids
    BY <1>2, <2>1, <2>2, DraftIsTyped, DecidedIsDraft
  <2>3. CASE id \notin ids
    BY <1>2, <2>1, <2>3 DEF ApprovedOK
  <2> QED
    BY <2>2, <2>3
<1> QED
  BY <1>1, <1>2 DEF ApprovedOK

(* The pipeline's publication.                                             *)
LEMMA PipelinePublishKeeps ==
  ASSUME Decisions, PipelinePublish
  PROVE  Decisions'
<1> USE DEF Decisions
<1> DEFINE auto == AutoApprovable(drafts, report')
<1>1. auto \subseteq SliceIds
  BY DEF AutoApprovable, DraftIds
<1>2. /\ drafts' = Reviewed(drafts, auto, "approve") /\ approved' = approved \cup auto
      /\ published' = PublishableIds(drafts', report', "strict")
      /\ docs' = WithPublished(published', drafts', report', docs)
  BY DEF PipelinePublish
<1> HIDE DEF auto
<1>3. DraftsOK(drafts') /\ ApprovedOK(drafts', approved')
  BY <1>2, ReviewIsRecorded
<1>4. DocsOK(docs, approved')
  BY <1>2, MoreApproved
<1>5. published' \subseteq SliceIds /\ DocsOK(docs', approved')
  BY <1>2, <1>3, <1>4, PublishingKeepsDocs
<1> QED
  BY <1>1, <1>2, <1>3, <1>5

LEMMA SubmitReviewKeeps ==
  ASSUME Decisions, NEW ids, NEW action, SubmitReview(ids, action)
  PROVE  Decisions'
<1> USE DEF Decisions
<1>1. ids \subseteq SliceIds
  BY DEF SubmitReview, ReviewItems, DraftIds
<1>2. /\ drafts' = Reviewed(drafts, ids, action)
      /\ approved' = IF action \in {"approve", "accept_warnings"} THEN approved \cup ids ELSE approved
      /\ published' = PublishableIds(drafts', report, "warn")
      /\ docs' = WithPublished(published', drafts', report, docs)
  BY DEF SubmitReview
<1>3. DraftsOK(drafts') /\ ApprovedOK(drafts', approved')
  BY <1>2, ReviewIsRecorded
<1>4. DocsOK(docs, approved')
  BY <1>2, MoreApproved
<1>5. published' \subseteq SliceIds /\ DocsOK(docs', approved')
  BY <1>2, <1>3, <1>4, PublishingKeepsDocs
<1> QED
  BY <1>1, <1>2, <1>3, <1>5

LEMMA ReviewSourceKeeps ==
  ASSUME Decisions, NEW s, NEW action, ReviewSource(s, action)
  PROVE  Decisions'
<1> USE DEF Decisions
<1> DEFINE ids == {id \in SliceIds : id[1] = s}
<1>1. /\ drafts' = Reviewed(drafts, ids, action)
      /\ approved' = IF action \in {"approve", "accept_warnings"} THEN approved \cup ids ELSE approved
      /\ docs' = docs /\ published' = published
  BY DEF ReviewSource
<1>2. ids \subseteq SliceIds
  OBVIOUS
<1> HIDE DEF ids
<1>3. DraftsOK(drafts') /\ ApprovedOK(drafts', approved')
  BY <1>1, ReviewIsRecorded
<1>4. DocsOK(docs', approved')
  BY <1>1, MoreApproved
<1> QED
  BY <1>1, <1>2, <1>3, <1>4

(* A slice that is cut anew has to be approved again.                      *)
LEMMA SlicingKeeps ==
  ASSUME Decisions, NEW fresh \in SUBSET Sources,
         drafts' = [s \in Sources |-> IF s \in fresh THEN FreshDrafts(s) ELSE drafts[s]],
         UNCHANGED <<docs, published, approved>>
  PROVE  Decisions'
<1>1. DraftsOK(drafts')
  BY FreshDraftsAreUndecided DEF Decisions
<1>2. \A id \in DraftIds(drafts') : DraftAt(drafts', id).pipeline = "approved" =>
         id \in DraftIds(drafts) /\ DraftAt(drafts', id) = DraftAt(drafts, id)
  BY FreshDraftsAreUndecided DEF Decisions
<1> QED
  BY <1>1, <1>2 DEF Decisions, ApprovedOK

LEMMA RepairApplyKeeps ==
  ASSUME Decisions, RepairApply
  PROVE  Decisions'
<1> DEFINE marked == {i.id : i \in {j \in plan : j.draft}}
           files == {PathOf(i.id) : i \in {j \in plan : ~j.draft}}
           flawed == [pipeline |-> "review_required", quality |-> "error"]
<1>1. /\ drafts' = [s \in Sources |-> [i \in DOMAIN drafts[s] |->
                      IF <<s, i>> \in marked THEN flawed ELSE drafts[s][i]]]
      /\ docs' = [p \in Paths |-> IF p \in files /\ docs[p] # NoDoc
                                    THEN [docs[p] EXCEPT !.quality = "error"] ELSE docs[p]]
      /\ UNCHANGED <<published, approved>>
  BY DEF RepairApply
<1>2. flawed \in Draft /\ flawed.pipeline # "approved"
  BY DEF Draft
<1> HIDE DEF marked, files, flawed
<1>3. DraftsOK(drafts)
  BY DEF Decisions
<1>4. /\ DOMAIN drafts' = Sources
      /\ \A s \in Sources : drafts'[s] = [i \in DOMAIN drafts[s] |->
                              IF <<s, i>> \in marked THEN flawed ELSE drafts[s][i]]
  BY <1>1
<1>5. /\ DraftsOK(drafts')
      /\ \A id \in DraftIds(drafts') : id \in DraftIds(drafts) /\ id[2] \in DOMAIN drafts[id[1]]
  <2>1. ASSUME NEW s \in Sources, NEW i \in DOMAIN drafts[s]
        PROVE  drafts'[s][i] \in Draft
    <3>1. drafts[s][i] \in Draft
      BY <1>3, SlicesAreTyped
    <3>2. drafts'[s][i] = IF <<s, i>> \in marked THEN flawed ELSE drafts[s][i]
      BY <1>4
    <3> QED
      BY <1>2, <3>1, <3>2
  <2> QED
    BY <1>3, <1>4, <2>1, SlicesStaySlices
<1>6. ASSUME NEW id \in DraftIds(drafts'), DraftAt(drafts', id).pipeline = "approved"
      PROVE  DraftAt(drafts, id).pipeline = "approved"
  <2>1. id[1] \in Sources /\ id[2] \in DOMAIN drafts[id[1]]
    BY <1>5, SliceIdIsPair DEF DraftIds
  <2> QED
    BY <1>2, <1>4, <1>6, <2>1 DEF DraftAt
<1>7. DocsOK(docs', approved')
  <2>1. \A p \in Paths : docs[p] # NoDoc => docs[p] \in Document
    BY DEF Decisions, DocsOK
  <2>2. ASSUME NEW p \in Paths, docs[p] # NoDoc
        PROVE  /\ docs'[p] \in Document
               /\ docs'[p].id = docs[p].id /\ docs'[p].status = docs[p].status
    BY <1>1, <2>1, <2>2 DEF Document
  <2>3. ASSUME NEW p \in Paths, docs[p] = NoDoc
        PROVE  docs'[p] = NoDoc
    BY <1>1, <2>3
  <2>4. \A c \in Cases : SolvedPath(c) \in Paths
    BY ListingAssumption
  <2>5. docs' = [p \in Paths |-> docs'[p]]
    BY <1>1
  <2> QED
    BY <1>1, <2>2, <2>3, <2>4, <2>5 DEF Decisions, DocsOK
<1> QED
  BY <1>1, <1>5, <1>6, <1>7 DEF Decisions, ApprovedOK

LEMMA CurateKeeps ==
  ASSUME Decisions, NEW c \in Cases, Curate(c)
  PROVE  Decisions'
<1> DEFINE new == [id |-> <<c, 0>>, status |-> "review_required", quality |-> "unchecked"]
<1>1. docs' = [docs EXCEPT ![SolvedPath(c)] = new] /\ UNCHANGED <<drafts, published, approved>>
  BY DEF Curate, work
<1>2. new \in Document /\ new.id = <<c, 0>> /\ new.status # "active"
  BY DEF Document, CaseIds
<1>3. \A d \in Cases : SolvedPath(d) \in Paths /\ (SolvedPath(d) = SolvedPath(c) => d = c)
  BY ListingAssumption DEF SolvedPath
<1> HIDE DEF new
<1>4. DocsOK(docs', approved')
  BY <1>1, <1>2, <1>3 DEF Decisions, DocsOK
<1> QED
  BY <1>1, <1>4 DEF Decisions

LEMMA ReviewCaseKeeps ==
  ASSUME Decisions, NEW c \in Cases, NEW action, ReviewCase(c, action)
  PROVE  Decisions'
<1> DEFINE status == IF action \in {"approve", "convert_to_unresolved"} THEN "active"
                     ELSE "review_required"
           reviewed == [docs[SolvedPath(c)] EXCEPT !.status = status]
<1>1. /\ docs[SolvedPath(c)] # NoDoc
      /\ \/ docs' = [docs EXCEPT ![UnresolvedPath(c)] = reviewed, ![SolvedPath(c)] = NoDoc]
         \/ docs' = [docs EXCEPT ![SolvedPath(c)] = reviewed]
      /\ approved' = IF status = "active" THEN approved \cup {<<c, 0>>} ELSE approved
      /\ UNCHANGED <<drafts, published>>
  BY DEF ReviewCase, work
<1>2. \A d \in Cases : SolvedPath(d) \in Paths /\ (SolvedPath(d) = SolvedPath(c) => d = c)
  BY ListingAssumption DEF SolvedPath
<1>3. UnresolvedPath(c) \in Paths /\ \A d \in Cases : SolvedPath(d) # UnresolvedPath(c)
  BY ListingAssumption DEF SolvedPath, UnresolvedPath
<1>4. docs[SolvedPath(c)] \in Document /\ docs[SolvedPath(c)].id = <<c, 0>>
  BY <1>1, <1>2 DEF Decisions, DocsOK
<1>5. reviewed \in Document /\ reviewed.id = <<c, 0>> /\ reviewed.status = status
  BY <1>4 DEF Document
<1>6. approved \subseteq approved' /\ approved' \subseteq SliceIds \cup CaseIds
  BY <1>1 DEF Decisions, CaseIds
<1>7. reviewed.status = "active" => reviewed.id \in approved'
  BY <1>1, <1>5
<1> HIDE DEF status, reviewed
<1>8. DocsOK(docs, approved') /\ ApprovedOK(drafts, approved')
  BY <1>6, MoreApproved DEF Decisions
<1>9. DocsOK(docs', approved')
  BY <1>1, <1>2, <1>3, <1>5, <1>7, <1>8 DEF DocsOK
<1> QED
  BY <1>1, <1>6, <1>8, <1>9 DEF Decisions

(* No step writes a decision or a document that nobody made.               *)
LEMMA DecisionsStep ==
  ASSUME Decisions, Control, Next
  PROVE  Decisions'
<1>1. CASE UNCHANGED <<drafts, docs, published, approved>>
  BY <1>1 DEF Decisions, DraftsOK, ApprovedOK, DocsOK, DraftIds, DraftAt
<1>2. CASE Pipeline
  <2>1. ASSUME NEW files, PipelineStart(files)
        PROVE  Decisions'
    BY <1>1, <2>1 DEF PipelineStart
  <2>2. ASSUME NEW s \in Sources, PipelineSlice(s)
        PROVE  Decisions'
    <3>1. drafts' = [t \in Sources |-> IF t \in {s} THEN FreshDrafts(t) ELSE drafts[t]]
      BY <2>2 DEF PipelineSlice, Decisions, DraftsOK
    <3> QED
      BY <2>2, <3>1, SlicingKeeps DEF PipelineSlice
  <2>3. CASE PipelinePublish
    BY <2>3, PipelinePublishKeeps
  <2>4. CASE Crash
    BY <1>1, <2>4 DEF Crash, work
  <2>5. ASSUME NEW b, RebuildPublishes(b) \/ RebuildFails(b)
        PROVE  Decisions'
    BY <1>1, <2>5 DEF RebuildPublishes, RebuildFails, work
  <2> QED
    BY <1>2, <2>1, <2>2, <2>3, <2>4, <2>5 DEF Pipeline
<1>3. CASE Command
  <2>1. ASSUME NEW files \in Folders, InitCommand(files)
        PROVE  Decisions'
    BY <2>1, FoldersAssumption, SlicingKeeps DEF InitCommand
  <2>2. CASE SliceCommand
    BY <2>2, SlicingKeeps DEF SliceCommand, Control
  <2>3. ASSUME AuditCommand \/ RepairPlan
        PROVE  Decisions'
    BY <1>1, <2>3 DEF AuditCommand, RepairPlan
  <2>4. CASE RepairApply
    BY <2>4, RepairApplyKeeps
  <2>5. ASSUME NEW gate, UpdateCommand(gate)
        PROVE  Decisions'
    BY <1>1, <2>5 DEF UpdateCommand
  <2>6. ASSUME NEW gate, PublishCommand(gate)
        PROVE  Decisions'
    <3>1. /\ published' = PublishableIds(drafts, report, gate)
          /\ docs' = WithPublished(published', drafts, report, docs)
          /\ UNCHANGED <<drafts, approved>>
      BY <2>6 DEF PublishCommand, work
    <3>2. published' \subseteq SliceIds /\ DocsOK(docs', approved)
      BY <3>1, PublishingKeepsDocs DEF Decisions
    <3> QED
      BY <3>1, <3>2 DEF Decisions
  <2>7. ASSUME NEW s, NEW action, ReviewSource(s, action)
        PROVE  Decisions'
    BY <2>7, ReviewSourceKeeps
  <2> QED
    BY <1>3, <2>1, <2>2, <2>3, <2>4, <2>5, <2>6, <2>7 DEF Command
<1>4. CASE Review
  BY <1>4, SubmitReviewKeeps, CurateKeeps, ReviewCaseKeeps DEF Review
<1>5. CASE Ask \/ Deliver
  BY <1>1, <1>5 DEF Ask, Search, Deliver, work
<1> QED
  BY <1>2, <1>3, <1>4, <1>5 DEF Next

(* A generation that is prepared is made of the documents there are, and   *)
(* one that is overtaken keeps what it was made of.                        *)
LEMMA BuildsStayTyped ==
  ASSUME Indexing
  PROVE  /\ Overtaken \in [Builders -> [docs : Snapshot, valid : BOOLEAN] \cup {NoBuild}]
         /\ \A b \in Builders, now \in Snapshot :
              Preparing(b, now) \in [Builders -> [docs : Snapshot, valid : BOOLEAN] \cup {NoBuild}]
<1> DEFINE Build == [docs : Snapshot, valid : BOOLEAN]
<1>1. \A v \in BOOLEAN : \A r \in Build : [r EXCEPT !.valid = v] \in Build
  OBVIOUS
<1>2. \A r \in Build : [r EXCEPT !.valid = FALSE] \in Build
  BY <1>1
<1>3. \A now \in Snapshot : [docs |-> now, valid |-> TRUE] \in Build
  OBVIOUS
<1> HIDE DEF Build
<1>4. builds \in [Builders -> Build \cup {NoBuild}]
  BY DEF Indexing, Build
<1>5. Overtaken \in [Builders -> Build \cup {NoBuild}]
  BY <1>2, <1>4 DEF Overtaken
<1>6. \A b \in Builders, now \in Snapshot : Preparing(b, now) \in [Builders -> Build \cup {NoBuild}]
  BY <1>3, <1>4 DEF Preparing
<1> QED
  BY <1>5, <1>6 DEF Build

LEMMA IndexingStep ==
  ASSUME Decisions, Decisions', Indexing, Next
  PROVE  Indexing'
<1> DEFINE Builds == [Builders -> [docs : Snapshot, valid : BOOLEAN] \cup {NoBuild}]
           Made == [docs : Snapshot, hybrid : BOOLEAN]
<1>1. docs \in Snapshot /\ docs' \in Snapshot
  BY DEF Decisions, DocsOK, Snapshot
<1>2. builds \in Builds /\ index \in Made
  BY DEF Indexing
<1>3. /\ Overtaken \in Builds
      /\ \A b \in Builders, now \in Snapshot : Preparing(b, now) \in Builds
  BY BuildsStayTyped
<1>4. Indexing' <=> index' \in Made /\ builds' \in Builds
  BY DEF Indexing
<1>5. \A now \in Snapshot : \A h \in BOOLEAN : [docs |-> now, hybrid |-> h] \in Made
  OBVIOUS
<1>6. ASSUME NEW some \in Builds, NEW b \in Builders
      PROVE  [some EXCEPT ![b] = NoBuild] \in Builds
  BY <1>6
<1>7. \A b \in Builders : builds[b] # NoBuild => builds[b].docs \in Snapshot
  BY <1>2
<1>8. {"pipeline", "review", "update"} \subseteq Builders
  BY DEF Builders
<1> HIDE DEF Builds, Made
<1>9. CASE Pipeline
  <2>1. ASSUME NEW files, PipelineStart(files)
        PROVE  Indexing'
    BY <1>2, <1>4, <2>1 DEF PipelineStart
  <2>2. ASSUME NEW s, PipelineSlice(s)
        PROVE  Indexing'
    BY <1>2, <1>4, <2>2 DEF PipelineSlice
  <2>3. CASE PipelinePublish
    BY <1>1, <1>2, <1>3, <1>4, <1>8, <2>3 DEF PipelinePublish
  <2>4. CASE Crash
    <3>1. index' = index /\ builds' = [builds EXCEPT !["pipeline"] = NoBuild, !["review"] = NoBuild]
      BY <2>4 DEF Crash
    <3>2. [builds EXCEPT !["pipeline"] = NoBuild] \in Builds
      BY <1>2, <1>6, <1>8
    <3>3. [[builds EXCEPT !["pipeline"] = NoBuild] EXCEPT !["review"] = NoBuild] \in Builds
      BY <1>6, <1>8, <3>2
    <3> QED
      BY <1>2, <1>4, <3>1, <3>3
  <2>5. ASSUME NEW b \in Builders, RebuildPublishes(b)
        PROVE  Indexing'
    <3>1. /\ index' = [docs |-> builds[b].docs, hybrid |-> TRUE]
          /\ builds' = [Overtaken EXCEPT ![b] = NoBuild] /\ builds[b] # NoBuild
      BY <2>5 DEF RebuildPublishes
    <3> QED
      BY <1>3, <1>4, <1>5, <1>6, <1>7, <3>1
  <2>6. ASSUME NEW b \in Builders, RebuildFails(b)
        PROVE  Indexing'
    BY <1>2, <1>4, <1>6, <2>6 DEF RebuildFails
  <2> QED
    BY <1>9, <2>1, <2>2, <2>3, <2>4, <2>5, <2>6 DEF Pipeline
<1>10. CASE Command
  <2>1. ASSUME NEW files, InitCommand(files)
        PROVE  Indexing'
    <3>1. CASE ChunkIdsDiffer(docs) /\ index' = [docs |-> docs, hybrid |-> FALSE] /\ builds' = Overtaken
      <4>1. index' \in Made
        BY <1>1, <1>5, <3>1
      <4> QED
        BY <1>3, <1>4, <3>1, <4>1
    <3>2. CASE UNCHANGED <<index, builds>>
      BY <1>2, <1>4, <3>2
    <3> QED
      BY <2>1, <3>1, <3>2 DEF InitCommand
  <2>2. ASSUME SliceCommand \/ AuditCommand \/ RepairPlan \/ RepairApply
        PROVE  Indexing'
    BY <1>2, <1>4, <2>2 DEF SliceCommand, AuditCommand, RepairPlan, RepairApply
  <2>3. ASSUME NEW gate, UpdateCommand(gate)
        PROVE  Indexing'
    <3>1. index' = index /\ (builds' = builds \/ builds' = Preparing("update", docs))
      BY <2>3 DEF UpdateCommand
    <3> QED
      BY <1>1, <1>2, <1>3, <1>4, <1>8, <3>1
  <2>4. ASSUME NEW gate, PublishCommand(gate)
        PROVE  Indexing'
    BY <1>2, <1>4, <2>4 DEF PublishCommand
  <2>5. ASSUME NEW s, NEW action, ReviewSource(s, action)
        PROVE  Indexing'
    BY <1>2, <1>4, <2>5 DEF ReviewSource
  <2> QED
    BY <1>10, <2>1, <2>2, <2>3, <2>4, <2>5 DEF Command
<1>11. CASE Review
  <2>1. ASSUME NEW ids, NEW action, SubmitReview(ids, action)
        PROVE  Indexing'
    <3>1. index' = index /\ builds' = Preparing("review", docs')
      BY <2>1 DEF SubmitReview
    <3> QED
      BY <1>1, <1>2, <1>3, <1>4, <1>8, <3>1
  <2>2. ASSUME NEW c, Curate(c)
        PROVE  Indexing'
    BY <1>2, <1>4, <2>2 DEF Curate
  <2>3. ASSUME NEW c, NEW action, ReviewCase(c, action)
        PROVE  Indexing'
    BY <1>2, <1>4, <2>3 DEF ReviewCase
  <2> QED
    BY <1>11, <2>1, <2>2, <2>3 DEF Review
<1>12. CASE Ask \/ Deliver
  BY <1>2, <1>4, <1>12 DEF Ask, Search, Deliver
<1> QED
  BY <1>9, <1>10, <1>11, <1>12 DEF Next

LEMMA InvStep ==
  ASSUME Inv, [Next]_vars
  PROVE  Inv'
<1>1. CASE Next
  <2>1. Decisions /\ Control /\ Indexing
    BY InvParts
  <2>2. Decisions' /\ Control' /\ Indexing'
    BY <1>1, <2>1, DecisionsStep, ControlStep, IndexingStep
  <2>3. (Inv <=> Decisions /\ Control /\ Indexing)'
    BY InvParts, PTL
  <2> QED
    BY <2>2, <2>3
<1>2. CASE UNCHANGED vars
  BY <1>2 DEF vars, run, work, Inv, TypeOK, ApprovedOK, DocsOK, DraftIds, DraftAt
<1> QED
  BY <1>1, <1>2

(* What holds of the decisions and documents, in every state.              *)
LEMMA InvAlways == Spec => []Inv
<1>1. Init => Inv
  BY InvInit
<1>2. Inv /\ [Next]_vars => Inv'
  BY InvStep
<1> QED
  BY <1>1, <1>2, PTL DEF Spec

-----------------------------------------------------------------------------
(* Only the publication of the pipeline goes from slicing to the rebuild.  *)
LEMMA RebuildFollowsPublication ==
  ASSUME Next, pc = "slice", pc' = "rebuild"
  PROVE  PipelinePublish
<1> USE DEF run, work
<1>1. \A s : ~PipelineSlice(s)
  BY DEF PipelineSlice
<1>2. (\A files : ~PipelineStart(files)) /\ ~Crash
  BY DEF PipelineStart, Crash
<1>3. \A b : ~RebuildPublishes(b) /\ ~RebuildFails(b)
  BY DEF RebuildPublishes, RebuildFails, EndOfRun
<1>4. ~Command
  <2>1. \A files : ~InitCommand(files)
    BY DEF InitCommand
  <2>2. ~SliceCommand /\ ~AuditCommand /\ ~RepairPlan /\ ~RepairApply
    BY DEF SliceCommand, AuditCommand, RepairPlan, RepairApply
  <2>3. \A gate : ~UpdateCommand(gate) /\ ~PublishCommand(gate)
    BY DEF UpdateCommand, PublishCommand
  <2>4. \A s, action : ~ReviewSource(s, action)
    BY DEF ReviewSource
  <2> QED
    BY <2>1, <2>2, <2>3, <2>4 DEF Command
<1>5. ~Review
  <2>1. \A ids, action : ~SubmitReview(ids, action)
    BY DEF SubmitReview
  <2>2. \A c : ~Curate(c)
    BY DEF Curate
  <2>3. \A c, action : ~ReviewCase(c, action)
    BY DEF ReviewCase
  <2> QED
    BY <2>1, <2>2, <2>3 DEF Review
<1>6. ~Ask /\ ~Deliver
  BY DEF Ask, Search, Deliver
<1> QED
  BY <1>1, <1>2, <1>3, <1>4, <1>5, <1>6 DEF Next, Pipeline

(* An issue of the drafts is a flaw of one of them.                        *)
LEMMA DraftIssueIsFlaw ==
  ASSUME NEW slices, NEW issue
  PROVE  issue \in DraftIssues(slices) <=>
           \E id \in DraftIds(slices) : \E code \in Flaws[id] : issue = Issue(id, code, "warn", TRUE)
<1> DEFINE of(id) == {Issue(id, code, "warn", TRUE) : code \in Flaws[id]}
<1>1. DraftIssues(slices) = UNION {of(id) : id \in DraftIds(slices)}
  BY DEF DraftIssues
<1>2. \A id : issue \in of(id) <=> \E code \in Flaws[id] : issue = Issue(id, code, "warn", TRUE)
  OBVIOUS
<1> HIDE DEF of
<1>3. issue \in DraftIssues(slices) <=> \E id \in DraftIds(slices) : issue \in of(id)
  BY <1>1
<1> QED
  BY <1>2, <1>3

(* What the strict gate lets through has no flaw the audit knows, and      *)
(* its quality is not in doubt.                                            *)
LEMMA StrictGateIsClean ==
  ASSUME NEW slices, DraftsOK(slices), NEW rep, DraftIssues(slices) \subseteq rep,
         NEW id \in DraftIds(slices), Publishable(DraftAt(slices, id), id, rep, "strict")
  PROVE  /\ Flaws[id] = {}
         /\ DraftAt(slices, id).quality \notin {"warn", "error"}
         /\ Written(slices, rep, id).quality = "ok"
<1>1. /\ rep # NoReport /\ "warn" \notin SeveritiesOf(rep, {id})
      /\ DraftAt(slices, id).quality \notin {"warn", "error"}
  BY DEF Publishable
<1>2. ASSUME NEW code \in Flaws[id]
      PROVE  FALSE
  <2>1. Issue(id, code, "warn", TRUE) \in rep
    BY DraftIssueIsFlaw
  <2>2. /\ Issue(id, code, "warn", TRUE).id = id
        /\ Issue(id, code, "warn", TRUE).severity = "warn"
    BY DEF Issue
  <2>3. "warn" \in SeveritiesOf(rep, {id})
    BY <1>1, <2>1, <2>2 DEF SeveritiesOf
  <2> QED
    BY <1>1, <2>3
<1>3. DraftAt(slices, id).quality = "unchecked"
  BY <1>1, DraftIsTyped DEF Draft
<1> QED
  BY <1>1, <1>2, <1>3 DEF Written

-----------------------------------------------------------------------------
(* Numbers, ranks and sequences.                                           *)


(* A sum of integers is one.                                               *)
LEMMA SumIsInt ==
  ASSUME NEW n \in Nat, NEW f \in [1..n -> Int]
  PROVE  Sum(f, n) \in Int
<1> DEFINE Sums(m, s) == s = [i \in 0..m |-> IF i = 0 THEN 0 ELSE s[i - 1] + f[i]]
           bad == {m \in Nat : m <= n /\ ~\E s \in [0..m -> Int] : Sums(m, s)}
<1>1. bad = {}
  <2> SUFFICES ASSUME bad # {} PROVE FALSE
    OBVIOUS
  <2>1. PICK m \in bad : \A k \in bad : m <= k
    <3>1. bad \in SUBSET Nat
      OBVIOUS
    <3> HIDE DEF bad
    <3> QED
      BY <3>1, LeastNat
  <2>2. m \in Nat /\ m <= n /\ ~\E s \in [0..m -> Int] : Sums(m, s)
    BY <2>1
  <2>3. CASE m = 0
    <3> DEFINE s == [i \in 0..0 |-> 0]
    <3>1. s \in [0..0 -> Int] /\ Sums(0, s)
      OBVIOUS
    <3> QED
      BY <2>2, <2>3, <3>1
  <2>4. CASE m # 0
    <3>1. m - 1 \in Nat /\ m - 1 <= n /\ m - 1 \notin bad
      <4>1. m - 1 \in Nat /\ m - 1 <= n /\ ~(m <= m - 1)
        BY <2>2, <2>4
      <4> HIDE DEF bad
      <4> QED
        BY <2>1, <4>1
    <3>2. PICK s \in [0..(m - 1) -> Int] : Sums(m - 1, s)
      BY <3>1
    <3> DEFINE longer == [i \in 0..m |-> IF i = m THEN s[m - 1] + f[m] ELSE s[i]]
    <3>3. m \in 1..n /\ m - 1 \in 0..(m - 1)
      BY <2>2, <2>4
    <3>4. f[m] \in Int /\ s[m - 1] \in Int
      BY <3>3
    <3>5. \A i \in 0..m : i = m \/ i \in 0..(m - 1)
      BY <2>2
    <3>6. longer \in [0..m -> Int]
      BY <3>4, <3>5
    <3>7. ASSUME NEW i \in 0..m
          PROVE  longer[i] = IF i = 0 THEN 0 ELSE longer[i - 1] + f[i]
      <4>1. CASE i = m
        BY <2>2, <2>4, <3>3, <4>1
      <4>2. CASE i \in 0..(m - 1)
        <5>1. s[i] = IF i = 0 THEN 0 ELSE s[i - 1] + f[i]
          BY <3>2, <4>2
        <5>2. i # m /\ (i # 0 => i - 1 \in 0..m /\ i - 1 # m)
          BY <2>2, <4>2
        <5> QED
          BY <5>1, <5>2
      <4> QED
        BY <3>5, <4>1, <4>2
    <3>8. Sums(m, longer)
      <4>1. DOMAIN longer = 0..m
        OBVIOUS
      <4>2. longer = [i \in 0..m |-> longer[i]]
        OBVIOUS
      <4> HIDE DEF longer
      <4> QED
        BY <3>7, <4>2
    <3> QED
      BY <2>2, <3>6, <3>8
  <2> QED
    BY <2>3, <2>4
<1>2. PICK s \in [0..n -> Int] : Sums(n, s)
  <2>1. n \notin bad
    BY <1>1
  <2>2. n <= n
    OBVIOUS
  <2> HIDE DEF Sums
  <2> QED
    BY <2>1, <2>2
<1> DEFINE sum == CHOOSE t : Sums(n, t)
<1>3. Sums(n, sum)
  <2> HIDE DEF Sums
  <2> QED
    BY <1>2
<1>4. Sum(f, n) = sum[n]
  BY DEF Sum
<1> HIDE DEF sum
<1> DEFINE wrong == {m \in Nat : m <= n /\ sum[m] # s[m]}
<1>5. wrong = {}
  <2> SUFFICES ASSUME wrong # {} PROVE FALSE
    OBVIOUS
  <2>1. PICK m \in wrong : \A k \in wrong : m <= k
    <3>1. wrong \in SUBSET Nat
      OBVIOUS
    <3> HIDE DEF wrong
    <3> QED
      BY <3>1, LeastNat
  <2>2. m \in 0..n /\ sum[m] # s[m]
    BY <2>1
  <2>3. m # 0 => m - 1 \in 0..n /\ m - 1 \notin wrong
    <3>1. m # 0 => m - 1 \in 0..n /\ ~(m <= m - 1)
      BY <2>2
    <3> HIDE DEF wrong
    <3> QED
      BY <2>1, <3>1
  <2>4. m # 0 => sum[m - 1] = s[m - 1]
    BY <2>2, <2>3
  <2> QED
    BY <1>2, <1>3, <2>2, <2>4
<1>6. n \in 0..n /\ n \notin wrong
  BY <1>5
<1>7. sum[n] = s[n] /\ s[n] \in Int
  BY <1>6
<1> QED
  BY <1>4, <1>7

(* Ranked by score: each of S once.                                        *)
LEMMA RankedIs ==
  ASSUME NEW n \in Nat, NEW S \in SUBSET (1..n), NEW score, \A x \in S : score[x] \in Int
  PROVE  /\ Cardinality(S) \in Nat
         /\ Ranked(S, score) \in Seq(S) /\ Len(Ranked(S, score)) = Cardinality(S)
         /\ DOMAIN Ranked(S, score) = 1..Cardinality(S)
         /\ \A i, j \in 1..Cardinality(S) :
              Ranked(S, score)[i] = Ranked(S, score)[j] => i = j
         /\ \A x \in S : \E i \in 1..Cardinality(S) : Ranked(S, score)[i] = x
<1> DEFINE before == ByScore(S, score)
<1>1. IsFiniteSet(S)
  BY RankIsOneToOne
<1>2. \A x, y \in S : <<x, y>> \in before <=>
        score[x] > score[y] \/ (score[x] = score[y] /\ x < y)
  BY DEF ByScore
<1>3. \A x \in S : x \in Int
  OBVIOUS
<1> HIDE DEF before
<1>4. \A x \in S : <<x, x>> \notin before
  BY <1>2, <1>3
<1>5. \A x, y \in S : x # y => <<x, y>> \in before \/ <<y, x>> \in before
  BY <1>2, <1>3
<1>6. \A x, y, z \in S : <<x, y>> \in before /\ <<y, z>> \in before => <<x, z>> \in before
  BY <1>2, <1>3
<1>7. Ranked(S, score) = InOrder(S, before)
  BY DEF Ranked, before
<1> HIDE DEF before
<1>8. /\ Cardinality(S) \in Nat
      /\ InOrder(S, before) \in Seq(S) /\ Len(InOrder(S, before)) = Cardinality(S)
      /\ DOMAIN InOrder(S, before) = 1..Cardinality(S)
      /\ \A i, j \in 1..Cardinality(S) :
           InOrder(S, before)[i] = InOrder(S, before)[j] => i = j
      /\ \A x \in S : \E i \in 1..Cardinality(S) : InOrder(S, before)[i] = x
  BY <1>1, <1>4, <1>5, <1>6, InOrderIs
<1> QED
  BY <1>7, <1>8

(* The first n of a sequence.                                              *)
LEMMA TakeIs ==
  ASSUME NEW S, NEW seq \in Seq(S), NEW n \in Nat
  PROVE  /\ Take(seq, n) \in Seq(S)
         /\ Len(Take(seq, n)) = IF Len(seq) <= n THEN Len(seq) ELSE n
         /\ DOMAIN Take(seq, n) = 1..Len(Take(seq, n))
         /\ 1..Len(Take(seq, n)) \subseteq 1..Len(seq)
         /\ \A i \in 1..Len(Take(seq, n)) : Take(seq, n)[i] = seq[i]
<1>1. CASE Len(seq) <= n
  BY <1>1, LenProperties DEF Take
<1>2. CASE ~(Len(seq) <= n)
  <2>1. Len(seq) \in Nat /\ seq \in [1..Len(seq) -> S]
    BY LenProperties
  <2>2. \A i \in 1..n : i \in 1..Len(seq) /\ seq[i] \in S
    BY <1>2, <2>1
  <2>3. Take(seq, n) = SubSeq(seq, 1, n)
    BY <1>2 DEF Take
  <2>4. /\ SubSeq(seq, 1, n) \in Seq(S)
        /\ Len(SubSeq(seq, 1, n)) = IF 1 <= n THEN n - 1 + 1 ELSE 0
        /\ \A i \in 1..(n - 1 + 1) : SubSeq(seq, 1, n)[i] = seq[1 + i - 1]
    BY <2>2, SubSeqProperties
  <2>5. Len(SubSeq(seq, 1, n)) = n
    BY <2>4
  <2>6. DOMAIN SubSeq(seq, 1, n) = 1..n
    BY <2>4, <2>5, LenProperties
  <2>7. \A i \in 1..n : SubSeq(seq, 1, n)[i] = seq[i]
    BY <2>4
  <2> QED
    BY <1>2, <2>1, <2>2, <2>3, <2>4, <2>5, <2>6, <2>7
<1> QED
  BY <1>1, <1>2

(* Values that are all different are as many as their places.              *)
LEMMA DifferentCount ==
  ASSUME NEW n \in Nat, NEW f, DOMAIN f = 1..n, \A i, j \in 1..n : f[i] = f[j] => i = j,
         NEW V, V = {f[i] : i \in 1..n}
  PROVE  IsFiniteSet(V) /\ Cardinality(V) = n
<1> DEFINE g == [i \in 1..n |-> f[i]]
<1>1. g \in Injection(1..n, V) /\ g \in Surjection(1..n, V)
  BY DEF Injection, IsInjective, Surjection
<1>2. IsFiniteSet(1..n) /\ Cardinality(1..n) = n
  BY FS_Interval
<1> HIDE DEF g
<1> QED
  BY <1>1, <1>2, FS_Surjection

-----------------------------------------------------------------------------
(* From the documents to what a question recalls.                          *)
Ids == SliceIds \cup CaseIds
ActiveIn(now) == {now[p].id : p \in {q \in Paths : now[q] # NoDoc /\ now[q].status = "active"}}

IsChunk(c) == /\ c.id \in Ids \X Nat /\ c.parent \in Ids /\ c.path \in Paths
              /\ c.status \in {"active", "review_required"}

\* What is recalled, with terms of W; if it is active its document is in A.
Hit(W, A) ==
  {r \in [chunk : Ids \X Nat, shown : Ids \X Nat, score : Int, terms : SUBSET W, parent : Ids,
          missing : BOOLEAN, status : {"active", "review_required"},
          quality : {"unchecked", "ok", "warn", "error", "none"}] :
     r.status = "active" /\ ~r.missing => r.parent \in A}

(* The document of a chunk is one that is there now.                       *)
LEMMA ParentIsThere ==
  ASSUME NEW now \in Snapshot, NEW chunk, chunk.path \in Paths
  PROVE  \E p \in Paths : ParentOf(now, chunk) = now[p]
<1> DEFINE same == {p \in DOMAIN now : now[p] # NoDoc /\ now[p].id = chunk.parent}
           last == CHOOSE p \in same : \A q \in same : ListedAfter(p, q)
<1>1. ParentOf(now, chunk) = IF same = {} THEN now[chunk.path] ELSE now[last]
  BY DEF ParentOf
<1>2. ASSUME same # {}
      PROVE  \E p \in same : \A q \in same : ListedAfter(p, q)
  <2> HIDE DEF same
  <2>1. CASE \E p \in same : p[1] # "solved" /\ p[1] # "unresolved"
    BY <2>1 DEF ListedAfter
  <2>2. CASE (\A p \in same : p[1] = "solved" \/ p[1] = "unresolved")
             /\ \E p \in same : p[1] = "unresolved"
    BY <2>2 DEF ListedAfter
  <2>3. CASE \A p \in same : p[1] = "solved"
    BY <1>2, <2>3 DEF ListedAfter
  <2> QED
    BY <2>1, <2>2, <2>3
<1>3. same # {} => last \in same
  BY <1>2
<1>4. same \subseteq Paths
  BY DEF Snapshot
<1> QED
  BY <1>1, <1>3, <1>4

(* A candidate speaks for its document as it is now.                       *)
LEMMA CandidateIsHit ==
  ASSUME NEW now \in Snapshot, NEW rep, NEW chunk, IsChunk(chunk), NEW rank \in Nat,
         NEW W, NEW terms \in SUBSET W
  PROVE  Candidate(now, rep, chunk, rank, terms) \in Hit(W, ActiveIn(now))
<1> DEFINE parent == ParentOf(now, chunk)
           quality == IF parent # NoDoc THEN QualityOf(rep, parent) ELSE "none"
<1>1. PICK p \in Paths : parent = now[p]
  BY ParentIsThere DEF IsChunk
<1>2. parent # NoDoc => parent \in Document
  BY <1>1 DEF Snapshot
<1>3. parent # NoDoc /\ parent.status = "active" => parent.id \in ActiveIn(now)
  BY <1>1 DEF ActiveIn
<1>4. quality \in {"unchecked", "ok", "warn", "error", "none"}
  BY <1>2 DEF QualityOf, Document
<1>5. Share(rank) \in Int
  BY DEF Share
<1>6. Candidate(now, rep, chunk, rank, terms) =
        [chunk |-> chunk.id, shown |-> chunk.id, score |-> Share(rank), terms |-> terms,
         parent |-> IF parent # NoDoc THEN parent.id ELSE chunk.parent,
         missing |-> ~(parent # NoDoc),
         status |-> IF parent # NoDoc THEN parent.status ELSE chunk.status,
         quality |-> quality]
  BY DEF Candidate
<1> HIDE DEF parent, quality
<1>7. CASE parent # NoDoc
  <2>1. Candidate(now, rep, chunk, rank, terms) =
          [chunk |-> chunk.id, shown |-> chunk.id, score |-> Share(rank), terms |-> terms,
           parent |-> parent.id, missing |-> FALSE, status |-> parent.status,
           quality |-> quality]
    BY <1>6, <1>7
  <2> QED
    BY <1>2, <1>3, <1>4, <1>5, <1>7, <2>1 DEF Hit, IsChunk, Document, Ids
<1>8. CASE parent = NoDoc
  <2>1. Candidate(now, rep, chunk, rank, terms) =
          [chunk |-> chunk.id, shown |-> chunk.id, score |-> Share(rank), terms |-> terms,
           parent |-> chunk.parent, missing |-> TRUE, status |-> chunk.status,
           quality |-> quality]
    BY <1>6, <1>8
  <2> QED
    BY <1>4, <1>5, <2>1 DEF Hit, IsChunk
<1> QED
  BY <1>7, <1>8

(* The chunks of an index are finitely many, each of a document in it.     *)
LEMMA ChunksAre ==
  ASSUME NEW now \in Snapshot
  PROVE  \E n \in Nat : DOMAIN Chunks(now) = 1..n /\ \A i \in 1..n : IsChunk(Chunks(now)[i])
<1> DEFINE listed == {k \in DOMAIN Listing : now[Listing[k]] # NoDoc}
           DocAt(k) == now[Listing[k]]
           places == UNION {{k} \X DOMAIN ChildrenOf[DocAt(k).id] : k \in listed}
           before == {p \in places \X places : \/ p[1][1] < p[2][1]
                                               \/ p[1][1] = p[2][1] /\ p[1][2] < p[2][2]}
           order == InOrder(places, before)
           ChunkAt(k, m) ==
             LET child == ChildrenOf[DocAt(k).id][m]
             IN  [id |-> <<DocAt(k).id, m>>, parent |-> DocAt(k).id, path |-> Listing[k],
                  words |-> {s[1] : s \in Range(Flat(child.text))},
                  status |-> DocAt(k).status, quality |-> DocAt(k).quality,
                  small |-> child.small, manual |-> child.manual]
<1>1. Chunks(now) = [i \in DOMAIN order |-> ChunkAt(order[i][1], order[i][2])]
  BY DEF Chunks
<1>2. IsFiniteSet(DOMAIN Listing) /\ DOMAIN Listing \subseteq Nat
  <2>1. DOMAIN Listing = 1..Len(Listing) /\ Len(Listing) \in Nat
    BY ListingAssumption
  <2> QED
    BY <2>1, FS_Interval
<1>3. ASSUME NEW k \in listed
      PROVE  /\ DocAt(k) \in Document /\ Listing[k] \in Paths /\ k \in Nat
             /\ IsFiniteSet(DOMAIN ChildrenOf[DocAt(k).id])
             /\ DOMAIN ChildrenOf[DocAt(k).id] \subseteq Nat
  <2>1. Listing[k] \in Paths /\ k \in Nat
    BY <1>2 DEF Paths, Range
  <2>2. DocAt(k) \in Document
    BY <2>1 DEF Snapshot
  <2>3. DocAt(k).id \in SliceIds \cup CaseIds
    BY <2>2 DEF Document
  <2> DEFINE c == ChildrenOf[DocAt(k).id]
  <2>4. c \in Seq(Range(c))
    BY <2>3, ChildrenAssumption
  <2> HIDE DEF c
  <2>5. DOMAIN c = 1..Len(c) /\ Len(c) \in Nat
    BY <2>4
  <2>6. IsFiniteSet(DOMAIN c) /\ DOMAIN c \subseteq Nat
    BY <2>5, FS_Interval
  <2> QED
    BY <2>1, <2>2, <2>6 DEF c
<1> DEFINE at == [k \in listed |-> {k} \X DOMAIN ChildrenOf[DocAt(k).id]]
           all == {at[k] : k \in listed}
<1> HIDE DEF DocAt
<1>4. IsFiniteSet(places)
  <2>1. IsFiniteSet(listed)
    BY <1>2, FS_Subset
  <2> HIDE DEF listed
  <2>2. at \in Surjection(listed, all)
    BY DEF Surjection
  <2>3. IsFiniteSet(all)
    BY <2>1, <2>2, FS_Surjection
  <2>4. \A T \in all : IsFiniteSet(T)
    <3> SUFFICES ASSUME NEW k \in listed PROVE IsFiniteSet(at[k])
      OBVIOUS
    <3>1. IsFiniteSet({k}) /\ IsFiniteSet(DOMAIN ChildrenOf[DocAt(k).id])
      BY <1>3, FS_Singleton
    <3>2. IsFiniteSet({k} \X DOMAIN ChildrenOf[DocAt(k).id])
      BY <3>1, FS_Product
    <3> QED
      BY <3>2
  <2>5. IsFiniteSet(UNION all)
    BY <2>3, <2>4, FS_UNION
  <2> QED
    BY <2>5
<1>5. \A p \in places : /\ p[1] \in listed /\ p[2] \in DOMAIN ChildrenOf[DocAt(p[1]).id]
                        /\ p = <<p[1], p[2]>> /\ p[1] \in Nat /\ p[2] \in Nat
  <2> SUFFICES ASSUME NEW p \in places
               PROVE  /\ p[1] \in listed /\ p[2] \in DOMAIN ChildrenOf[DocAt(p[1]).id]
                      /\ p = <<p[1], p[2]>> /\ p[1] \in Nat /\ p[2] \in Nat
    OBVIOUS
  <2> HIDE DEF listed
  <2>1. PICK k \in listed : p \in {k} \X DOMAIN ChildrenOf[DocAt(k).id]
    OBVIOUS
  <2> QED
    BY <1>3, <2>1
<1>6. \A p, q \in places : <<p, q>> \in before <=> p[1] < q[1] \/ (p[1] = q[1] /\ p[2] < q[2])
  <2> HIDE DEF places
  <2> QED
    OBVIOUS
<1> HIDE DEF before, places, listed
<1>7. \A p \in places : <<p, p>> \notin before
  BY <1>5, <1>6
<1>8. \A p, q \in places : p # q => <<p, q>> \in before \/ <<q, p>> \in before
  BY <1>5, <1>6
<1>9. \A p, q, r \in places : <<p, q>> \in before /\ <<q, r>> \in before => <<p, r>> \in before
  <2>1. \A p \in places : p[1] \in Nat /\ p[2] \in Nat
    BY <1>5
  <2> QED
    BY <1>6, <2>1
<1>10. /\ Cardinality(places) \in Nat /\ order \in Seq(places)
       /\ Len(order) = Cardinality(places) /\ DOMAIN order = 1..Cardinality(places)
  BY <1>4, <1>7, <1>8, <1>9, InOrderIs
<1>11. \A k \in listed : \A m \in Nat : IsChunk(ChunkAt(k, m))
  BY <1>3 DEF IsChunk, Document, Ids
<1>12. \A i \in 1..Cardinality(places) : order[i] \in places
  BY <1>10
<1> HIDE DEF ChunkAt, order
<1>13. \A i \in 1..Cardinality(places) : IsChunk(Chunks(now)[i])
  BY <1>1, <1>5, <1>10, <1>11, <1>12
<1> QED
  BY <1>1, <1>10, <1>13

(* Of the places of some chunks, the ones that are hit.                    *)
LEMMA HitsAre ==
  ASSUME NEW chunks, NEW n \in Nat, NEW some \in SUBSET (1..n), NEW words, IsFiniteSet(words)
  PROVE  \E m \in Nat : Hits(chunks, some, words) \in [1..m -> 1..n]
<1> DEFINE shared == [i \in some |-> Cardinality(chunks[i].words \cap words)]
           hit == {i \in some : shared[i] > 0}
           hits == Hits(chunks, some, words)
<1>1. hits = Take(Ranked(hit, shared), RecallLimit)
  BY DEF Hits
<1>2. \A i \in some : shared[i] \in Int
  <2> SUFFICES ASSUME NEW i \in some PROVE shared[i] \in Int
    OBVIOUS
  <2>1. IsFiniteSet(chunks[i].words \cap words)
    BY FS_Intersection
  <2>2. Cardinality(chunks[i].words \cap words) \in Nat
    BY <2>1, FS_CardinalityType
  <2> QED
    BY <2>2
<1>3. hit \in SUBSET (1..n) /\ \A i \in hit : shared[i] \in Int
  BY <1>2
<1> HIDE DEF shared, hit, hits
<1>4. Ranked(hit, shared) \in Seq(hit)
  BY <1>3, RankedIs
<1>5. Ranked(hit, shared) \in Seq(1..n)
  BY <1>3, <1>4, SeqMonotonic
<1>6. RecallLimit \in Nat
  BY LimitsAssumption
<1>7. hits \in Seq(1..n)
  BY <1>1, <1>5, <1>6, TakeIs
<1>8. Len(hits) \in Nat /\ hits \in [1..Len(hits) -> 1..n]
  BY <1>7, LenProperties
<1> QED
  BY <1>8 DEF hits

(* A chunk that is named is one of them.                                   *)
LEMMA NamedIsChunk ==
  ASSUME NEW chunks, NEW n \in Nat, DOMAIN chunks = 1..n, \A i \in 1..n : IsChunk(chunks[i]),
         NEW i \in 1..n
  PROVE  IsChunk(Named(chunks, chunks[i].id))
<1> DEFINE same == {j \in DOMAIN chunks : chunks[j].id = chunks[i].id}
<1>1. same \in SUBSET (1..n) /\ i \in same
  OBVIOUS
<1>2. Named(chunks, chunks[i].id) = chunks[Max(same)]
  BY DEF Named
<1> HIDE DEF same
<1>3. \E m \in same : \A k \in same : k <= m
  BY <1>1, Greatest
<1>4. \A k, m \in same : k <= m <=> m >= k
  BY <1>1
<1>5. Max(same) \in same
  BY <1>3, <1>4 DEF Max
<1> QED
  BY <1>1, <1>2, <1>5

(* Whatever the question, what is recalled speaks for the documents there  *)
(* are now.                                                                *)
LEMMA RecalledAreHits ==
  ASSUME NEW indexed \in Snapshot, NEW now \in Snapshot, NEW rep, NEW q \in Questions
  PROVE  \E W : /\ RecallLexical(Chunks(indexed), now, rep, q) \in Seq(Hit(W, ActiveIn(now)))
                /\ RecallSemantic(Chunks(indexed), now, rep, q) \in Seq(Hit(W, ActiveIn(now)))
<1> DEFINE chunks == Chunks(indexed)
           live == {i \in DOMAIN chunks : chunks[i].status = "active"}
           vectors == {i \in DOMAIN chunks :
                         /\ EligibleForEmbedding(chunks[i])
                         /\ MayBeQuoted(now, rep, Named(chunks, chunks[i].id))}
           W == q.exact
<1>1. PICK n \in Nat : DOMAIN chunks = 1..n /\ \A i \in 1..n : IsChunk(chunks[i])
  BY ChunksAre
<1>2. live \in SUBSET (1..n) /\ vectors \in SUBSET (1..n)
  BY <1>1
<1>3. IsFiniteSet(q.exact) /\ IsFiniteSet(q.near)
  BY QuestionsAssumption
<1>4. RecallLexical(chunks, now, rep, q) \in Seq(Hit(W, ActiveIn(now)))
  <2> DEFINE hits == Hits(chunks, live, q.exact)
             made == [k \in DOMAIN hits |->
                        Candidate(now, rep, Named(chunks, chunks[hits[k]].id), k,
                                  chunks[hits[k]].words \cap q.exact)]
  <2>1. RecallLexical(chunks, now, rep, q) = made
    BY DEF RecallLexical
  <2> HIDE DEF chunks, live
  <2>2. PICK m \in Nat : hits \in [1..m -> 1..n]
    BY <1>2, <1>3, HitsAre
  <2> HIDE DEF hits
  <2>3. DOMAIN hits = 1..m /\ \A k \in 1..m : hits[k] \in 1..n /\ k \in Nat
    BY <2>2
  <2>4. ASSUME NEW k \in 1..m
        PROVE  made[k] \in Hit(W, ActiveIn(now))
    <3>1. IsChunk(Named(chunks, chunks[hits[k]].id))
      BY <1>1, <2>3, NamedIsChunk
    <3>2. chunks[hits[k]].words \cap q.exact \in SUBSET W
      OBVIOUS
    <3>3. Candidate(now, rep, Named(chunks, chunks[hits[k]].id), k,
                    chunks[hits[k]].words \cap q.exact)
            \in Hit(W, ActiveIn(now))
      BY <2>3, <3>1, <3>2, CandidateIsHit
    <3> QED
      BY <2>3, <3>3
  <2>5. made \in [1..m -> Hit(W, ActiveIn(now))]
    BY <2>3, <2>4
  <2>6. made \in Seq(Hit(W, ActiveIn(now)))
    BY <2>5, SeqDef
  <2> QED
    BY <2>1, <2>6
<1>5. RecallSemantic(chunks, now, rep, q) \in Seq(Hit(W, ActiveIn(now)))
  <2> DEFINE hits == Hits(chunks, vectors, q.near)
             made == [k \in DOMAIN hits |->
                        Candidate(now, rep, Named(chunks, chunks[hits[k]].id), k, {})]
  <2>1. RecallSemantic(chunks, now, rep, q) = made
    BY DEF RecallSemantic
  <2> HIDE DEF chunks, vectors
  <2>2. PICK m \in Nat : hits \in [1..m -> 1..n]
    BY <1>2, <1>3, HitsAre
  <2> HIDE DEF hits
  <2>3. DOMAIN hits = 1..m /\ \A k \in 1..m : hits[k] \in 1..n /\ k \in Nat
    BY <2>2
  <2>4. ASSUME NEW k \in 1..m
        PROVE  made[k] \in Hit(W, ActiveIn(now))
    <3>1. IsChunk(Named(chunks, chunks[hits[k]].id))
      BY <1>1, <2>3, NamedIsChunk
    <3>2. {} \in SUBSET W
      OBVIOUS
    <3>3. Candidate(now, rep, Named(chunks, chunks[hits[k]].id), k, {})
            \in Hit(W, ActiveIn(now))
      BY <2>3, <3>1, <3>2, CandidateIsHit
    <3> QED
      BY <2>3, <3>3
  <2>5. made \in [1..m -> Hit(W, ActiveIn(now))]
    BY <2>3, <2>4
  <2>6. made \in Seq(Hit(W, ActiveIn(now)))
    BY <2>5, SeqDef
  <2> QED
    BY <2>1, <2>6
<1> QED
  BY <1>4, <1>5

-----------------------------------------------------------------------------
(* From what was recalled to the results.                                  *)

(* The first place among those that are alike.                             *)
LEMMA FirstOfAlike ==
  ASSUME NEW n \in Nat, NEW alike \in SUBSET (1..n), alike # {}
  PROVE  \E i \in alike : \A j \in alike : i <= j
<1>1. alike \in SUBSET Nat
  OBVIOUS
<1> QED
  BY <1>1, LeastNat

(* The fusion ranks what was recalled.                                     *)
LEMMA FusedAreHits ==
  ASSUME NEW W, NEW A, NEW recalled \in Seq(Hit(W, A))
  PROVE  Fused(recalled) \in Seq(Hit(W, A))
<1> DEFINE n == Len(recalled)
           Same(i) == {j \in DOMAIN recalled : recalled[j].chunk = recalled[i].chunk}
           firsts == {i \in DOMAIN recalled : \A j \in Same(i) : i <= j}
           shares(i) == [j \in DOMAIN recalled |-> IF j \in Same(i) THEN recalled[j].score ELSE 0]
           scores == [i \in firsts |-> Sum(shares(i), Len(recalled))]
           Terms(i) == UNION {recalled[j].terms : j \in Same(i)}
           Whole(i) == [[recalled[i] EXCEPT !.score = scores[i]] EXCEPT !.terms = Terms(i)]
           order == Ranked(firsts, scores)
<1>1. Fused(recalled) = [k \in DOMAIN order |-> Whole(order[k])]
  BY DEF Fused
<1>2. n \in Nat /\ DOMAIN recalled = 1..n /\ \A i \in 1..n : recalled[i] \in Hit(W, A)
  <2> HIDE DEF Hit
  <2> QED
    BY LenProperties
<1>3. \A i \in 1..n : recalled[i].score \in Int /\ recalled[i].terms \in SUBSET W
  BY <1>2 DEF Hit
<1>4. ASSUME NEW i \in firsts
      PROVE  scores[i] \in Int
  <2>1. shares(i) \in [1..n -> Int]
    BY <1>2, <1>3
  <2> HIDE DEF shares, n
  <2>2. Sum(shares(i), n) \in Int
    BY <1>2, <2>1, SumIsInt
  <2> QED
    BY <2>2 DEF n
<1>5. \A i \in 1..n : Terms(i) \in SUBSET W
  BY <1>2, <1>3
<1>6. firsts \in SUBSET (1..n)
  BY <1>2
<1> HIDE DEF scores, Terms
<1>7. \A i \in firsts : Whole(i) \in Hit(W, A)
  <2> SUFFICES ASSUME NEW i \in firsts PROVE Whole(i) \in Hit(W, A)
    OBVIOUS
  <2>1. recalled[i] \in Hit(W, A) /\ scores[i] \in Int /\ Terms(i) \in SUBSET W
    BY <1>2, <1>4, <1>5, <1>6
  <2> QED
    BY <2>1 DEF Hit
<1> HIDE DEF Whole, n, firsts, Hit
<1>8. /\ Cardinality(firsts) \in Nat /\ order \in Seq(firsts)
      /\ Len(order) = Cardinality(firsts) /\ DOMAIN order = 1..Cardinality(firsts)
  BY <1>2, <1>4, <1>6, RankedIs
<1>9. \A k \in 1..Cardinality(firsts) : order[k] \in firsts
  BY <1>8, LenProperties
<1> HIDE DEF order
<1>10. Fused(recalled) \in [1..Cardinality(firsts) -> Hit(W, A)]
  BY <1>1, <1>7, <1>8, <1>9
<1> QED
  BY <1>8, <1>10, SeqDef

\* Each is of another document.
OnePerDocument(seq) ==
  \A i, j \in DOMAIN seq : seq[i].parent = seq[j].parent => i = j
ParentsOf(seq) == {seq[i].parent : i \in DOMAIN seq}

(* One candidate is kept for each document, and none for any other.        *)
LEMMA DedupedAre ==
  ASSUME NEW W, NEW A, NEW top \in Seq(Hit(W, A))
  PROVE  /\ DedupedByParent(top) \in Seq(Hit(W, A))
         /\ OnePerDocument(DedupedByParent(top))
         /\ ParentsOf(DedupedByParent(top)) = ParentsOf(top)
<1> DEFINE n == Len(top)
           Alike(i) == {j \in DOMAIN top : top[j].parent = top[i].parent}
           firsts == {i \in DOMAIN top : \A j \in Alike(i) : i <= j}
           Terms(some) == UNION {top[j].terms : j \in some}
           Stronger(i) ==
             {j \in Alike(i) :
                \/ j = i
                \/ Cardinality(top[j].terms) > Cardinality(Terms({k \in Alike(i) : k < j}))}
           Shown(i) == top[Max(Stronger(i))].shown
           Whole(i) == [[top[i] EXCEPT !.terms = Terms(Alike(i))] EXCEPT !.shown = Shown(i)]
           order == Ascending(firsts)
           kept == DedupedByParent(top)
<1>1. kept = [k \in DOMAIN order |-> Whole(order[k])]
  BY DEF DedupedByParent
<1>2. n \in Nat /\ DOMAIN top = 1..n /\ \A i \in 1..n : top[i] \in Hit(W, A)
  <2> HIDE DEF Hit
  <2> QED
    BY LenProperties
<1>3. \A i \in 1..n : top[i].shown \in Ids \X Nat /\ top[i].terms \in SUBSET W
  BY <1>2 DEF Hit
<1>4. \A i \in 1..n : Terms(Alike(i)) \in SUBSET W
  BY <1>2, <1>3
<1>5. ASSUME NEW i \in 1..n
      PROVE  Shown(i) \in Ids \X Nat
  <2>1. Stronger(i) \in SUBSET (1..n) /\ i \in Stronger(i)
    BY <1>2
  <2> DEFINE S == Stronger(i)
  <2> HIDE DEF Stronger
  <2>2. \E m \in S : \A k \in S : k <= m
    BY <1>2, <2>1, Greatest
  <2>3. \A k, m \in S : k <= m <=> m >= k
    BY <2>1
  <2>4. Max(S) \in S
    BY <2>2, <2>3 DEF Max
  <2> QED
    BY <1>3, <2>1, <2>4
<1>6. firsts \in SUBSET (1..n)
  BY <1>2
<1> HIDE DEF Terms, Shown
<1>7. \A i \in firsts : Whole(i) \in Hit(W, A) /\ Whole(i).parent = top[i].parent
  <2> SUFFICES ASSUME NEW i \in firsts
               PROVE  Whole(i) \in Hit(W, A) /\ Whole(i).parent = top[i].parent
    OBVIOUS
  <2>1. /\ top[i] \in Hit(W, A) /\ Terms(Alike(i)) \in SUBSET W
        /\ Shown(i) \in Ids \X Nat
    BY <1>2, <1>4, <1>5, <1>6
  <2> HIDE DEF Alike
  <2> QED
    BY <2>1 DEF Hit
<1>8. \A i, j \in firsts : top[i].parent = top[j].parent => i = j
  <2> SUFFICES ASSUME NEW i \in firsts, NEW j \in firsts, top[i].parent = top[j].parent
               PROVE  i = j
    OBVIOUS
  <2>1. i <= j /\ j <= i
    OBVIOUS
  <2> QED
    BY <1>6, <2>1
<1>9. ASSUME NEW j \in 1..n
      PROVE  \E i \in firsts : top[i].parent = top[j].parent
  <2>1. Alike(j) \in SUBSET (1..n) /\ j \in Alike(j)
    BY <1>2
  <2>2. PICK i \in Alike(j) : \A k \in Alike(j) : i <= k
    <3> HIDE DEF Alike
    <3> QED
      BY <1>2, <2>1, FirstOfAlike
  <2>3. Alike(i) = Alike(j) /\ i \in DOMAIN top
    BY <2>2
  <2>4. i \in firsts
    BY <2>2, <2>3
  <2> QED
    BY <2>2, <2>4
<1> DEFINE N == Cardinality(firsts)
<1> HIDE DEF Whole, n, firsts, Hit
<1>10. N \in Nat /\ order \in [1..N -> firsts] /\ \A c \in firsts : \E i \in 1..N : order[i] = c
  BY <1>2, <1>6, AscendingIs, RankIsOneToOne
<1>11. \A i, j \in 1..N : order[i] = order[j] => i = j
  <2>1. \A i \in 1..N : Rank(firsts, order[i]) = i
    BY <1>2, <1>6, AscendingIs
  <2> QED
    BY <2>1
<1> HIDE DEF order, kept, N
<1>12. DOMAIN kept = 1..N /\ kept \in [1..N -> Hit(W, A)]
  BY <1>1, <1>7, <1>10
<1>13. \A k \in 1..N : kept[k].parent = top[order[k]].parent /\ order[k] \in firsts
  BY <1>1, <1>7, <1>10
<1>14. kept \in Seq(Hit(W, A))
  BY <1>10, <1>12, SeqDef
<1>15. OnePerDocument(kept)
  BY <1>8, <1>11, <1>12, <1>13 DEF OnePerDocument
<1>16. ParentsOf(kept) = ParentsOf(top)
  <2>1. \A k \in 1..N : order[k] \in 1..n
    BY <1>6, <1>13
  <2>2. \A j \in 1..n : \E k \in 1..N : kept[k].parent = top[j].parent
    BY <1>9, <1>10, <1>13
  <2>3. \A k \in 1..N : kept[k].parent \in ParentsOf(top)
    BY <1>2, <1>13, <2>1 DEF ParentsOf
  <2>4. \A j \in 1..n : top[j].parent \in ParentsOf(kept)
    BY <1>12, <2>2 DEF ParentsOf
  <2>5. ParentsOf(kept) \subseteq ParentsOf(top)
    BY <1>12, <2>3 DEF ParentsOf
  <2>6. ParentsOf(top) \subseteq ParentsOf(kept)
    BY <1>2, <2>4 DEF ParentsOf
  <2> QED
    BY <2>5, <2>6
<1> QED
  BY <1>14, <1>15, <1>16 DEF kept

(* A score scaled to its batch is a number.                                *)
LEMMA ScaledIsInt ==
  ASSUME NEW V \in SUBSET Int, IsFiniteSet(V), NEW v \in V
  PROVE  Scaled(v, V) \in Int
<1>1. /\ Max(V) \in Int /\ Min(V) \in Int /\ v \in Int /\ Min(V) <= v /\ v <= Max(V)
  BY ExtremesExist
<1>2. CASE Max(V) = Min(V)
  BY <1>2 DEF Scaled
<1>3. CASE Max(V) # Min(V)
  <2> DEFINE a == (v - Min(V)) * 1000
             b == Max(V) - Min(V)
  <2>1. a \in Int /\ b \in Int /\ b > 0
    BY <1>1, <1>3
  <2> HIDE DEF a, b
  <2>2. a \div b \in Int
    BY <2>1
  <2> QED
    BY <1>3, <2>2 DEF Scaled, a, b
<1> QED
  BY <1>2, <1>3

(* Whatever a reranker answers, every candidate comes back, and once.      *)
LEMMA RerankedAre ==
  ASSUME NEW W, NEW A, NEW kept \in Seq(Hit(W, A)), OnePerDocument(kept),
         NEW answer \in RerankAnswers
  PROVE  /\ Reranked(kept, answer) \in Seq(Hit(W, A))
         /\ Len(Reranked(kept, answer)) = Len(kept)
         /\ OnePerDocument(Reranked(kept, answer))
         /\ ParentsOf(Reranked(kept, answer)) \subseteq ParentsOf(kept)
<1> DEFINE n == Len(kept)
           m == Len(answer)
           known == {i \in DOMAIN answer :
                       /\ answer[i].place \in DOMAIN kept
                       /\ \A j \in DOMAIN answer : j < i => answer[j].place # answer[i].place}
           paid == {answer[i].place : i \in known}
           Of(i) == kept[answer[i].place]
           given == {answer[j].score : j \in known}
           had == {Of(j).score : j \in known}
           weights == [i \in known |-> 7 * Scaled(answer[i].score, given)
                                       + 3 * Scaled(Of(i).score, had)]
           front == Ranked(known, weights)
           rest == Ascending(DOMAIN kept \ paid)
           first == [k \in DOMAIN front |-> [Of(front[k]) EXCEPT !.score = weights[front[k]]]]
           second == [k \in DOMAIN rest |-> kept[rest[k]]]
           all == Reranked(kept, answer)
<1>1. all = first \o second
  BY DEF Reranked
<1>2. n \in Nat /\ DOMAIN kept = 1..n /\ \A i \in 1..n : kept[i] \in Hit(W, A)
  <2> HIDE DEF Hit
  <2> QED
    BY LenProperties
<1>3. \A i \in 1..n : kept[i].score \in Int
  BY <1>2 DEF Hit
<1>4. m \in Nat /\ DOMAIN answer = 1..m /\ \A i \in 1..m : answer[i].score \in Int
  BY AnswersAssumption
<1>5. known \in SUBSET (1..m) /\ \A i \in known : answer[i].place \in 1..n
  BY <1>2, <1>4
<1>6. paid \in SUBSET (1..n)
  BY <1>5
<1>7. ASSUME NEW i \in known, NEW j \in known, answer[i].place = answer[j].place
      PROVE  i = j
  <2>1. ~(i < j) /\ ~(j < i)
    BY <1>7
  <2> QED
    BY <1>5, <2>1
<1> DEFINE N == Cardinality(known)
<1>8. IsFiniteSet(known) /\ N \in Nat
  BY <1>4, <1>5, RankIsOneToOne
<1>9. IsFiniteSet(paid) /\ Cardinality(paid) = N
  <2> DEFINE place == [i \in known |-> answer[i].place]
  <2>1. place \in Injection(known, paid) /\ place \in Surjection(known, paid)
    BY <1>7 DEF Injection, IsInjective, Surjection
  <2> HIDE DEF place, known, paid
  <2> QED
    BY <1>8, <2>1, FS_Surjection
<1>10. \A i \in known : weights[i] \in Int
  <2>1. given \in SUBSET Int /\ IsFiniteSet(given)
    <3> DEFINE g == [i \in known |-> answer[i].score]
    <3>1. g \in Surjection(known, given)
      BY DEF Surjection
    <3>2. given \in SUBSET Int
      BY <1>4, <1>5
    <3> HIDE DEF g, known, given
    <3> QED
      BY <1>8, <3>1, <3>2, FS_Surjection
  <2>2. had \in SUBSET Int /\ IsFiniteSet(had)
    <3> DEFINE g == [i \in known |-> Of(i).score]
    <3>1. g \in Surjection(known, had)
      BY DEF Surjection
    <3>2. had \in SUBSET Int
      BY <1>3, <1>5
    <3> HIDE DEF g, known, had
    <3> QED
      BY <1>8, <3>1, <3>2, FS_Surjection
  <2>3. \A i \in known : answer[i].score \in given /\ Of(i).score \in had
    OBVIOUS
  <2> SUFFICES ASSUME NEW i \in known PROVE weights[i] \in Int
    OBVIOUS
  <2> HIDE DEF given, had, known
  <2>4. Scaled(answer[i].score, given) \in Int /\ Scaled(Of(i).score, had) \in Int
    BY <2>1, <2>2, <2>3, ScaledIsInt
  <2> QED
    BY <2>4
<1> DEFINE others == DOMAIN kept \ paid
           R == Cardinality(others)
<1>11. others \in SUBSET (1..n) /\ R = n - N /\ R \in Nat
  <2> HIDE DEF n
  <2>1. IsFiniteSet(1..n) /\ Cardinality(1..n) = n
    BY <1>2, FS_Interval
  <2> HIDE DEF paid
  <2>2. (1..n) \cap paid = paid
    BY <1>6
  <2>3. others = (1..n) \ paid
    BY <1>2
  <2>4. Cardinality(others) = n - Cardinality(paid) /\ IsFiniteSet(others)
    BY <2>1, <2>2, <2>3, FS_Difference
  <2>5. Cardinality(others) \in Nat
    BY <2>4, FS_CardinalityType
  <2> QED
    BY <1>9, <2>3, <2>4, <2>5
<1> HIDE DEF weights
<1>12. front \in [1..N -> known] /\ \A i, j \in 1..N : front[i] = front[j] => i = j
  <2> HIDE DEF known, m
  <2>1. /\ front \in Seq(known) /\ Len(front) = N /\ DOMAIN front = 1..N
        /\ \A i, j \in 1..N : front[i] = front[j] => i = j
    BY <1>4, <1>5, <1>10, RankedIs
  <2> HIDE DEF front
  <2> QED
    BY <2>1, LenProperties
<1>13. rest \in [1..R -> others] /\ \A i, j \in 1..R : rest[i] = rest[j] => i = j
  <2> HIDE DEF others, n
  <2>1. rest \in [1..R -> others] /\ \A i \in 1..R : Rank(others, rest[i]) = i
    BY <1>2, <1>11, AscendingIs DEF others
  <2> HIDE DEF rest
  <2> QED
    BY <2>1
<1> DEFINE At(k) == IF k <= N THEN answer[front[k]].place ELSE rest[k - N]
<1> HIDE DEF front, rest, n, m, known, N, R
<1>14. /\ first \in [1..N -> Hit(W, A)]
       /\ \A k \in 1..N : first[k].parent = kept[answer[front[k]].place].parent
  <2>1. \A k \in 1..N : /\ front[k] \in known /\ Of(front[k]) \in Hit(W, A)
                        /\ weights[front[k]] \in Int
    BY <1>2, <1>5, <1>10, <1>12
  <2>2. \A k \in 1..N : /\ [Of(front[k]) EXCEPT !.score = weights[front[k]]] \in Hit(W, A)
                        /\ [Of(front[k]) EXCEPT !.score = weights[front[k]]].parent
                             = Of(front[k]).parent
    <3> SUFFICES ASSUME NEW k \in 1..N, NEW r \in Hit(W, A), NEW w \in Int,
                        r = Of(front[k]), w = weights[front[k]]
                 PROVE  [r EXCEPT !.score = w] \in Hit(W, A)
                        /\ [r EXCEPT !.score = w].parent = r.parent
      BY <2>1
    <3> QED
      BY DEF Hit
  <2>3. DOMAIN front = 1..N
    BY <1>12
  <2> HIDE DEF Hit
  <2> QED
    BY <2>2, <2>3
<1>15. second \in [1..R -> Hit(W, A)] /\ \A k \in 1..R : second[k].parent = kept[rest[k]].parent
  <2>1. \A k \in 1..R : rest[k] \in 1..n
    BY <1>11, <1>13
  <2>2. DOMAIN rest = 1..R
    BY <1>13
  <2> HIDE DEF Hit
  <2> QED
    BY <1>2, <2>1, <2>2
<1> HIDE DEF first, second, Hit, all
<1>16. /\ first \in Seq(Hit(W, A)) /\ second \in Seq(Hit(W, A))
       /\ Len(first) = N /\ Len(second) = R
  <2>1. first \in Seq(Hit(W, A)) /\ second \in Seq(Hit(W, A))
    BY <1>8, <1>11, <1>14, <1>15, SeqDef
  <2> QED
    BY <1>8, <1>11, <1>14, <1>15, <2>1, LenProperties
<1>17. /\ all \in Seq(Hit(W, A)) /\ Len(all) = N + R
       /\ \A k \in 1..(N + R) : all[k] = IF k <= N THEN first[k] ELSE second[k - N]
  BY <1>1, <1>16, ConcatProperties
<1>18. Len(all) = n /\ DOMAIN all = 1..n
  BY <1>2, <1>8, <1>11, <1>17, LenProperties
<1>19. \A k \in 1..n : all[k].parent = kept[At(k)].parent /\ At(k) \in 1..n
  <2> SUFFICES ASSUME NEW k \in 1..n PROVE all[k].parent = kept[At(k)].parent /\ At(k) \in 1..n
    OBVIOUS
  <2>1. CASE k <= N
    <3>1. k \in 1..N
      BY <1>2, <1>8, <2>1
    <3>2. front[k] \in known
      BY <1>12, <3>1
    <3>3. k \in 1..(N + R) /\ At(k) = answer[front[k]].place
      BY <1>8, <1>11, <2>1, <3>1
    <3>4. all[k] = first[k]
      BY <1>17, <2>1, <3>3
    <3>5. At(k) \in 1..n
      BY <1>5, <3>2, <3>3
    <3> QED
      BY <1>14, <3>1, <3>3, <3>4, <3>5
  <2>2. CASE ~(k <= N)
    <3>1. k - N \in 1..R
      BY <1>2, <1>8, <1>11, <2>2
    <3>2. rest[k - N] \in 1..n
      BY <1>11, <1>13, <3>1
    <3> QED
      BY <1>8, <1>11, <1>15, <1>17, <2>2, <3>1, <3>2
  <2> QED
    BY <2>1, <2>2
<1>20. ASSUME NEW k \in 1..n, NEW l \in 1..n, At(k) = At(l)
       PROVE  k = l
  <2>1. \A x \in 1..n : x <= N => x \in 1..N /\ At(x) = answer[front[x]].place /\ At(x) \in paid
    <3> SUFFICES ASSUME NEW x \in 1..n, x <= N
                 PROVE  x \in 1..N /\ At(x) = answer[front[x]].place /\ At(x) \in paid
      OBVIOUS
    <3>1. x \in 1..N
      BY <1>2, <1>8
    <3> QED
      BY <1>12, <3>1
  <2>2. \A x \in 1..n : ~(x <= N) => x - N \in 1..R /\ At(x) = rest[x - N] /\ At(x) \in others
    <3> SUFFICES ASSUME NEW x \in 1..n, ~(x <= N)
                 PROVE  x - N \in 1..R /\ At(x) = rest[x - N] /\ At(x) \in others
      OBVIOUS
    <3>1. x - N \in 1..R
      BY <1>2, <1>8, <1>11
    <3> QED
      BY <1>13, <3>1
  <2> HIDE DEF At
  <2>3. CASE k <= N /\ l <= N
    <3>1. front[k] = front[l]
      <4>1. front[k] \in known /\ front[l] \in known
        BY <1>12, <2>1, <2>3
      <4> QED
        BY <1>7, <1>20, <2>1, <2>3, <4>1
    <3> QED
      BY <1>12, <2>1, <2>3, <3>1
  <2>4. CASE ~(k <= N) /\ ~(l <= N)
    <3>1. k - N = l - N
      BY <1>13, <1>20, <2>2, <2>4
    <3> QED
      BY <1>2, <1>8, <3>1
  <2>5. CASE (k <= N) # (l <= N)
    BY <1>20, <2>1, <2>2, <2>5
  <2> QED
    BY <2>3, <2>4, <2>5
<1> HIDE DEF At
<1>21. OnePerDocument(all)
  BY <1>2, <1>18, <1>19, <1>20 DEF OnePerDocument
<1>22. ParentsOf(all) \subseteq ParentsOf(kept)
  BY <1>2, <1>18, <1>19 DEF ParentsOf
<1> QED
  BY <1>17, <1>18, <1>21, <1>22 DEF all, n

(* The search from what was recalled to the results.                       *)
LEMMA RetrievedAre ==
  ASSUME NEW W, NEW A, NEW recalled \in Seq(Hit(W, A)), NEW answer \in RerankAnswers
  PROVE  LET got == Retrieve(recalled, answer)
         IN  /\ got.results \in Seq(Hit(W, A))
             /\ ParentsOf(got.results) \subseteq ParentsOf(got.top)
             /\ Cardinality(ParentsOf(got.results)) = Len(got.results)
             /\ Len(got.results) = IF Cardinality(ParentsOf(got.top)) <= ResultLimit
                                   THEN Cardinality(ParentsOf(got.top)) ELSE ResultLimit
<1> DEFINE top == Take(Fused(recalled), FusionLimit)
           kept == DedupedByParent(top)
           all == Reranked(kept, answer)
           results == Take(all, ResultLimit)
<1> HIDE DEF Hit
<1>1. Retrieve(recalled, answer).top = top /\ Retrieve(recalled, answer).results = results
  BY DEF Retrieve
<1>2. FusionLimit \in Nat /\ ResultLimit \in Nat
  BY LimitsAssumption
<1>3. top \in Seq(Hit(W, A))
  BY <1>2, FusedAreHits, TakeIs
<1> HIDE DEF top
<1>4. kept \in Seq(Hit(W, A)) /\ OnePerDocument(kept) /\ ParentsOf(kept) = ParentsOf(top)
  BY <1>3, DedupedAre
<1> HIDE DEF kept
<1>5. /\ all \in Seq(Hit(W, A)) /\ Len(all) = Len(kept)
      /\ OnePerDocument(all) /\ ParentsOf(all) \subseteq ParentsOf(kept)
  BY <1>4, RerankedAre
<1> HIDE DEF all
<1> DEFINE N == Len(kept)
           M == Len(results)
<1>6. N \in Nat /\ DOMAIN kept = 1..N /\ DOMAIN all = 1..N
  BY <1>4, <1>5, LenProperties
<1>7. /\ results \in Seq(Hit(W, A)) /\ DOMAIN results = 1..M
      /\ M = IF N <= ResultLimit THEN N ELSE ResultLimit
      /\ 1..M \subseteq 1..N /\ \A i \in 1..M : results[i] = all[i]
  <2>1. Len(all) = N
    BY <1>5
  <2> HIDE DEF N
  <2> QED
    BY <1>2, <1>5, <2>1, TakeIs
<1> HIDE DEF results, N, M
<1>8. M \in Nat
  BY <1>2, <1>6, <1>7
<1>9. Cardinality(ParentsOf(top)) = N
  <2> DEFINE f == [i \in 1..N |-> kept[i].parent]
  <2>1. ParentsOf(kept) = {f[i] : i \in 1..N}
    BY <1>6 DEF ParentsOf
  <2>2. DOMAIN f = 1..N /\ \A i, j \in 1..N : f[i] = f[j] => i = j
    BY <1>4, <1>6 DEF OnePerDocument
  <2> HIDE DEF f
  <2>3. Cardinality(ParentsOf(kept)) = N
    BY <1>6, <2>1, <2>2, DifferentCount
  <2> QED
    BY <1>4, <2>3
<1>10. Cardinality(ParentsOf(results)) = M
  <2> DEFINE f == [i \in 1..M |-> results[i].parent]
  <2>1. ParentsOf(results) = {f[i] : i \in 1..M}
    BY <1>7 DEF ParentsOf
  <2>2. DOMAIN f = 1..M /\ \A i, j \in 1..M : f[i] = f[j] => i = j
    BY <1>5, <1>6, <1>7 DEF OnePerDocument
  <2> HIDE DEF f
  <2> QED
    BY <1>8, <2>1, <2>2, DifferentCount
<1>11. ParentsOf(results) \subseteq ParentsOf(top)
  <2>1. ParentsOf(results) \subseteq ParentsOf(all)
    BY <1>6, <1>7 DEF ParentsOf
  <2> QED
    BY <1>4, <1>5, <2>1
<1> QED
  BY <1>1, <1>7, <1>9, <1>10, <1>11 DEF M

-----------------------------------------------------------------------------
(* Only a question finds an answer, and nothing else happens until it is   *)
(* delivered.                                                              *)
LEMMA FoundBySearch ==
  ASSUME [Next]_vars, found' # NoResult, found' # found
  PROVE  \E q \in Questions, semantic \in BOOLEAN, answer \in RerankAnswers :
           Search(q, semantic, answer)
<1> USE DEF run, work
<1>1. ASSUME Pipeline
      PROVE  FALSE
  <2>1. \A files : ~PipelineStart(files)
    BY DEF PipelineStart
  <2>2. (\A s : ~PipelineSlice(s)) /\ ~PipelinePublish /\ ~Crash
    BY DEF PipelineSlice, PipelinePublish, Crash
  <2>3. \A b : ~RebuildPublishes(b) /\ ~RebuildFails(b)
    BY DEF RebuildPublishes, RebuildFails
  <2> QED
    BY <1>1, <2>1, <2>2, <2>3 DEF Pipeline
<1>2. ASSUME Command
      PROVE  FALSE
  <2>1. \A files : ~InitCommand(files)
    BY DEF InitCommand
  <2>2. ~SliceCommand /\ ~AuditCommand /\ ~RepairPlan /\ ~RepairApply
    BY DEF SliceCommand, AuditCommand, RepairPlan, RepairApply
  <2>3. \A gate : ~UpdateCommand(gate) /\ ~PublishCommand(gate)
    BY DEF UpdateCommand, PublishCommand
  <2>4. \A s, action : ~ReviewSource(s, action)
    BY DEF ReviewSource
  <2> QED
    BY <1>2, <2>1, <2>2, <2>3, <2>4 DEF Command
<1>3. ASSUME Review
      PROVE  FALSE
  <2>1. \A ids, action : ~SubmitReview(ids, action)
    BY DEF SubmitReview
  <2>2. (\A c : ~Curate(c)) /\ \A c, action : ~ReviewCase(c, action)
    BY DEF Curate, ReviewCase
  <2> QED
    BY <1>3, <2>1, <2>2 DEF Review
<1>4. ~Deliver
  BY DEF Deliver
<1>5. ~UNCHANGED vars
  BY DEF vars
<1> QED
  BY <1>1, <1>2, <1>3, <1>4, <1>5 DEF Next, Ask

(* While an answer is there the documents and approvals are what they were *)
(* when it was found.                                                      *)
LEMMA FoundIsStill ==
  ASSUME [Next]_vars, found # NoResult
  PROVE  found' = NoResult \/ UNCHANGED vars
<1>1. CASE Next
  <2> USE DEF Quiet, Decide
  <2>1. \A files, s : ~PipelineStart(files) /\ ~PipelineSlice(s) /\ ~PipelinePublish /\ ~Crash
    BY DEF PipelineStart, PipelineSlice, PipelinePublish, Crash
  <2>2. \A b : ~RebuildPublishes(b) /\ ~RebuildFails(b)
    BY DEF RebuildPublishes, RebuildFails
  <2>3. ~Pipeline
    BY <2>1, <2>2 DEF Pipeline
  <2>4. \A files : ~InitCommand(files)
    BY DEF InitCommand
  <2>5. ~SliceCommand /\ ~AuditCommand /\ ~RepairPlan /\ ~RepairApply
    BY DEF SliceCommand, AuditCommand, RepairPlan, RepairApply
  <2>6. \A gate : ~UpdateCommand(gate) /\ ~PublishCommand(gate)
    BY DEF UpdateCommand, PublishCommand
  <2>7. \A s, action : ~ReviewSource(s, action)
    BY DEF ReviewSource
  <2>8. ~Command
    BY <2>4, <2>5, <2>6, <2>7 DEF Command
  <2>9. \A ids, action : ~SubmitReview(ids, action)
    BY DEF SubmitReview
  <2>10. (\A c : ~Curate(c)) /\ \A c, action : ~ReviewCase(c, action)
    BY DEF Curate, ReviewCase
  <2>11. ~Review
    BY <2>9, <2>10 DEF Review
  <2>12. ~Ask
    BY DEF Ask, Search
  <2> QED
    BY <1>1, <2>3, <2>8, <2>11, <2>12 DEF Next, Deliver
<1> QED
  BY <1>1

(* What a question finds speaks for active documents only if somebody      *)
(* approved them, and has each document fused on top once.                 *)
Answered == AnswersComeFromApprovedDocuments /\ RerankLosesNothing

LEMMA SearchAnswers ==
  ASSUME Inv, NEW q \in Questions, NEW semantic \in BOOLEAN, NEW answer \in RerankAnswers,
         Search(q, semantic, answer)
  PROVE  Answered'
<1> DEFINE issues == IF report = NoReport THEN {} ELSE report
           chunks == Chunks(index.docs)
           lexical == RecallLexical(chunks, docs, issues, q)
           close == IF semantic THEN RecallSemantic(chunks, docs, issues, q) ELSE <<>>
           A == ActiveIn(docs)
<1>1. /\ found' = Retrieve(lexical \o close, answer)
      /\ UNCHANGED <<docs, approved>>
  BY DEF Search
<1>2. docs \in Snapshot /\ index.docs \in Snapshot
  BY DEF Inv, TypeOK
<1> HIDE DEF issues
<1>3. PICK W : /\ lexical \in Seq(Hit(W, A))
               /\ RecallSemantic(chunks, docs, issues, q) \in Seq(Hit(W, A))
  BY <1>2, RecalledAreHits
<1> HIDE DEF chunks, lexical, A
<1>4. close \in Seq(Hit(W, A))
  <2>1. <<>> \in Seq(Hit(W, A))
    OBVIOUS
  <2> HIDE DEF Hit
  <2> QED
    BY <1>3, <2>1
<1> HIDE DEF close
<1>5. lexical \o close \in Seq(Hit(W, A))
  BY <1>3, <1>4, ConcatProperties
<1> DEFINE got == Retrieve(lexical \o close, answer)
<1>6. /\ got.results \in Seq(Hit(W, A))
      /\ ParentsOf(got.results) \subseteq ParentsOf(got.top)
      /\ Cardinality(ParentsOf(got.results)) = Len(got.results)
      /\ Len(got.results) = IF Cardinality(ParentsOf(got.top)) <= ResultLimit
                            THEN Cardinality(ParentsOf(got.top)) ELSE ResultLimit
  BY <1>5, RetrievedAre
<1> HIDE DEF got
<1>7. found' = got
  BY <1>1 DEF got
<1>8. RerankLosesNothing'
  BY <1>6, <1>7 DEF RerankLosesNothing, ParentsOf
<1>9. A \subseteq ActiveIds' \cap approved'
  <2>1. A = ActiveIds /\ ActiveIds \subseteq approved
    BY DEF A, ActiveIn, ActiveIds, Inv, DocsOK
  <2>2. ActiveIds' = ActiveIds
    BY <1>1 DEF ActiveIds
  <2> QED
    BY <1>1, <2>1, <2>2
<1>10. AnswersComeFromApprovedDocuments'
  <2>1. ASSUME NEW i \in DOMAIN got.results, got.results[i].status = "active",
               ~got.results[i].missing
        PROVE  got.results[i].parent \in A
    <3>1. got.results[i] \in Hit(W, A)
      <4> HIDE DEF Hit
      <4> QED
        BY <1>6, LenProperties
    <3> QED
      BY <2>1, <3>1 DEF Hit
  <2> QED
    BY <1>7, <1>9, <2>1 DEF AnswersComeFromApprovedDocuments
<1> QED
  BY <1>8, <1>10 DEF Answered

LEMMA AnsweredAlways == Spec => []Answered
<1>1. Init => Answered
  BY DEF Init, Answered, AnswersComeFromApprovedDocuments, RerankLosesNothing
<1>2. Inv /\ Answered /\ [Next]_vars => Answered'
  <2> SUFFICES ASSUME Inv, Answered, [Next]_vars PROVE Answered'
    OBVIOUS
  <2>1. CASE found' = NoResult
    BY <2>1 DEF Answered, AnswersComeFromApprovedDocuments, RerankLosesNothing
  <2>2. CASE found' # NoResult /\ found' # found
    BY <2>2, FoundBySearch, SearchAnswers
  <2>3. CASE found' # NoResult /\ found' = found
    <3>1. UNCHANGED vars
      BY <2>3, FoundIsStill
    <3> QED
      BY <3>1 DEF vars, run, work, Answered, AnswersComeFromApprovedDocuments,
                  RerankLosesNothing, ActiveIds
  <2> QED
    BY <2>1, <2>2, <2>3
<1> QED
  BY <1>1, <1>2, InvAlways, PTL DEF Spec

-----------------------------------------------------------------------------
(* The drafts, documents and decisions stay of their types, whoever works  *)
(* on the files in whatever order (publish.ts, review-service.ts,          *)
(* publish-review.ts, case-review.ts, repair.ts).                          *)
THEOREM KnowledgeTypeCorrect == Spec => []TypeOK
<1>1. Inv => TypeOK
  BY DEF Inv
<1> QED
  BY <1>1, InvAlways, PTL

(* A document is active only if somebody approved its slice or case, or    *)
(* the pipeline's audit found nothing in the slice: slicing anew, repairs, *)
(* the reviews of others and the order of all these do not matter.         *)
THEOREM KnowledgeActiveWasApproved == Spec => []ActiveDocumentsWereApproved
<1>1. Inv => ActiveDocumentsWereApproved
  BY DEF Inv, DocsOK, ActiveIds, ActiveDocumentsWereApproved
<1> QED
  BY <1>1, InvAlways, PTL

(* The pipeline publishes on its own only what its own audit finds nothing *)
(* in, and of no doubtful quality (approveQualityCleanDraftSlices,         *)
(* publishBlockReason).                                                    *)
THEOREM KnowledgePublishesOnlyClean == Spec => PipelinePublishesOnlyClean
<1> DEFINE Clean(p) == /\ Flaws[docs'[p].id] = {}
                       /\ docs'[p].status = "active" /\ docs'[p].quality = "ok"
                       /\ DraftAt(drafts, docs'[p].id).quality \notin {"warn", "error"}
<1>1. ASSUME Inv, [Next]_vars, pc = "slice", pc' = "rebuild", NEW p \in Paths, docs'[p] # docs[p]
      PROVE  Clean(p)
  <2>1. PipelinePublish
    BY <1>1, RebuildFollowsPublication DEF vars
  <2> DEFINE auto == AutoApprovable(drafts, report')
  <2>2. /\ report' = Audit(drafts, docs, index.docs)
        /\ drafts' = Reviewed(drafts, auto, "approve")
        /\ published' = PublishableIds(drafts', report', "strict")
        /\ docs' = WithPublished(published', drafts', report', docs)
    BY <2>1 DEF PipelinePublish
  <2> HIDE DEF auto
  <2>3. DraftsOK(drafts) /\ DraftsOK(drafts')
    BY <1>1, <2>2, InvParts, ReviewDecides DEF Decisions
  <2>4. \A id \in DraftIds(drafts') :
          id \in DraftIds(drafts) /\ DraftAt(drafts', id).quality = DraftAt(drafts, id).quality
    BY <2>2, <2>3, ReviewDecides, DecidedIsDraft, DraftIsTyped
  <2>5. DraftIssues(drafts') \subseteq report'
    <3>1. DraftIssues(drafts') \subseteq DraftIssues(drafts)
      BY <2>4, DraftIssueIsFlaw
    <3> QED
      BY <2>2, <3>1 DEF Audit
  <2>6. PICK id \in published' : docs'[p] = Written(drafts', report', id)
    <3>1. published' \subseteq SliceIds
      BY <2>2 DEF PublishableIds, DraftIds
    <3> QED
      BY <1>1, <2>2, <3>1, PublishWritesItsSlices
  <2>7. id \in DraftIds(drafts') /\ Publishable(DraftAt(drafts', id), id, report', "strict")
    BY <2>2, <2>6 DEF PublishableIds
  <2>8. /\ Flaws[id] = {} /\ DraftAt(drafts', id).quality \notin {"warn", "error"}
        /\ Written(drafts', report', id).quality = "ok"
    BY <2>3, <2>5, <2>7, StrictGateIsClean
  <2>9. Written(drafts', report', id).id = id /\ Written(drafts', report', id).status = "active"
    BY DEF Written
  <2> QED
    BY <2>4, <2>6, <2>7, <2>8, <2>9
<1>2. Inv /\ [Next]_vars =>
        [pc = "slice" /\ pc' = "rebuild" => \A p \in Paths : docs'[p] # docs[p] => Clean(p)]_vars
  BY <1>1
<1> QED
  BY <1>2, InvAlways, PTL DEF Spec, PipelinePublishesOnlyClean

(* An answer quotes an active document only if it is active now, whatever  *)
(* was indexed, and somebody approved it: for any files, index, question   *)
(* and reranker (createKnowledgeRetrievalCandidate).                       *)
THEOREM AnswersAreApproved == Spec => []AnswersComeFromApprovedDocuments
<1>1. Answered => AnswersComeFromApprovedDocuments
  BY DEF Answered
<1> QED
  BY <1>1, AnsweredAlways, PTL

(* Whatever the reranker answers, the results are the documents fused on   *)
(* top, each once, up to the limit (dedupeByParent, rerank/service.ts).    *)
THEOREM RerankKeepsAll == Spec => []RerankLosesNothing
<1>1. Answered => RerankLosesNothing
  BY DEF Answered
<1> QED
  BY <1>1, AnsweredAlways, PTL

-----------------------------------------------------------------------------
(* From blocks to slices.                                                  *)

(* The length of sentences is a fold.                                      *)
LEMMA LengthFollows ==
  ASSUME NEW S, \A e \in S : e[3] \in Nat, NEW s \in Seq(S)
  PROVE  \E folded : /\ Total(s, SentenceLength) = folded[1..Len(s)]
                     /\ Follows(folded, Nat, 0, Len(s),
                                [p \in (1..Len(s)) \X Nat |-> p[2] + s[p[1]][3]])
<1> DEFINE n == Len(s)
           Folding(it) == it = [u \in SUBSET DOMAIN s |->
                                  IF u = {} THEN 0 ELSE it[u \ {Max(u)}] + s[Max(u)][3]]
           folded == CHOOSE it : Folding(it)
           step == [p \in (1..n) \X Nat |-> p[2] + s[p[1]][3]]
<1>1. n \in Nat /\ DOMAIN s = 1..n /\ \A i \in 1..n : s[i][3] \in Nat
  BY LenProperties
<1>2. Total(s, SentenceLength) = folded[1..n]
  BY <1>1 DEF SentenceLength, Total, FoldLeft, MapThenFoldSet
<1>3. n \in Nat /\ step \in [(1..n) \X Nat -> Nat] /\ 0 \in Nat
  BY <1>1
<1>4. PICK it \in [SUBSET (1..n) -> Nat] : FoldsBy(it, 0, n, step)
  <2> HIDE DEF step, n
  <2> QED BY <1>3, FoldExists
<1>5. Folding(it)
  <2>1. \A u \in SUBSET (1..n) : u # {} => <<Max(u), it[u \ {Max(u)}]>> \in (1..n) \X Nat
    BY <1>1, MaxIsIn
  <2>2. \A u \in SUBSET (1..n) :
          it[u] = IF u = {} THEN 0 ELSE it[u \ {Max(u)}] + s[Max(u)][3]
    BY <1>4, <2>1 DEF FoldsBy
  <2> QED BY <1>1, <1>4, <2>2
<1>6. Folding(folded)
  <2> HIDE DEF Folding
  <2> QED BY <1>5
<1> HIDE DEF folded
<1>7. Follows(folded, Nat, 0, n, step)
  <2>1. folded[{}] = 0
    BY <1>1, <1>6
  <2>2. \A u \in SUBSET (1..n) : u # {} /\ folded[u \ {Max(u)}] \in Nat
          => folded[u] = step[<<Max(u), folded[u \ {Max(u)}]>>]
    BY <1>1, <1>6, MaxIsIn
  <2> HIDE DEF step
  <2> QED BY <2>1, <2>2 DEF Follows
<1> QED BY <1>2, <1>7

(* It is a number, and one more sentence adds its own.                     *)
LEMMA LengthIs ==
  ASSUME NEW S, \A e \in S : e[3] \in Nat, NEW s \in Seq(S)
  PROVE  /\ Total(s, SentenceLength) \in Nat
         /\ \A e \in S : Total(Append(s, e), SentenceLength) = Total(s, SentenceLength) + e[3]
<1> DEFINE n == Len(s)
           Step(t) == [p \in (1..Len(t)) \X Nat |-> p[2] + t[p[1]][3]]
<1>1. n \in Nat /\ \A i \in 1..n : s[i] \in S
  BY LenProperties
<1>2. Step(s) \in [(1..n) \X Nat -> Nat] /\ 0 \in Nat
  BY <1>1
<1>3. PICK folded : /\ Total(s, SentenceLength) = folded[1..n]
                    /\ Follows(folded, Nat, 0, n, Step(s))
  BY LengthFollows
<1>4. folded[1..n] \in Nat
  <2>1. PICK h \in [0..n -> Nat] : Runs(folded, h, 0, n, Step(s))
    <3> HIDE DEF Step, n
    <3> QED BY <1>1, <1>2, <1>3, FoldRuns
  <2> QED BY <1>1, <2>1 DEF Runs
<1>5. ASSUME NEW e \in S
      PROVE  Total(Append(s, e), SentenceLength) = Total(s, SentenceLength) + e[3]
  <2> DEFINE more == Append(s, e)
  <2>1. more \in Seq(S) /\ Len(more) = n + 1
        /\ more[n + 1] = e /\ \A i \in 1..n : more[i] = s[i]
    BY <1>5, AppendProperties
  <2> HIDE DEF more
  <2>2. PICK longer : /\ Total(more, SentenceLength) = longer[1..(n + 1)]
                      /\ Follows(longer, Nat, 0, n + 1, Step(more))
    BY <2>1, LengthFollows
  <2>3. Step(more) \in [(1..(n + 1)) \X Nat -> Nat]
    <3>1. \A i \in 1..(n + 1) : more[i] \in S
      BY <2>1, LenProperties
    <3> QED BY <2>1, <3>1
  <2>4. \A j \in 1..n : \A x \in Nat : Step(more)[<<j, x>>] = Step(s)[<<j, x>>]
    <3>1. \A j \in 1..n : j \in 1..(n + 1)
      BY <1>1
    <3> QED BY <2>1, <3>1
  <2>5. longer[1..(n + 1)] = Step(more)[<<n + 1, folded[1..n]>>]
    <3> DEFINE X == Nat
               before == Step(s)
               after == Step(more)
               m == n + 1
    <3>1. n \in Nat /\ m \in Nat /\ m = n + 1 /\ 0 \in X
      BY <1>1
    <3>2. IsStep(before, X, n) /\ IsStep(after, X, m)
      BY <1>2, <2>3 DEF IsStep
    <3>3. Follows(folded, X, 0, n, before) /\ Follows(longer, X, 0, m, after)
      BY <1>3, <2>2
    <3>4. Continues(after, before, X, n)
      BY <2>4 DEF Continues
    <3> HIDE DEF before, after, n, m, X
    <3>5. EndsBy(longer, m, after, folded[1..n])
      BY <3>1, <3>2, <3>3, <3>4, FoldAppend
    <3> QED BY <3>5 DEF after, m, EndsBy
  <2>6. n + 1 \in 1..(n + 1)
    BY <1>1
  <2> QED BY <1>3, <1>4, <2>1, <2>2, <2>5, <2>6 DEF more
<1> QED BY <1>3, <1>4, <1>5

(* The length of a block is a number.                                      *)
LEMMA BlockLengthIs ==
  ASSUME NEW b, IsBlock(b)
  PROVE  BlockLength(b) \in Int
<1>1. /\ b.sentences \in Seq(Range(b.sentences))
      /\ \A e \in Range(b.sentences) : e[3] \in Nat
  BY DEF IsBlock, HaveLengths
<1> QED BY <1>1, LengthIs DEF BlockLength

(* The length of blocks. *)
LEMMA TotalRuns ==
  ASSUME NEW B, \A b \in B : IsBlock(b), NEW blocks \in Seq(B)
  PROVE  \E h \in [0..Len(blocks) -> Int] :
           /\ Total(blocks, BlockLength) = h[Len(blocks)] /\ h[0] = 0
           /\ \A i \in 1..Len(blocks) : h[i] = h[i - 1] + BlockLength(blocks[i])
<1> DEFINE n == Len(blocks)
           Folding(it) == it = [u \in SUBSET DOMAIN blocks |->
                              IF u = {} THEN 0 ELSE it[u \ {Max(u)}] + BlockLength(blocks[Max(u)])]
           folded == CHOOSE it : Folding(it)
           step == [p \in (1..n) \X Int |-> p[2] + BlockLength(blocks[p[1]])]
<1>1. n \in Nat /\ DOMAIN blocks = 1..n /\ \A i \in 1..n : BlockLength(blocks[i]) \in Int
  <2>1. n \in Nat /\ DOMAIN blocks = 1..n /\ \A i \in 1..n : IsBlock(blocks[i])
    BY LenProperties
  <2> QED BY <2>1, BlockLengthIs
<1>2. Total(blocks, BlockLength) = folded[1..n]
  BY <1>1 DEF Total, FoldLeft, MapThenFoldSet
<1>3. n \in Nat /\ step \in [(1..n) \X Int -> Int] /\ 0 \in Int
  BY <1>1
<1>4. PICK it \in [SUBSET (1..n) -> Int] : FoldsBy(it, 0, n, step)
  <2> HIDE DEF step, n
  <2> QED BY <1>3, FoldExists
<1>5. Folding(it)
  <2>1. \A u \in SUBSET (1..n) : u # {} => <<Max(u), it[u \ {Max(u)}]>> \in (1..n) \X Int
    BY <1>1, MaxIsIn
  <2>2. \A u \in SUBSET (1..n) :
          it[u] = IF u = {} THEN 0 ELSE it[u \ {Max(u)}] + BlockLength(blocks[Max(u)])
    BY <1>4, <2>1 DEF FoldsBy
  <2> QED BY <1>1, <1>4, <2>2
<1>6. Folding(folded)
  <2> HIDE DEF Folding
  <2> QED BY <1>5
<1> HIDE DEF folded
<1>7. Follows(folded, Int, 0, n, step)
  <2>1. folded[{}] = 0
    BY <1>1, <1>6
  <2>2. \A u \in SUBSET (1..n) : u # {} /\ folded[u \ {Max(u)}] \in Int
          => folded[u] = step[<<Max(u), folded[u \ {Max(u)}]>>]
    BY <1>1, <1>6, MaxIsIn
  <2> HIDE DEF step
  <2> QED BY <2>1, <2>2 DEF Follows
<1>8. PICK h \in [0..n -> Int] : Runs(folded, h, 0, n, step)
  <2> HIDE DEF step, n
  <2> QED BY <1>3, <1>7, FoldRuns
<1>9. \A i \in 1..n : <<i, h[i - 1]>> \in (1..n) \X Int
  <2>1. \A i \in 1..n : i - 1 \in 0..n
    BY <1>1
  <2> QED BY <1>8, <2>1
<1>10. h[0] = 0 /\ \A i \in 1..n : h[i] = h[i - 1] + BlockLength(blocks[i])
  BY <1>8, <1>9 DEF Runs
<1> QED BY <1>2, <1>8, <1>10 DEF Runs

(* The length of blocks, and what one more adds to it.                     *)
LEMMA TotalIs ==
  ASSUME NEW B, \A b \in B : IsBlock(b), NEW blocks \in Seq(B)
  PROVE  /\ Total(blocks, BlockLength) \in Int
         /\ \A b \in B : Total(Append(blocks, b), BlockLength)
                           = Total(blocks, BlockLength) + BlockLength(b)
<1> DEFINE n == Len(blocks)
<1>1. n \in Nat /\ n \in 0..n
  BY LenProperties
<1>2. PICK h \in [0..n -> Int] :
        /\ Total(blocks, BlockLength) = h[n] /\ h[0] = 0
        /\ \A i \in 1..n : h[i] = h[i - 1] + BlockLength(blocks[i])
  BY TotalRuns
<1>3. Total(blocks, BlockLength) \in Int
  BY <1>1, <1>2
<1>4. ASSUME NEW b \in B
      PROVE  Total(Append(blocks, b), BlockLength) = Total(blocks, BlockLength) + BlockLength(b)
  <2> DEFINE more == Append(blocks, b)
  <2>1. more \in Seq(B) /\ Len(more) = n + 1
        /\ more[n + 1] = b /\ \A i \in 1..n : more[i] = blocks[i]
    BY <1>4, AppendProperties
  <2> HIDE DEF more
  <2>2. PICK g \in [0..(n + 1) -> Int] :
          /\ Total(more, BlockLength) = g[n + 1] /\ g[0] = 0
          /\ \A i \in 1..(n + 1) : g[i] = g[i - 1] + BlockLength(more[i])
    BY <2>1, TotalRuns
  <2> DEFINE good == {i \in Nat : i <= n => g[i] = h[i]}
  <2>3. \A i \in Nat : i \in good
    <3>1. 0 \in good
      BY <1>2, <2>2
    <3>2. \A i \in Nat : i \in good => i + 1 \in good
      <4> SUFFICES ASSUME NEW i \in Nat, i \in good, i + 1 <= n PROVE g[i + 1] = h[i + 1]
        OBVIOUS
      <4>1. i + 1 \in 1..n /\ i + 1 \in 1..(n + 1) /\ i + 1 - 1 = i /\ i <= n
        BY <1>1
      <4>2. g[i + 1] = g[i] + BlockLength(blocks[i + 1]) /\ h[i + 1] = h[i] + BlockLength(blocks[i + 1])
        BY <1>2, <2>1, <2>2, <4>1
      <4> QED BY <4>1, <4>2
    <3> HIDE DEF good
    <3> QED BY <3>1, <3>2, EveryNat
  <2>4. g[n] = h[n] /\ n + 1 \in 1..(n + 1) /\ n + 1 - 1 = n
    BY <1>1, <2>3
  <2>5. Total(more, BlockLength) = h[n] + BlockLength(b)
    BY <2>1, <2>2, <2>4
  <2> QED BY <1>2, <2>5 DEF more
<1> QED BY <1>3, <1>4

(* A block under the last heading, or under its own. *)
PutUnder(acc, b) == IF b.kind = "heading" \/ acc = <<>>
                      THEN Append(acc, <<b>>)
                      ELSE Append(Front(acc), Append(Last(acc), b))

(* It keeps the blocks, in order, and no group is empty.                   *)
LEMMA PutUnderHeading ==
  ASSUME NEW B, NEW acc \in Seq(Seq(B) \ {<<>>}), NEW b \in B
  PROVE  /\ PutUnder(acc, b) \in Seq(Seq(B) \ {<<>>})
         /\ FlattenSeq(PutUnder(acc, b)) = Append(FlattenSeq(acc), b)
<1> DEFINE G == Seq(B) \ {<<>>}
           put == PutUnder(acc, b)
<1> USE DEF PutUnder
<1>1. <<b>> \in G /\ acc \in Seq(G)
  BY DEF G
<1>2. Seq(G) \subseteq Seq(Seq(B))
  BY SeqMonotonic
<1>3. FlattenSeq(acc) \in Seq(B)
  BY <1>1, <1>2, FlattenIs
<1>4. CASE b.kind = "heading" \/ acc = <<>>
  <2>1. put = Append(acc, <<b>>) /\ put \in Seq(G)
    BY <1>1, <1>4, AppendProperties
  <2>2. FlattenSeq(put) = FlattenSeq(acc) \o <<b>>
    BY <1>1, <1>2, <2>1, FlattenIs
  <2> QED BY <1>3, <2>1, <2>2, AppendIsConcat
<1>5. CASE ~(b.kind = "heading" \/ acc = <<>>)
  <2> DEFINE f == Front(acc)
             l == Last(acc)
  <2>1. f \in Seq(G) /\ l \in G /\ acc = Append(f, l)
    <3> HIDE DEF G
    <3> QED BY <1>1, <1>5, FrontLastIs
  <2> HIDE DEF f, l
  <2>2. put = Append(f, Append(l, b)) /\ Append(l, b) \in G
    BY <1>5, <2>1, AppendProperties DEF f, l
  <2>3. put \in Seq(G)
    <3> HIDE DEF G, put
    <3> QED BY <2>1, <2>2, AppendProperties
  <2>4. f \in Seq(Seq(B)) /\ l \in Seq(B) /\ Append(l, b) \in Seq(B) /\ FlattenSeq(f) \in Seq(B)
    BY <1>2, <2>1, <2>2, FlattenIs
  <2>5. FlattenSeq(acc) = FlattenSeq(f) \o l
    BY <2>1, <2>4, FlattenIs
  <2>6. FlattenSeq(put) = FlattenSeq(f) \o Append(l, b)
    BY <2>2, <2>4, FlattenIs
  <2>7. Append(l, b) = l \o <<b>> /\ Append(FlattenSeq(acc), b) = FlattenSeq(acc) \o <<b>>
    BY <1>3, <2>4, AppendIsConcat
  <2>8. <<b>> \in Seq(B)
    OBVIOUS
  <2>9. FlattenSeq(f) \o (l \o <<b>>) = (FlattenSeq(f) \o l) \o <<b>>
    BY <2>4, <2>8, ConcatAssociative
  <2> QED BY <2>3, <2>5, <2>6, <2>7, <2>9
<1> QED BY <1>4, <1>5

(* Every block is in one group, in order. *)
LEMMA GroupsAre ==
  ASSUME NEW B, NEW blocks \in Seq(B)
  PROVE  /\ GroupsByHeading(blocks) \in Seq(Seq(B) \ {<<>>})
         /\ FlattenSeq(GroupsByHeading(blocks)) = blocks
<1> DEFINE n == Len(blocks)
           X == Seq(Seq(B) \ {<<>>})
           Folding(it) == it = [u \in SUBSET DOMAIN blocks |->
                              IF u = {} THEN <<>> ELSE PutUnder(it[u \ {Max(u)}], blocks[Max(u)])]
           folded == CHOOSE it : Folding(it)
           step == [p \in (1..n) \X X |-> PutUnder(p[2], blocks[p[1]])]
<1>1. n \in Nat /\ DOMAIN blocks = 1..n /\ \A i \in 1..n : blocks[i] \in B
  BY LenProperties
<1>2. GroupsByHeading(blocks) = folded[1..n]
  BY <1>1 DEF GroupsByHeading, PutUnder, FoldLeft, MapThenFoldSet
<1>3. \A acc \in X, b \in B :
        PutUnder(acc, b) \in X /\ FlattenSeq(PutUnder(acc, b)) = Append(FlattenSeq(acc), b)
  BY PutUnderHeading
<1>4. n \in Nat /\ step \in [(1..n) \X X -> X] /\ <<>> \in X
  <2> HIDE DEF n
  <2>1. <<>> \in X
    BY EmptySeq
  <2> HIDE DEF X
  <2> QED BY <1>1, <1>3, <2>1
<1> HIDE DEF X
<1>5. PICK it \in [SUBSET (1..n) -> X] : FoldsBy(it, <<>>, n, step)
  <2> HIDE DEF step, n
  <2> QED BY <1>4, FoldExists
<1>6. Folding(it)
  <2>1. \A u \in SUBSET (1..n) : u # {} => <<Max(u), it[u \ {Max(u)}]>> \in (1..n) \X X
    BY <1>1, MaxIsIn
  <2>2. \A u \in SUBSET (1..n) :
          it[u] = IF u = {} THEN <<>> ELSE PutUnder(it[u \ {Max(u)}], blocks[Max(u)])
    BY <1>5, <2>1 DEF FoldsBy
  <2> QED BY <1>1, <1>5, <2>2
<1>7. Folding(folded)
  <2> HIDE DEF Folding
  <2> QED BY <1>6
<1> HIDE DEF folded
<1>8. Follows(folded, X, <<>>, n, step)
  <2>1. folded[{}] = <<>>
    BY <1>1, <1>7
  <2>2. \A u \in SUBSET (1..n) : u # {} /\ folded[u \ {Max(u)}] \in X
          => folded[u] = step[<<Max(u), folded[u \ {Max(u)}]>>]
    BY <1>1, <1>7, MaxIsIn
  <2> HIDE DEF step
  <2> QED BY <2>1, <2>2 DEF Follows
<1>9. PICK h \in [0..n -> X] : Runs(folded, h, <<>>, n, step)
  <2> HIDE DEF step, n
  <2> QED BY <1>4, <1>8, FoldRuns
<1>10. ASSUME NEW j \in 1..n PROVE h[j] = PutUnder(h[j - 1], blocks[j]) /\ h[j - 1] \in X
  <2>1. j - 1 \in 0..n
    BY <1>1
  <2>2. h[j - 1] \in X
    BY <1>9, <2>1
  <2>3. h[j] = step[<<j, h[j - 1]>>]
    BY <1>9 DEF Runs
  <2> QED BY <2>2, <2>3
<1> DEFINE good == {i \in Nat : i <= n => FlattenSeq(h[i]) = SubSeq(blocks, 1, i)}
<1>11. \A i \in Nat : i \in good
  <2>1. 0 \in good
    <3>1. h[0] = <<>>
      BY <1>9 DEF Runs
    <3>2. FlattenSeq(<<>>) = <<>>
      BY EmptySeq, LenProperties DEF FlattenSeq
    <3> QED BY <3>1, <3>2, OneByOne
  <2>2. \A i \in Nat : i \in good => i + 1 \in good
    <3> SUFFICES ASSUME NEW i \in Nat, i \in good, i + 1 <= n
                 PROVE  FlattenSeq(h[i + 1]) = SubSeq(blocks, 1, i + 1)
      OBVIOUS
    <3> DEFINE j == i + 1
    <3>1. j \in 1..n /\ j - 1 = i /\ FlattenSeq(h[i]) = SubSeq(blocks, 1, i)
      BY <1>1
    <3> HIDE DEF j
    <3>2. FlattenSeq(h[j]) = Append(FlattenSeq(h[j - 1]), blocks[j])
      BY <1>1, <1>3, <1>10, <3>1
    <3>3. SubSeq(blocks, 1, j) = Append(SubSeq(blocks, 1, j - 1), blocks[j])
      BY <3>1, OneByOne
    <3>4. FlattenSeq(h[j]) = SubSeq(blocks, 1, j)
      BY <3>1, <3>2, <3>3
    <3> QED BY <3>4 DEF j
  <2> HIDE DEF good
  <2> QED BY <2>1, <2>2, EveryNat
<1>12. n \in good /\ n <= n /\ n \in 0..n
  <2> HIDE DEF good
  <2> QED BY <1>1, <1>11
<1>13. FlattenSeq(h[n]) = blocks /\ h[n] \in X
  BY <1>9, <1>12, OneByOne
<1> QED BY <1>2, <1>9, <1>13 DEF Runs, X

(* A slice is as short as one may be unless it has one block besides headings. *)
Bodies(s) == {k \in DOMAIN s : s[k].kind # "heading"}
Fits(s) == Cardinality(Bodies(s)) > 1 => Total(s, BlockLength) <= MaxParent

(* A block may be added after headings alone, or where there is room.      *)
LEMMA FitsAppend ==
  ASSUME NEW B, \A b \in B : IsBlock(b), NEW s \in Seq(B), NEW b \in B,
         ~HasBody(s) \/ Total(s, BlockLength) + BlockLength(b) <= MaxParent
  PROVE  Fits(Append(s, b))
<1> DEFINE n == Len(s)
           more == Append(s, b)
<1>1. n \in Nat /\ DOMAIN s = 1..n /\ DOMAIN more = 1..(n + 1)
      /\ \A k \in 1..n : more[k] = s[k]
  BY AppendProperties, LenProperties
<1>2. CASE ~HasBody(s)
  <2>1. Bodies(more) \subseteq {n + 1}
    BY <1>1, <1>2 DEF Bodies, HasBody
  <2>2. IsFiniteSet({n + 1}) /\ Cardinality({n + 1}) = 1
    BY FS_Singleton
  <2>3. Cardinality(Bodies(more)) <= 1 /\ Cardinality(Bodies(more)) \in Nat
    BY <2>1, <2>2, FS_Subset, FS_CardinalityType
  <2> QED BY <2>3 DEF Fits
<1>3. CASE Total(s, BlockLength) + BlockLength(b) <= MaxParent
  BY <1>3, TotalIs DEF Fits
<1> QED BY <1>2, <1>3

(* The step of splitBlockGroupIntoDraftGroups. *)
PutInDraft(acc, b) ==
  IF BlockLength(b) > MaxParent /\ ~HasBody(acc.current)
    THEN [done |-> Append(acc.done, Append(acc.current, b)), current |-> <<>>]
  ELSE IF HasBody(acc.current) /\ Total(acc.current, BlockLength) + BlockLength(b) > MaxParent
    THEN [done |-> Append(acc.done, acc.current), current |-> <<b>>]
    ELSE [acc EXCEPT !.current = Append(@, b)]

(* The blocks put so far, and that the parts of them fit.                  *)
Drafted(acc) == FlattenSeq(acc.done) \o acc.current
AllFit(acc) == (\A k \in DOMAIN acc.done : Fits(acc.done[k])) /\ Fits(acc.current)

(* Parts that fit, and one more.                                           *)
LEMMA AppendAll ==
  ASSUME NEW S, NEW s \in Seq(S), NEW x \in S, \A k \in DOMAIN s : Fits(s[k]), Fits(x)
  PROVE  \A k \in DOMAIN Append(s, x) : Fits(Append(s, x)[k])
<1> HIDE DEF Fits
<1>1. Len(s) \in Nat /\ DOMAIN s = 1..Len(s) /\ Append(s, x) \in Seq(S)
      /\ Len(Append(s, x)) = Len(s) + 1 /\ Append(s, x)[Len(s) + 1] = x
      /\ \A k \in 1..Len(s) : Append(s, x)[k] = s[k]
  BY AppendProperties, LenProperties
<1>2. DOMAIN Append(s, x) = 1..(Len(s) + 1)
  BY <1>1, LenProperties
<1>3. \A k \in 1..(Len(s) + 1) : k = Len(s) + 1 \/ k \in 1..Len(s)
  BY <1>1
<1> QED BY <1>1, <1>2, <1>3

(* No block at all is short enough.                                        *)
LEMMA NoneFits == Fits(<<>>) /\ ~HasBody(<<>>)
<1>1. DOMAIN <<>> = {}
  OBVIOUS
<1>2. Bodies(<<>>) = {}
  BY <1>1 DEF Bodies
<1> QED BY <1>1, <1>2, FS_EmptySet DEF Fits, HasBody

(* A step adds its block at the end, and its parts fit.                    *)
LEMMA PutInDraftKeeps ==
  ASSUME NEW B, \A b \in B : IsBlock(b), NEW acc \in [done : Seq(Seq(B)), current : Seq(B)],
         NEW b \in B
  PROVE  /\ PutInDraft(acc, b) \in [done : Seq(Seq(B)), current : Seq(B)]
         /\ Drafted(acc) \in Seq(B)
         /\ Drafted(PutInDraft(acc, b)) = Append(Drafted(acc), b)
         /\ AllFit(acc) => AllFit(PutInDraft(acc, b))
<1> DEFINE d == acc.done
           c == acc.current
           put == PutInDraft(acc, b)
           R == [done : Seq(Seq(B)), current : Seq(B)]
<1>1. d \in Seq(Seq(B)) /\ c \in Seq(B) /\ acc = [done |-> d, current |-> c]
  OBVIOUS
<1>2. /\ Append(c, b) \in Seq(B) /\ <<>> \in Seq(B) /\ <<b>> \in Seq(B)
      /\ Append(c, b) = c \o <<b>> /\ Append(<<>>, b) = <<b>>
  BY <1>1, AppendProperties, AppendIsConcat, EmptySeq
<1>3. FlattenSeq(d) \in Seq(B) /\ Drafted(acc) \in Seq(B)
  BY <1>1, FlattenIs, ConcatProperties DEF Drafted
<1>4. Append(Drafted(acc), b) = FlattenSeq(d) \o Append(c, b)
  <2>1. Append(Drafted(acc), b) = Drafted(acc) \o <<b>>
    BY <1>3, AppendIsConcat
  <2>2. (FlattenSeq(d) \o c) \o <<b>> = FlattenSeq(d) \o (c \o <<b>>)
    BY <1>1, <1>2, <1>3, ConcatAssociative
  <2> QED BY <1>2, <2>1, <2>2 DEF Drafted
<1>5. Total(c, BlockLength) \in Int /\ BlockLength(b) \in Int /\ MaxParent \in Int
  <2>1. IsBlock(b)
    OBVIOUS
  <2>2. BlockLength(b) \in Int
    BY <2>1, BlockLengthIs
  <2>3. MaxParent \in Int
    BY ChunkingAssumption
  <2>4. Total(c, BlockLength) \in Int
    BY <1>1, TotalIs
  <2> QED BY <2>2, <2>3, <2>4
<1> HIDE DEF d, c
<1>6. CASE BlockLength(b) > MaxParent /\ ~HasBody(c)
  <2>1. put = [done |-> Append(d, Append(c, b)), current |-> <<>>]
    BY <1>6 DEF PutInDraft, d, c
  <2>2. Append(d, Append(c, b)) \in Seq(Seq(B))
    BY <1>1, <1>2, AppendProperties
  <2>3. put \in R
    BY <1>2, <2>1, <2>2
  <2>4. FlattenSeq(Append(d, Append(c, b))) = FlattenSeq(d) \o Append(c, b)
    BY <1>1, <1>2, FlattenIs
  <2>5. (FlattenSeq(d) \o Append(c, b)) \o <<>> = FlattenSeq(d) \o Append(c, b)
    BY <1>2, <1>3, ConcatProperties, ConcatEmptySeq
  <2>6. Drafted(put) = Append(Drafted(acc), b)
    BY <1>4, <2>1, <2>4, <2>5 DEF Drafted
  <2>7. Fits(Append(c, b))
    BY <1>1, <1>6, FitsAppend
  <2>8. AllFit(acc) => AllFit(put)
    <3> SUFFICES ASSUME AllFit(acc) PROVE AllFit(put)
      OBVIOUS
    <3>1. \A k \in DOMAIN d : Fits(d[k])
      BY DEF AllFit, d
    <3>2. \A k \in DOMAIN Append(d, Append(c, b)) : Fits(Append(d, Append(c, b))[k])
      BY <1>1, <1>2, <2>7, <3>1, AppendAll
    <3> QED BY <2>1, <3>2, NoneFits DEF AllFit
  <2> QED BY <1>3, <2>3, <2>6, <2>8
<1>7. CASE /\ ~(BlockLength(b) > MaxParent /\ ~HasBody(c))
           /\ HasBody(c) /\ Total(c, BlockLength) + BlockLength(b) > MaxParent
  <2>1. put = [done |-> Append(d, c), current |-> <<b>>]
    BY <1>7 DEF PutInDraft, d, c
  <2>2. Append(d, c) \in Seq(Seq(B))
    BY <1>1, AppendProperties
  <2>3. put \in R
    BY <1>2, <2>1, <2>2
  <2>4. FlattenSeq(Append(d, c)) = FlattenSeq(d) \o c
    BY <1>1, FlattenIs
  <2>5. (FlattenSeq(d) \o c) \o <<b>> = FlattenSeq(d) \o (c \o <<b>>)
    BY <1>1, <1>2, <1>3, ConcatAssociative
  <2>6. Drafted(put) = Append(Drafted(acc), b)
    <3>1. Drafted(put) = FlattenSeq(Append(d, c)) \o <<b>>
      <4> HIDE DEF put
      <4> QED BY <2>1 DEF Drafted
    <3> HIDE DEF put
    <3> QED BY <1>2, <1>4, <2>4, <2>5, <3>1
  <2>7. Fits(<<b>>)
    BY <1>2, NoneFits, FitsAppend
  <2>8. AllFit(acc) => AllFit(put)
    <3> SUFFICES ASSUME AllFit(acc) PROVE AllFit(put)
      OBVIOUS
    <3>1. (\A k \in DOMAIN d : Fits(d[k])) /\ Fits(c)
      BY DEF AllFit, d, c
    <3>2. \A k \in DOMAIN Append(d, c) : Fits(Append(d, c)[k])
      BY <1>1, <3>1, AppendAll
    <3> QED BY <2>1, <2>7, <3>2 DEF AllFit
  <2> QED BY <1>3, <2>3, <2>6, <2>8
<1>8. CASE /\ ~(BlockLength(b) > MaxParent /\ ~HasBody(c))
           /\ ~(HasBody(c) /\ Total(c, BlockLength) + BlockLength(b) > MaxParent)
  <2>1. put = [done |-> d, current |-> Append(c, b)]
    <3>1. put = [acc EXCEPT !.current = Append(@, b)]
      BY <1>8 DEF PutInDraft, c
    <3> QED BY <1>1, <3>1 DEF c, d
  <2>2. put \in R
    <3> DEFINE more == Append(c, b)
    <3>1. more \in Seq(B)
      BY <1>2
    <3> HIDE DEF put, more
    <3>2. put = [done |-> d, current |-> more]
      BY <2>1 DEF more
    <3> QED BY <1>1, <3>1, <3>2
  <2>3. Drafted(put) = Append(Drafted(acc), b)
    <3>1. Drafted(put) = FlattenSeq(d) \o Append(c, b)
      <4> HIDE DEF put
      <4> QED BY <2>1 DEF Drafted
    <3> QED BY <1>4, <3>1
  <2>4. ~HasBody(c) \/ Total(c, BlockLength) + BlockLength(b) <= MaxParent
    <3>1. ~HasBody(c) \/ ~(Total(c, BlockLength) + BlockLength(b) > MaxParent)
      BY <1>8, Zenon
    <3>2. ~(Total(c, BlockLength) + BlockLength(b) > MaxParent)
            => Total(c, BlockLength) + BlockLength(b) <= MaxParent
      <4> DEFINE x == Total(c, BlockLength)
                 y == BlockLength(b)
      <4>1. x \in Int /\ y \in Int /\ MaxParent \in Int
        BY <1>5
      <4> HIDE DEF x, y
      <4>2. ~(x + y > MaxParent) => x + y <= MaxParent
        BY <4>1
      <4> QED BY <4>2 DEF x, y
    <3> QED BY <3>1, <3>2, Zenon
  <2>5. Fits(Append(c, b))
    BY <1>1, <2>4, FitsAppend
  <2>6. AllFit(acc) => AllFit(put)
    BY <2>1, <2>5 DEF AllFit, d
  <2> QED BY <1>3, <2>2, <2>3, <2>6
<1> QED BY <1>6, <1>7, <1>8

(* splitBlockGroupIntoDraftGroups keeps the blocks of a group, in order,   *)
(* in parts that fit.                                                      *)
LEMMA DraftsAre ==
  ASSUME NEW B, \A b \in B : IsBlock(b), NEW group \in Seq(B)
  PROVE  \E end \in [done : Seq(Seq(B)), current : Seq(B)] :
           /\ Drafted(end) = group /\ AllFit(end)
           /\ DraftGroups(group) =
                IF Total(group, BlockLength) <= MaxParent THEN <<group>>
                ELSE IF end.current = <<>> THEN end.done ELSE Append(end.done, end.current)
<1> DEFINE n == Len(group)
           X == [done : Seq(Seq(B)), current : Seq(B)]
           base == [done |-> <<>>, current |-> <<>>]
           Folding(it) == it = [u \in SUBSET DOMAIN group |->
                              IF u = {} THEN base ELSE PutInDraft(it[u \ {Max(u)}], group[Max(u)])]
           folded == CHOOSE it : Folding(it)
           step == [p \in (1..n) \X X |-> PutInDraft(p[2], group[p[1]])]
<1>1. n \in Nat /\ DOMAIN group = 1..n /\ \A i \in 1..n : group[i] \in B
  BY LenProperties
<1>2. DraftGroups(group) =
        IF Total(group, BlockLength) <= MaxParent THEN <<group>>
        ELSE IF folded[1..n].current = <<>> THEN folded[1..n].done
        ELSE Append(folded[1..n].done, folded[1..n].current)
  BY <1>1 DEF DraftGroups, PutInDraft, FoldLeft, MapThenFoldSet
<1>3. \A acc \in X, b \in B :
        /\ PutInDraft(acc, b) \in X
        /\ Drafted(PutInDraft(acc, b)) = Append(Drafted(acc), b)
        /\ AllFit(acc) => AllFit(PutInDraft(acc, b))
  BY PutInDraftKeeps
<1>4. n \in Nat /\ step \in [(1..n) \X X -> X] /\ base \in X
  <2> HIDE DEF n
  <2>1. base \in X
    BY EmptySeq
  <2> HIDE DEF X
  <2> QED BY <1>1, <1>3, <2>1
<1>5. Drafted(base) = <<>> /\ AllFit(base)
  <2>1. FlattenSeq(<<>>) = <<>> /\ <<>> \o <<>> = <<>>
    BY EmptySeq, FlattenIs, ConcatEmptySeq
  <2>2. DOMAIN <<>> = {}
    OBVIOUS
  <2>3. AllFit(base)
    BY <2>2, NoneFits DEF AllFit
  <2> QED BY <2>1, <2>3 DEF Drafted
<1> HIDE DEF X, base
<1>6. PICK it \in [SUBSET (1..n) -> X] : FoldsBy(it, base, n, step)
  <2> HIDE DEF step, n
  <2> QED BY <1>4, FoldExists
<1>7. Folding(it)
  <2>1. \A u \in SUBSET (1..n) : u # {} => <<Max(u), it[u \ {Max(u)}]>> \in (1..n) \X X
    BY <1>1, MaxIsIn
  <2>2. \A u \in SUBSET (1..n) :
          it[u] = IF u = {} THEN base ELSE PutInDraft(it[u \ {Max(u)}], group[Max(u)])
    BY <1>6, <2>1 DEF FoldsBy
  <2> QED BY <1>1, <1>6, <2>2
<1>8. Folding(folded)
  <2> HIDE DEF Folding
  <2> QED BY <1>7
<1> HIDE DEF folded
<1>9. Follows(folded, X, base, n, step)
  <2>1. folded[{}] = base
    BY <1>1, <1>8
  <2>2. \A u \in SUBSET (1..n) : u # {} /\ folded[u \ {Max(u)}] \in X
          => folded[u] = step[<<Max(u), folded[u \ {Max(u)}]>>]
    BY <1>1, <1>8, MaxIsIn
  <2> HIDE DEF step
  <2> QED BY <2>1, <2>2 DEF Follows
<1> DEFINE Within == [i \in 0..n |-> {acc \in X : Drafted(acc) = SubSeq(group, 1, i) /\ AllFit(acc)}]
<1>10. Within \in [0..n -> SUBSET X] /\ base \in Within[0]
  BY <1>1, <1>4, <1>5, OneByOne
<1>11. ASSUME NEW j \in 1..n, NEW x \in Within[j - 1]
       PROVE  step[<<j, x>>] \in Within[j]
  <2>1. j - 1 \in 0..n /\ j \in 0..n
    BY <1>1
  <2>2. x \in X /\ Drafted(x) = SubSeq(group, 1, j - 1) /\ AllFit(x)
    BY <2>1
  <2>3. step[<<j, x>>] = PutInDraft(x, group[j]) /\ group[j] \in B
    BY <1>1, <2>2
  <2>4. Drafted(PutInDraft(x, group[j])) = Append(SubSeq(group, 1, j - 1), group[j])
    BY <1>3, <2>2, <2>3
  <2>5. SubSeq(group, 1, j) = Append(SubSeq(group, 1, j - 1), group[j])
    BY OneByOne
  <2> QED BY <1>3, <2>1, <2>2, <2>3, <2>4, <2>5
<1>12. folded[1..n] \in Within[n]
  <2> HIDE DEF step, n, Within
  <2> QED BY <1>4, <1>9, <1>10, <1>11, FoldKeeps
<1>13. folded[1..n] \in X /\ Drafted(folded[1..n]) = group /\ AllFit(folded[1..n])
  BY <1>1, <1>12, OneByOne
<1> QED BY <1>2, <1>13 DEF X

(* The parts of a group, with the one that is left open at the end.        *)
LEMMA DraftGroupsAre ==
  ASSUME NEW B, \A b \in B : IsBlock(b), NEW group \in Seq(B)
  PROVE  /\ DraftGroups(group) \in Seq(Seq(B))
         /\ FlattenSeq(DraftGroups(group)) = group
         /\ \A k \in DOMAIN DraftGroups(group) : Fits(DraftGroups(group)[k])
<1>1. PICK end \in [done : Seq(Seq(B)), current : Seq(B)] :
           /\ Drafted(end) = group /\ AllFit(end)
           /\ DraftGroups(group) =
                IF Total(group, BlockLength) <= MaxParent THEN <<group>>
                ELSE IF end.current = <<>> THEN end.done ELSE Append(end.done, end.current)
  BY DraftsAre
<1> DEFINE d == end.done
           c == end.current
<1>2. /\ d \in Seq(Seq(B)) /\ c \in Seq(B) /\ FlattenSeq(d) \o c = group
      /\ (\A k \in DOMAIN d : Fits(d[k])) /\ Fits(c)
  BY <1>1 DEF Drafted, AllFit
<1> HIDE DEF d, c
<1>3. CASE Total(group, BlockLength) <= MaxParent
  <2>1. DraftGroups(group) = <<group>>
    BY <1>1, <1>3
  <2>2. <<>> \in Seq(Seq(B)) /\ <<group>> = Append(<<>>, group) /\ DOMAIN <<>> = {}
    BY EmptySeq
  <2>3. <<group>> \in Seq(Seq(B)) /\ FlattenSeq(<<group>>) = group
    <3>1. Append(<<>>, group) \in Seq(Seq(B))
      BY <2>2, AppendProperties
    <3>2. FlattenSeq(Append(<<>>, group)) = FlattenSeq(<<>>) \o group /\ FlattenSeq(<<>>) = <<>>
      BY <2>2, FlattenIs
    <3>3. <<>> \o group = group
      BY ConcatEmptySeq
    <3> QED BY <2>2, <3>1, <3>2, <3>3
  <2>4. Fits(group)
    BY <1>3 DEF Fits
  <2>5. \A k \in DOMAIN <<group>> : Fits(<<group>>[k])
    BY <2>4
  <2> QED BY <2>1, <2>3, <2>5
<1>4. CASE ~(Total(group, BlockLength) <= MaxParent) /\ c = <<>>
  <2>1. DraftGroups(group) = d
    BY <1>1, <1>4 DEF c, d
  <2>2. FlattenSeq(d) \in Seq(B) /\ FlattenSeq(d) \o <<>> = FlattenSeq(d)
    BY <1>2, FlattenIs, ConcatEmptySeq
  <2> QED BY <1>2, <1>4, <2>1, <2>2
<1>5. CASE ~(Total(group, BlockLength) <= MaxParent) /\ c # <<>>
  <2>1. DraftGroups(group) = Append(d, c)
    BY <1>1, <1>5 DEF c, d
  <2>2. Append(d, c) \in Seq(Seq(B)) /\ FlattenSeq(Append(d, c)) = group
    BY <1>2, FlattenIs, AppendProperties
  <2>3. \A k \in DOMAIN Append(d, c) : Fits(Append(d, c)[k])
    BY <1>2, AppendAll
  <2> QED BY <2>1, <2>2, <2>3
<1> QED BY <1>3, <1>4, <1>5

(* The blocks of slices.                                                   *)
BlocksOf(slices) == [i \in DOMAIN slices |-> slices[i].blocks]

(* Those of two sequences of slices.                                       *)
LEMMA BlocksOfConcat ==
  ASSUME NEW S, NEW B, \A x \in S : x.blocks \in Seq(B), NEW s \in Seq(S), NEW t \in Seq(S)
  PROVE  /\ BlocksOf(s) \in Seq(Seq(B))
         /\ BlocksOf(s \o t) = BlocksOf(s) \o BlocksOf(t)
<1>1. ASSUME NEW r \in Seq(S)
      PROVE  /\ BlocksOf(r) \in Seq(Seq(B)) /\ Len(BlocksOf(r)) = Len(r) /\ Len(r) \in Nat
             /\ \A i \in 1..Len(r) : BlocksOf(r)[i] = r[i].blocks
  <2>1. Len(r) \in Nat /\ DOMAIN r = 1..Len(r) /\ \A i \in 1..Len(r) : r[i] \in S
    BY LenProperties
  <2>2. BlocksOf(r) \in [1..Len(r) -> Seq(B)]
    BY <2>1 DEF BlocksOf
  <2>3. BlocksOf(r) \in Seq(Seq(B)) /\ Len(BlocksOf(r)) = Len(r)
    BY <2>1, <2>2
  <2> QED BY <2>1, <2>3 DEF BlocksOf
<1>2. s \o t \in Seq(S) /\ Len(s \o t) = Len(s) + Len(t)
      /\ \A i \in 1..Len(s) + Len(t) :
           (s \o t)[i] = IF i <= Len(s) THEN s[i] ELSE t[i - Len(s)]
  BY ConcatProperties
<1> DEFINE st == s \o t
           bs == BlocksOf(s)
           bt == BlocksOf(t)
           bst == BlocksOf(st)
<1>3. /\ bs \in Seq(Seq(B)) /\ Len(bs) = Len(s) /\ Len(s) \in Nat
      /\ \A i \in 1..Len(s) : bs[i] = s[i].blocks
  BY <1>1
<1>4. /\ bt \in Seq(Seq(B)) /\ Len(bt) = Len(t) /\ Len(t) \in Nat
      /\ \A i \in 1..Len(t) : bt[i] = t[i].blocks
  BY <1>1
<1>5. /\ bst \in Seq(Seq(B)) /\ Len(bst) = Len(s) + Len(t)
      /\ \A i \in 1..Len(s) + Len(t) : bst[i] = st[i].blocks
  BY <1>1, <1>2
<1>6. /\ bs \o bt \in Seq(Seq(B)) /\ Len(bs \o bt) = Len(s) + Len(t)
      /\ \A i \in 1..Len(s) + Len(t) :
           (bs \o bt)[i] = IF i <= Len(s) THEN bs[i] ELSE bt[i - Len(s)]
  <2> DEFINE T == Seq(B)
  <2>1. bs \in Seq(T) /\ bt \in Seq(T)
    BY <1>3, <1>4
  <2> HIDE DEF bs, bt, T
  <2>2. /\ bs \o bt \in Seq(T) /\ Len(bs \o bt) = Len(bs) + Len(bt)
        /\ \A i \in 1..Len(bs) + Len(bt) :
             (bs \o bt)[i] = IF i <= Len(bs) THEN bs[i] ELSE bt[i - Len(bs)]
    BY <2>1, ConcatProperties
  <2> QED BY <1>3, <1>4, <2>2 DEF T
<1>7. \A i \in 1..Len(s) + Len(t) : bst[i] = (bs \o bt)[i]
  <2> SUFFICES ASSUME NEW i \in 1..Len(s) + Len(t) PROVE bst[i] = (bs \o bt)[i]
    OBVIOUS
  <2> HIDE DEF bs, bt, bst
  <2>1. CASE i <= Len(s)
    <3>1. i \in 1..Len(s)
      BY <1>3, <2>1
    <3> QED BY <1>2, <1>3, <1>5, <1>6, <2>1, <3>1
  <2>2. CASE ~(i <= Len(s))
    <3>1. i - Len(s) \in 1..Len(t)
      BY <1>3, <1>4, <2>2
    <3> QED BY <1>2, <1>4, <1>5, <1>6, <2>2, <3>1
  <2> QED BY <2>1, <2>2
<1>8. bst = bs \o bt
  <2> HIDE DEF bs, bt, bst
  <2> QED BY <1>5, <1>6, <1>7, SeqEqual
<1> QED BY <1>3, <1>8

(* What is included of a page are blocks of it.                            *)
LEMMA IncludedIs ==
  ASSUME NEW B, NEW page \in Seq(B)
  PROVE  Included(page) \in Seq(B)
<1> DEFINE S == {i \in DOMAIN page : IncludedInSlice(page, page[i])}
<1>1. Included(page) = Selected(page, S)
  BY DEF Included
<1> HIDE DEF S
<1>2. S \in SUBSET DOMAIN page
  BY DEF S
<1>3. Selected(page, S) \in Seq({page[i] : i \in S})
  BY <1>2, SelectedIs
<1>4. {page[i] : i \in S} \subseteq B
  BY <1>2, LenProperties
<1> QED BY <1>1, <1>3, <1>4, SeqMonotonic

(* The slices of groups, each of whose parts are given, have the blocks of *)
(* the groups.                                                             *)
LEMMA SlicesOfGroups ==
  ASSUME NEW S, NEW B, \A x \in S : x.blocks \in Seq(B),
         NEW groups \in Seq(Seq(B)), NEW sliced \in Seq(Seq(S)), Len(sliced) = Len(groups),
         \A g \in 1..Len(groups) : FlattenSeq(BlocksOf(sliced[g])) = groups[g]
  PROVE  FlattenSeq(BlocksOf(FlattenSeq(sliced))) = FlattenSeq(groups)
<1> DEFINE n == Len(groups)
           good == {i \in Nat : i <= n => FlattenSeq(BlocksOf(FlattenSeq(SubSeq(sliced, 1, i))))
                                            = FlattenSeq(SubSeq(groups, 1, i))}
<1>1. n \in Nat
  BY LenProperties
<1>2. \A i \in Nat : i \in good
  <2>1. 0 \in good
    <3>1. FlattenSeq(<<>>) = <<>>
      BY EmptySeq, FlattenIs
    <3>2. DOMAIN <<>> = {}
      OBVIOUS
    <3>3. BlocksOf(<<>>) = <<>>
      BY <3>2 DEF BlocksOf
    <3> QED BY <3>1, <3>3, OneByOne
  <2>2. \A i \in Nat : i \in good => i + 1 \in good
    <3> SUFFICES ASSUME NEW i \in Nat, i \in good, i + 1 <= n
                 PROVE  FlattenSeq(BlocksOf(FlattenSeq(SubSeq(sliced, 1, i + 1))))
                          = FlattenSeq(SubSeq(groups, 1, i + 1))
      OBVIOUS
    <3> DEFINE j == i + 1
               w == SubSeq(sliced, 1, i)
               x == sliced[j]
               v == SubSeq(groups, 1, i)
               y == groups[j]
    <3>1. j \in 1..n /\ j - 1 = i /\ FlattenSeq(BlocksOf(FlattenSeq(w))) = FlattenSeq(v)
      BY <1>1
    <3>2. FlattenSeq(BlocksOf(x)) = y
      BY <3>1
    <3> HIDE DEF j
    <3>3. w \in Seq(Seq(S)) /\ x \in Seq(S) /\ SubSeq(sliced, 1, j) = Append(w, x)
      BY <3>1, OneByOne
    <3>4. v \in Seq(Seq(B)) /\ y \in Seq(B) /\ SubSeq(groups, 1, j) = Append(v, y)
      BY <3>1, OneByOne
    <3> HIDE DEF w, x, v, y
    <3>5. FlattenSeq(w) \in Seq(S) /\ FlattenSeq(Append(w, x)) = FlattenSeq(w) \o x
      BY <3>3, FlattenIs
    <3> DEFINE fw == FlattenSeq(w)
    <3>6. /\ BlocksOf(fw) \in Seq(Seq(B)) /\ BlocksOf(x) \in Seq(Seq(B))
          /\ BlocksOf(fw \o x) = BlocksOf(fw) \o BlocksOf(x)
      <4> HIDE DEF fw
      <4>1. fw \in Seq(S)
        BY <3>5 DEF fw
      <4> QED BY <3>3, <4>1, BlocksOfConcat
    <3>7. FlattenSeq(BlocksOf(fw) \o BlocksOf(x))
            = FlattenSeq(BlocksOf(fw)) \o FlattenSeq(BlocksOf(x))
      <4> HIDE DEF fw
      <4> QED BY <3>6, FlattenConcat
    <3>8. FlattenSeq(Append(v, y)) = FlattenSeq(v) \o y
      BY <3>4, FlattenIs
    <3>9. FlattenSeq(BlocksOf(FlattenSeq(SubSeq(sliced, 1, j)))) = FlattenSeq(SubSeq(groups, 1, j))
      BY <3>1, <3>2, <3>3, <3>4, <3>5, <3>6, <3>7, <3>8
    <3> QED BY <3>9 DEF j
  <2> HIDE DEF good
  <2> QED BY <2>1, <2>2, EveryNat
<1>3. n \in good /\ n <= n
  <2> HIDE DEF good
  <2> QED BY <1>1, <1>2
<1> QED BY <1>3, OneByOne

(* The slices of a page hold its included blocks, in order, and each of    *)
(* them is as short as a slice may be unless it has one block besides      *)
(* headings: for every page, whatever its blocks are.                      *)
THEOREM SlicesKeepAll ==
  ASSUME NEW B, \A b \in B : IsBlock(b), NEW page \in Seq(B)
  PROVE  SlicesKeepText(page)
<1> DEFINE OfGroup(group) ==
             LET parts == DraftGroups(group)
                 heading == IF Head(group).kind = "heading" THEN Head(group) ELSE Untitled
             IN  [k \in DOMAIN parts |->
                    [blocks |-> parts[k],
                     slug |-> Slug(heading, IF Len(parts) = 1 THEN 0 ELSE k)]]
           groups == GroupsByHeading(Included(page))
           n == Len(groups)
           sliced == [g \in DOMAIN groups |-> OfGroup(groups[g])]
           S == {sl \in UNION {{OfGroup(groups[g])[k] : k \in DOMAIN OfGroup(groups[g])} :
                                 g \in 1..n} :
                   sl.blocks \in Seq(B) /\ Fits(sl.blocks)}
<1>1. Slices(page) = FlattenSeq(sliced)
  BY DEF Slices
<1>2. groups \in Seq(Seq(B) \ {<<>>}) /\ FlattenSeq(groups) = Included(page)
  BY IncludedIs, GroupsAre
<1> HIDE DEF groups
<1>3. /\ groups \in Seq(Seq(B)) /\ n \in Nat /\ DOMAIN groups = 1..n
      /\ \A g \in 1..n : groups[g] \in Seq(B)
  BY <1>2, SeqMonotonic, LenProperties
<1>4. ASSUME NEW g \in 1..n
      PROVE  /\ OfGroup(groups[g]) \in Seq(S)
             /\ FlattenSeq(BlocksOf(OfGroup(groups[g]))) = groups[g]
  <2> DEFINE group == groups[g]
             parts == DraftGroups(group)
             own == OfGroup(group)
  <2>1. /\ parts \in Seq(Seq(B)) /\ FlattenSeq(parts) = group
        /\ \A k \in DOMAIN parts : Fits(parts[k])
    BY <1>3, <1>4, DraftGroupsAre
  <2>2. DOMAIN own = DOMAIN parts /\ \A k \in DOMAIN parts : own[k].blocks = parts[k]
    <3> HIDE DEF group
    <3> QED OBVIOUS
  <2>3. Len(parts) \in Nat /\ DOMAIN parts = 1..Len(parts)
        /\ \A k \in 1..Len(parts) : parts[k] \in Seq(B)
    <3> HIDE DEF parts
    <3> QED BY <2>1, LenProperties
  <2>4. \A k \in DOMAIN own : own[k] \in S
    <3> SUFFICES ASSUME NEW k \in DOMAIN own PROVE own[k] \in S
      OBVIOUS
    <3>1. own[k].blocks \in Seq(B) /\ Fits(own[k].blocks)
      <4> HIDE DEF own, parts, Fits
      <4> QED BY <2>1, <2>2, <2>3
    <3> HIDE DEF OfGroup
    <3> QED BY <3>1
  <2>5. own \in [1..Len(parts) -> S]
    <3>1. own = [k \in DOMAIN parts |-> own[k]]
      <4> HIDE DEF group
      <4> QED OBVIOUS
    <3> HIDE DEF own, parts, S
    <3> QED BY <2>2, <2>3, <2>4, <3>1
  <2>6. own \in Seq(S)
    <3> HIDE DEF own, parts, S
    <3> QED BY <2>3, <2>5
  <2>7. BlocksOf(own) = parts
    <3> HIDE DEF own, parts
    <3>1. BlocksOf(own) = [k \in DOMAIN parts |-> parts[k]]
      BY <2>2 DEF BlocksOf
    <3> QED BY <2>1, <2>3, <3>1
  <2> QED BY <2>1, <2>6, <2>7
<1>5. \A x \in S : x.blocks \in Seq(B) /\ Fits(x.blocks)
  OBVIOUS
<1> HIDE DEF S, OfGroup
<1>6. sliced \in Seq(Seq(S)) /\ Len(sliced) = n /\ \A g \in 1..n : sliced[g] = OfGroup(groups[g])
  <2>1. sliced \in [1..n -> Seq(S)]
    BY <1>3, <1>4
  <2> QED BY <1>3, <2>1
<1> HIDE DEF sliced, n
<1>7. FlattenSeq(BlocksOf(FlattenSeq(sliced))) = FlattenSeq(groups)
  <2>1. \A g \in 1..Len(groups) : FlattenSeq(BlocksOf(sliced[g])) = groups[g]
    BY <1>4, <1>6 DEF n
  <2> QED BY <1>3, <1>5, <1>6, <2>1, SlicesOfGroups DEF n
<1>8. FlattenSeq(sliced) \in Seq(S)
  BY <1>6, FlattenIs
<1>9. \A i \in DOMAIN Slices(page) : Fits(Slices(page)[i].blocks)
  <2>1. \A i \in DOMAIN Slices(page) : Slices(page)[i] \in S
    BY <1>1, <1>8, LenProperties
  <2> QED BY <1>5, <2>1
<1>10. FlattenSeq(BlocksOf(Slices(page))) = Included(page)
  BY <1>1, <1>2, <1>7
<1> QED BY <1>9, <1>10 DEF SlicesKeepText, KeepsBlocks, BlocksOf, Fits, Bodies

-----------------------------------------------------------------------------
(* The children of a text.  What is said echoes some sentences when, after *)
(* any others, it says for the first time what these do, in their order,   *)
(* and at most n times more: each step of the packing keeps that.          *)

(* The step of FirstsOf, and what has been said for the first time after   *)
(* more of it is said.                                                     *)
Note(noted, s) == IF Contains(noted, s) THEN noted ELSE Append(noted, s)
After(noted, said) == FoldLeft(Note, noted, said)

(* What is noted after a sequence is a fold over its places.               *)
LEMMA AfterFollows ==
  ASSUME NEW S, NEW noted \in Seq(S), NEW s \in Seq(S)
  PROVE  \E folded :
           /\ After(noted, s) = folded[1..Len(s)]
           /\ Follows(folded, Seq(S), noted, Len(s),
                      [p \in (1..Len(s)) \X Seq(S) |-> Note(p[2], s[p[1]])])
<1> DEFINE n == Len(s)
           X == Seq(S)
           Folding(it) == it = [u \in SUBSET DOMAIN s |->
                              IF u = {} THEN noted ELSE Note(it[u \ {Max(u)}], s[Max(u)])]
           folded == CHOOSE it : Folding(it)
           step == [p \in (1..n) \X X |-> Note(p[2], s[p[1]])]
<1>1. n \in Nat /\ DOMAIN s = 1..n /\ \A i \in 1..n : s[i] \in S
  BY LenProperties
<1>2. After(noted, s) = folded[1..n]
  BY <1>1 DEF After, FoldLeft, MapThenFoldSet
<1>3. step \in [(1..n) \X X -> X] /\ noted \in X
  BY <1>1, AppendProperties DEF Note
<1>4. PICK it \in [SUBSET (1..n) -> X] : FoldsBy(it, noted, n, step)
  <2> HIDE DEF step, n, X
  <2> QED BY <1>1, <1>3, FoldExists
<1>5. Folding(it)
  <2>1. \A u \in SUBSET (1..n) : u # {} => <<Max(u), it[u \ {Max(u)}]>> \in (1..n) \X X
    BY <1>1, MaxIsIn
  <2>2. \A u \in SUBSET (1..n) :
          it[u] = IF u = {} THEN noted ELSE Note(it[u \ {Max(u)}], s[Max(u)])
    BY <1>4, <2>1 DEF FoldsBy
  <2> QED BY <1>1, <1>4, <2>2
<1>6. Folding(folded)
  <2> HIDE DEF Folding
  <2> QED BY <1>5
<1> HIDE DEF folded
<1>7. Follows(folded, X, noted, n, step)
  <2>1. folded[{}] = noted
    BY <1>1, <1>6
  <2>2. \A u \in SUBSET (1..n) : u # {} /\ folded[u \ {Max(u)}] \in X
          => folded[u] = step[<<Max(u), folded[u \ {Max(u)}]>>]
    BY <1>1, <1>6, MaxIsIn
  <2> HIDE DEF step
  <2> QED BY <2>1, <2>2 DEF Follows
<1> QED BY <1>2, <1>7

(* One sentence more is noted, unless it was noted before.                 *)
LEMMA AfterIs ==
  ASSUME NEW S, NEW noted \in Seq(S)
  PROVE  /\ After(noted, <<>>) = noted
         /\ \A s \in Seq(S) : After(noted, s) \in Seq(S)
         /\ \A s \in Seq(S), e \in S : After(noted, Append(s, e)) = Note(After(noted, s), e)
<1> DEFINE X == Seq(S)
           Step(t) == [p \in (1..Len(t)) \X X |-> Note(p[2], t[p[1]])]
<1>1. ASSUME NEW t \in Seq(S)
      PROVE  IsStep(Step(t), X, Len(t)) /\ Len(t) \in Nat
  <2>1. Len(t) \in Nat /\ \A i \in 1..Len(t) : t[i] \in S
    BY LenProperties
  <2> QED BY <2>1, AppendProperties DEF IsStep, Note
<1>2. ASSUME NEW t \in Seq(S)
      PROVE  \E folded : /\ After(noted, t) = folded[1..Len(t)]
                         /\ Follows(folded, X, noted, Len(t), Step(t))
  BY AfterFollows
<1>3. ASSUME NEW t \in Seq(S)
      PROVE  After(noted, t) \in X /\ (t = <<>> => After(noted, t) = noted)
  <2> DEFINE n == Len(t)
             step == Step(t)
  <2>1. PICK folded : After(noted, t) = folded[1..n] /\ Follows(folded, X, noted, n, step)
    BY <1>2
  <2>2. step \in [(1..n) \X X -> X] /\ n \in Nat /\ noted \in X
    BY <1>1 DEF IsStep
  <2> HIDE DEF step
  <2>3. PICK h \in [0..n -> X] : Runs(folded, h, noted, n, step)
    <3> HIDE DEF X, n
    <3> QED BY <2>1, <2>2, FoldRuns
  <2>4. n \in 0..n /\ (t = <<>> => n = 0)
    BY <2>2
  <2> QED BY <2>1, <2>3, <2>4 DEF Runs
<1>4. ASSUME NEW s \in Seq(S), NEW e \in S
      PROVE  After(noted, Append(s, e)) = Note(After(noted, s), e)
  <2> DEFINE more == Append(s, e)
             n == Len(s)
             m == n + 1
             before == Step(s)
             after == Step(more)
  <2>1. /\ more \in Seq(S) /\ Len(more) = m /\ n \in Nat /\ m \in Nat /\ m = n + 1
        /\ more[m] = e /\ \A i \in 1..n : more[i] = s[i]
    BY AppendProperties, LenProperties
  <2> HIDE DEF more
  <2>2. PICK folded : After(noted, s) = folded[1..n] /\ Follows(folded, X, noted, n, before)
    BY <1>2
  <2>3. PICK longer : After(noted, more) = longer[1..m] /\ Follows(longer, X, noted, m, after)
    BY <1>2, <2>1
  <2>4. IsStep(before, X, n) /\ IsStep(after, X, m) /\ noted \in X
    BY <1>1, <2>1
  <2>5. Continues(after, before, X, n)
    <3>1. \A j \in 1..n : j \in 1..m
      BY <2>1
    <3> QED BY <2>1, <3>1 DEF Continues
  <2>6. EndsBy(longer, m, after, folded[1..n])
    <3> HIDE DEF before, after, n, m, X
    <3> QED BY <2>1, <2>2, <2>3, <2>4, <2>5, FoldAppend
  <2>7. After(noted, s) \in X /\ m \in 1..m
    BY <1>3, <2>1
  <2>8. after[<<m, After(noted, s)>>] = Note(After(noted, s), more[m])
    BY <2>1, <2>7
  <2>9. After(noted, more) = Note(After(noted, s), e)
    <3> HIDE DEF before, after, n, m, X
    <3> QED BY <2>1, <2>2, <2>3, <2>6, <2>8 DEF EndsBy
  <2> QED BY <2>9 DEF more
<1>5. <<>> \in Seq(S)
  BY EmptySeq
<1> QED BY <1>3, <1>4, <1>5

(* What has been noted or is being said is noted.                          *)
LEMMA AfterHas ==
  ASSUME NEW S, NEW noted \in Seq(S), NEW s \in Seq(S), NEW x
  PROVE  /\ Contains(noted, x) => Contains(After(noted, s), x)
         /\ Contains(s, x) => Contains(After(noted, s), x)
<1> DEFINE Has(t) == /\ Contains(noted, x) => Contains(After(noted, t), x)
                     /\ Contains(t, x) => Contains(After(noted, t), x)
           G == {t \in Seq(S) : Has(t)}
<1>1. <<>> \in G
  <2>1. Len(<<>>) = 0 /\ 1..0 = {}
    OBVIOUS
  <2>2. ~Contains(<<>>, x)
    BY <2>1 DEF Contains
  <2> QED BY <2>2, AfterIs, EmptySeq
<1>2. ASSUME NEW t \in Seq(S), NEW e \in S, t \in G
      PROVE  Append(t, e) \in G
  <2>1. /\ After(noted, t) \in Seq(S) /\ After(noted, Append(t, e)) = Note(After(noted, t), e)
    BY AfterIs
  <2> DEFINE a == After(noted, t)
             b == Note(a, e)
  <2>2. Contains(b, e) /\ (Contains(a, x) => Contains(b, x))
    <3> HIDE DEF a
    <3>1. a \in Seq(S)
      BY <2>1 DEF a
    <3>2. CASE Contains(a, e)
      BY <3>2 DEF Note
    <3>3. CASE ~Contains(a, e)
      <4>1. /\ Len(a) \in Nat /\ b = Append(a, e) /\ Len(b) = Len(a) + 1 /\ b[Len(a) + 1] = e
            /\ \A i \in 1..Len(a) : b[i] = a[i]
        BY <3>1, <3>3, AppendProperties, LenProperties DEF Note
      <4>2. Len(a) + 1 \in 1..Len(b) /\ \A i \in 1..Len(a) : i \in 1..Len(b)
        BY <4>1
      <4> HIDE DEF b
      <4> QED BY <4>1, <4>2 DEF Contains
    <3> QED BY <3>2, <3>3
  <2>3. Contains(Append(t, e), x) => x = e \/ Contains(t, x)
    <3>1. /\ Len(t) \in Nat /\ Len(Append(t, e)) = Len(t) + 1 /\ Append(t, e)[Len(t) + 1] = e
          /\ \A i \in 1..Len(t) : Append(t, e)[i] = t[i]
      BY AppendProperties, LenProperties
    <3>2. \A i \in 1..Len(t) + 1 : i = Len(t) + 1 \/ i \in 1..Len(t)
      BY <3>1
    <3> QED BY <3>1, <3>2 DEF Contains
  <2>4. Has(t) /\ Append(t, e) \in Seq(S)
    BY <1>2, AppendProperties
  <2>5. Has(Append(t, e))
    <3>1. After(noted, Append(t, e)) = b
      BY <2>1
    <3>2. Has(t)
      BY <2>4
    <3> DEFINE next == Append(t, e)
    <3>3. After(noted, next) = b /\ (Contains(next, x) => x = e \/ Contains(t, x))
      BY <2>3, <3>1
    <3> HIDE DEF b, next
    <3>4. Has(next)
      BY <2>2, <3>2, <3>3
    <3> QED BY <3>4 DEF next
  <2> QED BY <2>4, <2>5
<1> HIDE DEF G
<1>3. s \in G
  BY <1>1, <1>2, EverySeq
<1> QED BY <1>3 DEF G

(* To say two things is to say one after the other.                        *)
LEMMA AfterConcat ==
  ASSUME NEW S, NEW noted \in Seq(S), NEW s \in Seq(S), NEW t \in Seq(S)
  PROVE  After(noted, s \o t) = After(After(noted, s), t)
<1> DEFINE G == {r \in Seq(S) : After(noted, s \o r) = After(After(noted, s), r)}
           a == After(noted, s)
<1>0. a \in Seq(S)
  BY AfterIs
<1>1. <<>> \in G
  <2>1. s \o <<>> = s
    BY ConcatEmptySeq
  <2> HIDE DEF a
  <2>2. After(a, <<>>) = a
    BY <1>0, AfterIs
  <2> QED BY <2>1, <2>2, EmptySeq DEF a
<1>2. ASSUME NEW r \in Seq(S), NEW e \in S, r \in G
      PROVE  Append(r, e) \in G
  <2>1. s \o Append(r, e) = Append(s \o r, e) /\ s \o r \in Seq(S)
    <3>1. s \o r \in Seq(S) /\ <<e>> \in Seq(S)
      BY ConcatProperties
    <3>2. Append(r, e) = r \o <<e>> /\ Append(s \o r, e) = (s \o r) \o <<e>>
      BY <3>1, AppendIsConcat
    <3>3. (s \o r) \o <<e>> = s \o (r \o <<e>>)
      BY <3>1, ConcatAssociative
    <3> QED BY <3>1, <3>2, <3>3
  <2>2. After(noted, Append(s \o r, e)) = Note(After(noted, s \o r), e)
    <3> DEFINE w == s \o r
    <3>1. w \in Seq(S)
      BY <2>1
    <3> HIDE DEF w
    <3>2. After(noted, Append(w, e)) = Note(After(noted, w), e)
      BY <3>1, AfterIs
    <3> QED BY <3>2 DEF w
  <2> HIDE DEF a
  <2>3. After(a, Append(r, e)) = Note(After(a, r), e)
    BY <1>0, AfterIs
  <2>4. After(noted, s \o r) = After(a, r)
    BY <1>2 DEF a
  <2>5. Append(r, e) \in Seq(S)
    BY AppendProperties
  <2> QED BY <2>1, <2>2, <2>3, <2>4, <2>5 DEF a
<1> HIDE DEF G
<1>3. t \in G
  BY <1>1, <1>2, EverySeq
<1> QED BY <1>3 DEF G

(* What is said once is noted as it is said.                               *)
LEMMA AfterDistinct ==
  ASSUME NEW S, NEW s \in Seq(S), IsInjective(s)
  PROVE  FirstsOf(s) = s
<1> DEFINE n == Len(s)
           good == {i \in Nat : i <= n => After(<<>>, SubSeq(s, 1, i)) = SubSeq(s, 1, i)}
<1>0. n \in Nat /\ DOMAIN s = 1..n /\ <<>> \in Seq(S)
  BY LenProperties, EmptySeq
<1>1. FirstsOf(s) = After(<<>>, s)
  BY DEF FirstsOf, After, Note
<1>2. \A i \in Nat : i \in good
  <2>1. 0 \in good
    BY <1>0, AfterIs, OneByOne
  <2>2. \A i \in Nat : i \in good => i + 1 \in good
    <3> SUFFICES ASSUME NEW i \in Nat, i \in good, i + 1 <= n
                 PROVE  After(<<>>, SubSeq(s, 1, i + 1)) = SubSeq(s, 1, i + 1)
      OBVIOUS
    <3> DEFINE j == i + 1
               t == SubSeq(s, 1, i)
    <3>1. j \in 1..n /\ j - 1 = i /\ After(<<>>, t) = t
      BY <1>0
    <3>2. t \in Seq(S) /\ s[j] \in S /\ SubSeq(s, 1, j) = Append(t, s[j])
      <4> HIDE DEF j
      <4> QED BY <3>1, OneByOne
    <3>3. ~Contains(t, s[j])
      <4>1. Len(t) = i /\ \A k \in 1..i : t[k] = s[k]
        <5>1. 1 - 1 <= i /\ i - 1 + 1 = i /\ (i < 1 => i = 0) /\ \A k \in 1..i : s[k] \in S
          BY <1>0, LenProperties
        <5> QED BY <5>1, SubSeqProperties
      <4>2. \A k \in 1..i : k \in 1..n /\ k # j
        BY <3>1
      <4> HIDE DEF t, j
      <4>3. \A k \in 1..i : s[k] # s[j]
        BY <1>0, <3>1, <4>2 DEF IsInjective
      <4> QED BY <4>1, <4>3 DEF Contains
    <3> HIDE DEF t, j
    <3>4. After(<<>>, Append(t, s[j])) = Note(After(<<>>, t), s[j])
      <4> DEFINE e == s[j]
                 none == <<>>
      <4>1. none \in Seq(S) /\ t \in Seq(S) /\ e \in S
        BY <1>0, <3>2
      <4> HIDE DEF e, none
      <4>2. After(none, Append(t, e)) = Note(After(none, t), e)
        BY <4>1, AfterIs
      <4> QED BY <4>2 DEF e, none
    <3>5. After(<<>>, SubSeq(s, 1, j)) = SubSeq(s, 1, j)
      BY <3>1, <3>2, <3>3, <3>4 DEF Note
    <3> QED BY <3>5 DEF j
  <2> HIDE DEF good
  <2> QED BY <2>1, <2>2, EveryNat
<1>3. n \in good /\ n <= n
  <2> HIDE DEF good
  <2> QED BY <1>0, <1>2
<1> QED BY <1>1, <1>3, OneByOne

(* What is said holds the sentences in order, with at most n repetitions,  *)
(* whatever was noted before.                                              *)
Echoes(S, said, sentences, n) ==
  /\ said \in Seq(S) /\ sentences \in Seq(S) /\ n \in Nat
  /\ \A noted \in Seq(S) : After(noted, said) = After(noted, sentences)
  /\ Len(said) <= Len(sentences) + n

(* A sequence is an echo of itself.                                        *)
LEMMA EchoesItself ==
  ASSUME NEW S, NEW s \in Seq(S), NEW n \in Nat
  PROVE  Echoes(S, s, s, n)
<1>1. Len(s) \in Nat
  BY LenProperties
<1> QED BY <1>1 DEF Echoes

(* Echoes of two sequences, one after the other.                           *)
LEMMA EchoesJoin ==
  ASSUME NEW S, NEW a, NEW b, NEW c, NEW d, NEW m, NEW n,
         Echoes(S, a, b, m), Echoes(S, c, d, n)
  PROVE  Echoes(S, a \o c, b \o d, m + n)
<1>1. /\ a \in Seq(S) /\ b \in Seq(S) /\ m \in Nat /\ Len(a) <= Len(b) + m
      /\ c \in Seq(S) /\ d \in Seq(S) /\ n \in Nat /\ Len(c) <= Len(d) + n
  BY DEF Echoes
<1>2. /\ a \o c \in Seq(S) /\ Len(a \o c) = Len(a) + Len(c)
      /\ b \o d \in Seq(S) /\ Len(b \o d) = Len(b) + Len(d)
  BY <1>1, ConcatProperties
<1>3. Len(a) \in Nat /\ Len(b) \in Nat /\ Len(c) \in Nat /\ Len(d) \in Nat
  BY <1>1, LenProperties
<1>4. Len(a \o c) <= Len(b \o d) + (m + n) /\ m + n \in Nat
  BY <1>1, <1>2, <1>3
<1>5. ASSUME NEW noted \in Seq(S)
      PROVE  After(noted, a \o c) = After(noted, b \o d)
  <2>1. /\ After(noted, a \o c) = After(After(noted, a), c)
        /\ After(noted, b \o d) = After(After(noted, b), d)
    BY <1>1, AfterConcat
  <2>2. After(noted, a) = After(noted, b) /\ After(noted, b) \in Seq(S)
    BY <1>1, AfterIs DEF Echoes
  <2> DEFINE x == After(noted, b)
  <2> HIDE DEF x
  <2>3. x \in Seq(S)
    BY <2>2 DEF x
  <2>4. After(x, c) = After(x, d)
    BY <2>3 DEF Echoes
  <2> QED BY <2>1, <2>2, <2>4 DEF x
<1> QED BY <1>2, <1>4, <1>5 DEF Echoes

(* An echo of an echo.                                                     *)
LEMMA EchoesAgain ==
  ASSUME NEW S, NEW a, NEW b, NEW c, NEW m, NEW n, Echoes(S, a, b, m), Echoes(S, b, c, n)
  PROVE  Echoes(S, a, c, m + n)
<1>1. /\ a \in Seq(S) /\ b \in Seq(S) /\ m \in Nat /\ Len(a) <= Len(b) + m
      /\ c \in Seq(S) /\ n \in Nat /\ Len(b) <= Len(c) + n
  BY DEF Echoes
<1>2. Len(a) \in Nat /\ Len(b) \in Nat /\ Len(c) \in Nat
  BY <1>1, LenProperties
<1>3. Len(a) <= Len(c) + (m + n) /\ m + n \in Nat
  BY <1>1, <1>2
<1> QED BY <1>1, <1>3 DEF Echoes

(* More may be allowed.                                                    *)
LEMMA EchoesLoosely ==
  ASSUME NEW S, NEW a, NEW b, NEW m, Echoes(S, a, b, m), NEW n \in Nat, m <= n
  PROVE  Echoes(S, a, b, n)
<1>1. m \in Nat /\ Len(a) \in Nat /\ Len(b) \in Nat /\ Len(a) <= Len(b) + m
  BY LenProperties DEF Echoes
<1>2. Len(a) <= Len(b) + n
  BY <1>1
<1> QED BY <1>2 DEF Echoes

(* Nothing, or a sentence that has been said.                              *)
Overlaps(overlap, said) ==
  overlap = <<>> \/ \E x : overlap = <<x>> /\ Contains(said, x)

(* Sentences after an overlap.                                             *)
LEMMA EchoesOverlap ==
  ASSUME NEW S, NEW said \in Seq(S), NEW more \in Seq(S), NEW overlap \in Seq(S),
         Overlaps(overlap, said)
  PROVE  Echoes(S, said \o (overlap \o more), said \o more, 1)
<1>1. CASE overlap = <<>>
  <2>1. overlap \o more = more /\ said \o more \in Seq(S)
    BY <1>1, ConcatEmptySeq, ConcatProperties
  <2> DEFINE w == said \o more
  <2> HIDE DEF w
  <2>2. w \in Seq(S) /\ 1 \in Nat
    BY <2>1 DEF w
  <2>3. Echoes(S, w, w, 1)
    BY <2>2, EchoesItself
  <2> QED BY <2>1, <2>3 DEF w
<1>2. CASE overlap # <<>>
  <2>1. PICK x : overlap = <<x>> /\ Contains(said, x)
    BY <1>2 DEF Overlaps
  <2>2. x \in S /\ overlap = Append(<<>>, x) /\ <<>> \in Seq(S) /\ Len(overlap) = 1
    BY <2>1, LenProperties, EmptySeq
  <2>3. ASSUME NEW noted \in Seq(S)
        PROVE  After(noted, said \o overlap) = After(noted, said)
    <3> DEFINE a == After(noted, said)
               none == <<>>
    <3>1. a \in Seq(S) /\ Contains(a, x) /\ none \in Seq(S)
      BY <2>1, <2>2, AfterIs, AfterHas
    <3>2. After(noted, said \o overlap) = After(a, overlap)
      BY AfterConcat
    <3>3. overlap = Append(none, x)
      BY <2>2
    <3> HIDE DEF a, none
    <3>4. After(a, Append(none, x)) = Note(After(a, none), x)
      BY <2>2, <3>1, AfterIs
    <3>5. After(a, <<>>) = a
      BY <3>1, AfterIs
    <3>6. After(a, overlap) = a
      BY <3>1, <3>3, <3>4, <3>5 DEF Note, none
    <3> QED BY <3>2, <3>6 DEF a
  <2>4. said \o overlap \in Seq(S) /\ Len(said \o overlap) = Len(said) + 1 /\ Len(said) \in Nat
    BY <2>2, ConcatProperties, LenProperties
  <2> DEFINE w == said \o overlap
             z == 0
  <2>5. Echoes(S, w, said, 1)
    BY <2>3, <2>4 DEF Echoes
  <2>6. Echoes(S, more, more, z) /\ 1 + z = 1
    BY EchoesItself
  <2> HIDE DEF w, z
  <2>7. Echoes(S, w \o more, said \o more, 1 + z)
    BY <2>5, <2>6, EchoesJoin
  <2>8. (said \o overlap) \o more = said \o (overlap \o more)
    BY ConcatAssociative
  <2> QED BY <2>6, <2>7, <2>8 DEF w
<1> QED BY <1>1, <1>2

(* An echo goes on, with an overlap or without.                            *)
LEMMA EchoesNext ==
  ASSUME NEW S, NEW said, NEW sentences, NEW n, Echoes(S, said, sentences, n),
         NEW more \in Seq(S)
  PROVE  /\ Echoes(S, said \o more, sentences \o more, n)
         /\ \A overlap \in Seq(S) : Overlaps(overlap, said) =>
              Echoes(S, said \o (overlap \o more), sentences \o more, n + 1)
<1> DEFINE z == 0
<1>1. Echoes(S, more, more, z) /\ n \in Nat /\ n + z = n /\ 1 + n = n + 1 /\ said \in Seq(S)
  BY EchoesItself DEF Echoes
<1> HIDE DEF z
<1>2. Echoes(S, said \o more, sentences \o more, n + z)
  BY <1>1, EchoesJoin
<1>3. Echoes(S, said \o more, sentences \o more, n)
  BY <1>1, <1>2
<1>4. ASSUME NEW overlap \in Seq(S), Overlaps(overlap, said)
      PROVE  Echoes(S, said \o (overlap \o more), sentences \o more, n + 1)
  <2> DEFINE a == said \o (overlap \o more)
             b == said \o more
             c == sentences \o more
  <2>1. Echoes(S, a, b, 1)
    BY <1>1, <1>4, EchoesOverlap
  <2>2. Echoes(S, b, c, n)
    BY <1>3
  <2> HIDE DEF a, b, c
  <2>3. Echoes(S, a, c, 1 + n)
    BY <2>1, <2>2, EchoesAgain
  <2> QED BY <1>1, <2>3 DEF a, c
<1> QED BY <1>3, <1>4

(* No sentence has no length, and lengths add up.                          *)
LEMMA LengthConcat ==
  ASSUME NEW S, \A e \in S : e[3] \in Nat
  PROVE  /\ Total(<<>>, SentenceLength) = 0
         /\ \A e \in S : Total(<<e>>, SentenceLength) = e[3]
         /\ \A s, t \in Seq(S) : Total(s \o t, SentenceLength)
                                   = Total(s, SentenceLength) + Total(t, SentenceLength)
<1> DEFINE L(s) == Total(s, SentenceLength)
<1>0. <<>> \in Seq(S)
  BY EmptySeq
<1>1. L(<<>>) = 0
  <2> DEFINE s == <<>>
  <2>1. s \in Seq(S) /\ Len(s) = 0 /\ 1..0 = {}
    BY EmptySeq
  <2> HIDE DEF s
  <2>2. PICK folded : /\ L(s) = folded[1..Len(s)]
                      /\ Follows(folded, Nat, 0, Len(s),
                                 [p \in (1..Len(s)) \X Nat |-> p[2] + s[p[1]][3]])
    BY <2>1, LengthFollows
  <2>3. folded[{}] = 0
    BY <2>2 DEF Follows
  <2>4. L(s) = 0
    BY <2>1, <2>2, <2>3
  <2> QED BY <2>4 DEF s
<1>2. ASSUME NEW t \in Seq(S)
      PROVE  L(t) \in Nat /\ \A e \in S : L(Append(t, e)) = L(t) + e[3]
  BY <1>2, LengthIs
<1>3. ASSUME NEW e \in S PROVE L(<<e>>) = e[3]
  <2>1. <<e>> = Append(<<>>, e)
    OBVIOUS
  <2>2. L(Append(<<>>, e)) = L(<<>>) + e[3]
    BY <1>0, <1>2
  <2> HIDE DEF L
  <2>3. L(<<e>>) = 0 + e[3] /\ e[3] \in Nat
    BY <1>1, <2>1, <2>2
  <2> QED BY <2>3
<1> HIDE DEF L
<1>4. ASSUME NEW s \in Seq(S), NEW t \in Seq(S) PROVE L(s \o t) = L(s) + L(t)
  <2> DEFINE G == {r \in Seq(S) : L(s \o r) = L(s) + L(r)}
  <2>1. <<>> \in G
    BY <1>0, <1>1, <1>2, ConcatEmptySeq
  <2>2. ASSUME NEW r \in Seq(S), NEW e \in S, r \in G PROVE Append(r, e) \in G
    <3>1. s \o Append(r, e) = Append(s \o r, e) /\ s \o r \in Seq(S)
      <4>1. s \o r \in Seq(S) /\ <<e>> \in Seq(S)
        BY ConcatProperties
      <4>2. Append(r, e) = r \o <<e>> /\ Append(s \o r, e) = (s \o r) \o <<e>>
        BY <4>1, AppendIsConcat
      <4>3. (s \o r) \o <<e>> = s \o (r \o <<e>>)
        BY <4>1, ConcatAssociative
      <4> QED BY <4>1, <4>2, <4>3
    <3> DEFINE w == s \o r
    <3>2. w \in Seq(S) /\ L(w) = L(s) + L(r)
      BY <2>2, <3>1
    <3> HIDE DEF w
    <3>3. L(Append(w, e)) = L(w) + e[3] /\ L(Append(r, e)) = L(r) + e[3]
      BY <1>2, <3>2
    <3>4. L(Append(w, e)) = L(s) + L(Append(r, e))
      <4>1. L(s) \in Nat /\ L(r) \in Nat /\ e[3] \in Nat
        BY <1>2
      <4> QED BY <3>2, <3>3, <4>1
    <3>5. Append(r, e) \in Seq(S)
      BY AppendProperties
    <3> QED BY <3>1, <3>4, <3>5 DEF w
  <2> HIDE DEF G
  <2>3. t \in G
    BY <2>1, <2>2, EverySeq
  <2> QED BY <2>3 DEF G
<1> QED BY <1>1, <1>3, <1>4 DEF L

(* The paragraphs of sentences in S, and the texts of such paragraphs.     *)
Paragraphs(S) == Seq(S) \ {<<>>}
Texts(S) == Seq(Paragraphs(S))

(* The sentences of texts.                                                 *)
LEMMA FlatIs ==
  ASSUME NEW S
  PROVE  /\ <<>> \in Texts(S) /\ Flat(<<>>) = <<>>
         /\ \A p \in Paragraphs(S) : <<p>> \in Texts(S) /\ Flat(<<p>>) = p /\ p \in Seq(S)
         /\ \A t \in Texts(S) : /\ t \in Seq(Seq(S)) /\ Flat(t) \in Seq(S)
                                /\ t # <<>> => Flat(t) # <<>>
         /\ \A t \in Texts(S) : \A p \in Paragraphs(S) :
              Append(t, p) \in Texts(S) /\ Flat(Append(t, p)) = Flat(t) \o p
         /\ \A t, u \in Texts(S) : t \o u \in Texts(S) /\ Flat(t \o u) = Flat(t) \o Flat(u)
<1>1. Texts(S) \subseteq Seq(Seq(S)) /\ <<>> \in Texts(S)
  BY SeqMonotonic, EmptySeq DEF Texts, Paragraphs
<1>2. Flat(<<>>) = <<>>
  BY EmptySeq, FlattenIs DEF Flat
<1>3. ASSUME NEW t \in Texts(S), NEW p \in Paragraphs(S)
      PROVE  Append(t, p) \in Texts(S) /\ Flat(Append(t, p)) = Flat(t) \o p
  <2>1. Append(t, p) \in Texts(S)
    BY AppendProperties DEF Texts
  <2>2. t \in Seq(Seq(S)) /\ p \in Seq(S)
    BY <1>1 DEF Paragraphs
  <2> QED BY <2>1, <2>2, FlattenIs DEF Flat
<1>4. ASSUME NEW p \in Paragraphs(S)
      PROVE  <<p>> \in Texts(S) /\ Flat(<<p>>) = p /\ p \in Seq(S)
  <2>1. <<p>> = Append(<<>>, p) /\ p \in Seq(S)
    BY DEF Paragraphs
  <2>2. Append(<<>>, p) \in Texts(S) /\ Flat(Append(<<>>, p)) = Flat(<<>>) \o p
    BY <1>1, <1>3
  <2>3. <<>> \o p = p
    BY <2>1, ConcatEmptySeq
  <2> QED BY <1>2, <2>1, <2>2, <2>3
<1>5. ASSUME NEW t \in Texts(S)
      PROVE  t \in Seq(Seq(S)) /\ Flat(t) \in Seq(S) /\ (t # <<>> => Flat(t) # <<>>)
  <2>1. t \in Seq(Seq(S)) /\ Flat(t) \in Seq(S)
    BY <1>1, FlattenIs DEF Flat
  <2>2. ASSUME t # <<>> PROVE Flat(t) # <<>>
    <3> DEFINE f == Front(t)
               l == Last(t)
    <3>1. f \in Texts(S) /\ l \in Paragraphs(S) /\ t = Append(f, l)
      BY <2>2, FrontLastIs DEF Texts
    <3> HIDE DEF f, l
    <3>2. Flat(t) = Flat(f) \o l /\ Flat(f) \in Seq(S) /\ l \in Seq(S) /\ l # <<>>
      <4>1. Flat(f) \in Seq(S)
        BY <1>1, <3>1, FlattenIs DEF Flat
      <4> QED BY <1>3, <3>1, <4>1 DEF Paragraphs
    <3> DEFINE g == Flat(f)
    <3> HIDE DEF g
    <3>3. g \in Seq(S) /\ Flat(t) = g \o l
      BY <3>2 DEF g
    <3>4. Len(g \o l) = Len(g) + Len(l) /\ Len(g) \in Nat /\ Len(l) \in Nat /\ Len(l) # 0
      BY <3>2, <3>3, ConcatProperties, LenProperties, EmptySeq
    <3>5. Len(g \o l) # 0
      BY <3>4
    <3> QED BY <3>3, <3>5
  <2> QED BY <2>1, <2>2
<1>6. ASSUME NEW t \in Texts(S), NEW u \in Texts(S)
      PROVE  t \o u \in Texts(S) /\ Flat(t \o u) = Flat(t) \o Flat(u)
  <2>1. t \o u \in Texts(S)
    BY ConcatProperties DEF Texts
  <2>2. t \in Seq(Seq(S)) /\ u \in Seq(Seq(S))
    BY <1>1
  <2> QED BY <2>1, <2>2, FlattenConcat DEF Flat
<1> QED BY <1>1, <1>2, <1>3, <1>4, <1>5, <1>6

(* The length of a text is a number; of one paragraph, that of its         *)
(* sentences; of two, two more than theirs.                                *)
LEMMA TextLengthIs ==
  ASSUME NEW S, \A e \in S : e[3] \in Nat
  PROVE  /\ \A t \in Texts(S) : TextLength(t) \in Int
         /\ \A p \in Paragraphs(S) : TextLength(<<p>>) = Total(p, SentenceLength)
                                     /\ Total(p, SentenceLength) \in Nat
         /\ \A p, q \in Paragraphs(S) :
              TextLength(<<p, q>>) = Total(p, SentenceLength) + Total(q, SentenceLength) + 2
<1> DEFINE L(s) == Total(s, SentenceLength)
<1>1. ASSUME NEW t \in Texts(S)
      PROVE  /\ L(Flat(t)) \in Nat /\ Len(t) \in Nat
             /\ TextLength(t) = L(Flat(t)) + 2 * (Len(t) - 1)
  <2>1. Flat(t) \in Seq(S) /\ Len(t) \in Nat
    BY FlatIs, LenProperties DEF Texts
  <2>2. L(Flat(t)) \in Nat
    BY <2>1, LengthIs
  <2> QED BY <2>1, <2>2 DEF TextLength
<1>2. ASSUME NEW p \in Paragraphs(S)
      PROVE  L(p) \in Nat /\ <<p>> \in Texts(S) /\ Flat(<<p>>) = p /\ p \in Seq(S)
  <2>1. <<p>> \in Texts(S) /\ Flat(<<p>>) = p /\ p \in Seq(S)
    BY FlatIs
  <2> QED BY <2>1, LengthIs
<1>3. \A s, t \in Seq(S) : L(s \o t) = L(s) + L(t)
  BY LengthConcat
<1> HIDE DEF L
<1>4. ASSUME NEW p \in Paragraphs(S) PROVE TextLength(<<p>>) = L(p)
  <2>1. TextLength(<<p>>) = L(Flat(<<p>>)) + 2 * (Len(<<p>>) - 1) /\ Len(<<p>>) = 1
    BY <1>1, <1>2
  <2>2. TextLength(<<p>>) = L(p) + 2 * (1 - 1) /\ L(p) \in Nat
    BY <1>2, <2>1
  <2> QED BY <2>2
<1>5. ASSUME NEW p \in Paragraphs(S), NEW q \in Paragraphs(S)
      PROVE  TextLength(<<p, q>>) = L(p) + L(q) + 2
  <2> DEFINE t == <<p, q>>
             one == <<p>>
  <2>1. t = Append(one, q) /\ Len(t) = 2
    OBVIOUS
  <2>2. one \in Texts(S) /\ Flat(one) = p /\ p \in Seq(S) /\ q \in Seq(S)
    BY <1>2
  <2> HIDE DEF t, one
  <2>3. t \in Texts(S) /\ Flat(t) = p \o q
    BY <2>1, <2>2, FlatIs
  <2>4. TextLength(t) = L(p \o q) + 2 * (2 - 1)
    BY <1>1, <2>1, <2>3
  <2>5. L(p \o q) = L(p) + L(q) /\ L(p) \in Nat /\ L(q) \in Nat
    BY <1>2, <1>3, <2>2
  <2>6. TextLength(t) = L(p) + L(q) + 2
    BY <2>4, <2>5
  <2> QED BY <2>6 DEF t
<1> QED BY <1>1, <1>2, <1>4, <1>5 DEF L

(* The children whose sentences are in S, and those among them that are as *)
(* long as a child may be at most, or marked for a manual split.           *)
Children(S) ==
  [text : Texts(S) \ {<<>>}, manual : BOOLEAN, overlap : Nat, small : BOOLEAN]
FittingChildren(S) == {c \in Children(S) : FitsOrManual(c)}

(* What children say.                                                      *)
LEMMA SaidIs ==
  ASSUME NEW S
  PROVE  /\ Said(<<>>) = <<>>
         /\ \A cs \in Seq(Children(S)) : Said(cs) \in Seq(S)
         /\ \A c \in Children(S) : Said(<<c>>) = Flat(c.text) /\ Flat(c.text) \in Seq(S)
         /\ \A cs \in Seq(Children(S)), c \in Children(S) :
              Said(Append(cs, c)) = Said(cs) \o Flat(c.text)
<1> DEFINE F(cs) == [i \in DOMAIN cs |-> Flat(cs[i].text)]
           C == Children(S)
<1>0. \A c \in C : Flat(c.text) \in Seq(S)
  BY FlatIs DEF Children
<1> HIDE DEF C
<1>1. ASSUME NEW cs \in Seq(C)
      PROVE  /\ Len(cs) \in Nat /\ F(cs) \in Seq(Seq(S)) /\ Len(F(cs)) = Len(cs)
             /\ \A i \in 1..Len(cs) : F(cs)[i] = Flat(cs[i].text)
  <2>1. Len(cs) \in Nat /\ DOMAIN cs = 1..Len(cs) /\ \A i \in 1..Len(cs) : cs[i] \in C
    BY LenProperties
  <2>2. F(cs) \in [1..Len(cs) -> Seq(S)]
    BY <1>0, <2>1
  <2> QED BY <2>1, <2>2
<1>2. \A cs : Said(cs) = FlattenSeq(F(cs))
  BY DEF Said
<1> HIDE DEF F
<1>3. Said(<<>>) = <<>>
  <2> DEFINE none == <<>>
  <2>1. none \in Seq(C) /\ Len(none) = 0
    BY EmptySeq
  <2> HIDE DEF none
  <2>2. F(none) \in Seq(Seq(S)) /\ Len(F(none)) = 0
    BY <1>1, <2>1
  <2>3. F(none) = <<>>
    BY <2>2, EmptySeq
  <2>4. FlattenSeq(<<>>) = <<>>
    BY EmptySeq, FlattenIs
  <2> QED BY <1>2, <2>3, <2>4 DEF none
<1>4. ASSUME NEW cs \in Seq(C) PROVE Said(cs) \in Seq(S)
  BY <1>1, <1>2, FlattenIs
<1>5. ASSUME NEW cs \in Seq(C), NEW c \in C
      PROVE  Said(Append(cs, c)) = Said(cs) \o Flat(c.text)
  <2> DEFINE more == Append(cs, c)
             f == F(cs)
             t == Flat(c.text)
             g == Append(f, t)
  <2>1. more \in Seq(C) /\ Len(more) = Len(cs) + 1 /\ more[Len(cs) + 1] = c
        /\ \A i \in 1..Len(cs) : more[i] = cs[i]
    BY AppendProperties
  <2> HIDE DEF more
  <2>2. f \in Seq(Seq(S)) /\ Len(f) = Len(cs) /\ Len(cs) \in Nat
        /\ \A i \in 1..Len(cs) : f[i] = Flat(cs[i].text)
    BY <1>1
  <2>3. t \in Seq(S)
    BY <1>0
  <2>4. /\ F(more) \in Seq(Seq(S)) /\ Len(F(more)) = Len(cs) + 1
        /\ \A i \in 1..Len(cs) + 1 : F(more)[i] = Flat(more[i].text)
    BY <1>1, <2>1
  <2> HIDE DEF f
  <2>5. g \in Seq(Seq(S)) /\ Len(g) = Len(cs) + 1 /\ g[Len(cs) + 1] = t
        /\ \A i \in 1..Len(cs) : g[i] = f[i]
    <3> HIDE DEF t
    <3> QED BY <2>2, <2>3, AppendProperties
  <2>6. \A i \in 1..Len(cs) + 1 : F(more)[i] = g[i]
    <3> SUFFICES ASSUME NEW i \in 1..Len(cs) + 1 PROVE F(more)[i] = g[i]
      OBVIOUS
    <3>1. F(more)[i] = Flat(more[i].text)
      BY <2>4
    <3>2. CASE i = Len(cs) + 1
      <4> HIDE DEF g
      <4> QED BY <2>1, <2>5, <3>1, <3>2
    <3>3. CASE i # Len(cs) + 1
      <4>1. i \in 1..Len(cs)
        BY <2>2, <3>3
      <4> HIDE DEF g
      <4> QED BY <2>1, <2>2, <2>5, <3>1, <4>1
    <3> QED BY <3>2, <3>3
  <2> HIDE DEF g
  <2>7. F(more) = g
    BY <2>4, <2>5, <2>6, SeqEqual
  <2> HIDE DEF t
  <2>8. FlattenSeq(g) = FlattenSeq(f) \o t
    BY <2>2, <2>3, FlattenIs DEF g
  <2>9. Said(more) = Said(cs) \o t
    BY <1>2, <2>7, <2>8 DEF f
  <2> QED BY <2>9 DEF more, t
<1>6. ASSUME NEW c \in C PROVE Said(<<c>>) = Flat(c.text) /\ Flat(c.text) \in Seq(S)
  <2>1. <<c>> = Append(<<>>, c) /\ <<>> \in Seq(C)
    BY EmptySeq
  <2>2. Said(Append(<<>>, c)) = Said(<<>>) \o Flat(c.text)
    BY <1>5, <2>1
  <2>3. <<>> \o Flat(c.text) = Flat(c.text)
    BY <1>0, ConcatEmptySeq
  <2> QED BY <1>0, <1>3, <2>1, <2>2, <2>3
<1> QED BY <1>3, <1>4, <1>5, <1>6 DEF C

(* Two sequences of children say what the one says, then the other.        *)
LEMMA SaidConcat ==
  ASSUME NEW S, NEW a \in Seq(Children(S)), NEW b \in Seq(Children(S))
  PROVE  Said(a \o b) = Said(a) \o Said(b)
<1> DEFINE C == Children(S)
           G == {r \in Seq(C) : Said(a \o r) = Said(a) \o Said(r)}
<1>0. /\ a \in Seq(C) /\ b \in Seq(C) /\ Said(<<>>) = <<>>
      /\ \A cs \in Seq(C) : Said(cs) \in Seq(S)
      /\ \A c \in C : Flat(c.text) \in Seq(S)
      /\ \A cs \in Seq(C), c \in C : Said(Append(cs, c)) = Said(cs) \o Flat(c.text)
  BY SaidIs
<1> HIDE DEF C
<1>1. <<>> \in G
  BY <1>0, ConcatEmptySeq, EmptySeq
<1>2. ASSUME NEW r \in Seq(C), NEW c \in C, r \in G PROVE Append(r, c) \in G
  <2>1. a \o Append(r, c) = Append(a \o r, c) /\ a \o r \in Seq(C)
    <3>1. a \o r \in Seq(C) /\ <<c>> \in Seq(C)
      BY <1>0, ConcatProperties
    <3>2. Append(r, c) = r \o <<c>> /\ Append(a \o r, c) = (a \o r) \o <<c>>
      BY <3>1, AppendIsConcat
    <3>3. (a \o r) \o <<c>> = a \o (r \o <<c>>)
      <4> DEFINE one == <<c>>
      <4>1. one \in Seq(C)
        BY <3>1
      <4>2. a \in Seq(C) /\ r \in Seq(C)
        BY <1>0
      <4>3. \A p, q, u \in Seq(C) : (p \o q) \o u = p \o (q \o u)
        BY ConcatAssociative
      <4> HIDE DEF one, G
      <4>4. (a \o r) \o one = a \o (r \o one)
        BY <4>1, <4>2, <4>3
      <4> QED BY <4>4 DEF one
    <3> QED BY <3>1, <3>2, <3>3
  <2> DEFINE w == a \o r
             x == Said(a)
             y == Said(r)
             z == Flat(c.text)
  <2>2. w \in Seq(C) /\ Said(w) = x \o y /\ x \in Seq(S) /\ y \in Seq(S) /\ z \in Seq(S)
    BY <1>0, <1>2, <2>1
  <2> HIDE DEF w
  <2>3. Said(Append(w, c)) = Said(w) \o z /\ Said(Append(r, c)) = y \o z
    BY <1>0, <2>2
  <2> HIDE DEF x, y, z
  <2>4. (x \o y) \o z = x \o (y \o z)
    BY <2>2, ConcatAssociative
  <2>5. Said(Append(w, c)) = x \o Said(Append(r, c))
    BY <2>2, <2>3, <2>4
  <2>6. Append(r, c) \in Seq(C)
    BY AppendProperties
  <2> QED BY <2>1, <2>5, <2>6 DEF w, x
<1> HIDE DEF G
<1>3. b \in G
  BY <1>0, <1>1, <1>2, EverySeq
<1> QED BY <1>3 DEF G

(* An overlap is the last sentence, if it is short, or nothing.            *)
LEMMA OverlapOfIs ==
  ASSUME NEW S, \A e \in S : e[3] \in Nat, NEW t \in Texts(S), t # <<>>
  PROVE  /\ OverlapOf(t) \in Seq(S) /\ Len(OverlapOf(t)) \in Nat
         /\ Overlaps(OverlapOf(t), Flat(t))
         /\ \A said \in Seq(S) : Overlaps(OverlapOf(t), said \o Flat(t))
         /\ Total(OverlapOf(t), SentenceLength) <= OverlapChars
<1> DEFINE f == Flat(t)
           last == Last(f)
           o == OverlapOf(t)
<1>1. f \in Seq(S) /\ f # <<>>
  BY FlatIs
<1>2. Len(f) \in Nat /\ Len(f) # 0 /\ last = f[Len(f)]
  BY <1>1, LenProperties, EmptySeq DEF Last
<1> HIDE DEF f
<1>3. last \in S
  BY <1>1, <1>2, LenProperties
<1> HIDE DEF last
<1>4. o = IF OverlapChars > 0 /\ last[3] <= OverlapChars THEN <<last>> ELSE <<>>
  BY DEF OverlapOf, SentenceLength, last, f
<1>5. OverlapChars \in Nat
  BY ChunkingAssumption
<1>6. \A said \in Seq(S) : Contains(said \o f, last)
  <2> SUFFICES ASSUME NEW said \in Seq(S) PROVE Contains(said \o f, last)
    OBVIOUS
  <2> DEFINE w == said \o f
             k == Len(said) + Len(f)
  <2>1. Len(w) = k /\ w[k] = f[k - Len(said)] /\ Len(said) \in Nat
    <3>1. Len(said) \in Nat
      BY LenProperties
    <3>2. k \in 1..Len(said) + Len(f) /\ ~(k <= Len(said))
      BY <1>2, <3>1
    <3> HIDE DEF k
    <3>3. Len(w) = Len(said) + Len(f)
          /\ w[k] = IF k <= Len(said) THEN said[k] ELSE f[k - Len(said)]
      BY <1>1, <3>2, ConcatProperties
    <3> QED BY <3>1, <3>2, <3>3 DEF k
  <2>2. k \in 1..k /\ k - Len(said) = Len(f)
    BY <1>2, <2>1
  <2> HIDE DEF w, k
  <2> QED BY <1>2, <2>1, <2>2 DEF Contains, w
<1>7. Contains(f, last)
  <2>1. Len(f) \in 1..Len(f)
    BY <1>2
  <2> QED BY <1>2, <2>1 DEF Contains
<1>8. CASE o = <<>>
  <2>1. Total(<<>>, SentenceLength) = 0
    BY LengthConcat
  <2>2. <<>> \in Seq(S) /\ Len(<<>>) \in Nat
    BY EmptySeq
  <2>3. Overlaps(o, f) /\ \A said \in Seq(S) : Overlaps(o, said \o f)
    BY <1>8 DEF Overlaps
  <2> HIDE DEF o
  <2> QED BY <1>5, <1>8, <2>1, <2>2, <2>3 DEF o, f
<1>9. CASE o # <<>>
  <2>1. o = <<last>> /\ last[3] <= OverlapChars
    BY <1>4, <1>9
  <2>2. Total(<<last>>, SentenceLength) = last[3]
    BY <1>3, LengthConcat
  <2> HIDE DEF o
  <2>3. Overlaps(o, f) /\ \A said \in Seq(S) : Overlaps(o, said \o f)
    BY <1>6, <1>7, <2>1 DEF Overlaps
  <2>4. o \in Seq(S) /\ Len(o) \in Nat
    BY <1>3, <2>1
  <2> QED BY <2>1, <2>2, <2>3, <2>4 DEF o, f
<1> QED BY <1>8, <1>9

(* A new child fits if its text does.                                      *)
LEMMA ChildIs ==
  ASSUME NEW S, NEW t \in Texts(S) \ {<<>>}, NEW manual \in BOOLEAN, NEW overlap \in Nat,
         NEW small \in BOOLEAN,
         manual \/ TextLength(t) <= MaxChars + OverlapChars + 2
  PROVE  /\ [text |-> t, manual |-> manual, overlap |-> overlap, small |-> small]
              \in FittingChildren(S)
         /\ Child(t, manual, overlap).text = t
         /\ small = FALSE => Child(t, manual, overlap) \in FittingChildren(S)
<1> DEFINE c == [text |-> t, manual |-> manual, overlap |-> overlap, small |-> small]
<1>1. c \in Children(S)
  BY DEF Children
<1>2. FitsOrManual(c)
  BY DEF FitsOrManual
<1>3. small = FALSE => Child(t, manual, overlap) = c
  BY DEF Child
<1>4. Child(t, manual, overlap).text = t
  BY DEF Child
<1> HIDE DEF c
<1>5. c \in FittingChildren(S)
  BY <1>1, <1>2 DEF FittingChildren
<1> QED BY <1>3, <1>4, <1>5 DEF c

(* What a split has put after some sentences: children that fit and a      *)
(* window that does, which echo the sentences, once for each child.        *)
Windows(S) ==
  {acc \in [out : Seq(FittingChildren(S)), window : Seq(S), overlap : Nat] :
     Total(acc.window, SentenceLength) <= MaxChars + OverlapChars}
SplitEchoes(S, acc, sentences) ==
  Echoes(S, Said(acc.out) \o acc.window, sentences, Len(acc.out))

(* One more sentence keeps that, if it fits alone.                         *)
LEMMA PutSentenceKeeps ==
  ASSUME NEW S, \A e \in S : e[3] \in Nat, NEW acc \in Windows(S), NEW sentences \in Seq(S),
         NEW s \in S, s[3] <= MaxChars
  PROVE  /\ PutSentence(acc, s) \in Windows(S)
         /\ PutSentence(acc, s).window # <<>>
         /\ SplitEchoes(S, acc, sentences)
              => SplitEchoes(S, PutSentence(acc, s), Append(sentences, s))
<1> DEFINE out == acc.out
           window == acc.window
           F == FittingChildren(S)
           put == PutSentence(acc, s)
           one == <<s>>
           said == Said(out) \o window
           n == Len(out)
<1>1. /\ out \in Seq(F) /\ window \in Seq(S) /\ acc.overlap \in Nat
      /\ acc = [out |-> out, window |-> window, overlap |-> acc.overlap]
  BY DEF Windows
<1>2. F \subseteq Children(S) /\ out \in Seq(Children(S)) /\ n \in Nat /\ Said(out) \in Seq(S)
  <2>1. F \subseteq Children(S)
    BY DEF FittingChildren
  <2> HIDE DEF F, out
  <2>2. out \in Seq(Children(S))
    BY <1>1, <2>1, SeqMonotonic
  <2>3. n \in Nat
    BY <1>1, LenProperties
  <2> QED BY <2>1, <2>2, <2>3, SaidIs
<1>3. /\ one \in Seq(S) /\ Append(sentences, s) = sentences \o one
      /\ Append(window, s) = window \o one /\ Append(window, s) \in Seq(S)
  <2> HIDE DEF window
  <2> QED BY <1>1, AppendIsConcat, AppendProperties
<1> DEFINE echoes == Echoes(S, said, sentences, n)
<1>4. /\ SplitEchoes(S, acc, sentences) <=> echoes
      /\ Total(window, SentenceLength) <= MaxChars + OverlapChars
  BY DEF SplitEchoes, Windows
<1>5. MaxChars \in Nat /\ OverlapChars \in Nat /\ s[3] \in Nat
  BY ChunkingAssumption
<1> HIDE DEF F, out, window, one, n
<1>6. CASE window # <<>> /\ Total(Append(window, s), SentenceLength) > MaxChars
  <2> DEFINE text == <<window>>
             child == Child(text, FALSE, acc.overlap)
             o == OverlapOf(text)
  <2>1. put = [out |-> Append(out, child), window |-> o \o one, overlap |-> Len(o)]
    BY <1>6 DEF PutSentence, out, window, one
  <2>2. window \in Paragraphs(S)
    BY <1>1, <1>6 DEF Paragraphs
  <2>3. text \in Texts(S) \ {<<>>} /\ Flat(text) = window
        /\ TextLength(text) = Total(window, SentenceLength)
    <3>1. text # <<>>
      OBVIOUS
    <3> QED BY <2>2, <3>1, FlatIs, TextLengthIs
  <2>4. child \in F /\ child.text = text
    <3>1. TextLength(text) <= MaxChars + OverlapChars + 2
      <4>1. Total(window, SentenceLength) \in Nat
        BY <1>1, LengthIs
      <4> HIDE DEF text
      <4> QED BY <1>4, <1>5, <2>3, <4>1
    <3> HIDE DEF text
    <3> QED BY <1>1, <2>3, <3>1, ChildIs DEF F
  <2>5. /\ o \in Seq(S) /\ Len(o) \in Nat /\ Overlaps(o, Said(out) \o window)
        /\ Total(o, SentenceLength) <= OverlapChars
    <3> HIDE DEF text
    <3>1. /\ o \in Seq(S) /\ Len(o) \in Nat /\ Total(o, SentenceLength) <= OverlapChars
          /\ \A before \in Seq(S) : Overlaps(o, before \o Flat(text))
      BY <2>3, OverlapOfIs
    <3> HIDE DEF o
    <3> QED BY <1>2, <2>3, <3>1
  <2> HIDE DEF child, o, text
  <2>6. Said(Append(out, child)) = said
    <3>1. child \in Children(S)
      BY <1>2, <2>4
    <3>2. Said(Append(out, child)) = Said(out) \o Flat(child.text)
      BY <1>2, <3>1, SaidIs
    <3> QED BY <2>3, <2>4, <3>2
  <2>7. Append(out, child) \in Seq(F) /\ Len(Append(out, child)) = n + 1
    BY <1>1, <2>4, AppendProperties DEF n
  <2>8. o \o one \in Seq(S) /\ o \o one # <<>>
        /\ Total(o \o one, SentenceLength) <= MaxChars + OverlapChars
    <3>1. o \o one \in Seq(S) /\ Len(o \o one) = Len(o) + Len(one)
      BY <1>3, <2>5, ConcatProperties
    <3>2. Len(one) = 1
      BY DEF one
    <3>3. o \o one # <<>>
      <4>1. Len(o \o one) # 0
        BY <2>5, <3>1, <3>2
      <4> QED BY <4>1
    <3>4. Total(o \o one, SentenceLength) = Total(o, SentenceLength) + Total(one, SentenceLength)
      BY <1>3, <2>5, LengthConcat
    <3>5. Total(one, SentenceLength) = s[3] /\ Total(o, SentenceLength) \in Nat
      BY <2>5, LengthConcat, LengthIs DEF one
    <3>6. Total(o \o one, SentenceLength) <= MaxChars + OverlapChars
      BY <1>5, <2>5, <3>4, <3>5
    <3> QED BY <3>1, <3>3, <3>6
  <2>9. echoes => Echoes(S, said \o (o \o one), sentences \o one, n + 1)
    <3> HIDE DEF said
    <3> QED BY <1>3, <2>5, EchoesNext DEF said
  <2> DEFINE more == Append(out, child)
             next == o \o one
  <2> HIDE DEF more, next
  <2>10. put = [out |-> more, window |-> next, overlap |-> Len(o)]
    BY <2>1 DEF more, next
  <2>11. /\ more \in Seq(F) /\ Len(more) = n + 1 /\ Said(more) = said
         /\ next \in Seq(S) /\ next # <<>>
         /\ Total(next, SentenceLength) <= MaxChars + OverlapChars
         /\ echoes => Echoes(S, said \o next, sentences \o one, n + 1)
    BY <2>6, <2>7, <2>8, <2>9 DEF more, next
  <2> HIDE DEF put
  <2>12. put \in Windows(S) /\ put.out = more /\ put.window = next
    BY <2>5, <2>10, <2>11 DEF Windows, F
  <2> HIDE DEF said, echoes
  <2>13. echoes => SplitEchoes(S, put, Append(sentences, s))
    BY <1>3, <2>11, <2>12 DEF SplitEchoes
  <2> QED BY <1>4, <2>11, <2>12, <2>13 DEF put
<1>7. CASE ~(window # <<>> /\ Total(Append(window, s), SentenceLength) > MaxChars)
  <2> DEFINE next == Append(window, s)
  <2>1. put = [out |-> out, window |-> next, overlap |-> acc.overlap]
    <3>1. put = [acc EXCEPT !.window = Append(@, s)]
      BY <1>7 DEF PutSentence, window
    <3> QED BY <1>1, <3>1 DEF window, out
  <2>2. Total(next, SentenceLength) <= MaxChars + OverlapChars
    <3>1. CASE window = <<>>
      <4>1. next = one
        BY <3>1 DEF one
      <4>2. Total(one, SentenceLength) = s[3]
        BY LengthConcat DEF one
      <4> HIDE DEF next
      <4> QED BY <1>5, <4>1, <4>2
    <3>2. CASE window # <<>>
      <4>1. ~(Total(next, SentenceLength) > MaxChars)
        BY <1>7, <3>2
      <4>2. Total(next, SentenceLength) \in Nat
        <5>1. next \in Seq(S)
          BY <1>3
        <5> HIDE DEF next
        <5> QED BY <5>1, LengthIs
      <4> HIDE DEF next
      <4> DEFINE x == Total(next, SentenceLength)
      <4> HIDE DEF x
      <4>3. x \in Nat /\ ~(x > MaxChars)
        BY <4>1, <4>2 DEF x
      <4>4. x <= MaxChars + OverlapChars
        BY <1>5, <4>3
      <4> QED BY <4>4 DEF x
    <3> QED BY <3>1, <3>2
  <2>3. next \in Seq(S) /\ next # <<>> /\ next = window \o one
    BY <1>3
  <2> HIDE DEF next
  <2>4. echoes => Echoes(S, said \o one, sentences \o one, n)
    <3> HIDE DEF said
    <3> QED BY <1>3, EchoesNext
  <2>5. said \o one = Said(out) \o next
    <3> DEFINE x == Said(out)
    <3>1. x \in Seq(S)
      BY <1>2
    <3> HIDE DEF x
    <3>3. \A p, q, r \in Seq(S) : (p \o q) \o r = p \o (q \o r)
      BY ConcatAssociative
    <3>2. (x \o window) \o one = x \o (window \o one)
      BY <1>1, <1>3, <3>1, <3>3
    <3> QED BY <2>3, <3>2 DEF x
  <2> HIDE DEF put, said, echoes
  <2>6. put \in Windows(S) /\ put.out = out /\ put.window = next
    BY <1>1, <2>1, <2>2, <2>3 DEF Windows, F
  <2>7. echoes => SplitEchoes(S, put, Append(sentences, s))
    BY <1>3, <2>4, <2>5, <2>6 DEF n, SplitEchoes
  <2> QED BY <1>4, <2>3, <2>6, <2>7 DEF put
<1> QED BY <1>6, <1>7

(* A child that is marked as short, or not.                                *)
LEMMA SmallChild ==
  ASSUME NEW t, NEW small, NEW manual, NEW overlap
  PROVE  [Child(t, manual, overlap) EXCEPT !.small = small]
           = [text |-> t, manual |-> manual, overlap |-> overlap, small |-> small]
  BY DEF Child

(* A paragraph is put into windows one sentence at a time.                 *)
LEMMA WindowsAre ==
  ASSUME NEW S, \A e \in S : e[3] \in Nat, NEW paragraph \in Seq(S), paragraph # <<>>,
         \A i \in DOMAIN paragraph : paragraph[i][3] <= MaxChars
  PROVE  \E end \in Windows(S) :
           /\ end.window # <<>> /\ SplitEchoes(S, end, paragraph)
           /\ ~(Len(paragraph) <= 1) =>
                SplitLongBlock(paragraph)
                  = Append(end.out, Child(<<end.window>>, FALSE, end.overlap))
<1> DEFINE n == Len(paragraph)
           X == Windows(S)
           base == [out |-> <<>>, window |-> <<>>, overlap |-> 0]
           Folding(it) ==
             it = [u \in SUBSET DOMAIN paragraph |->
                     IF u = {} THEN base ELSE PutSentence(it[u \ {Max(u)}], paragraph[Max(u)])]
           folded == CHOOSE it : Folding(it)
           step == [p \in (1..n) \X X |-> PutSentence(p[2], paragraph[p[1]])]
<1>1. n \in Nat /\ n # 0 /\ DOMAIN paragraph = 1..n
      /\ \A i \in 1..n : paragraph[i] \in S /\ paragraph[i][3] <= MaxChars
  BY LenProperties, EmptySeq
<1>2. ~(n <= 1) => SplitLongBlock(paragraph)
                     = Append(folded[1..n].out,
                              Child(<<folded[1..n].window>>, FALSE, folded[1..n].overlap))
  <2>1. MaxChars \in Nat /\ \A i \in 1..n : paragraph[i][3] \in Nat
    BY <1>1, ChunkingAssumption
  <2>2. \A i \in DOMAIN paragraph : ~(SentenceLength(paragraph[i]) > MaxChars)
    BY <1>1, <2>1 DEF SentenceLength
  <2> QED BY <1>1, <2>2 DEF SplitLongBlock, PutSentence, FoldLeft, MapThenFoldSet
<1>3. base \in X /\ SplitEchoes(S, base, <<>>)
  <2>1. <<>> \in Seq(S) /\ <<>> \in Seq(FittingChildren(S)) /\ Len(<<>>) = 0
    BY EmptySeq
  <2>2. Total(<<>>, SentenceLength) = 0 /\ 0 <= MaxChars + OverlapChars
    <3>1. Total(<<>>, SentenceLength) = 0
      BY LengthConcat
    <3>2. MaxChars \in Nat /\ OverlapChars \in Nat
      BY ChunkingAssumption
    <3> QED BY <3>1, <3>2
  <2>3. base \in X
    BY <2>1, <2>2 DEF Windows
  <2>4. Said(<<>>) \o <<>> = <<>>
    BY <2>1, SaidIs, ConcatEmptySeq
  <2>5. SplitEchoes(S, base, <<>>)
    BY <2>1, <2>4, EchoesItself DEF SplitEchoes
  <2> QED BY <2>3, <2>5
<1>4. \A acc \in X, j \in 1..n, sentences \in Seq(S) :
        /\ PutSentence(acc, paragraph[j]) \in X
        /\ PutSentence(acc, paragraph[j]).window # <<>>
        /\ SplitEchoes(S, acc, sentences)
             => SplitEchoes(S, PutSentence(acc, paragraph[j]), Append(sentences, paragraph[j]))
  BY <1>1, PutSentenceKeeps
<1> HIDE DEF X, base
<1>5. step \in [(1..n) \X X -> X]
  <2>1. <<>> \in Seq(S)
    BY EmptySeq
  <2> QED BY <1>4, <2>1
<1>6. PICK it \in [SUBSET (1..n) -> X] : FoldsBy(it, base, n, step)
  <2> HIDE DEF step, n
  <2> QED BY <1>1, <1>3, <1>5, FoldExists
<1>7. Folding(it)
  <2>1. \A u \in SUBSET (1..n) : u # {} => <<Max(u), it[u \ {Max(u)}]>> \in (1..n) \X X
    BY <1>1, MaxIsIn
  <2>2. \A u \in SUBSET (1..n) :
          it[u] = IF u = {} THEN base ELSE PutSentence(it[u \ {Max(u)}], paragraph[Max(u)])
    BY <1>6, <2>1 DEF FoldsBy
  <2> QED BY <1>1, <1>6, <2>2
<1>8. Folding(folded)
  <2> HIDE DEF Folding
  <2> QED BY <1>7
<1> HIDE DEF folded
<1>9. Follows(folded, X, base, n, step)
  <2>1. folded[{}] = base
    BY <1>1, <1>8
  <2>2. \A u \in SUBSET (1..n) : u # {} /\ folded[u \ {Max(u)}] \in X
          => folded[u] = step[<<Max(u), folded[u \ {Max(u)}]>>]
    BY <1>1, <1>8, MaxIsIn
  <2> HIDE DEF step
  <2> QED BY <2>1, <2>2 DEF Follows
<1> DEFINE Split(acc, i) == /\ SplitEchoes(S, acc, SubSeq(paragraph, 1, i))
                            /\ i # 0 => acc.window # <<>>
           Within == [i \in 0..n |-> {acc \in X : Split(acc, i)}]
<1>10. Within \in [0..n -> SUBSET X] /\ base \in Within[0]
  <2>1. Split(base, 0)
    BY <1>3, OneByOne
  <2> HIDE DEF Split
  <2> QED BY <1>1, <1>3, <2>1
<1>11. ASSUME NEW j \in 1..n, NEW x \in Within[j - 1]
       PROVE  step[<<j, x>>] \in Within[j]
  <2>1. j - 1 \in 0..n /\ j \in 0..n /\ j # 0
    BY <1>1
  <2>2. x \in X /\ SplitEchoes(S, x, SubSeq(paragraph, 1, j - 1))
    BY <2>1
  <2>3. step[<<j, x>>] = PutSentence(x, paragraph[j])
    BY <1>1, <2>2
  <2>4. /\ SubSeq(paragraph, 1, j) = Append(SubSeq(paragraph, 1, j - 1), paragraph[j])
        /\ SubSeq(paragraph, 1, j - 1) \in Seq(S)
    BY OneByOne
  <2>5. SplitEchoes(S, PutSentence(x, paragraph[j]), SubSeq(paragraph, 1, j))
    BY <1>4, <2>2, <2>4
  <2>6. PutSentence(x, paragraph[j]) \in X /\ PutSentence(x, paragraph[j]).window # <<>>
    BY <1>4, <2>2, <2>4
  <2>7. Split(PutSentence(x, paragraph[j]), j)
    BY <2>5, <2>6
  <2> HIDE DEF Split
  <2> QED BY <2>1, <2>3, <2>6, <2>7
<1>12. folded[1..n] \in Within[n]
  <2> HIDE DEF step, n, Within
  <2> QED BY <1>1, <1>3, <1>5, <1>9, <1>10, <1>11, FoldKeeps
<1>13. /\ folded[1..n] \in X /\ SplitEchoes(S, folded[1..n], paragraph)
       /\ folded[1..n].window # <<>>
  <2>1. folded[1..n] \in X /\ Split(folded[1..n], n)
    <3> HIDE DEF Split
    <3> QED BY <1>1, <1>12
  <2> QED BY <1>1, <2>1, OneByOne
<1> QED BY <1>2, <1>13 DEF X

(* The children of a long paragraph echo it, and fit.                      *)
LEMMA SplitIs ==
  ASSUME NEW S, \A e \in S : e[3] \in Nat, NEW paragraph \in Paragraphs(S)
  PROVE  /\ SplitLongBlock(paragraph) \in Seq(FittingChildren(S))
         /\ Echoes(S, Said(SplitLongBlock(paragraph)), paragraph, Len(SplitLongBlock(paragraph)))
<1> DEFINE n == Len(paragraph)
           long == \E i \in DOMAIN paragraph : SentenceLength(paragraph[i]) > MaxChars
           split == SplitLongBlock(paragraph)
           F == FittingChildren(S)
<1>1. /\ paragraph \in Seq(S) /\ paragraph # <<>> /\ n \in Nat /\ MaxChars \in Nat
      /\ DOMAIN paragraph = 1..n /\ \A i \in 1..n : paragraph[i][3] \in Nat
  BY LenProperties, ChunkingAssumption DEF Paragraphs
<1>2. CASE n <= 1 \/ long
  <2> DEFINE text == <<paragraph>>
             small == TextLength(text) < MinChars
             c == [text |-> text, manual |-> TRUE, overlap |-> 0, small |-> small]
  <2>1. split = <<c>>
    <3>1. split = <<[Child(text, TRUE, 0) EXCEPT !.small = small]>>
      BY <1>2 DEF SplitLongBlock
    <3>2. [Child(text, TRUE, 0) EXCEPT !.small = small] = c
      <4> HIDE DEF small, text
      <4> QED BY SmallChild
    <3> HIDE DEF c, small
    <3> QED BY <3>1, <3>2
  <2>2. text \in Texts(S) \ {<<>>} /\ Flat(text) = paragraph
    <3>1. text # <<>>
      OBVIOUS
    <3> QED BY <3>1, FlatIs
  <2>3. c \in F /\ c.text = text
    <3>1. small \in BOOLEAN
      OBVIOUS
    <3> HIDE DEF small, text
    <3> QED BY <2>2, <3>1, ChildIs
  <2>4. c \in Children(S)
    BY <2>3 DEF FittingChildren
  <2> HIDE DEF c, text
  <2>5. Said(<<c>>) = paragraph
    BY <2>2, <2>3, <2>4, SaidIs
  <2>6. <<c>> \in Seq(F) /\ Len(<<c>>) \in Nat
    BY <2>3
  <2> HIDE DEF split
  <2>7. Echoes(S, paragraph, paragraph, Len(<<c>>))
    BY <1>1, <2>6, EchoesItself
  <2> QED BY <2>1, <2>5, <2>6, <2>7 DEF split
<1>3. CASE ~(n <= 1 \/ long)
  <2>1. \A i \in DOMAIN paragraph : paragraph[i][3] <= MaxChars
    <3>1. \A i \in DOMAIN paragraph : ~(paragraph[i][3] > MaxChars)
      BY <1>3 DEF SentenceLength
    <3>2. \A x, y \in Nat : ~(x > y) => x <= y
      OBVIOUS
    <3> QED BY <1>1, <3>1, <3>2
  <2>2. PICK end \in Windows(S) :
          /\ end.window # <<>> /\ SplitEchoes(S, end, paragraph)
          /\ split = Append(end.out, Child(<<end.window>>, FALSE, end.overlap))
    BY <1>1, <1>3, <2>1, WindowsAre
  <2> DEFINE out == end.out
             window == end.window
             text == <<window>>
             c == Child(text, FALSE, end.overlap)
  <2>3. /\ out \in Seq(F) /\ window \in Paragraphs(S) /\ window \in Seq(S) /\ end.overlap \in Nat
        /\ Total(window, SentenceLength) <= MaxChars + OverlapChars
        /\ Echoes(S, Said(out) \o window, paragraph, Len(out))
    BY <2>2 DEF Windows, Paragraphs, SplitEchoes
  <2> HIDE DEF out, window
  <2>4. text \in Texts(S) \ {<<>>} /\ Flat(text) = window
        /\ TextLength(text) = Total(window, SentenceLength)
    <3>1. text # <<>>
      OBVIOUS
    <3> QED BY <2>3, <3>1, FlatIs, TextLengthIs
  <2>5. c \in F /\ c.text = text
    <3>1. TextLength(text) <= MaxChars + OverlapChars + 2
      <4>1. Total(window, SentenceLength) \in Nat /\ OverlapChars \in Nat
        BY <2>3, LengthIs, ChunkingAssumption
      <4> HIDE DEF text
      <4> QED BY <1>1, <2>3, <2>4, <4>1
    <3> HIDE DEF text
    <3> QED BY <2>3, <2>4, <3>1, ChildIs
  <2> HIDE DEF c, text
  <2>6. split = Append(out, c)
    BY <2>2 DEF out, window, text, c
  <2> HIDE DEF split, F
  <2>7. split \in Seq(F) /\ Len(split) = Len(out) + 1 /\ Len(out) \in Nat
    BY <2>3, <2>5, <2>6, AppendProperties, LenProperties
  <2>8. F \subseteq Children(S)
    BY DEF F, FittingChildren
  <2>9. Said(split) = Said(out) \o window
    <3>1. out \in Seq(Children(S)) /\ c \in Children(S)
      BY <2>3, <2>5, <2>8, SeqMonotonic
    <3>2. Said(Append(out, c)) = Said(out) \o Flat(c.text)
      BY <3>1, SaidIs
    <3> QED BY <2>4, <2>5, <2>6, <3>2
  <2>10. Echoes(S, Said(out) \o window, paragraph, Len(out) + 1)
    <3> DEFINE w == Said(out) \o window
               k == Len(out)
    <3>1. Echoes(S, w, paragraph, k) /\ k \in Nat /\ k + 1 \in Nat /\ k <= k + 1
      BY <2>3, <2>7
    <3> HIDE DEF w, k
    <3>2. Echoes(S, w, paragraph, k + 1)
      BY <3>1, EchoesLoosely
    <3> QED BY <3>2 DEF w, k
  <2> QED BY <2>7, <2>9, <2>10 DEF split, F
<1> QED BY <1>2, <1>3

(* What is packed after some sentences: children that fit and paragraphs   *)
(* that would, which echo the sentences, once for each child.              *)
Packs(S) ==
  {acc \in [out : Seq(FittingChildren(S)), texts : Texts(S), overlap : Nat] :
     acc.texts # <<>> => TextLength(acc.texts) <= MaxChars + OverlapChars + 2}
PackEchoes(S, acc, sentences) ==
  Echoes(S, Said(acc.out) \o Flat(acc.texts), sentences, Len(acc.out))

(* The paragraphs at hand are said by the child they become.               *)
LEMMA FlushedIs ==
  ASSUME NEW S, NEW acc \in Packs(S)
  PROVE  /\ Flushed(acc) \in Seq(FittingChildren(S))
         /\ Said(Flushed(acc)) = Said(acc.out) \o Flat(acc.texts)
         /\ Said(acc.out) \in Seq(S) /\ Flat(acc.texts) \in Seq(S)
         /\ Len(acc.out) \in Nat /\ Len(Flushed(acc)) \in Nat
         /\ Len(acc.out) <= Len(Flushed(acc))
         /\ acc.texts # <<>> => Len(Flushed(acc)) = Len(acc.out) + 1
<1> DEFINE out == acc.out
           texts == acc.texts
           F == FittingChildren(S)
           c == Child(texts, FALSE, acc.overlap)
<1>1. /\ out \in Seq(F) /\ texts \in Texts(S) /\ acc.overlap \in Nat
      /\ texts # <<>> => TextLength(texts) <= MaxChars + OverlapChars + 2
  BY DEF Packs
<1>2. Flushed(acc) = IF texts = <<>> THEN out ELSE Append(out, c)
  BY DEF Flushed
<1>3. \A cs \in Seq(F) : cs \in Seq(Children(S)) /\ Len(cs) \in Nat
  <2>1. F \subseteq Children(S)
    BY DEF FittingChildren
  <2> HIDE DEF F
  <2> QED BY <2>1, SeqMonotonic, LenProperties
<1> HIDE DEF out, texts, F
<1>4. Said(out) \in Seq(S) /\ Flat(texts) \in Seq(S) /\ Len(out) \in Nat
  BY <1>1, <1>3, SaidIs, FlatIs
<1>5. CASE texts = <<>>
  <2>1. Flushed(acc) = out /\ Flat(texts) = <<>>
    BY <1>2, <1>5, FlatIs
  <2>2. Said(out) \o <<>> = Said(out)
    BY <1>4, ConcatEmptySeq
  <2>3. Len(out) <= Len(out)
    BY <1>4
  <2> QED BY <1>1, <1>4, <1>5, <2>1, <2>2, <2>3 DEF out, texts, F
<1>6. CASE texts # <<>>
  <2>1. Flushed(acc) = Append(out, c)
    BY <1>2, <1>6
  <2>2. c \in F /\ c.text = texts
    BY <1>1, <1>6, ChildIs DEF F
  <2> HIDE DEF c
  <2>3. Append(out, c) \in Seq(F) /\ Len(Append(out, c)) = Len(out) + 1
    BY <1>1, <2>2, AppendProperties
  <2>4. Said(Append(out, c)) = Said(out) \o Flat(texts)
    <3>1. out \in Seq(Children(S)) /\ c \in Children(S)
      BY <1>1, <1>3, <2>2 DEF F, FittingChildren
    <3>2. Said(Append(out, c)) = Said(out) \o Flat(c.text)
      BY <3>1, SaidIs
    <3> QED BY <2>2, <3>2
  <2>5. Len(out) + 1 \in Nat /\ Len(out) <= Len(out) + 1
    BY <1>4
  <2> QED BY <1>4, <2>1, <2>3, <2>4, <2>5 DEF out, texts, F
<1> QED BY <1>5, <1>6

(* One more paragraph keeps that.                                          *)
LEMMA PutParagraphKeeps ==
  ASSUME NEW S, \A e \in S : e[3] \in Nat, NEW acc \in Packs(S), NEW sentences \in Seq(S),
         NEW p \in Paragraphs(S)
  PROVE  /\ PutParagraph(acc, p) \in Packs(S)
         /\ PackEchoes(S, acc, sentences)
              => PackEchoes(S, PutParagraph(acc, p), sentences \o p)
<1> DEFINE out == acc.out
           texts == acc.texts
           F == FittingChildren(S)
           put == PutParagraph(acc, p)
           flushed == Flushed(acc)
           said == Said(out) \o Flat(texts)
           n == Len(out)
           echoes == Echoes(S, said, sentences, n)
           Room(t) == TextLength(t) <= MaxChars + OverlapChars + 2
<1>1. /\ out \in Seq(F) /\ texts \in Texts(S) /\ acc.overlap \in Nat
      /\ acc = [out |-> out, texts |-> texts, overlap |-> acc.overlap]
  BY DEF Packs
<1>2. /\ flushed \in Seq(F) /\ Said(flushed) = said /\ n \in Nat /\ Len(flushed) \in Nat
      /\ Said(out) \in Seq(S) /\ Flat(texts) \in Seq(S)
      /\ n <= Len(flushed)
      /\ texts # <<>> => Len(flushed) = n + 1
  BY FlushedIs
<1>3. PackEchoes(S, acc, sentences) <=> echoes
  BY DEF PackEchoes
<1>4. MaxChars \in Nat /\ OverlapChars \in Nat
  BY ChunkingAssumption
<1>5. \A t \in Texts(S) : ~(TextLength(t) > MaxChars) => Room(t)
  <2>1. \A t \in Texts(S) : TextLength(t) \in Int
    BY TextLengthIs
  <2>2. \A x \in Int : ~(x > MaxChars) => x <= MaxChars + OverlapChars + 2
    BY <1>4
  <2> QED BY <2>1, <2>2
<1>6. p \in Seq(S) /\ <<p>> \in Texts(S) /\ Flat(<<p>>) = p /\ <<p>> # <<>>
  <2>1. <<p>> # <<>>
    OBVIOUS
  <2> QED BY <2>1, FlatIs
<1>7. said \in Seq(S)
  BY <1>2, ConcatProperties
<1> HIDE DEF F, out, texts, flushed, n
<1>8. CASE TextLength(<<p>>) > MaxChars
  <2> DEFINE split == SplitLongBlock(p)
             more == flushed \o split
  <2>1. put = [out |-> more, texts |-> <<>>, overlap |-> 0]
    BY <1>8 DEF PutParagraph, flushed
  <2>2. split \in Seq(F) /\ Echoes(S, Said(split), p, Len(split)) /\ Len(split) \in Nat
    <3>1. split \in Seq(F) /\ Echoes(S, Said(split), p, Len(split))
      BY SplitIs DEF F
    <3> HIDE DEF split
    <3> QED BY <3>1, LenProperties
  <2> HIDE DEF split
  <2>3. more \in Seq(F) /\ Len(more) = Len(flushed) + Len(split)
    BY <1>2, <2>2, ConcatProperties
  <2>4. Said(more) = said \o Said(split) /\ Said(more) \in Seq(S)
    <3>1. F \subseteq Children(S)
      BY DEF F, FittingChildren
    <3>2. /\ flushed \in Seq(Children(S)) /\ split \in Seq(Children(S))
          /\ more \in Seq(Children(S))
      <4> HIDE DEF more
      <4> QED BY <1>2, <2>2, <2>3, <3>1, SeqMonotonic
    <3> QED BY <1>2, <3>2, SaidConcat, SaidIs
  <2> HIDE DEF more
  <2>5. <<>> \in Texts(S) /\ Flat(<<>>) = <<>> /\ Said(more) \o <<>> = Said(more)
    BY <2>4, FlatIs, ConcatEmptySeq
  <2> HIDE DEF put
  <2>6. put \in Packs(S) /\ put.out = more /\ put.texts = <<>>
    BY <2>1, <2>3, <2>5 DEF Packs, F
  <2>7. ASSUME echoes PROVE PackEchoes(S, put, sentences \o p)
    <3> DEFINE k == Len(flushed)
               l == Len(split)
               x == Said(split)
    <3> HIDE DEF said
    <3>1. Echoes(S, said, sentences, k)
      BY <1>2, <2>7, EchoesLoosely
    <3>2. Echoes(S, x, p, l)
      BY <2>2
    <3> HIDE DEF k, l, x
    <3>3. Echoes(S, said \o x, sentences \o p, k + l)
      BY <3>1, <3>2, EchoesJoin
    <3> QED BY <2>3, <2>4, <2>5, <2>6, <3>3 DEF PackEchoes, k, l, x
  <2> HIDE DEF echoes
  <2> QED BY <1>3, <2>6, <2>7 DEF put
<1>9. CASE /\ ~(TextLength(<<p>>) > MaxChars)
           /\ texts # <<>> /\ TextLength(Append(texts, p)) > MaxChars
  <2> DEFINE o == OverlapOf(texts)
             next == (IF o = <<>> THEN <<>> ELSE <<o>>) \o <<p>>
  <2>1. put = [out |-> flushed, overlap |-> Len(o), texts |-> next]
    BY <1>9 DEF PutParagraph, flushed, texts
  <2>2. /\ o \in Seq(S) /\ Len(o) \in Nat /\ Overlaps(o, said)
        /\ Total(o, SentenceLength) <= OverlapChars
    BY <1>1, <1>2, <1>9, OverlapOfIs
  <2> HIDE DEF o
  <2>3. next \in Texts(S) /\ next # <<>> /\ Flat(next) = o \o p /\ Room(next)
    <3>1. CASE o = <<>>
      <4>1. next = <<p>> /\ o \o p = p
        <5>1. <<>> \o <<p>> = <<p>>
          OBVIOUS
        <5>2. <<>> \o p = p
          BY <1>6, ConcatEmptySeq
        <5> QED BY <3>1, <5>1, <5>2
      <4>2. Room(<<p>>)
        BY <1>5, <1>6, <1>9
      <4> HIDE DEF next, Room
      <4> QED BY <1>6, <4>1, <4>2
    <3>2. CASE o # <<>>
      <4>2. o \in Paragraphs(S)
        BY <2>2, <3>2 DEF Paragraphs
      <4>1. next = <<o>> \o <<p>> /\ <<o>> \o <<p>> = <<o, p>>
        <5>1. next = <<o>> \o <<p>>
          BY <3>2
        <5> DEFINE a == <<o>>
        <5>2. a \in Seq(Seq(S)) /\ p \in Seq(S) /\ Append(a, p) = <<o, p>>
          <6> DEFINE T == Seq(S)
          <6>1. o \in T /\ p \in T
            BY <1>6, <2>2
          <6> HIDE DEF T
          <6>2. <<o>> \in Seq(T) /\ Append(<<o>>, p) = <<o, p>>
            BY <6>1, PairIs
          <6> QED BY <1>6, <6>2 DEF T
        <5> HIDE DEF a
        <5>3. Append(a, p) = a \o <<p>>
          BY <5>2, AppendIsConcat
        <5> QED BY <5>1, <5>2, <5>3 DEF a
      <4>3. <<o>> \in Texts(S) /\ Flat(<<o>>) = o
        BY <4>2, FlatIs
      <4> DEFINE a == <<o>>
                 b == <<p>>
      <4>4. a \in Texts(S) /\ b \in Texts(S) /\ Flat(a) = o /\ Flat(b) = p /\ next = a \o b
        BY <1>6, <4>1, <4>3
      <4>5. next = <<o, p>> /\ next # <<>>
        BY <4>1
      <4> HIDE DEF a, b, next
      <4>6. next \in Texts(S) /\ Flat(next) = o \o p
        <5>1. \A t, u \in Texts(S) : t \o u \in Texts(S) /\ Flat(t \o u) = Flat(t) \o Flat(u)
          BY FlatIs
        <5> QED BY <4>4, <5>1
      <4>7. /\ TextLength(<<o, p>>) = Total(o, SentenceLength) + Total(p, SentenceLength) + 2
            /\ TextLength(<<p>>) = Total(p, SentenceLength)
            /\ Total(o, SentenceLength) \in Nat /\ Total(p, SentenceLength) \in Nat
        BY <4>2, TextLengthIs
      <4> DEFINE x == Total(o, SentenceLength)
                 y == Total(p, SentenceLength)
      <4>8. x \in Nat /\ y \in Nat /\ x <= OverlapChars /\ ~(y > MaxChars)
        BY <1>9, <2>2, <4>7
      <4>9. TextLength(next) = x + y + 2
        BY <4>5, <4>7
      <4> HIDE DEF x, y
      <4>10. Room(next)
        BY <1>4, <4>8, <4>9
      <4> QED BY <4>5, <4>6, <4>10
    <3> QED BY <3>1, <3>2
  <2> HIDE DEF next, put
  <2>4. put \in Packs(S) /\ put.out = flushed /\ put.texts = next
    BY <1>2, <2>1, <2>2, <2>3 DEF Packs, F
  <2>5. ASSUME echoes PROVE PackEchoes(S, put, sentences \o p)
    <3> HIDE DEF said
    <3>1. Echoes(S, said \o (o \o p), sentences \o p, n + 1)
      BY <1>6, <2>2, <2>5, EchoesNext
    <3> QED BY <1>2, <1>9, <2>3, <2>4, <3>1 DEF PackEchoes
  <2> HIDE DEF echoes
  <2> QED BY <1>3, <2>4, <2>5 DEF put
<1>10. CASE /\ ~(TextLength(<<p>>) > MaxChars)
            /\ ~(texts # <<>> /\ TextLength(Append(texts, p)) > MaxChars)
  <2> DEFINE next == Append(texts, p)
  <2>1. put = [out |-> out, texts |-> next, overlap |-> acc.overlap]
    <3>1. put = [acc EXCEPT !.texts = Append(@, p)]
      BY <1>10 DEF PutParagraph, texts
    <3> QED BY <1>1, <3>1 DEF texts, out
  <2>2. next \in Texts(S) /\ Flat(next) = Flat(texts) \o p
    BY <1>1, FlatIs
  <2>3. Room(next)
    <3>1. CASE texts = <<>>
      <4>1. next = <<p>>
        BY <3>1
      <4> HIDE DEF next, Room
      <4> QED BY <1>5, <1>6, <1>10, <4>1
    <3>2. CASE texts # <<>>
      <4>1. ~(TextLength(next) > MaxChars)
        BY <1>10, <3>2
      <4> HIDE DEF next, Room
      <4> QED BY <1>5, <2>2, <4>1
    <3> QED BY <3>1, <3>2
  <2>4. said \o p = Said(out) \o Flat(next)
    <3> DEFINE x == Said(out)
               y == Flat(texts)
    <3>1. x \in Seq(S) /\ y \in Seq(S) /\ p \in Seq(S)
      BY <1>2, <1>6
    <3>2. \A q, r, t \in Seq(S) : (q \o r) \o t = q \o (r \o t)
      BY ConcatAssociative
    <3> HIDE DEF x, y
    <3>3. (x \o y) \o p = x \o (y \o p)
      BY <3>1, <3>2
    <3> QED BY <2>2, <3>3 DEF x, y
  <2> HIDE DEF next, put
  <2>5. put \in Packs(S) /\ put.out = out /\ put.texts = next
    BY <1>1, <2>1, <2>2, <2>3 DEF Packs, F
  <2>6. ASSUME echoes PROVE PackEchoes(S, put, sentences \o p)
    <3> HIDE DEF said
    <3>1. Echoes(S, said \o p, sentences \o p, n)
      BY <1>6, <2>6, EchoesNext
    <3> QED BY <2>4, <2>5, <3>1 DEF PackEchoes, n
  <2> HIDE DEF echoes
  <2> QED BY <1>3, <2>5, <2>6 DEF put
<1> QED BY <1>8, <1>9, <1>10

(* The paragraphs of a text are packed one at a time, and at last those at *)
(* hand: what comes of it echoes the text, once for each child.            *)
LEMMA PackedIs ==
  ASSUME NEW S, \A e \in S : e[3] \in Nat, NEW text \in Texts(S)
  PROVE  /\ Packed(text) \in Seq(FittingChildren(S))
         /\ Echoes(S, Said(Packed(text)), Flat(text), Len(Packed(text)))
<1> DEFINE n == Len(text)
           X == Packs(S)
           base == [out |-> <<>>, texts |-> <<>>, overlap |-> 0]
           Folding(it) ==
             it = [u \in SUBSET DOMAIN text |->
                     IF u = {} THEN base ELSE PutParagraph(it[u \ {Max(u)}], text[Max(u)])]
           folded == CHOOSE it : Folding(it)
           step == [p \in (1..n) \X X |-> PutParagraph(p[2], text[p[1]])]
<1>1. n \in Nat /\ DOMAIN text = 1..n /\ \A i \in 1..n : text[i] \in Paragraphs(S)
  BY LenProperties DEF Texts
<1>2. Packed(text) = Flushed(folded[1..n])
  BY <1>1 DEF Packed, PutParagraph, Flushed, FoldLeft, MapThenFoldSet
<1>3. base \in X /\ PackEchoes(S, base, <<>>)
  <2>1. <<>> \in Seq(S) /\ <<>> \in Seq(FittingChildren(S)) /\ Len(<<>>) = 0
    BY EmptySeq
  <2>2. <<>> \in Texts(S) /\ Flat(<<>>) = <<>>
    BY FlatIs
  <2>3. base \in X
    BY <2>1, <2>2 DEF Packs
  <2>4. Said(<<>>) \o Flat(<<>>) = <<>>
    BY <2>1, <2>2, SaidIs, ConcatEmptySeq
  <2>5. PackEchoes(S, base, <<>>)
    BY <2>1, <2>4, EchoesItself DEF PackEchoes
  <2> QED BY <2>3, <2>5
<1>4. \A acc \in X, p \in Paragraphs(S), sentences \in Seq(S) :
        /\ PutParagraph(acc, p) \in X
        /\ PackEchoes(S, acc, sentences)
             => PackEchoes(S, PutParagraph(acc, p), sentences \o p)
  BY PutParagraphKeeps
<1> HIDE DEF X, base
<1>5. step \in [(1..n) \X X -> X]
  <2>1. <<>> \in Seq(S)
    BY EmptySeq
  <2> QED BY <1>1, <1>4, <2>1
<1>6. PICK it \in [SUBSET (1..n) -> X] : FoldsBy(it, base, n, step)
  <2> HIDE DEF step, n
  <2> QED BY <1>1, <1>3, <1>5, FoldExists
<1>7. Folding(it)
  <2>1. \A u \in SUBSET (1..n) : u # {} => <<Max(u), it[u \ {Max(u)}]>> \in (1..n) \X X
    BY <1>1, MaxIsIn
  <2>2. \A u \in SUBSET (1..n) :
          it[u] = IF u = {} THEN base ELSE PutParagraph(it[u \ {Max(u)}], text[Max(u)])
    BY <1>6, <2>1 DEF FoldsBy
  <2> QED BY <1>1, <1>6, <2>2
<1>8. Folding(folded)
  <2> HIDE DEF Folding
  <2> QED BY <1>7
<1> HIDE DEF folded
<1>9. Follows(folded, X, base, n, step)
  <2>1. folded[{}] = base
    BY <1>1, <1>8
  <2>2. \A u \in SUBSET (1..n) : u # {} /\ folded[u \ {Max(u)}] \in X
          => folded[u] = step[<<Max(u), folded[u \ {Max(u)}]>>]
    BY <1>1, <1>8, MaxIsIn
  <2> HIDE DEF step
  <2> QED BY <2>1, <2>2 DEF Follows
<1> DEFINE Packing(acc, i) == PackEchoes(S, acc, Flat(SubSeq(text, 1, i)))
           Within == [i \in 0..n |-> {acc \in X : Packing(acc, i)}]
<1>10. Within \in [0..n -> SUBSET X] /\ base \in Within[0]
  <2>1. Packing(base, 0)
    <3>1. SubSeq(text, 1, 0) = <<>> /\ Flat(<<>>) = <<>>
      BY FlatIs, OneByOne DEF Texts
    <3> QED BY <1>3, <3>1
  <2> HIDE DEF Packing
  <2> QED BY <1>1, <1>3, <2>1
<1>11. ASSUME NEW j \in 1..n, NEW x \in Within[j - 1]
       PROVE  step[<<j, x>>] \in Within[j]
  <2> DEFINE before == SubSeq(text, 1, j - 1)
  <2>1. j - 1 \in 0..n /\ j \in 0..n
    BY <1>1
  <2>2. x \in X /\ Packing(x, j - 1)
    <3> HIDE DEF Packing
    <3> QED BY <2>1
  <2>3. step[<<j, x>>] = PutParagraph(x, text[j])
    BY <1>1, <2>2
  <2>4. SubSeq(text, 1, j) = Append(before, text[j]) /\ before \in Texts(S)
    BY OneByOne DEF Texts
  <2> HIDE DEF before
  <2>5. Flat(SubSeq(text, 1, j)) = Flat(before) \o text[j] /\ Flat(before) \in Seq(S)
    BY <1>1, <2>4, FlatIs
  <2>6. PackEchoes(S, x, Flat(before))
    BY <2>2 DEF before
  <2>7. PutParagraph(x, text[j]) \in X /\ Packing(PutParagraph(x, text[j]), j)
    BY <1>1, <1>4, <2>2, <2>5, <2>6
  <2> HIDE DEF Packing
  <2> QED BY <2>1, <2>3, <2>7
<1>12. folded[1..n] \in Within[n]
  <2> HIDE DEF step, n, Within
  <2> QED BY <1>1, <1>3, <1>5, <1>9, <1>10, <1>11, FoldKeeps
<1> DEFINE end == folded[1..n]
<1>13. end \in X /\ PackEchoes(S, end, Flat(text))
  <2>1. end \in X /\ Packing(end, n)
    <3> HIDE DEF Packing
    <3> QED BY <1>1, <1>12
  <2> QED BY <2>1, OneByOne DEF Texts
<1> HIDE DEF end
<1>14. /\ Flushed(end) \in Seq(FittingChildren(S))
       /\ Said(Flushed(end)) = Said(end.out) \o Flat(end.texts)
       /\ Len(end.out) \in Nat /\ Len(Flushed(end)) \in Nat
       /\ Len(end.out) <= Len(Flushed(end))
  BY <1>13, FlushedIs DEF X
<1>15. Echoes(S, Said(end.out) \o Flat(end.texts), Flat(text), Len(end.out))
  BY <1>13 DEF PackEchoes
<1> DEFINE w == Said(end.out) \o Flat(end.texts)
           k == Len(end.out)
           m == Len(Flushed(end))
           f == Flat(text)
<1>16. Echoes(S, w, f, k) /\ m \in Nat /\ k <= m
  BY <1>14, <1>15
<1> HIDE DEF w, k, m, f
<1>17. Echoes(S, w, f, m)
  BY <1>16, EchoesLoosely
<1> QED BY <1>2, <1>14, <1>17 DEF w, m, f, end

(* The sides of a cut are the text and what follows it, in order, and      *)
(* neither is empty.                                                       *)
LEMMA SidesAre ==
  ASSUME NEW S, NEW text \in Texts(S), NEW next \in Texts(S), next # <<>>,
         NEW p \in 1..Len(text), NEW k \in 1..Len(text[p])
  PROVE  /\ LeftOf(text, p, k) \in Texts(S) \ {<<>>}
         /\ RightOf(text, next, p, k) \in Texts(S) \ {<<>>}
         /\ Flat(LeftOf(text, p, k)) \o Flat(RightOf(text, next, p, k)) = Flat(text) \o Flat(next)
<1> DEFINE x == text[p]
           before == SubSeq(text, 1, p - 1)
           behind == SubSeq(text, p + 1, Len(text))
           x1 == SubSeq(x, 1, k)
           x2 == SubSeq(x, k + 1, Len(x))
           rest == IF k = Len(x) THEN <<>> ELSE <<x2>>
           P == Paragraphs(S)
<1>1. x \in P /\ x \in Seq(S) /\ Len(text) \in Nat /\ Len(x) \in Nat
  <2>1. x \in P /\ Len(text) \in Nat
    BY LenProperties DEF Texts
  <2>2. x \in Seq(S)
    BY <2>1 DEF Paragraphs
  <2> HIDE DEF x
  <2> QED BY <2>1, <2>2, LenProperties
<1> HIDE DEF P
<1>2. /\ before \in Texts(S) /\ behind \in Texts(S)
      /\ before \o (<<x>> \o behind) = text
  <2>1. text \in Seq(P) /\ p - 1 \in 0..Len(text) /\ p \in 0..Len(text)
    BY <1>1 DEF Texts, P
  <2> QED BY <2>1, CutAt DEF Texts, P
<1> HIDE DEF before, behind
<1>3. /\ x1 \in P /\ x2 \in Seq(S) /\ x1 \o x2 = x
      /\ k = Len(x) => x2 = <<>>
      /\ k # Len(x) => x2 \in P
  <2>1. k \in 0..Len(x) /\ k # 0
    BY <1>1
  <2> HIDE DEF x
  <2>2. /\ x1 \in Seq(S) /\ Len(x1) = k /\ x2 \in Seq(S) /\ Len(x2) = Len(x) - k
        /\ x1 \o x2 = x
    BY <1>1, <2>1, CutAt
  <2> HIDE DEF x1, x2
  <2>3. x1 # <<>>
    <3>1. Len(x1) # 0
      BY <2>1, <2>2
    <3> QED BY <3>1
  <2>4. k = Len(x) => x2 = <<>>
    <3>1. k = Len(x) => Len(x2) = 0
      BY <1>1, <2>2
    <3> QED BY <2>2, <3>1, EmptySeq
  <2>5. k # Len(x) => x2 # <<>>
    <3>1. k # Len(x) => Len(x2) # 0
      BY <1>1, <2>1, <2>2
    <3> QED BY <3>1
  <2> QED BY <2>2, <2>3, <2>4, <2>5 DEF P, Paragraphs
<1> HIDE DEF x1, x2
<1>4. rest \in Texts(S) /\ Flat(rest) = x2
  <2>1. CASE k = Len(x)
    <3>1. rest = <<>>
      BY <2>1
    <3> HIDE DEF rest
    <3> QED BY <1>3, <2>1, <3>1, FlatIs
  <2>2. CASE k # Len(x)
    <3>1. rest = <<x2>>
      BY <2>2
    <3> HIDE DEF rest
    <3> QED BY <1>3, <2>2, <3>1, FlatIs DEF P
  <2> QED BY <2>1, <2>2
<1> DEFINE left == LeftOf(text, p, k)
           right == RightOf(text, next, p, k)
           one == <<x>>
<1>5. left = Append(before, x1) /\ right = (rest \o behind) \o next
  BY DEF LeftOf, RightOf, before, behind, x1, x2
<1>6. one \in Texts(S) /\ Flat(one) = x
  BY <1>1, FlatIs DEF P
<1>7. before \o (one \o behind) = text
  BY <1>2
<1> HIDE DEF left, right, rest, one, x
<1> DEFINE T == Texts(S)
<1>8. /\ before \in T /\ behind \in T /\ rest \in T /\ next \in T /\ one \in T
      /\ \A a, b \in T : a \o b \in T /\ Flat(a \o b) = Flat(a) \o Flat(b)
      /\ \A a \in T : Flat(a) \in Seq(S)
      /\ \A a \in T, b \in P : Append(a, b) \in T /\ Flat(Append(a, b)) = Flat(a) \o b
  BY <1>2, <1>4, <1>6, FlatIs DEF P
<1>9. \A a, b \in T : b # <<>> => a \o b # <<>>
  <2> SUFFICES ASSUME NEW a \in T, NEW b \in T, b # <<>> PROVE a \o b # <<>>
    OBVIOUS
  <2>1. a \in Seq(P) /\ b \in Seq(P)
    BY DEF Texts, P
  <2>2. Len(a \o b) = Len(a) + Len(b) /\ Len(a) \in Nat /\ Len(b) \in Nat /\ Len(b) # 0
    BY <2>1, ConcatProperties, LenProperties, EmptySeq
  <2>3. Len(a \o b) # 0
    BY <2>2
  <2> QED BY <2>3
<1> HIDE DEF T
<1>10. left \in T /\ right \in T /\ left # <<>> /\ right # <<>>
  <2>1. left \in T /\ left # <<>>
    <3>1. before \in Seq(P) /\ x1 \in P
      BY <1>3, <1>8 DEF T, Texts, P
    <3>2. Append(before, x1) # <<>>
      BY <3>1, AppendProperties
    <3> QED BY <1>3, <1>5, <1>8, <3>2
  <2>2. rest \o behind \in T
    BY <1>8
  <2> QED BY <1>5, <1>8, <1>9, <2>1, <2>2
<1> DEFINE A == Flat(before)
           B == Flat(behind)
           N == Flat(next)
<1>11. A \in Seq(S) /\ B \in Seq(S) /\ N \in Seq(S) /\ x1 \in Seq(S) /\ x2 \in Seq(S)
  BY <1>3, <1>8 DEF P, Paragraphs
<1>12. Flat(left) = A \o x1
  BY <1>3, <1>5, <1>8
<1>13. Flat(right) = (x2 \o B) \o N
  <2>1. rest \o behind \in T /\ Flat(rest \o behind) = x2 \o B
    BY <1>4, <1>8
  <2> DEFINE w == rest \o behind
  <2>2. w \in T /\ right = w \o next
    BY <1>5, <2>1
  <2> HIDE DEF w
  <2>3. Flat(right) = Flat(w) \o N
    BY <1>8, <2>2
  <2> QED BY <2>1, <2>3 DEF w
<1>14. Flat(text) = A \o ((x1 \o x2) \o B)
  <2>1. one \o behind \in T /\ Flat(one \o behind) = x \o B
    BY <1>6, <1>8
  <2> DEFINE w == one \o behind
  <2>2. w \in T /\ text = before \o w
    BY <1>7, <2>1
  <2> HIDE DEF w
  <2>3. Flat(text) = A \o Flat(w)
    BY <1>8, <2>2
  <2> QED BY <1>3, <2>1, <2>3 DEF w
<1> HIDE DEF A, B, N
<1>15. (A \o x1) \o ((x2 \o B) \o N) = (A \o ((x1 \o x2) \o B)) \o N
  <2>1. \A q, r, t \in Seq(S) : (q \o r) \o t = q \o (r \o t) /\ q \o r \in Seq(S)
    BY ConcatAssociative, ConcatProperties
  <2> DEFINE y == x2 \o B
  <2>2. y \in Seq(S) /\ (x1 \o x2) \o B = x1 \o y
    BY <1>11, <2>1
  <2> HIDE DEF y
  <2> DEFINE v == x1 \o y
             z == y \o N
  <2>3. v \in Seq(S) /\ z \in Seq(S)
    BY <1>11, <2>1, <2>2
  <2>4. v \o N = x1 \o z
    BY <1>11, <2>1, <2>2
  <2> HIDE DEF z, v
  <2>5. \A q, r, t \in Seq(S) : (q \o r) \o t = q \o (r \o t)
    BY ConcatAssociative
  <2>6. (A \o x1) \o z = A \o (x1 \o z)
    BY <1>11, <2>3, <2>5
  <2>7. (A \o v) \o N = A \o (v \o N)
    BY <1>11, <2>3, <2>5
  <2> QED BY <2>2, <2>4, <2>6, <2>7 DEF y, v, z
<1> QED BY <1>8, <1>10, <1>12, <1>13, <1>14, <1>15 DEF T, N, left, right

(* The two sides a text and what follows it may be cut into.               *)
HalvesOf(S, text, next) ==
  {h \in [left : Texts(S) \ {<<>>}, right : Texts(S) \ {<<>>}] :
     /\ Flat(h.left) \o Flat(h.right) = Flat(text) \o Flat(next)
     /\ TextLength(h.left) <= MaxChars /\ TextLength(h.right) <= MaxChars}

(* Each place to cut a text at is a sentence of a paragraph.               *)
LEMMA CutsAre ==
  ASSUME NEW S, NEW text \in Texts(S)
  PROVE  /\ \E n \in Nat : DOMAIN Cuts(text) = 1..n
         /\ \A i \in DOMAIN Cuts(text) : /\ Cuts(text)[i][1] \in 1..Len(text)
                                         /\ Cuts(text)[i][2] \in 1..Len(text[Cuts(text)[i][1]])
<1> DEFINE n == Len(text)
           C == UNION {{<<p, k>> : k \in 1..Len(text[p])} : p \in 1..n}
           F(p) == [k \in DOMAIN text[p] |-> <<p, k>>]
           all == [p \in DOMAIN text |-> F(p)]
<1>1. n \in Nat /\ DOMAIN text = 1..n /\ \A p \in 1..n : text[p] \in Seq(S)
  BY LenProperties DEF Texts, Paragraphs
<1>2. \A p \in 1..n : Len(text[p]) \in Nat /\ DOMAIN text[p] = 1..Len(text[p])
  BY <1>1, LenProperties
<1>3. ASSUME NEW p \in 1..n PROVE F(p) \in Seq(C)
  <2> DEFINE l == Len(text[p])
  <2>1. l \in Nat /\ DOMAIN text[p] = 1..l
    BY <1>2
  <2>2. \A k \in 1..l : <<p, k>> \in C
    OBVIOUS
  <2> HIDE DEF C, l
  <2>3. F(p) \in [1..l -> C]
    BY <2>1, <2>2
  <2> HIDE DEF F
  <2> QED BY <2>1, <2>3
<1>4. \A c \in C : c[1] \in 1..n /\ c[2] \in 1..Len(text[c[1]])
  OBVIOUS
<1> HIDE DEF F, C
<1>5. all \in Seq(Seq(C))
  <2>1. all \in [1..n -> Seq(C)]
    BY <1>1, <1>3
  <2> HIDE DEF all
  <2> QED BY <1>1, <2>1
<1>6. Cuts(text) = Front(FlattenSeq(all))
  BY DEF Cuts, F
<1> HIDE DEF all
<1>7. Cuts(text) \in Seq(C)
  BY <1>5, <1>6, FlattenIs, FrontIs
<1>8. /\ \A i \in DOMAIN Cuts(text) : Cuts(text)[i] \in C
      /\ Len(Cuts(text)) \in Nat /\ DOMAIN Cuts(text) = 1..Len(Cuts(text))
  BY <1>7, LenProperties
<1> QED BY <1>4, <1>8

(* A text is cut into halves that say what it said.                        *)
LEMMA HalvesAre ==
  ASSUME NEW S, \A e \in S : e[3] \in Nat, NEW text \in Texts(S),
         NEW next \in Texts(S), next # <<>>
  PROVE  Halves(text, next) \in Seq(HalvesOf(S, text, next))
<1> DEFINE cuts == Cuts(text)
           Side(i) == [left |-> LeftOf(text, cuts[i][1], cuts[i][2]),
                       right |-> RightOf(text, next, cuts[i][1], cuts[i][2])]
           sides == [i \in DOMAIN cuts |-> Side(i)]
           fit == {i \in DOMAIN sides :
                     {TextLength(sides[i].left), TextLength(sides[i].right)}
                       \subseteq MinChars..MaxChars}
           H == HalvesOf(S, text, next)
           R == [left : Texts(S) \ {<<>>}, right : Texts(S) \ {<<>>}]
           Same(h) == Flat(h.left) \o Flat(h.right) = Flat(text) \o Flat(next)
<1>1. Halves(text, next) = Selected(sides, fit)
  BY DEF Halves, Cuts, LeftOf, RightOf
<1>2. ASSUME NEW i \in DOMAIN cuts PROVE Side(i) \in R /\ Same(Side(i))
  <2> DEFINE p == cuts[i][1]
             k == cuts[i][2]
  <2>1. p \in 1..Len(text) /\ k \in 1..Len(text[p])
    BY CutsAre
  <2> HIDE DEF p, k
  <2>2. /\ LeftOf(text, p, k) \in Texts(S) \ {<<>>}
        /\ RightOf(text, next, p, k) \in Texts(S) \ {<<>>}
        /\ Flat(LeftOf(text, p, k)) \o Flat(RightOf(text, next, p, k)) = Flat(text) \o Flat(next)
    BY <2>1, SidesAre
  <2> QED BY <2>2 DEF p, k
<1> DEFINE Q == {h \in R : Same(h)}
<1>3. sides \in Seq(Q)
  <2>1. PICK n \in Nat : DOMAIN cuts = 1..n
    BY CutsAre
  <2>2. \A i \in DOMAIN cuts : Side(i) \in Q
    BY <1>2
  <2> HIDE DEF cuts, Side, Q
  <2>3. sides \in [1..n -> Q]
    BY <2>1, <2>2
  <2> HIDE DEF sides
  <2> QED BY <2>1, <2>3
<1> HIDE DEF cuts, Side, sides
<1>4. ASSUME NEW i \in fit PROVE sides[i] \in H
  <2>1. sides[i] \in Q
    BY <1>3, LenProperties
  <2> DEFINE h == sides[i]
  <2>2. h \in R /\ Same(h)
    BY <2>1
  <2>3. TextLength(h.left) \in MinChars..MaxChars /\ TextLength(h.right) \in MinChars..MaxChars
    OBVIOUS
  <2> HIDE DEF h
  <2>4. TextLength(h.left) <= MaxChars /\ TextLength(h.right) <= MaxChars
    BY <2>3
  <2>5. h \in H
    BY <2>2, <2>4 DEF HalvesOf
  <2> QED BY <2>5 DEF h
<1>5. Selected(sides, fit) \in Seq({sides[i] : i \in fit})
  <2>1. fit \in SUBSET DOMAIN sides
    OBVIOUS
  <2> HIDE DEF fit, Q
  <2> QED BY <1>3, <2>1, SelectedIs
<1>6. {sides[i] : i \in fit} \subseteq H
  <2> HIDE DEF fit, H
  <2> QED BY <1>4
<1> HIDE DEF fit, H
<1>7. Selected(sides, fit) \in Seq(H)
  BY <1>5, <1>6, SeqMonotonic
<1> QED BY <1>1, <1>7 DEF H

(* The closest of halves is one of them.                                   *)
LEMMA ClosestIs ==
  ASSUME NEW H, NEW halves \in Seq(H), halves # <<>>
  PROVE  Closest(halves) \in H
<1> DEFINE rest == Tail(halves)
           base == Head(halves)
           n == Len(rest)
           Closer(best, h) == IF Gap(h) < Gap(best) THEN h ELSE best
           Folding(it) == it = [u \in SUBSET DOMAIN rest |->
                                  IF u = {} THEN base ELSE Closer(it[u \ {Max(u)}], rest[Max(u)])]
           folded == CHOOSE it : Folding(it)
           step == [p \in (1..n) \X H |-> Closer(p[2], rest[p[1]])]
<1>1. base \in H /\ rest \in Seq(H)
  BY HeadTailProperties
<1>2. Closest(halves) = FoldLeft(Closer, base, rest)
  BY DEF Closest
<1> HIDE DEF rest, base
<1>3. n \in Nat /\ DOMAIN rest = 1..n /\ \A i \in 1..n : rest[i] \in H
  BY <1>1, LenProperties
<1> HIDE DEF Closer
<1>4. Closest(halves) = folded[1..n]
  BY <1>2, <1>3 DEF FoldLeft, MapThenFoldSet
<1>5. step \in [(1..n) \X H -> H]
  BY <1>3 DEF Closer
<1>6. PICK it \in [SUBSET (1..n) -> H] : FoldsBy(it, base, n, step)
  <2> HIDE DEF step, n
  <2> QED BY <1>1, <1>3, <1>5, FoldExists
<1>7. Folding(it)
  <2>1. \A u \in SUBSET (1..n) : u # {} => <<Max(u), it[u \ {Max(u)}]>> \in (1..n) \X H
    BY <1>3, MaxIsIn
  <2>2. \A u \in SUBSET (1..n) :
          it[u] = IF u = {} THEN base ELSE Closer(it[u \ {Max(u)}], rest[Max(u)])
    BY <1>6, <2>1 DEF FoldsBy
  <2> QED BY <1>3, <1>6, <2>2
<1>8. Folding(folded)
  <2> HIDE DEF Folding
  <2> QED BY <1>7
<1> HIDE DEF folded
<1>9. Follows(folded, H, base, n, step)
  <2>1. folded[{}] = base
    BY <1>3, <1>8
  <2>2. \A u \in SUBSET (1..n) : u # {} /\ folded[u \ {Max(u)}] \in H
          => folded[u] = step[<<Max(u), folded[u \ {Max(u)}]>>]
    BY <1>3, <1>8, MaxIsIn
  <2> HIDE DEF step
  <2> QED BY <2>1, <2>2 DEF Follows
<1>10. PICK g \in [0..n -> H] : Runs(folded, g, base, n, step)
  <2> HIDE DEF step, n
  <2> QED BY <1>1, <1>3, <1>5, <1>9, FoldRuns
<1>11. n \in 0..n
  BY <1>3
<1> QED BY <1>4, <1>10, <1>11 DEF Runs

(* Two children say what the first says, then the second.                  *)
LEMMA SaidPair ==
  ASSUME NEW S, NEW c \in FittingChildren(S), NEW d \in FittingChildren(S)
  PROVE  /\ <<c, d>> \in Seq(FittingChildren(S)) /\ Len(<<c, d>>) = 2
         /\ Said(<<c, d>>) = Flat(c.text) \o Flat(d.text)
<1> DEFINE F == FittingChildren(S)
           C == Children(S)
<1>1. c \in C /\ d \in C
  BY DEF FittingChildren
<1>2. <<c, d>> \in Seq(F) /\ Len(<<c, d>>) = 2
  <2> HIDE DEF F
  <2>1. c \in F /\ d \in F
    BY DEF F
  <2> QED BY <2>1
<1> HIDE DEF C
<1>3. Append(<<c>>, d) = <<c, d>> /\ <<c>> \in Seq(C)
  BY <1>1, PairIs
<1> DEFINE one == <<c>>
<1>4. one \in Seq(C) /\ Said(one) = Flat(c.text)
  BY <1>1, <1>3, SaidIs DEF C
<1> HIDE DEF one
<1>5. Said(Append(one, d)) = Said(one) \o Flat(d.text)
  BY <1>1, <1>4, SaidIs DEF C
<1> QED BY <1>2, <1>3, <1>4, <1>5 DEF one

(* The child before, cut, and the one after, marked short.                 *)
CutTo(c, t) == [c EXCEPT !.text = t, !.small = FALSE]

(* Both are children that fit.                                             *)
LEMMA ChangedChild ==
  ASSUME NEW S, NEW c \in FittingChildren(S)
  PROVE  /\ c.text \in Texts(S) \ {<<>>} /\ c.manual \in BOOLEAN
         /\ \A small \in BOOLEAN : /\ [c EXCEPT !.small = small] \in FittingChildren(S)
                                   /\ [c EXCEPT !.small = small].text = c.text
         /\ \A t \in Texts(S) \ {<<>>} : TextLength(t) <= MaxChars + OverlapChars + 2 =>
              CutTo(c, t) \in FittingChildren(S) /\ CutTo(c, t).text = t
<1>1. c \in Children(S) /\ FitsOrManual(c)
  BY DEF FittingChildren
<1>2. /\ c.text \in Texts(S) \ {<<>>} /\ c.manual \in BOOLEAN /\ c.overlap \in Nat
      /\ c = [text |-> c.text, manual |-> c.manual, overlap |-> c.overlap, small |-> c.small]
  BY <1>1 DEF Children
<1>3. ASSUME NEW small \in BOOLEAN
      PROVE  /\ [c EXCEPT !.small = small] \in FittingChildren(S)
             /\ [c EXCEPT !.small = small].text = c.text
  <2> DEFINE d == [c EXCEPT !.small = small]
  <2>1. d = [text |-> c.text, manual |-> c.manual, overlap |-> c.overlap, small |-> small]
    BY <1>2
  <2>2. d.text = c.text /\ d.manual = c.manual
    BY <2>1
  <2>3. d \in Children(S)
    BY <1>2, <2>1 DEF Children
  <2> HIDE DEF d
  <2>4. FitsOrManual(d)
    BY <1>1, <2>2 DEF FitsOrManual
  <2> QED BY <2>2, <2>3, <2>4 DEF FittingChildren, d
<1>4. ASSUME NEW t \in Texts(S) \ {<<>>}, TextLength(t) <= MaxChars + OverlapChars + 2
      PROVE  CutTo(c, t) \in FittingChildren(S) /\ CutTo(c, t).text = t
  <2> DEFINE d == CutTo(c, t)
  <2>1. d = [text |-> t, manual |-> c.manual, overlap |-> c.overlap, small |-> FALSE]
    <3> DEFINE e == [c EXCEPT !.text = t]
    <3>1. e = [text |-> t, manual |-> c.manual, overlap |-> c.overlap, small |-> c.small]
      BY <1>2
    <3>2. d = [e EXCEPT !.small = FALSE]
      BY DEF CutTo
    <3> HIDE DEF e, d
    <3> QED BY <3>1, <3>2
  <2>2. d.text = t
    BY <2>1
  <2>3. d \in Children(S)
    BY <1>2, <2>1 DEF Children
  <2> HIDE DEF d
  <2>4. FitsOrManual(d)
    BY <1>4, <2>2 DEF FitsOrManual
  <2> QED BY <2>2, <2>3, <2>4 DEF FittingChildren, d
<1> QED BY <1>2, <1>3, <1>4

(* The right side fits and says what it did, after the overlap or without. *)
LEMMA WithOverlapIs ==
  ASSUME NEW S, \A e \in S : e[3] \in Nat, NEW t \in Texts(S) \ {<<>>}, TextLength(t) <= MaxChars,
         NEW o \in Seq(S), NEW manual \in BOOLEAN
  PROVE  /\ WithOverlap(o, t, manual) \in FittingChildren(S)
         /\ \/ Flat(WithOverlap(o, t, manual).text) = o \o Flat(t)
            \/ Flat(WithOverlap(o, t, manual).text) = Flat(t)
<1> DEFINE P == Paragraphs(S)
           head == Head(t)
           tail == Tail(t)
           first == o \o head
           overlapped == <<first>> \o tail
           Fits2(x) == TextLength(x) <= MaxChars + OverlapChars + 2
<1>1. /\ head \in P /\ tail \in Seq(P)
      /\ t = <<head>> \o tail
  <2>1. t \in Seq(P) /\ t # <<>>
    BY DEF Texts
  <2> HIDE DEF P
  <2> QED BY <2>1, HeadTailAre
<1> HIDE DEF head, tail
<1>2. first \in P
  <2>1. head \in Seq(S) /\ head # <<>>
    BY <1>1 DEF Paragraphs
  <2>2. first \in Seq(S) /\ Len(first) = Len(o) + Len(head)
    BY <2>1, ConcatProperties
  <2>3. Len(o) \in Nat /\ Len(head) \in Nat /\ Len(head) # 0
    BY <2>1, LenProperties, EmptySeq
  <2> HIDE DEF first
  <2>4. Len(first) # 0
    BY <2>2, <2>3
  <2>5. first # <<>>
    BY <2>4
  <2> QED BY <2>2, <2>5 DEF Paragraphs
<1>3. overlapped \in Texts(S) /\ overlapped # <<>> /\ Flat(overlapped) = o \o Flat(t)
  <2> DEFINE one == <<first>>
             h == <<head>>
             T == Texts(S)
  <2>1. one \in T /\ Flat(one) = first /\ h \in T /\ Flat(h) = head /\ tail \in T
    <3> HIDE DEF first
    <3> QED BY <1>1, <1>2, FlatIs DEF Texts
  <2>2. t = h \o tail /\ overlapped = one \o tail
    BY <1>1
  <2>3. Len(one) = 1
    OBVIOUS
  <2> HIDE DEF one, h, first, overlapped
  <2>4. \A a, b \in T : a \o b \in T /\ Flat(a \o b) = Flat(a) \o Flat(b)
    BY FlatIs
  <2>5. \A a \in T : Flat(a) \in Seq(S)
    BY FlatIs
  <2>6. Flat(t) = head \o Flat(tail)
    BY <2>1, <2>2, <2>4
  <2>7. overlapped \in T /\ Flat(overlapped) = first \o Flat(tail)
    BY <2>1, <2>2, <2>4
  <2>8. overlapped # <<>>
    <3>1. one \in Seq(P) /\ tail \in Seq(P)
      BY <2>1 DEF Texts
    <3> HIDE DEF P
    <3>2. Len(one \o tail) = Len(one) + Len(tail) /\ Len(tail) \in Nat
      BY <3>1, ConcatProperties, LenProperties
    <3>3. Len(overlapped) # 0
      BY <2>2, <2>3, <3>2
    <3> QED BY <3>3
  <2>9. (o \o head) \o Flat(tail) = o \o (head \o Flat(tail))
    <3> DEFINE f == Flat(tail)
    <3>1. f \in Seq(S) /\ head \in Seq(S)
      BY <1>1, <2>1, <2>5 DEF Paragraphs
    <3> HIDE DEF f
    <3>2. (o \o head) \o f = o \o (head \o f)
      BY <3>1, ConcatAssociative
    <3> QED BY <3>2 DEF f
  <2> QED BY <2>6, <2>7, <2>8, <2>9 DEF first
<1> HIDE DEF overlapped
<1>4. \A x \in Texts(S) : TextLength(x) <= MaxChars => Fits2(x)
  <2>1. MaxChars \in Nat /\ OverlapChars \in Nat
    BY ChunkingAssumption
  <2>2. \A x \in Texts(S) : TextLength(x) \in Int
    BY TextLengthIs
  <2>3. \A y \in Int : y <= MaxChars => y <= MaxChars + OverlapChars + 2
    BY <2>1
  <2> QED BY <2>2, <2>3
<1>5. CASE TextLength(overlapped) <= MaxChars
  <2>1. WithOverlap(o, t, manual) = Child(overlapped, manual, Len(o))
    BY <1>5 DEF WithOverlap, overlapped, first, head, tail
  <2>2. Fits2(overlapped) /\ Len(o) \in Nat
    BY <1>3, <1>4, <1>5, LenProperties
  <2> DEFINE l == Len(o)
  <2>3. l \in Nat
    BY <2>2
  <2> HIDE DEF l
  <2>4. /\ Child(overlapped, manual, l) \in FittingChildren(S)
        /\ Child(overlapped, manual, l).text = overlapped
    BY <1>3, <2>2, <2>3, ChildIs
  <2> QED BY <1>3, <2>1, <2>4 DEF l
<1>6. CASE ~(TextLength(overlapped) <= MaxChars)
  <2>1. WithOverlap(o, t, manual) = Child(t, manual, 0)
    BY <1>6 DEF WithOverlap, overlapped, first, head, tail
  <2>2. Fits2(t)
    BY <1>4
  <2>4. Child(t, manual, 0) \in FittingChildren(S) /\ Child(t, manual, 0).text = t
    BY <2>2, ChildIs
  <2> QED BY <2>1, <2>4
<1> QED BY <1>5, <1>6

(* What becomes of two children echoes them, with one overlap at most.     *)
LEMMA MendedIs ==
  ASSUME NEW S, \A e \in S : e[3] \in Nat,
         NEW previous \in FittingChildren(S), NEW child \in FittingChildren(S),
         NEW mended, mended = Mended(previous, child, Halves(previous.text, child.text))
  PROVE  /\ mended \in Seq(FittingChildren(S)) /\ Len(mended) \in {1, 2}
         /\ Echoes(S, Said(mended), Flat(previous.text) \o Flat(child.text), 1)
<1> DEFINE F == FittingChildren(S)
           t == previous.text
           u == child.text
           halves == Halves(t, u)
           both == Flat(t) \o Flat(u)
           manual == previous.manual \/ child.manual
           joined == t \o u
           H == HalvesOf(S, t, u)
<1>1. t \in Texts(S) \ {<<>>} /\ u \in Texts(S) \ {<<>>} /\ manual \in BOOLEAN
  BY ChangedChild
<1>2. mended = (IF TextLength(joined) <= MaxChars THEN <<Child(joined, manual, 0)>>
                ELSE IF halves # <<>> THEN PairOf(previous, manual, Closest(halves))
                ELSE <<previous, [child EXCEPT !.small = TRUE]>>)
  BY DEF Mended
<1>3. MaxChars \in Nat /\ OverlapChars \in Nat
  BY ChunkingAssumption
<1> HIDE DEF t, u, halves, manual
<1>4. both \in Seq(S) /\ Flat(t) \in Seq(S) /\ Flat(u) \in Seq(S) /\ 1 \in Nat
  <2>1. Flat(t) \in Seq(S) /\ Flat(u) \in Seq(S)
    BY <1>1, FlatIs
  <2> QED BY <2>1, ConcatProperties
<1>5. CASE TextLength(joined) <= MaxChars
  <2> DEFINE c == Child(joined, manual, 0)
  <2>1. joined \in Texts(S) \ {<<>>} /\ Flat(joined) = both
    <3>1. joined \in Texts(S) /\ Flat(joined) = both
      <4>1. \A a, b \in Texts(S) : a \o b \in Texts(S) /\ Flat(a \o b) = Flat(a) \o Flat(b)
        BY FlatIs
      <4> QED BY <1>1, <4>1
    <3>2. joined # <<>>
      <4>1. t \in Seq(Paragraphs(S)) /\ u \in Seq(Paragraphs(S)) /\ t # <<>>
        BY <1>1 DEF Texts
      <4>2. Len(joined) = Len(t) + Len(u) /\ Len(t) \in Nat /\ Len(u) \in Nat /\ Len(t) # 0
        BY <4>1, ConcatProperties, LenProperties, EmptySeq
      <4> HIDE DEF joined
      <4>3. Len(joined) # 0
        BY <4>2
      <4> QED BY <4>3
    <3> QED BY <3>1, <3>2
  <2> HIDE DEF joined
  <2>2. TextLength(joined) <= MaxChars + OverlapChars + 2
    <3>1. TextLength(joined) \in Int
      BY <2>1, TextLengthIs
    <3> QED BY <1>3, <1>5, <3>1
  <2>3. c \in F /\ c.text = joined
    BY <1>1, <2>1, <2>2, ChildIs
  <2> HIDE DEF c
  <2>4. Said(<<c>>) = both
    <3>1. c \in Children(S)
      BY <2>3 DEF FittingChildren
    <3> QED BY <2>1, <2>3, <3>1, SaidIs
  <2>5. mended = <<c>>
    BY <1>2, <1>5 DEF c
  <2> HIDE DEF F, both
  <2>6. <<c>> \in Seq(F) /\ Len(<<c>>) = 1
    BY <2>3
  <2>7. Echoes(S, both, both, 1)
    BY <1>4, EchoesItself
  <2> QED BY <2>4, <2>5, <2>6, <2>7 DEF F, both, t, u
<1>6. CASE ~(TextLength(joined) <= MaxChars) /\ halves # <<>>
  <2> DEFINE h == Closest(halves)
  <2>1. h \in H
    <3>1. halves \in Seq(H)
      BY <1>1, HalvesAre DEF halves
    <3> HIDE DEF H
    <3> QED BY <1>6, <3>1, ClosestIs
  <2> HIDE DEF h
  <2> DEFINE l == h.left
             r == h.right
             o == OverlapOf(l)
             c == CutTo(previous, l)
             d == WithOverlap(o, r, manual)
  <2>2. /\ l \in Texts(S) \ {<<>>} /\ r \in Texts(S) \ {<<>>}
        /\ Flat(l) \o Flat(r) = both
        /\ TextLength(l) <= MaxChars /\ TextLength(r) <= MaxChars
    BY <2>1 DEF HalvesOf
  <2>3. mended = <<c, d>>
    BY <1>2, <1>6 DEF PairOf, CutTo, h
  <2> HIDE DEF l, r, both
  <2>4. c \in F /\ c.text = l
    <3>1. TextLength(l) <= MaxChars + OverlapChars + 2
      <4>1. TextLength(l) \in Int
        BY <2>2, TextLengthIs
      <4> QED BY <1>3, <2>2, <4>1
    <3>2. \A x \in Texts(S) \ {<<>>} : TextLength(x) <= MaxChars + OverlapChars + 2 =>
            CutTo(previous, x) \in F /\ CutTo(previous, x).text = x
      BY ChangedChild
    <3> HIDE DEF F
    <3> QED BY <2>2, <3>1, <3>2
  <2>5. o \in Seq(S) /\ Overlaps(o, Flat(l))
    BY <2>2, OverlapOfIs
  <2> HIDE DEF o, c
  <2>6. d \in F /\ (Flat(d.text) = o \o Flat(r) \/ Flat(d.text) = Flat(r))
    BY <1>1, <2>2, <2>5, WithOverlapIs
  <2> HIDE DEF d
  <2>7. <<c, d>> \in Seq(F) /\ Len(<<c, d>>) = 2 /\ Said(<<c, d>>) = Flat(l) \o Flat(d.text)
    BY <2>4, <2>6, SaidPair
  <2>8. Flat(l) \in Seq(S) /\ Flat(r) \in Seq(S)
    BY <2>2, FlatIs
  <2> DEFINE fl == Flat(l)
             fr == Flat(r)
  <2>9. fl \in Seq(S) /\ fr \in Seq(S) /\ Overlaps(o, fl)
    BY <2>5, <2>8
  <2>10. fl \o fr = both
    BY <2>2
  <2> HIDE DEF fl, fr
  <2>11. Echoes(S, fl \o (o \o fr), fl \o fr, 1)
    BY <2>5, <2>9, EchoesOverlap
  <2>12. Echoes(S, both, both, 1)
    BY <1>4, EchoesItself DEF both
  <2>13. Echoes(S, Said(<<c, d>>), both, 1)
    <3>1. CASE Flat(d.text) = o \o fr
      BY <2>7, <2>10, <2>11, <3>1 DEF fl
    <3>2. CASE Flat(d.text) = fr
      BY <2>7, <2>10, <2>12, <3>2 DEF fl
    <3> QED BY <2>6, <3>1, <3>2 DEF fr
  <2> QED BY <2>3, <2>7, <2>13 DEF both, t, u
<1>7. CASE ~(TextLength(joined) <= MaxChars) /\ halves = <<>>
  <2> DEFINE d == [child EXCEPT !.small = TRUE]
  <2>1. mended = <<previous, d>>
    BY <1>2, <1>7
  <2>2. d \in F /\ d.text = u
    BY ChangedChild DEF u
  <2> HIDE DEF d
  <2>3. /\ <<previous, d>> \in Seq(F) /\ Len(<<previous, d>>) = 2
        /\ Said(<<previous, d>>) = Flat(t) \o Flat(u)
    BY <2>2, SaidPair DEF t
  <2>4. Echoes(S, both, both, 1)
    <3> HIDE DEF both
    <3> QED BY <1>4, EchoesItself
  <2> QED BY <2>1, <2>3, <2>4 DEF t, u
<1> QED BY <1>5, <1>6, <1>7 DEF t, u

(* A child put before others, mended with the next, adds what it says and  *)
(* at most one overlap.                                                    *)
LEMMA MendIs ==
  ASSUME NEW S, \A e \in S : e[3] \in Nat,
         NEW rest \in Seq(FittingChildren(S)), NEW previous \in FittingChildren(S)
  PROVE  /\ Mend(rest, previous) \in Seq(FittingChildren(S))
         /\ \A sentences \in Seq(S), k \in Nat : Echoes(S, Said(rest), sentences, k) =>
              Echoes(S, Said(Mend(rest, previous)), Flat(previous.text) \o sentences, k + 1)
<1> DEFINE F == FittingChildren(S)
           C == Children(S)
           said == Flat(previous.text)
           put == Mend(rest, previous)
           one == <<previous>>
<1>1. F \subseteq C /\ rest \in Seq(C) /\ previous \in C
  <2>1. F \subseteq C
    BY DEF FittingChildren
  <2> HIDE DEF F, C
  <2>2. rest \in Seq(F) /\ previous \in F
    BY DEF F
  <2> QED BY <2>1, <2>2, SeqMonotonic
<1>2. said \in Seq(S) /\ Said(rest) \in Seq(S) /\ Said(one) = said
  BY <1>1, SaidIs
<1>3. rest \in Seq(F) /\ previous \in F /\ one \in Seq(F) /\ one \in Seq(C)
  <2>1. previous \in F
    OBVIOUS
  <2> HIDE DEF F, C
  <2> QED BY <1>1, <2>1 DEF F
<1> HIDE DEF said, one, C, F
<1>4. CASE rest = <<>> \/ TextLength(Head(rest).text) >= MinChars
  <2>1. put = one \o rest
    BY <1>4 DEF Mend, one
  <2>2. one \o rest \in Seq(F)
    BY <1>3, ConcatProperties
  <2>3. Said(one \o rest) = said \o Said(rest)
    BY <1>1, <1>2, <1>3, SaidConcat DEF C
  <2>4. ASSUME NEW sentences \in Seq(S), NEW k \in Nat, Echoes(S, Said(rest), sentences, k)
        PROVE  Echoes(S, said \o Said(rest), said \o sentences, k + 1)
    <3>1. Echoes(S, said, said, 1)
      BY <1>2, EchoesItself
    <3> DEFINE r == Said(rest)
               z == 1
    <3>2. Echoes(S, said, said, z) /\ Echoes(S, r, sentences, k) /\ z + k = k + 1
      BY <2>4, <3>1
    <3> HIDE DEF r, z
    <3>3. Echoes(S, said \o r, said \o sentences, z + k)
      BY <3>2, EchoesJoin
    <3> QED BY <3>2, <3>3 DEF r
  <2> HIDE DEF put
  <2> QED BY <2>1, <2>2, <2>3, <2>4 DEF put, F, said
<1>5. CASE ~(rest = <<>> \/ TextLength(Head(rest).text) >= MinChars)
  <2> DEFINE child == Head(rest)
             tail == Tail(rest)
             next == <<child>>
             mended == Mended(previous, child, Halves(previous.text, child.text))
             c == Flat(child.text)
             t == Said(tail)
             m == Said(mended)
  <2>1. put = mended \o tail
    BY <1>5 DEF Mend
  <2>2. child \in F /\ tail \in Seq(F) /\ rest = next \o tail
    BY <1>3, <1>5, HeadTailAre
  <2> HIDE DEF child, tail
  <2>3. /\ mended \in Seq(F)
        /\ Echoes(S, m, said \o c, 1)
    BY <1>3, <2>2, MendedIs DEF F, said
  <2> HIDE DEF mended
  <2>4. child \in C /\ tail \in Seq(C) /\ mended \in Seq(C) /\ next \in Seq(C)
    <3>1. child \in C /\ tail \in Seq(C) /\ mended \in Seq(C)
      BY <1>1, <2>2, <2>3, SeqMonotonic
    <3> QED BY <3>1
  <2>5. c \in Seq(S) /\ t \in Seq(S) /\ m \in Seq(S) /\ Said(next) = c
    BY <2>4, SaidIs DEF C
  <2> HIDE DEF next
  <2>6. Said(rest) = c \o t /\ Said(mended \o tail) = m \o t
    <3>1. Said(next \o tail) = Said(next) \o Said(tail)
      BY <2>4, SaidConcat DEF C
    <3>2. Said(mended \o tail) = Said(mended) \o Said(tail)
      BY <2>4, SaidConcat DEF C
    <3> QED BY <2>2, <2>5, <3>1, <3>2
  <2>7. mended \o tail \in Seq(F)
    BY <2>2, <2>3, ConcatProperties
  <2> HIDE DEF c, t, m
  <2>8. ASSUME NEW sentences \in Seq(S), NEW k \in Nat, Echoes(S, c \o t, sentences, k)
        PROVE  Echoes(S, m \o t, said \o sentences, k + 1)
    <3> DEFINE z == 0
               y == 1
               e == said \o c
    <3>1. Echoes(S, t, t, z) /\ Echoes(S, said, said, z) /\ y + z = y /\ z + k = k
          /\ y + k = k + 1 /\ Echoes(S, m, e, y)
      BY <1>2, <2>3, <2>5, EchoesItself
    <3> HIDE DEF z, y, e
    <3>2. Echoes(S, m \o t, e \o t, y + z)
      BY <3>1, EchoesJoin
    <3>3. e \o t = said \o (c \o t)
      <4>1. \A p, q, r \in Seq(S) : (p \o q) \o r = p \o (q \o r)
        BY ConcatAssociative
      <4> QED BY <1>2, <2>5, <4>1 DEF e
    <3> DEFINE ct == c \o t
               mt == m \o t
    <3>4. Echoes(S, mt, said \o ct, y) /\ Echoes(S, ct, sentences, k)
      BY <2>8, <3>1, <3>2, <3>3
    <3> HIDE DEF ct, mt
    <3>5. Echoes(S, said \o ct, said \o sentences, z + k)
      BY <3>1, <3>4, EchoesJoin
    <3> DEFINE a == said \o ct
               b == said \o sentences
    <3>6. Echoes(S, mt, a, y) /\ Echoes(S, a, b, k)
      BY <3>1, <3>4, <3>5
    <3> HIDE DEF a, b
    <3>7. Echoes(S, mt, b, y + k)
      BY <3>6, EchoesAgain
    <3> QED BY <3>1, <3>7 DEF mt, b
  <2> HIDE DEF put
  <2> QED BY <2>1, <2>6, <2>7, <2>8 DEF put, F, said
<1> QED BY <1>4, <1>5

(* From the last child to the first: what comes of it echoes the children, *)
(* once for each.                                                          *)
LEMMA FromTheLast ==
  ASSUME NEW S, \A e \in S : e[3] \in Nat, NEW children \in Seq(FittingChildren(S)),
         NEW mended, mended = FoldLeft(Mend, <<>>, Reverse(children))
  PROVE  /\ mended \in Seq(FittingChildren(S))
         /\ Echoes(S, Said(mended), Said(children), Len(children))
<1> DEFINE n == Len(children)
           F == FittingChildren(S)
           X == Seq(F)
           back == Reverse(children)
           base == <<>>
           Folding(it) ==
             it = [u \in SUBSET DOMAIN back |->
                     IF u = {} THEN base ELSE Mend(it[u \ {Max(u)}], back[Max(u)])]
           folded == CHOOSE it : Folding(it)
           step == [p \in (1..n) \X X |-> Mend(p[2], back[p[1]])]
           From(i) == SubSeq(children, n - i + 1, n)
<1>1. n \in Nat /\ F \subseteq Children(S) /\ X \subseteq Seq(Children(S))
  <2>1. F \subseteq Children(S)
    BY DEF FittingChildren
  <2> HIDE DEF F
  <2> QED BY <2>1, LenProperties, SeqMonotonic
<1>2. DOMAIN back = 1..n /\ \A j \in 1..n : back[j] = children[n - j + 1]
                                            /\ n - j + 1 \in 1..n /\ back[j] \in F
  <2>1. DOMAIN back = 1..n /\ \A j \in 1..n : back[j] = children[n - j + 1]
    BY <1>1 DEF Reverse
  <2>2. \A j \in 1..n : n - j + 1 \in 1..n
    BY <1>1
  <2>3. \A i \in 1..n : children[i] \in F
    BY LenProperties
  <2> QED BY <2>1, <2>2, <2>3
<1> HIDE DEF back
<1>3. mended = folded[1..n]
  BY <1>2 DEF FoldLeft, MapThenFoldSet, back
<1>4. From(0) = <<>> /\ From(n) = children
  <2>1. n - 0 + 1 = n + 1 /\ n - n + 1 = 1
    BY <1>1
  <2>2. SubSeq(children, n + 1, n) = <<>>
    BY <1>1, SubSeqEmpty
  <2> QED BY <2>1, <2>2, SubSeqFull
<1>5. ASSUME NEW j \in 1..n
      PROVE  From(j - 1) \in X /\ From(j) = <<back[j]>> \o From(j - 1)
  <2> DEFINE m == n - j + 1
  <2>1. m \in 1..n /\ n \in m..n /\ n - (j - 1) + 1 = m + 1
    BY <1>1
  <2> HIDE DEF m
  <2>2. SubSeq(children, m, n) = <<children[m]>> \o SubSeq(children, m + 1, n)
    BY <2>1, SubSeqRecursiveFirst
  <2>3. SubSeq(children, m + 1, n) \in X
    BY <1>1, <2>1, CutAt
  <2> QED BY <1>2, <2>1, <2>2, <2>3 DEF m
<1>6. \A c \in F : Flat(c.text) \in Seq(S)
  BY <1>1, SaidIs
<1>7. ASSUME NEW j \in 1..n
      PROVE  Said(From(j)) = Flat(back[j].text) \o Said(From(j - 1)) /\ Said(From(j - 1)) \in Seq(S)
  <2> DEFINE c == back[j]
             r == From(j - 1)
             one == <<c>>
  <2>1. c \in Children(S) /\ r \in Seq(Children(S))
    BY <1>1, <1>2, <1>5
  <2> HIDE DEF c, r
  <2>2. one \in Seq(Children(S)) /\ Said(one) = Flat(c.text) /\ Said(r) \in Seq(S)
    <3>1. one \in Seq(Children(S))
      <4> DEFINE C == Children(S)
      <4>1. c \in C
        BY <2>1
      <4> HIDE DEF C
      <4>2. one \in Seq(C)
        BY <4>1
      <4> QED BY <4>2 DEF C
    <3> QED BY <2>1, <3>1, SaidIs
  <2> HIDE DEF one
  <2>3. Said(one \o r) = Said(one) \o Said(r)
    BY <2>1, <2>2, SaidConcat
  <2>4. From(j) = one \o r
    BY <1>5 DEF one, c, r
  <2> QED BY <2>2, <2>3, <2>4 DEF c, r
<1> HIDE DEF From
<1>8. base \in X /\ Echoes(S, Said(base), Said(From(0)), 0)
  <2>1. base \in X /\ Said(base) = <<>> /\ <<>> \in Seq(S)
    BY SaidIs, EmptySeq
  <2> DEFINE none == <<>>
             z == 0
  <2>2. none \in Seq(S) /\ z \in Nat
    BY <2>1
  <2> HIDE DEF none, z
  <2>3. Echoes(S, none, none, z)
    BY <2>2, EchoesItself
  <2> QED BY <1>4, <2>1, <2>3 DEF none, z
<1>9. \A rest \in X, j \in 1..n :
        /\ Mend(rest, back[j]) \in X
        /\ \A sentences \in Seq(S), k \in Nat : Echoes(S, Said(rest), sentences, k) =>
             Echoes(S, Said(Mend(rest, back[j])), Flat(back[j].text) \o sentences, k + 1)
  BY <1>2, MendIs
<1> HIDE DEF X, base
<1>10. step \in [(1..n) \X X -> X]
  BY <1>9
<1>11. PICK it \in [SUBSET (1..n) -> X] : FoldsBy(it, base, n, step)
  <2> HIDE DEF step, n
  <2> QED BY <1>1, <1>8, <1>10, FoldExists
<1>12. Folding(it)
  <2>1. \A u \in SUBSET (1..n) : u # {} => <<Max(u), it[u \ {Max(u)}]>> \in (1..n) \X X
    BY <1>1, MaxIsIn
  <2>2. \A u \in SUBSET (1..n) :
          it[u] = IF u = {} THEN base ELSE Mend(it[u \ {Max(u)}], back[Max(u)])
    BY <1>11, <2>1 DEF FoldsBy
  <2> QED BY <1>2, <1>11, <2>2
<1>13. Folding(folded)
  <2> HIDE DEF Folding
  <2> QED BY <1>12
<1> HIDE DEF folded
<1>14. Follows(folded, X, base, n, step)
  <2>1. folded[{}] = base
    BY <1>2, <1>13
  <2>2. \A u \in SUBSET (1..n) : u # {} /\ folded[u \ {Max(u)}] \in X
          => folded[u] = step[<<Max(u), folded[u \ {Max(u)}]>>]
    BY <1>1, <1>2, <1>13, MaxIsIn
  <2> HIDE DEF step
  <2> QED BY <2>1, <2>2 DEF Follows
<1> DEFINE Mending(rest, i) == Echoes(S, Said(rest), Said(From(i)), i)
           Within == [i \in 0..n |-> {rest \in X : Mending(rest, i)}]
<1>15. Within \in [0..n -> SUBSET X] /\ base \in Within[0]
  <2>1. Mending(base, 0)
    BY <1>8
  <2> HIDE DEF Mending
  <2> QED BY <1>1, <1>8, <2>1
<1>16. ASSUME NEW j \in 1..n, NEW x \in Within[j - 1]
       PROVE  step[<<j, x>>] \in Within[j]
  <2> DEFINE i == j - 1
             before == Said(From(i))
  <2>1. i \in 0..n /\ i \in Nat /\ j \in 0..n /\ i + 1 = j
    BY <1>1
  <2>2. x \in X /\ Mending(x, i)
    <3> HIDE DEF Mending
    <3> QED BY <2>1
  <2>3. step[<<j, x>>] = Mend(x, back[j])
    BY <2>2
  <2>4. before \in Seq(S) /\ Said(From(j)) = Flat(back[j].text) \o before
    BY <1>7
  <2>5. Echoes(S, Said(x), before, i)
    BY <2>2
  <2> HIDE DEF i, before
  <2>6. Mend(x, back[j]) \in X
        /\ Echoes(S, Said(Mend(x, back[j])), Flat(back[j].text) \o before, i + 1)
    BY <1>9, <2>1, <2>2, <2>4, <2>5
  <2>7. Mending(Mend(x, back[j]), j)
    BY <2>1, <2>4, <2>6
  <2> HIDE DEF Mending
  <2> QED BY <2>1, <2>3, <2>6, <2>7
<1>17. folded[1..n] \in Within[n]
  <2> HIDE DEF step, n, Within
  <2> QED BY <1>1, <1>8, <1>10, <1>14, <1>15, <1>16, FoldKeeps
<1>18. folded[1..n] \in X /\ Mending(folded[1..n], n)
  <2> HIDE DEF Mending
  <2> QED BY <1>1, <1>17
<1> QED BY <1>3, <1>4, <1>18 DEF X

(* The children echo what they were before they were mended.               *)
LEMMA RebalancedIs ==
  ASSUME NEW S, \A e \in S : e[3] \in Nat, NEW children \in Seq(FittingChildren(S))
  PROVE  /\ RebalanceUndersized(children) \in Seq(FittingChildren(S))
         /\ Echoes(S, Said(RebalanceUndersized(children)), Said(children), Len(children))
<1> DEFINE F == FittingChildren(S)
           n == Len(children)
           Marked(c) == [c EXCEPT !.small = TextLength(c.text) < MinChars]
           marked == [i \in DOMAIN children |-> Marked(children[i])]
<1>1. n \in Nat /\ DOMAIN children = 1..n /\ \A i \in 1..n : children[i] \in F
  BY LenProperties
<1>2. CASE n >= 2
  <2>1. RebalanceUndersized(children) = FoldLeft(Mend, <<>>, Reverse(children))
    BY <1>2 DEF RebalanceUndersized
  <2> QED BY <2>1, FromTheLast
<1>3. CASE ~(n >= 2)
  <2>1. RebalanceUndersized(children) = marked
    BY <1>3 DEF RebalanceUndersized
  <2>2. ASSUME NEW c \in F PROVE Marked(c) \in F /\ Marked(c).text = c.text
    <3> DEFINE small == TextLength(c.text) < MinChars
    <3>1. small \in BOOLEAN
      OBVIOUS
    <3> HIDE DEF small
    <3>2. [c EXCEPT !.small = small] \in F /\ [c EXCEPT !.small = small].text = c.text
      BY <3>1, ChangedChild
    <3> QED BY <3>2 DEF small
  <2> HIDE DEF Marked, F
  <2>3. marked \in Seq(F) /\ DOMAIN marked = 1..n /\ \A i \in 1..n : marked[i].text = children[i].text
    BY <1>1, <2>2
  <2>4. Said(marked) = Said(children)
    <3>1. [i \in DOMAIN marked |-> Flat(marked[i].text)]
            = [i \in DOMAIN children |-> Flat(children[i].text)]
      BY <1>1, <2>3
    <3> QED BY <3>1 DEF Said
  <2> DEFINE said == Said(children)
  <2>5. said \in Seq(S)
    <3>1. F \subseteq Children(S)
      BY DEF F, FittingChildren
    <3>2. children \in Seq(Children(S))
      BY <3>1, SeqMonotonic DEF F
    <3> QED BY <3>2, SaidIs
  <2> HIDE DEF said, n, marked
  <2>6. Echoes(S, said, said, n)
    BY <1>1, <2>5, EchoesItself
  <2> QED BY <2>1, <2>3, <2>4, <2>6 DEF said, n, F
<1> QED BY <1>2, <1>3

(* The children of a text hold its sentences in order, with no more        *)
(* repetitions than one overlap for each child packed and one for each     *)
(* mended, and fit or are marked for a manual split (packSection).         *)
THEOREM ChildrenKeepAll ==
  ASSUME NEW text, IsText(text)
  PROVE  ChildrenKeepText(text)
<1> DEFINE S == UNION {Range(p) : p \in Range(text)}
           packed == Packed(text)
           children == PackSection(text)
           n == Len(packed)
           flat == Flat(text)
           said == Said(children)
<1>1. text \in Texts(S) /\ \A e \in S : e[3] \in Nat
  <2>1. ASSUME NEW p \in Range(text) PROVE p \in Paragraphs(S)
    <3>1. p \in Seq(Range(p)) /\ p # <<>> /\ Range(p) \subseteq S
      BY DEF IsText, HaveLengths
    <3> HIDE DEF S
    <3>2. p \in Seq(S)
      BY <3>1, SeqMonotonic
    <3> QED BY <3>1, <3>2 DEF Paragraphs
  <2>2. Range(text) \subseteq Paragraphs(S) /\ text \in Seq(Range(text))
    BY <2>1 DEF IsText
  <2>3. text \in Texts(S)
    <3> HIDE DEF S
    <3> QED BY <2>2, SeqMonotonic DEF Texts
  <2>4. ASSUME NEW e \in S PROVE e[3] \in Nat
    BY DEF IsText, HaveLengths
  <2> QED BY <2>3, <2>4
<1> HIDE DEF S
<1>2. packed \in Seq(FittingChildren(S)) /\ Echoes(S, Said(packed), flat, n)
  BY <1>1, PackedIs
<1> HIDE DEF packed
<1>3. children \in Seq(FittingChildren(S)) /\ Echoes(S, said, Said(packed), n)
  BY <1>1, <1>2, RebalancedIs DEF PackSection, packed
<1>4. flat \in Seq(S) /\ IsInjective(flat)
  BY <1>1, FlatIs DEF IsText
<1> HIDE DEF children, flat, said
<1>5. n \in Nat
  BY <1>2 DEF Echoes
<1> HIDE DEF n
<1>6. Echoes(S, said, flat, n + n) /\ n + n = 2 * n
  <2> DEFINE w == Said(packed)
  <2>1. Echoes(S, said, w, n) /\ Echoes(S, w, flat, n)
    BY <1>2, <1>3
  <2> HIDE DEF w
  <2> QED BY <1>5, <2>1, EchoesAgain
<1>7. FirstsOf(said) = flat
  <2> DEFINE none == <<>>
  <2>1. none \in Seq(S)
    BY EmptySeq
  <2>2. FirstsOf(said) = After(none, said) /\ FirstsOf(flat) = After(none, flat)
    BY DEF FirstsOf, After, Note
  <2> HIDE DEF none
  <2>3. After(none, said) = After(none, flat)
    BY <1>6, <2>1 DEF Echoes
  <2>4. FirstsOf(flat) = flat
    BY <1>4, AfterDistinct
  <2> QED BY <2>2, <2>3, <2>4
<1>8. Len(said) <= Len(flat) + 2 * n
  BY <1>6 DEF Echoes
<1>9. ASSUME NEW i \in DOMAIN children PROVE FitsOrManual(children[i])
  <2> DEFINE F == FittingChildren(S)
  <2>1. children[i] \in F
    <3> HIDE DEF F
    <3>1. DOMAIN children = 1..Len(children) /\ \A k \in 1..Len(children) : children[k] \in F
      BY <1>3, LenProperties DEF F
    <3> QED BY <3>1
  <2> QED BY <2>1 DEF FittingChildren
<1>10. KeepsSentences(children, flat, 2 * n)
  BY <1>7, <1>8, <1>9 DEF KeepsSentences, said
<1> QED BY <1>10 DEF ChildrenKeepText, children, flat, n, packed

(* No sample page and no sample text loses a word, whatever the pipeline   *)
(* has done.                                                               *)
THEOREM TextStaysKept == Spec => []TextIsKept
<1>1. TextIsKept
  <2>1. \A page \in SamplePages : SlicesKeepText(page)
    BY SamplesAssumption, SlicesKeepAll
  <2>2. \A text \in SampleTexts : ChildrenKeepText(text)
    BY SamplesAssumption, ChildrenKeepAll
  <2> QED BY <2>1, <2>2 DEF TextIsKept
<1> QED BY <1>1, PTL
=============================================================================
