----------------------------- MODULE Retrieval -----------------------------
(***************************************************************************)
(* One question put to an index: lexical and semantic recall, fusion of    *)
(* the two rankings, one candidate per document, rerank, and the results.  *)
(*                                                                         *)
(*   src/src/retrieval/service.ts, configured-search.ts, evidence-pack.ts  *)
(*   src/src/retrieval/fusion/*.ts, parent-dedupe.ts, rerank/service.ts    *)
(*   src/src/retrieval/recall/*.ts, recall/bm25/strategy.ts                *)
(*   src/src/retrieval/recall/embedding/*.ts                               *)
(*   src/src/knowledge/documents/retrieval-grounding.ts                    *)
(*   src/src/knowledge/quality/chunk-map.ts                                *)
(*                                                                         *)
(* A chunk is [id, parent, path, words, status, quality, small, manual];   *)
(* words is what its text says.  A question is [exact, near]: the words it *)
(* shares with a text, and those a vector finds close.  Scores count       *)
(* words.  The issues of a report are [id, code, severity, draft].         *)
(***************************************************************************)
EXTENDS Integers, Sequences, Functions, FiniteSetsExt, Places

CONSTANTS
  RecallLimit, FusionLimit, ResultLimit,  \* 40, 20 and 8 in the code
  NoDoc

ASSUME LimitsAssumption == {RecallLimit, FusionLimit, ResultLimit} \subseteq Nat \ {0}

Take(seq, n) == IF Len(seq) <= n THEN seq ELSE SubSeq(seq, 1, n)

(* The highest score first, and of equals the one that was there before.   *)
ByScore(S, score) ==
  {p \in S \X S : \/ score[p[1]] > score[p[2]]
                  \/ score[p[1]] = score[p[2]] /\ p[1] < p[2]}
Ranked(S, score) == InOrder(S, ByScore(S, score))

Sum(f, n) == LET sum[i \in 0..n] == IF i = 0 THEN 0 ELSE sum[i - 1] + f[i] IN sum[n]

-----------------------------------------------------------------------------
(* The document a chunk belongs to now: the one of its parent's id that is *)
(* listed last, or else the one now at the path the chunk was made from.   *)
ListedAfter(p, q) ==
  LET Folder(x) == CASE x[1] = "solved" -> 1 [] x[1] = "unresolved" -> 2 [] OTHER -> 3
  IN  Folder(p) >= Folder(q)

ParentOf(docs, chunk) ==
  LET same == {p \in DOMAIN docs : docs[p] # NoDoc /\ docs[p].id = chunk.parent}
  IN  IF same = {} THEN docs[chunk.path]
      ELSE docs[CHOOSE p \in same : \A q \in same : ListedAfter(p, q)]

(* What the report says of the document, draft slices aside, or else its   *)
(* own quality once it has been checked.                                   *)
QualityOf(report, doc) ==
  LET severities == {i.severity : i \in {j \in report : j.id = doc.id /\ ~j.draft}}
  IN  CASE "error" \in severities -> "error"
        [] "error" \notin severities /\ "warn" \in severities -> "warn"
        [] OTHER -> IF doc.quality = "unchecked" THEN "none" ELSE doc.quality

(* What a rank is worth in the fusion: 1/(60 + rank), eight digits.        *)
Share(rank) == 100000000 \div (60 + rank)

(* Mutant: a chunk is served with the status it was indexed with.          *)
CandidateAsIndexed(docs, report, chunk, rank, terms) ==
  LET parent == ParentOf(docs, chunk)
  IN  [chunk |-> chunk.id, shown |-> chunk.id, score |-> Share(rank), terms |-> terms,
       parent |-> IF parent = NoDoc THEN chunk.parent ELSE parent.id,
       missing |-> parent = NoDoc, status |-> chunk.status,
       quality |-> IF parent = NoDoc THEN "none" ELSE QualityOf(report, parent)]

(* createKnowledgeRetrievalCandidate: identity, status and quality are     *)
(* those of the document as it is now, the text is that of the chunk.      *)
Candidate(docs, report, chunk, rank, terms) ==
  LET parent == ParentOf(docs, chunk)
      found == parent # NoDoc
  IN  [chunk |-> chunk.id, shown |-> chunk.id, score |-> Share(rank), terms |-> terms,
       parent |-> IF found THEN parent.id ELSE chunk.parent,
       missing |-> ~found,
       status |-> IF found THEN parent.status ELSE chunk.status,
       quality |-> IF found THEN QualityOf(report, parent) ELSE "none"]

-----------------------------------------------------------------------------
(* Recall.  A chunk id that occurs twice stands for its last chunk.        *)
Named(chunks, id) == chunks[Max({i \in DOMAIN chunks : chunks[i].id = id})]

(* Of some chunks those that share words, the ones with the most first.    *)
Hits(chunks, some, words) ==
  LET shared == [i \in some |-> Cardinality(chunks[i].words \cap words)]
  IN  Take(Ranked({i \in some : shared[i] > 0}, shared), RecallLimit)

RecallLexical(chunks, docs, report, question) ==
  LET hits == Hits(chunks, {i \in DOMAIN chunks : chunks[i].status = "active"}, question.exact)
  IN  [k \in DOMAIN hits |->
         Candidate(docs, report, Named(chunks, chunks[hits[k]].id), k,
                   chunks[hits[k]].words \cap question.exact)]

(* Only what is active, unrestricted and of checked quality is embedded.   *)
EligibleForEmbedding(c) ==
  c.status = "active" /\ c.quality = "ok" /\ ~c.small /\ ~c.manual

(* searchVectorArtifactsWithFilters: a vector is searched if its document  *)
(* may still be quoted.                                                    *)
MayBeQuoted(docs, report, c) ==
  LET parent == ParentOf(docs, c)
      quality == IF parent = NoDoc \/ QualityOf(report, parent) = "none"
                   THEN c.quality ELSE QualityOf(report, parent)
  IN  /\ (IF parent = NoDoc THEN c.status ELSE parent.status) = "active"
      /\ quality \in {"ok", "info"}

RecallSemantic(chunks, docs, report, question) ==
  LET vectors == {i \in DOMAIN chunks : /\ EligibleForEmbedding(chunks[i])
                                        /\ MayBeQuoted(docs, report, Named(chunks, chunks[i].id))}
      hits == Hits(chunks, vectors, question.near)
  IN  [k \in DOMAIN hits |->
         Candidate(docs, report, Named(chunks, chunks[hits[k]].id), k, {})]

-----------------------------------------------------------------------------
(* Fusion of all that was recalled, one strategy after the other: a chunk  *)
(* recalled twice has the terms and shares of both, goes where the first   *)
(* of them is among equals, and is otherwise as that one says.             *)
Fused(recalled) ==
  LET Same(i) == {j \in DOMAIN recalled : recalled[j].chunk = recalled[i].chunk}
      firsts == {i \in DOMAIN recalled : \A j \in Same(i) : i <= j}
      scores == [i \in firsts |->
                   Sum([j \in DOMAIN recalled |->
                          IF j \in Same(i) THEN recalled[j].score ELSE 0], Len(recalled))]
      Whole(i) == [[recalled[i] EXCEPT !.score = scores[i]]
                     EXCEPT !.terms = UNION {recalled[j].terms : j \in Same(i)}]
      order == Ranked(firsts, scores)
  IN  [k \in DOMAIN order |-> Whole(order[k])]

(* One candidate per document, where its first child was ranked; the text  *)
(* shown is that of the last child with more words than all before it.     *)
DedupedByParent(candidates) ==
  LET Alike(i) == {j \in DOMAIN candidates : candidates[j].parent = candidates[i].parent}
      firsts == {i \in DOMAIN candidates : \A j \in Alike(i) : i <= j}
      Terms(some) == UNION {candidates[j].terms : j \in some}
      Stronger(i) ==
        {j \in Alike(i) :
           \/ j = i
           \/ Cardinality(candidates[j].terms) > Cardinality(Terms({k \in Alike(i) : k < j}))}
      Whole(i) == [[candidates[i] EXCEPT !.terms = Terms(Alike(i))]
                     EXCEPT !.shown = candidates[Max(Stronger(i))].shown]
      order == Ascending(firsts)
  IN  [k \in DOMAIN order |-> Whole(order[k])]

Scaled(v, values) ==
  IF Max(values) = Min(values) THEN 0
  ELSE ((v - Min(values)) * 1000) \div (Max(values) - Min(values))

(* What a reranker is paid for is in front, by 7 parts its score and 3     *)
(* parts the fusion's, both scaled to the batch; the rest keeps its order. *)
(* The answer is a sequence of [place, score], any place any number of     *)
(* times; a reranker that is off, fails or answers nothing changes nothing.*)
Reranked(candidates, answer) ==
  LET known == {i \in DOMAIN answer :
                  /\ answer[i].place \in DOMAIN candidates
                  /\ \A j \in DOMAIN answer : j < i => answer[j].place # answer[i].place}
      paid == {answer[i].place : i \in known}
      Of(i) == candidates[answer[i].place]
      weights == [i \in known |-> 7 * Scaled(answer[i].score, {answer[j].score : j \in known})
                                 + 3 * Scaled(Of(i).score, {Of(j).score : j \in known})]
      front == Ranked(known, weights)
      rest == Ascending(DOMAIN candidates \ paid)
  IN  [k \in DOMAIN front |-> [Of(front[k]) EXCEPT !.score = weights[front[k]]]]
        \o [k \in DOMAIN rest |-> candidates[rest[k]]]

(* Mutant: only what the reranker returned is kept.                        *)
RetrieveReturnedOnly(recalled, answer) ==
  LET top == Take(Fused(recalled), FusionLimit)
      kept == DedupedByParent(top)
      known == Cardinality({answer[i].place : i \in DOMAIN answer} \cap DOMAIN kept)
  IN  [top |-> top,
       results |-> Take(IF answer = <<>> THEN kept ELSE Take(Reranked(kept, answer), known),
                        ResultLimit)]

(* retrieve: from what was recalled to the results, and what was on top.   *)
Retrieve(recalled, answer) ==
  LET top == Take(Fused(recalled), FusionLimit)
  IN  [top |-> top, results |-> Take(Reranked(DedupedByParent(top), answer), ResultLimit)]
=============================================================================
