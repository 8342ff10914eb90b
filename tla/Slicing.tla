------------------------------ MODULE Slicing ------------------------------
(***************************************************************************)
(* From the blocks of a source file to its draft slices, and from the text *)
(* of a published slice to the children that are searched.                 *)
(*                                                                         *)
(*   src/src/knowledge/extract.ts, normalize.ts, slicer.ts                 *)
(*   src/src/knowledge/slicer-render.ts                                    *)
(*   src/src/knowledge/documents/chunks.ts, chunk-rebalance.ts             *)
(*   src/src/knowledge/documents/chunk-utils.ts                            *)
(*                                                                         *)
(* A block is [kind, text, sentences, ascii, answers]: its kind, a name    *)
(* for what it says, its sentences as <<name, number, length>>, the words  *)
(* of it that a file name keeps, and whether it can answer a question.     *)
(* Every sentence ends in a full stop, and overlaps are whole sentences    *)
(* (the default strategy).                                                 *)
(***************************************************************************)
EXTENDS Integers, FiniteSets, SequencesExt, Places

CONSTANTS
  MaxParent,    \* maxParentChars of a slice
  MaxChars, MinChars, OverlapChars,  \* the chunking options
  Provenance    \* length of the lines a slice ends with: its source and blocks

ASSUME ChunkingAssumption ==
  /\ {MaxParent, MaxChars, MinChars, Provenance} \subseteq Nat \ {0}
  /\ OverlapChars \in 0..MaxChars /\ MinChars <= MaxChars

Total(seq, Size(_)) == FoldLeft(LAMBDA n, x : n + Size(x), 0, seq)
Flat(text) == FlattenSeq(text)

-----------------------------------------------------------------------------
(* From blocks to slices.                                                  *)

SentenceLength(s) == s[3]
BlockLength(b) == Total(b.sentences, SentenceLength)

Repeated(page, b, short, often) ==
  /\ BlockLength(b) < short
  /\ often <= Cardinality({i \in DOMAIN page : page[i].kind = b.kind /\ page[i].text = b.text})

(* The table of contents, running headers, and what repeats like one.      *)
IncludedInSlice(page, b) ==
  /\ b.kind \notin {"toc", "header_footer"}
  /\ ~(b.kind = "heading" /\ Repeated(page, b, 60, 3))
  /\ ~(b.kind = "paragraph" /\ Repeated(page, b, 80, 4))

Included(page) == Selected(page, {i \in DOMAIN page : IncludedInSlice(page, page[i])})

GroupsByHeading(blocks) ==
  FoldLeft(LAMBDA groups, b : IF b.kind = "heading" \/ groups = <<>>
                                THEN Append(groups, <<b>>)
                                ELSE Append(Front(groups), Append(Last(groups), b)),
           <<>>, blocks)

HasBody(blocks) == \E i \in DOMAIN blocks : blocks[i].kind # "heading"

(* Mutant: the blocks gathered so far are dropped when one is too long.    *)
DraftGroupsDropping(group) ==
  LET Put(acc, b) ==
        IF BlockLength(b) > MaxParent
          THEN [done |-> Append(acc.done, <<b>>), current |-> <<>>]
        ELSE IF HasBody(acc.current)
                /\ Total(acc.current, BlockLength) + BlockLength(b) > MaxParent
          THEN [done |-> Append(acc.done, acc.current), current |-> <<b>>]
          ELSE [acc EXCEPT !.current = Append(@, b)]
      end == FoldLeft(Put, [done |-> <<>>, current |-> <<>>], group)
  IN  IF Total(group, BlockLength) <= MaxParent THEN <<group>>
      ELSE IF end.current = <<>> THEN end.done ELSE Append(end.done, end.current)

(* splitBlockGroupIntoDraftGroups: a block longer than a slice may be ends *)
(* the slice it starts, or the one that has only the heading so far.       *)
DraftGroups(group) ==
  LET Put(acc, b) ==
        LET long == BlockLength(b) > MaxParent
            full == HasBody(acc.current)
                    /\ Total(acc.current, BlockLength) + BlockLength(b) > MaxParent
        IN  IF long /\ ~HasBody(acc.current)
              THEN [done |-> Append(acc.done, Append(acc.current, b)), current |-> <<>>]
            ELSE IF full
              THEN [done |-> Append(acc.done, acc.current), current |-> <<b>>]
              ELSE [acc EXCEPT !.current = Append(@, b)]
      end == FoldLeft(Put, [done |-> <<>>, current |-> <<>>], group)
  IN  IF Total(group, BlockLength) <= MaxParent THEN <<group>>
      ELSE IF end.current = <<>> THEN end.done ELSE Append(end.done, end.current)

(* safeSlug of the title: words and numbers in ASCII, or else a hash.      *)
Slug(heading, part) ==
  LET words == heading.ascii \o (IF part = 0 THEN <<>> ELSE <<part>>)
  IN  IF words = <<>> THEN <<heading.text>> ELSE words

Untitled == [text |-> "source title", ascii |-> <<"source">>]

(* The draft slices of a file, in the order of their numbers.              *)
Slices(page) ==
  LET OfGroup(group) ==
        LET parts == DraftGroups(group)
            heading == IF Head(group).kind = "heading" THEN Head(group) ELSE Untitled
        IN  [k \in DOMAIN parts |->
               [blocks |-> parts[k],
                slug |-> Slug(heading, IF Len(parts) = 1 THEN 0 ELSE k)]]
      groups == GroupsByHeading(Included(page))
  IN  FlattenSeq([g \in DOMAIN groups |-> OfGroup(groups[g])])

-----------------------------------------------------------------------------
(* From the text of a document to its children.  A text is a sequence of   *)
(* paragraphs, a paragraph a sequence of sentences.                        *)

TextLength(text) == Total(Flat(text), SentenceLength) + 2 * (Len(text) - 1)

Child(text, manual, overlap) ==
  [text |-> text, manual |-> manual, overlap |-> overlap, small |-> FALSE]

(* overlapText, windowOverlap: the last sentence, if it is short enough.   *)
OverlapOf(text) ==
  LET last == Last(Flat(text))
  IN  IF OverlapChars > 0 /\ SentenceLength(last) <= OverlapChars THEN <<last>> ELSE <<>>

(* splitLongBlock: windows of sentences, unless one alone is too long.     *)
PutSentence(acc, s) ==
  LET overlap == OverlapOf(<<acc.window>>)
  IN  IF acc.window # <<>> /\ Total(Append(acc.window, s), SentenceLength) > MaxChars
        THEN [out |-> Append(acc.out, Child(<<acc.window>>, FALSE, acc.overlap)),
              window |-> overlap \o <<s>>, overlap |-> Len(overlap)]
        ELSE [acc EXCEPT !.window = Append(@, s)]

SplitLongBlock(paragraph) ==
  LET end == FoldLeft(PutSentence, [out |-> <<>>, window |-> <<>>, overlap |-> 0], paragraph)
  IN  IF Len(paragraph) <= 1 \/ \E i \in DOMAIN paragraph : SentenceLength(paragraph[i]) > MaxChars
      THEN <<[Child(<<paragraph>>, TRUE, 0) EXCEPT !.small = TextLength(<<paragraph>>) < MinChars]>>
      ELSE Append(end.out, Child(<<end.window>>, FALSE, end.overlap))

(* rebalancePair: the places to cut a text, and of the sides each leaves,  *)
(* with what follows the text, those within the limits.                    *)
Cuts(text) == Front(FlattenSeq([p \in DOMAIN text |-> [k \in DOMAIN text[p] |-> <<p, k>>]]))
LeftOf(text, p, k) == Append(SubSeq(text, 1, p - 1), SubSeq(text[p], 1, k))
RightOf(text, next, p, k) ==
  (IF k = Len(text[p]) THEN <<>> ELSE <<SubSeq(text[p], k + 1, Len(text[p]))>>)
    \o SubSeq(text, p + 1, Len(text)) \o next

Halves(text, next) ==
  LET cuts == Cuts(text)
      halves == [i \in DOMAIN cuts |-> [left |-> LeftOf(text, cuts[i][1], cuts[i][2]),
                                        right |-> RightOf(text, next, cuts[i][1], cuts[i][2])]]
  IN  Selected(halves, {i \in DOMAIN halves :
                          {TextLength(halves[i].left), TextLength(halves[i].right)}
                            \subseteq MinChars..MaxChars})

(* The one whose sides are closest in length, the first of these.          *)
Gap(h) ==
  LET Distance(m, n) == IF m < n THEN n - m ELSE m - n
  IN  Distance(TextLength(h.left), TextLength(h.right))
Closest(halves) ==
  FoldLeft(LAMBDA best, h : IF Gap(h) < Gap(best) THEN h ELSE best, Head(halves), Tail(halves))

(* The right side begins with an overlap, if there is room for it.         *)
WithOverlap(overlap, text, manual) ==
  LET overlapped == <<overlap \o Head(text)>> \o Tail(text)
  IN  IF TextLength(overlapped) <= MaxChars THEN Child(overlapped, manual, Len(overlap))
      ELSE Child(text, manual, 0)

PairOf(previous, manual, h) ==
  <<[previous EXCEPT !.text = h.left, !.small = FALSE],
    WithOverlap(OverlapOf(h.left), h.right, manual)>>

(* What becomes of a child that is too short and the one before it: one    *)
(* child, a pair cut elsewhere, or both as they were.                      *)
Mended(previous, child, halves) ==
  IF TextLength(previous.text \o child.text) <= MaxChars
    THEN <<Child(previous.text \o child.text, previous.manual \/ child.manual, 0)>>
  ELSE IF halves # <<>>
    THEN PairOf(previous, previous.manual \/ child.manual, Closest(halves))
  ELSE <<previous, [child EXCEPT !.small = TRUE]>>

(* rebalanceUndersized: from the last child to the first, each is put      *)
(* before those that follow it, mended with the next if that is too short. *)
Mend(rest, previous) ==
  IF rest = <<>> \/ TextLength(Head(rest).text) >= MinChars THEN <<previous>> \o rest
  ELSE Mended(previous, Head(rest), Halves(previous.text, Head(rest).text)) \o Tail(rest)

RebalanceUndersized(children) ==
  IF Len(children) >= 2 THEN FoldLeft(Mend, <<>>, Reverse(children))
  ELSE [i \in DOMAIN children |->
          [children[i] EXCEPT !.small = TextLength(children[i].text) < MinChars]]

(* packSection: the children of the paragraphs under one heading, before   *)
(* and after those that are too short are mended.                          *)
Flushed(acc) ==
  IF acc.texts = <<>> THEN acc.out
  ELSE Append(acc.out, Child(acc.texts, FALSE, acc.overlap))

PutParagraph(acc, paragraph) ==
  LET overlap == OverlapOf(acc.texts)
  IN  IF TextLength(<<paragraph>>) > MaxChars
        THEN [out |-> Flushed(acc) \o SplitLongBlock(paragraph), texts |-> <<>>, overlap |-> 0]
      ELSE IF acc.texts # <<>> /\ TextLength(Append(acc.texts, paragraph)) > MaxChars
        THEN [out |-> Flushed(acc), overlap |-> Len(overlap),
              texts |-> (IF overlap = <<>> THEN <<>> ELSE <<overlap>>) \o <<paragraph>>]
        ELSE [acc EXCEPT !.texts = Append(@, paragraph)]

Packed(text) ==
  Flushed(FoldLeft(PutParagraph, [out |-> <<>>, texts |-> <<>>, overlap |-> 0], text))
PackSection(text) == RebalanceUndersized(Packed(text))

-----------------------------------------------------------------------------
(* What a block and a text are: sequences of sentences, and of paragraphs  *)
(* that are not empty, whose sentences have their lengths and differ.      *)
HaveLengths(sentences) ==
  sentences \in Seq(Range(sentences)) /\ \A s \in Range(sentences) : s[3] \in Nat
IsBlock(b) == HaveLengths(b.sentences)
IsText(text) ==
  /\ text \in Seq(Range(text))
  /\ \A p \in Range(text) : p # <<>> /\ HaveLengths(p)
  /\ IsInjective(Flat(text))

(* No text is lost or reordered on the way, for the pages and texts given: *)
(* the slices of a page are its included blocks in order, none longer than *)
(* a slice may be unless one block is or it holds a heading and one block; *)
(* the children of a text hold its sentences in order, with no more        *)
(* repetitions than one overlap for each child that was packed and one for *)
(* each that was mended, none longer than a child and an overlap may be    *)
(* unless it is marked for a manual split.                                 *)
FirstsOf(sentences) ==
  FoldLeft(LAMBDA acc, s : IF Contains(acc, s) THEN acc ELSE Append(acc, s), <<>>, sentences)

KeepsBlocks(slices, blocks) ==
  /\ FlattenSeq([i \in DOMAIN slices |-> slices[i].blocks]) = blocks
  /\ \A i \in DOMAIN slices :
       Cardinality({k \in DOMAIN slices[i].blocks : slices[i].blocks[k].kind # "heading"}) > 1
         => Total(slices[i].blocks, BlockLength) <= MaxParent
SlicesKeepText(page) == KeepsBlocks(Slices(page), Included(page))

Said(children) == FlattenSeq([i \in DOMAIN children |-> Flat(children[i].text)])
FitsOrManual(child) == child.manual \/ TextLength(child.text) <= MaxChars + OverlapChars + 2

KeepsSentences(children, sentences, overlaps) ==
  /\ FirstsOf(Said(children)) = sentences
  /\ Len(Said(children)) <= Len(sentences) + overlaps
  /\ \A i \in DOMAIN children : FitsOrManual(children[i])
ChildrenKeepText(text) ==
  KeepsSentences(PackSection(text), Flat(text), 2 * Len(Packed(text)))
=============================================================================
