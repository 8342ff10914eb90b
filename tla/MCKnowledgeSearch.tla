------------------------- MODULE MCKnowledgeSearch -------------------------
(***************************************************************************)
(* A guide whose first section is long enough for two slices and whose     *)
(* second one has the file name of the first part, a page without heading  *)
(* that answers nothing, and one solved case; two questions, and rerankers *)
(* that are off, or answer in part, twice and out of range.                *)
(***************************************************************************)
EXTENDS KnowledgeSearch

CONSTANTS guide, faq, ticket

Block(kind, text, sizes, ascii, answers) ==
  [kind |-> kind, text |-> text, ascii |-> ascii, answers |-> answers,
   sentences |-> [k \in DOMAIN sizes |-> <<text, k, sizes[k]>>]]

MCPage ==
  guide :> <<Block("heading", "Refunds", <<2>>, <<>>, FALSE),
             Block("paragraph", "refund", <<4, 3>>, <<>>, TRUE),
             Block("paragraph", "fee", <<5>>, <<>>, TRUE),
             Block("heading", "Exchanges 1", <<2>>, <<1>>, FALSE),
             Block("paragraph", "exchange", <<3, 3>>, <<>>, TRUE)>>
  @@ faq :> <<Block("paragraph", "refund", <<4>>, <<>>, FALSE)>>

MCCaseText == ticket :> <<<<<<"refund", 1, 4>>>>, <<<<"exchange", 1, 4>>>>>>

MCSlicesOf == [s \in {guide, faq} |-> Slices(MCPage[s])]

MCChildrenOf ==
  LET Paragraphs(blocks) ==
        LET body == SelectSeq(blocks, LAMBDA b : b.kind # "heading")
        IN  [k \in DOMAIN body |-> body[k].sentences]
  IN  [id \in UNION {{s} \X DOMAIN MCSlicesOf[s] : s \in {guide, faq}} |->
         Append(PackSection(Paragraphs(MCSlicesOf[id[1]][id[2]].blocks)), Child(<<>>, FALSE, 0))]
      @@ (<<ticket, 0>> :> PackSection(MCCaseText[ticket]))

MCListing ==
  <<SolvedPath(ticket), UnresolvedPath(ticket),
    <<"whitepapers", faq, <<"source">>>>,
    <<"whitepapers", guide, <<1>>>>, <<"whitepapers", guide, <<2>>>>>>

MCQuestions == {[exact |-> {"refund"}, near |-> {"fee", "exchange"}],
                [exact |-> {"exchange", "fee"}, near |-> {"refund", "fee"}]}
Scores(place, score) == [place |-> place, score |-> score]
MCRerankAnswers == {<<>>, <<Scores(2, 9), Scores(2, 1), Scores(7, 5)>>}
MCFolders == {{guide}, {guide, faq}}

Paragraph(name, sizes) == [k \in DOMAIN sizes |-> <<name, k, sizes[k]>>]
Sizes == {2, 3, 5, 12}
MCSampleTexts ==
  UNION {{[p \in 1..n |-> Paragraph(p, f[p])] :
            f \in [1..n -> UNION {[1..m -> Sizes] : m \in 1..2}]} : n \in 1..3}
  \cup {<<Paragraph(1, f)>> : f \in [1..5 -> Sizes]}
MCSamplePages ==
  UNION {[1..n -> {Block("heading", "h", <<2>>, <<>>, FALSE)}
                  \cup {Block("paragraph", size, <<size>>, <<>>, TRUE) : size \in {3, 5, 12}}] :
           n \in 1..5}
=============================================================================
