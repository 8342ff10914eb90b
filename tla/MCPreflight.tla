---------------------------- MODULE MCPreflight -----------------------------
EXTENDS Preflight, TLC

CONSTANTS t_crash, t_guess, t_same, t_dunno

MCMarks == t_crash :> {"observable"} @@ t_guess :> {"hypothesis", "question"}
           @@ t_same :> {"reference", "question"} @@ t_dunno :> {"unknown"}
Says(text, m) == [text |-> text, source |-> m]
Proposal(lists, facts, claims, hypotheses, unknowns, items) ==
  [listsFacts |-> lists, facts |-> facts, claims |-> claims,
   hypotheses |-> hypotheses, unknowns |-> unknowns, items |-> items]
MCProposals ==
  {Proposal(TRUE, <<t_guess, t_crash, t_crash>>, <<>>, <<>>, <<>>, {t_same, t_crash}),
   Proposal(TRUE, <<>>, <<Says(t_dunno, 1), Says(t_dunno, 1)>>, <<Says(t_crash, 1)>>,
            <<Says(t_crash, 2), Says(t_dunno, 2)>>, {t_guess}),
   Proposal(TRUE, <<t_crash>>, <<Says(t_same, 1), Says(t_guess, 1), Says(t_guess, 0)>>,
            <<>>, <<>>, {t_crash, t_guess, t_same}),
   Proposal(FALSE, <<>>, <<>>, <<>>, <<>>, {})}
=============================================================================
