SPECIFICATION Spec
CONSTANTS
  t_crash = t_crash
  t_guess = t_guess
  t_same = t_same
  t_dunno = t_dunno
  Texts = {t_crash, t_guess, t_same, t_dunno}
  Marks <- MCMarks
  Proposals <- MCProposals
  Direct = Direct
  TurnWindow = 3
  ListWindow = 2
  RecentWindow = 3
  RunWindow = 1
  MaxItems = 2
  MaxQuestions = 4
  MaxInterrupts = 1
INVARIANTS
  ContextIsPast
  FactsAreObserved
  OnlyFullListsForget
  ItemsWereReviewed
CHECK_DEADLOCK FALSE
