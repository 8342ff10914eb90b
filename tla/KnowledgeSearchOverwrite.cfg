SPECIFICATION Spec
CONSTANTS
  guide = guide
  faq = faq
  ticket = ticket
  NoDoc = NoDoc
  NoReport = NoReport
  NoBuild = NoBuild
  NoResult = NoResult
  MaxParent = 10
  MaxChars = 10
  MinChars = 4
  OverlapChars = 3
  Provenance = 1
  RecallLimit = 3
  FusionLimit = 3
  ResultLimit = 2
  MaxRuns = 2
  MaxDecisions = 3
  MaxSteps = 4
  Page <- MCPage
  SlicesOf <- MCSlicesOf
  CaseText <- MCCaseText
  ChildrenOf <- MCChildrenOf
  Listing <- MCListing
  Questions <- MCQuestions
  RerankAnswers <- MCRerankAnswers
  Folders <- MCFolders
  SamplePages <- MCSamplePages
  SampleTexts <- MCSampleTexts
INVARIANT PublishedSlicesHaveTheirDocument
