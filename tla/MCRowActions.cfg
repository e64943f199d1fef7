SPECIFICATION Spec
CONSTANTS
  Calls = {c1}
  Requests <- MCRequests
  Agent = "pack"
  Keys = {"k1", "k2"}
  Tokens = {"t1"}
  NoCred = "none"
  Subject <- MCSubject
  Claims <- MCClaims
  Actions <- MCActions
  Versions = {"v1", "v2"}
  NoVersion = NoVersion
  Manifest <- MCManifest
  Prompt <- MCPrompt
  Undeclared = Undeclared
  Missing = Missing
  RowIds = {"r1"}
  Titles = {"x"}
  NoTitle = NoTitle
  NoRow = NoRow
  Texts <- MCTexts
  NoText = NoText
  Verdicts <- MCVerdicts
  Dimensions = {"claims", "safety"}
  NoContract = NoContract
  MaxRetries = 2
  MaxDeploys = 2
  MaxWrites = 1
  MaxFailures = 1
INVARIANTS TypeOK ApprovedTextOnly CallsAreConsistent
PROPERTIES DeadlinesAnswer
CHECK_DEADLOCK FALSE
