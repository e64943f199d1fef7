SPECIFICATION FairSpec
CONSTANTS
  pricing = pricing
  taxes = taxes
  loans = loans
  pricing2 = pricing2
  agents = agents
  wrong = wrong
  buy = buy
  rent = rent
  sell = sell
  Rows = {pricing, taxes, loans, agents, pricing2, wrong}
  Title <- MCTitle
  Partition <- MCPartition
  Obeying = {pricing, taxes, loans, agents, pricing2}
  Replies <- MCReplies
  Selections <- MCSelections
  TargetRows = 3
  CandidateRows = 5
  BatchSize = 2
  MaxConcurrency = 2
  BatchValues <- MCBatchValues
  MinPerPartition = 1
  MaxRepairs = 1
  MaxRetries = 2
INVARIANTS
  TypeOK
  ErrorIsTheCause
PROPERTIES
  AllOrNothing
  HandlerReturns
CHECK_DEADLOCK FALSE
