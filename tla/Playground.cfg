CONSTANTS
  Runs = {1, 2, 3}
  Iterations = 3
  Concurrency = 2
  BlockSize = 2
  PromptLengths <- TwoPrompts
  AgentLength = 1
  MaxFailures = 1
SPECIFICATION FairPoolSpec
CHECK_DEADLOCK FALSE
INVARIANTS PoolTypeOK TokensAccounted ReadsItsWrites SharedBlocksOnce ReusedAcrossRuns
PROPERTIES MainReturns
