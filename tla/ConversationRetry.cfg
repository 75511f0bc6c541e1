CONSTANTS
  Runs = {1}
  BlockSize = 2
  PromptLengths <- ShortPrompts
  AgentLength = 1
  MaxFailures = 1
SPECIFICATION Spec
CHECK_DEADLOCK FALSE
INVARIANTS RetryRestoresChain
