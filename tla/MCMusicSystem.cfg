CONSTANT MaxJobs <- MCMaxJobs
SPECIFICATION Spec
INVARIANTS
  FlagsMatchSource
  FocusDecidesBlocking
PROPERTIES
  ImplementsJobQueue
  QuitApproaches
