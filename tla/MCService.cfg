\* Every command and configuration, every failure, every task ending at any moment.
SPECIFICATION SSpec
INVARIANTS
  NetworkOpensLast
  AuthoringNeedsNode
PROPERTIES
  EssentialTasksAreEssential
\* A process that failed or was stopped is at its end.
CHECK_DEADLOCK FALSE
