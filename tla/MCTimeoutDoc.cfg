\* What the runtime says of the events a failed or late card leaves.
CONSTANTS
  NoValue = NoValue
  Timeout = 3
  Metadata <- MCMetadata
  Contexts <- MCContexts
  Assignees <- MCAssignees
SPECIFICATION AdapterSpec
INVARIANTS ObservedEventsPersisted
