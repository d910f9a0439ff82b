\* Two workers, two collectives in a forward pass, up to two calls and exit.
SPECIFICATION Spec
CONSTANTS
  NumWorkers = 2
  NumCollectives = 2
  Methods = {"run", "swap_in"}
  MaxCalls = 2
INVARIANTS TypeOK SameCallsUndisturbed WritesAlone CollectivesMatch ShmLifetime
PROPERTIES AllReturn
\* Every rank stops after exit; ranks that have lost each other wait for ever.
CHECK_DEADLOCK FALSE
