SPECIFICATION Spec
CONSTANTS
  States <- WorkflowStates
  Entry = "intake"
  Done = "done"
  Early <- EarlyStates
  Bodies = {"anna", "bert"}
  Fills <- Single
  LedgerFills <- Single
  Pin <- Unpinned
  MaxRungs = 1
  LeftOver <- SomeTickets
  Quota = 1
  None = "none"
INVARIANTS TypeOK RestHolds
PROPERTIES Converges StrayOwnerGoes NotLeftDark
CHECK_DEADLOCK FALSE
