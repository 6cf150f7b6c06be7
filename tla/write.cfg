CONSTANTS
  Attempts = 3
  Faults <- AllFaults
SPECIFICATION FairSpec
INVARIANTS TypeOK ConfirmedIsWhole RolledBackIsWhole OutcomeKnown
PROPERTIES Answered RecordSpec WriteProgresses
CHECK_DEADLOCK FALSE
