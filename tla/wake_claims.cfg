CONSTANTS
  a1 = a1  a2 = a2  t1 = t1  t2 = t2  j1 = j1  j2 = j2  NoAgent = NoAgent
  Agents <- OneAgent
  Tickets <- TwoTickets
  Jobs <- TwoJobs
  Governed <- TwoTickets
  Callers = {"webhook", "sessionEnd", "staleTimer"}
  MaxEvents = 2
  MaxRestarts = 0
  Cap = 1
  AssigneeFollows = TRUE
  MaxAttempts = 1
SPECIFICATION Spec
SYMMETRY Symmetry
INVARIANTS TypeOK UniqueClaimant
PROPERTIES ImplementsClaims
CHECK_DEADLOCK FALSE
