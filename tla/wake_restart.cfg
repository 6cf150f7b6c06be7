CONSTANTS
  a1 = a1  a2 = a2  t1 = t1  t2 = t2  j1 = j1  j2 = j2  NoAgent = NoAgent
  Agents <- TwoAgents
  Tickets <- TwoTickets
  Jobs <- TwoJobs
  Governed <- TwoTickets
  Callers = {"webhook", "staleTimer", "replay"}
  MaxEvents = 2
  MaxRestarts = 1
  Cap = 0
  AssigneeFollows = TRUE
  MaxAttempts = 1
SPECIFICATION Spec
SYMMETRY Symmetry
INVARIANTS OneWakeInFlight ForgottenOnlyIfSettled
CHECK_DEADLOCK FALSE
