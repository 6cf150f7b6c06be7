CONSTANTS
  a1 = a1  a2 = a2  t1 = t1  t2 = t2  j1 = j1  j2 = j2  NoAgent = NoAgent
  Agents <- OneAgent
  Tickets <- OneTicket
  Jobs <- TwoJobs
  Governed <- OneTicket
  Callers = {"webhook", "staleTimer", "watchdog"}
  MaxEvents = 2
  MaxRestarts = 0
  Cap = 0
  AssigneeFollows = TRUE
  MaxAttempts = 1
SPECIFICATION FairSpec
INVARIANTS UniqueClaimant ForgottenOnlyIfSettled
PROPERTIES PhantomClaimsExpire SwallowedDeliveryHeals
CHECK_DEADLOCK FALSE
