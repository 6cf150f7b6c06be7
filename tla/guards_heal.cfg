CONSTANTS
  a1 = a1  a2 = a2  t1 = t1  h1 = h1  h2 = h2  NoAgent = NoAgent
  Agents <- OneAgent
  Tickets <- OneTicket
  Handlers <- OneHandler
  Barrable <- OneTicket
  States = {"s1"}
  MaxVersion = 2
  MaxCrashes = 0
SPECIFICATION FairSpec
PROPERTIES FreshAdmission DelegationDispatched
CHECK_DEADLOCK FALSE
