CONSTANTS
  a1 = a1  a2 = a2  t1 = t1  h1 = h1  h2 = h2  NoAgent = NoAgent
  Agents <- OneAgent
  Tickets <- OneTicket
  Handlers <- TwoHandlers
  Barrable <- NoTicket
  States = {"s1"}
  MaxVersion = 1
  MaxCrashes = 1
SPECIFICATION Spec
SYMMETRY Symmetry
INVARIANTS TypeOK OneSender WindowBacked
CHECK_DEADLOCK FALSE
