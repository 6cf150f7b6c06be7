CONSTANTS
  dev = dev  rev = rev  human = human  c1 = c1  c2 = c2
  States <- ThreeStates
  Settings <- ThreeWorkflows
  Agents <- ThreeAgents
  Known <- TwoAgents
  Capabilities <- ThreeCapabilities
  Holds <- Policy
  Commands <- TwoCommands
  Keys = {"identifier"}
  MaxChunks = 2
  MaxUpsets = 1
SPECIFICATION Spec
INVARIANTS TypeOK TerminalIsFinal HandoverIsWhole
PROPERTIES GateNeedsFreshAct MovesAreLegal
SYMMETRY Symmetry
CHECK_DEADLOCK FALSE
