CONSTANTS
  e1 = e1
  s1 = s1
  s2 = s2
  p1 = p1
  p2 = p2
  p3 = p3
  panel = panel
  Instances = {e1}
  SessionIds = {s1, s2}
  Instance <- MCInstance
  Prompts = {p1, p2, p3}
  Eventful = {p1}
  Session <- MCSession
  Refreshes = {panel}
  Asks <- MCAsks
  Off = {2}
  MaxFile = 1
  None = None
SPECIFICATION Spec
INVARIANTS TypeOK ClientFollowsLeases RecordsHome RefreshSettles
PROPERTIES HandlersReturn
CHECK_DEADLOCK FALSE
