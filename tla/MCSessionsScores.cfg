CONSTANTS
  e1 = e1
  s1 = s1
  s2 = s2
  p1 = p1
  p2 = p2
  p3 = p3
  panel = panel
  Instances = {e1}
  SessionIds = {s1}
  Instance <- MCInstance
  Prompts = {p1}
  Eventful = {p1}
  Session <- MCSession
  Refreshes = {panel}
  Asks <- MCAsks
  Off = {2}
  MaxFile = 0
  None = None
SPECIFICATION Spec
PROPERTIES ScoresSent
CHECK_DEADLOCK FALSE
