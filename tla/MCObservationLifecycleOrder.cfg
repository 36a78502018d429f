CONSTANTS
  Turns = {t1}
  Generations = {g1}
  Tools = {k1}
  Prompt = Prompt
  None = None
  MaxSwitches = 1
SPECIFICATION Spec
INVARIANT ChildrenFirst
