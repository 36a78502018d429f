CONSTANTS
  Turns = {t1, t2}
  Generations = {g1, g2}
  Tools = {k1}
  Prompt = Prompt
  None = None
  MaxSwitches = 1
SYMMETRY Alike
SPECIFICATION Spec
INVARIANTS
  TypeOK
  EndedOnce
  AbandonmentReported
  NobodyLeftWaiting
PROPERTIES
  AnswersKept
  FormsTree
