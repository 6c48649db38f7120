CONSTANTS
  t1 = t1
  t2 = t2
  a1 = a1
  a2 = a2
  Nil = Nil
  Callers = {t1, t2}
  Adapters = {a1, a2}
  Candidates = 2
  Backends <- AllBackends
  Ordinals <- Ords
SYMMETRY ThreadSymmetry
SPECIFICATION SurveySpec
INVARIANTS OneAnswer SameAdapter NoCircleOfWaits
