SPECIFICATION Spec
CONSTANTS
  Tables = {t1, t2}
  U = U
  X = X
PROPERTIES
  KeepsItsTable
  ResultIsOfThisRun
