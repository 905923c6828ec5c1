SPECIFICATION Spec
CONSTANTS
  Operands = 3
  Keys = {"a", "b", "c"}
  MaxName = 4
  MaxIncludes = 2
  Context = 1
  Parts = {"expressions", "cases", "diffs", "merges"}
  Absent = Absent
  Malformed = Malformed
INVARIANTS
  ExpressionsAreEvaluated
  JobsAreOrdered
  MatricesRunWhatTheyAskFor
  DoubleStarsMissNothing
  MergesAreThreeWay
  ChangesAreTold
  RenamesAreFound
CHECK_DEADLOCK FALSE
