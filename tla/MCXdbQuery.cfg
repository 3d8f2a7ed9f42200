SPECIFICATION Spec
CONSTANTS
  MaxIndexes = 2
  Byte = 4
  Word = 8
  MaxRows = 99
  MaxDouble = 8
  Layouts <- MCLayouts
INVARIANTS
  WhereExact
  LimitExact
  UpdatesExact
  AnswersExact
