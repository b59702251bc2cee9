CONSTANTS
  Classes = {Foo}
  Templates = {Tmp}
  PrimName = Int
  NoName = NoName
  HolderName = Holder
  Sizes = {0, 32}
  Lengths = {2}
  PrimBits = 32
  MaxUTI = 6
  MaxOfAll = 4
  MaxOfMost = 5
  Limit <- MCLimit
SPECIFICATION MCSpec
INVARIANT TypeOK KeyCountsExact NoDanglingKey ProgramTableNamesClasses
PROPERTY KnownTypeStays
CHECK_DEADLOCK FALSE
