CONSTANTS
  MAXBITSPERINT = 4
  MAXBITSPERLONG = 8
  Variables <- MCVariables
  Literals <- MCLiterals
  MaxOperators = 2
SPECIFICATION FullSpec
INVARIANTS QuotientsAreReadAsCast
CHECK_DEADLOCK FALSE
