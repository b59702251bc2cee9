CONSTANTS
  Class <- MCClass
  Text <- MCText
  Local <- MCLocal
  Programs <- MCPrograms
  MaxOpen = 4
SPECIFICATION Spec
INVARIANT NoFileForgotten LocalsAreComplete NoFalseRejection
PROPERTY ReadingEnds
