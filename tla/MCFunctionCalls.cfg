CONSTANTS
  MAXBITSPERINT = 4
  MAXBITSPERLONG = 8
  Class <- MCClass
  Caller = "C"
  NoClass = NoClass
  Conflict = Conflict
  Programs <- MCPrograms
SPECIFICATION Spec
INVARIANTS CallIsSound ArgumentsArrive NearestMatchWins RefusalsAreReal
