CONSTANTS
  Class <- MCClass
  NoClass = NoClass
  Fn = {"f", "g"}
  Programs <- MCPrograms
  MaxIterations = 2
SPECIFICATION Spec
INVARIANT NoAssertFails OriginsAreUnique DispatchIsMostDerived ConcreteCallsReachCode TablesLaidOut BasesBuiltFirst AcceptedMeansBuilt IncompleteIsTrue
PROPERTY TableSetOnce
