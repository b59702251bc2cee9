CONSTANTS
  Class <- MCClass
  NoClass = NoClass
  Fn = {"f", "g"}
  Programs <- OneFunction
  MaxIterations = 2
SPECIFICATION Spec
INVARIANT OverridesAreNeverLost
