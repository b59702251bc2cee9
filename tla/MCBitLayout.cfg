CONSTANTS
  Class <- MCClass
  Programs <- MCPrograms
SPECIFICATION Spec
INVARIANT SizesAddUp BasesAreComplete CycleFlagsAreTrue NoFalseRejection DefaultsAreReadBack AcceptedMeansPacked
PROPERTY KnownStaysKnown
