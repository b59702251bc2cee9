CONSTANTS
  Word = 256
  Allotted <- MCAllotted
  AtomBits = 12
  Classes <- MCClasses
SPECIFICATION Spec
INVARIANT RefusedIsTooBig NarrowAcceptedFits
