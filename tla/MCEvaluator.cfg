CONSTANTS
    Classes <- AllClasses
    Initial = {0, 1}
    MaxTests = 2
    MaxWork = 14
SPECIFICATION Spec
INVARIANT GeneratedRunsTheSource EvaluatorRunsTheSource TestsPredictTheCode StacksRestored
CHECK_DEADLOCK FALSE
