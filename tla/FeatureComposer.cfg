SPECIFICATION Spec
CONSTANTS
    Ids = {1, 2, 3, 4}
    Names = {"a", "b", "c", "d", "toString"}
    Inherited = {"toString"}
    Inputs <- AllInputs
    Disabled <- SomeOff
INVARIANTS ComposerInv DependenciesFirst CycleNamed RefusedForCause
PROPERTY ImplementsOrder
CHECK_DEADLOCK FALSE
