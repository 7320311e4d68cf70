SPECIFICATION Spec
CONSTANTS
    Demos <- MCDemos
    CounterMod = 2
INVARIANTS
    NoErrorDetected
    NoneLeftBehind
PROPERTY NobodyStalls
