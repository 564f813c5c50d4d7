CONSTANTS
    Kube = {k}
    Docker = {d}
    Glitch = 1
SPECIFICATION Spec
INVARIANTS
    TypeOK
    CodeRunsCutOff
    AnswersAreEarned
PROPERTIES
    NothingIsLeftBehind
CHECK_DEADLOCK FALSE
