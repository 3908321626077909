CONSTANTS
    Symbol <- MCSymbol
    Char <- MCChar
    Pattern <- MCPattern
    Builtin <- MCBuiltin
    Window = 3
    MaxCalls = 2
    Sources <- MCSources
    Loaded <- MCLoaded
SPECIFICATION Spec
INVARIANTS
    ParsesAsWritten
    CleanRuns
    FastIsRegex
    EvaluatorsAgree
    CapturesSurvive
    EnginesAgree
CHECK_DEADLOCK FALSE
