SPECIFICATION Spec
CONSTANTS
    Inputs <- MCInputs
    Pieces <- MCPieces
    Word = 100000
    MinInterval = 10
    DefaultInterval = 60
    DefaultEndpoint <- MCDefaultEndpoint
    None = None
INVARIANT RefusesWithoutSecret
CHECK_DEADLOCK FALSE
