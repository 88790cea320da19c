SPECIFICATION Spec
CONSTANTS
    Rows = 2
    Cols = 5
    Prompt <- MCPrompt
    Letters = {"x"}
    LineMax = 5
    HistMax = 2
    Outputs <- MCOutputs
    MaxParams = 2
    Digits <- MCDigits
    MaxParam = 2
    MaxBytes = 4
    MaxRuns = 1
    MaxLines = 3
INVARIANTS
    TypeOK
    LineShown
    HistoryRight
