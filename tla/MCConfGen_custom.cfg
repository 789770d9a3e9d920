CONSTANTS
    Table <- MCTable
    MaxCuts = 1
SPECIFICATION Spec
INVARIANT CustomAlwaysWins
