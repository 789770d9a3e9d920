CONSTANTS
    Table <- MCTable
    MaxCuts = 1
SPECIFICATION Spec
PROPERTY EveryLaunchEnds
