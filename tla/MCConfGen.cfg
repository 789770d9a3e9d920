CONSTANTS
    Table <- MCTable
    MaxCuts = 1
SPECIFICATION Spec
INVARIANTS NoLeftover CustomWins
PROPERTIES UserKept LaunchEnds
