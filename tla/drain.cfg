SPECIFICATION EvictionFairSpec
CONSTANTS
    Pods <- MCPods
    Kind <- MCKind
    Late = {"dns"}
    Restarts = 1
INVARIANTS NoPodIsStranded NoEvictionIsForgotten
PROPERTIES CriticalIsLast DrainEnds
