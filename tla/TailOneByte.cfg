\* main returns once every pattern is handled: the final state has no
\* successor.
CONSTANTS
    Files <- MCFiles
    Counts <- MCCounts
    NL <- MCNL
    PatternLists <- MCPatternLists
    Glob <- MCGlob
    Inside <- MCInside
    OpenMayFail = FALSE
    AppendChars = {}
    MaxAppends = 0
SPECIFICATION Spec
INVARIANT TailLastLines
CHECK_DEADLOCK FALSE
