\* main returns once every pattern is handled: the final state has no
\* successor.
CONSTANTS
    Files <- MCFiles
    Counts <- MCCounts
    NL <- MCNL
    PatternLists <- MCPatternLists
    Glob <- MCGlob
    Inside <- MCInside
    OpenMayFail = TRUE
    AppendChars <- MCAppendChars
    MaxAppends = 1
SPECIFICATION Spec
INVARIANT TypeOK
INVARIANT TailLastLinesUndisturbed
INVARIANT PatternsAccountedFor
INVARIANT SeekWithinFile
PROPERTY Terminates
CHECK_DEADLOCK FALSE
