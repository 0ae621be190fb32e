CONSTANTS
    Case = "deploy"
    Scenarios <- MCScenarios
    Of <- MCOf
    Words <- MCWords
    Marks <- MCMarks
    NotTagValues <- MCNotTagValues
    MaxAllowedSpans = 2
    MaxChanges = 4
    MaxStarts = 4
    Drawn <- MCDrawn
    MaxRuns = 1
    MaxMishaps = 0
    MaxCrashes = 0
SPECIFICATION SystemSpec
CHECK_DEADLOCK FALSE
INVARIANTS
    JenkinsEndAccepted
