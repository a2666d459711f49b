SPECIFICATION ScanSpec
CONSTANTS
    site = site
    snippet = snippet
    service = service
    start = start
    health = health
    backup = backup
    policy = policy
    Artifacts <- MCArtifacts
    Glob <- MCGlob
    Marks <- MCMarks
    CloudflareRanges <- MCCloudflareRanges
    Trees <- MCTrees
    MaxEdits = 2
INVARIANTS
    ScanTypeOK
    VerdictIsOfWhatWasRead
    QuietVerdict
    EarlyAnswersAreFinal
    OneEditIsAtomic
PROPERTIES
    VerdictComes
CHECK_DEADLOCK FALSE
