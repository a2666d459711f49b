SPECIFICATION Spec
CONSTANTS
    nginxConf = nginxConf
    gunicornSh = gunicornSh
    dotEnv = dotEnv
    env = env
    pNginx = pNginx
    pDotNginx = pDotNginx
    pGunicorn = pGunicorn
    pEnv = pEnv
    pDotEnv = pDotEnv
    pUp = pUp
    nNginx = nNginx
    nSocket = nSocket
    nGunicorn = nGunicorn
    nPort = nPort
    nEnv = nEnv
    cPort = cPort
    cSyntax = cSyntax
    cUnknown = cUnknown
    days30 = days30
    days90 = days90
    noArgument = noArgument
    NoArgument = noArgument
    Files <- MCFiles
    PathNames <- MCPathNames
    Canonical <- MCCanonical
    Illegal = Illegal
    Stripped <- MCStripped
    Nodes <- MCNodes
    NoFile = NoFile
    Contracts <- MCContracts
    KnownContracts <- MCKnown
    ApprovalIds <- Ids
    Absent = Absent
    PlainFile = PlainFile
    Directory = Directory
    Disks <- OneDisk
    Submissions <- OneSubmission
    Amendments <- OneAmendment
    Requests <- DestructiveRequests
    Actions = {"purge_backups", "firewall_lockdown"}
    Arguments = {days30, noArgument}
    Versions = {1, 2}
    Durations = {0, 1}
    Releases = {}
    Layouts = {Absent}
    MaxManifests = 1
    MaxVersion = 2
    MaxTurns = 3
    MaxTokens = 600
    MaxTime = 1
INVARIANTS
    ApprovalMeansScope
PROPERTIES
    DestructionIsApproved
CHECK_DEADLOCK FALSE
