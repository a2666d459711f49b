SPECIFICATION Spec
CONSTANTS
    nginxConf = nginxConf
    gunicornSh = gunicornSh
    dotEnv = dotEnv
    env = env
    pNginx = pNginx
    pDotNginx = pDotNginx
    pGunicorn = pGunicorn
    pEnv = pEnv
    pDotEnv = pDotEnv
    pUp = pUp
    nNginx = nNginx
    nSocket = nSocket
    nGunicorn = nGunicorn
    nPort = nPort
    nEnv = nEnv
    cPort = cPort
    cSyntax = cSyntax
    cUnknown = cUnknown
    days30 = days30
    days90 = days90
    noArgument = noArgument
    NoArgument = noArgument
    Files <- MCFiles
    PathNames <- MCPathNames
    Canonical <- MCCanonical
    Illegal = Illegal
    Stripped <- MCStripped
    Nodes <- MCNodes
    NoFile = NoFile
    Contracts <- MCContracts
    KnownContracts <- MCKnown
    ApprovalIds <- Ids
    Absent = Absent
    PlainFile = PlainFile
    Directory = Directory
    Disks <- MCDisks
    Submissions <- MCSubmissions
    Amendments <- MCAmendments
    Requests <- LifecycleRequests
    Actions = {"purge_backups", "firewall_lockdown"}
    Arguments = {noArgument}
    Versions = {}
    Durations = {}
    Releases = {}
    Layouts = {Absent}
    MaxManifests = 2
    MaxVersion = 3
    MaxTurns = 3
    MaxTokens = 300
    MaxTime = 0
INVARIANTS
    TypeOK
    CallsAreSound
    AcceptedIsVerified
    StagedExtendsAccepted
    WorkIsWithinBudget
PROPERTIES
    CallsLeaveNoOrphan
    PatchesAreVetted
    ImplementsChangeControl
CHECK_DEADLOCK FALSE
