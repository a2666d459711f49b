SPECIFICATION Spec
CONSTANTS
    nginxConf = nginxConf
    gunicornSh = gunicornSh
    dotEnv = dotEnv
    env = env
    pNginx = pNginx
    pDotNginx = pDotNginx
    pGunicorn = pGunicorn
    pEnv = pEnv
    pDotEnv = pDotEnv
    pUp = pUp
    nNginx = nNginx
    nSocket = nSocket
    nGunicorn = nGunicorn
    nPort = nPort
    nEnv = nEnv
    cPort = cPort
    cSyntax = cSyntax
    cUnknown = cUnknown
    days30 = days30
    days90 = days90
    noArgument = noArgument
    NoArgument = noArgument
    Files <- MCFiles
    PathNames <- MCPathNames
    Canonical <- MCCanonical
    Illegal = Illegal
    Stripped <- MCStripped
    Nodes <- MCNodes
    NoFile = NoFile
    Contracts <- MCContracts
    KnownContracts <- MCKnown
    ApprovalIds <- Ids
    Absent = Absent
    PlainFile = PlainFile
    Directory = Directory
    Disks <- MCDisks
    Submissions <- OneSubmission
    Amendments <- OneAmendment
    Requests <- SwitchRequests
    Actions = {"purge_backups", "firewall_lockdown"}
    Arguments = {noArgument}
    Versions = {}
    Durations = {}
    Releases = {r1, r2}
    Layouts = {Absent}
    MaxManifests = 1
    MaxVersion = 2
    MaxTurns = 4
    MaxTokens = 600
    MaxTime = 0
PROPERTIES
    RollbackMechanismIsReady
CHECK_DEADLOCK FALSE
