SPECIFICATION ResubmissionSpec
CONSTANTS
    nginxConf = nginxConf
    gunicornSh = gunicornSh
    oldSh = oldSh
    dotEnv = dotEnv
    env = env
    infraYml = infraYml
    Files <- MCFiles
    PathNames <- MCFiles
    Canonical <- MCCanonical
    Illegal = Illegal
    Stripped <- MCStripped
    Nodes <- MCNodes
    NoFile = NoFile
    Blocks <- MCBlocks
    Lines <- TiedLines
    LastOf <- MCLastOf
    Overlaps <- MCOverlaps
    NameEnds <- MCNameEnds
    InfraManifest = infraYml
    Fragile = {gunicornSh, infraYml}
    Drafts <- MCDrafts
INVARIANTS
    DiscoveryTypeOK
    AcceptedIsClosed
    RoundsAreBounded
PROPERTIES
    RefusalsDemandNoMore
    Converges
CHECK_DEADLOCK FALSE
