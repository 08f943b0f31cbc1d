SPECIFICATION HooksSpec
CONSTANTS
    w1 = w1
    w2 = w2
    n1 = n1
    n2 = n2
    n3 = n3
    None = None
    Bare = Bare
    Windows = {w1, w2}
    Names = {n1, n2, n3}
    Native = {w1}
    Hooked = {w1, w2}
    First <- MCFirst
    FirstPtr <- MCFirstPtr
    Menu <- MCMenu
    Codex = {w1}
    FileNames <- MCFileNames
    Contents <- MCContents
    MaxFileBytes = 3
    MaxArtifactBytes = 4
    MaxTotalBytes = 10
    MaxFiles = 1
    HeaderBytes = 1
    NoticeBytes = 1
    Curated <- MCCurated
    Artifacts <- MCArtifacts
    ContentOf <- MCContentOf
    FilesIn <- MCFilesIn
    MaxCommands = 3
    MaxMishaps = 1
INVARIANTS
    TypeOK
    
    TasksListed
    
    PointersResolve
    NoHalfArchive
    ContextWithinLimits
    AgentsGetTheirTask

    
    
CHECK_DEADLOCK FALSE
