SPECIFICATION Spec
CONSTANTS
    c1 = c1
    c2 = c2
    c3 = c3
    u1 = u1
    u2 = u2
    d1 = d1
    d2 = d2
    d3 = d3
    libA = libA
    libB = libB
    Clients <- MCClients
    Sizes <- MCSizes
    MaxBytes = 4
    MaxConnects = 2
    MaxReads = 3
    Threads <- MCThreads
    TcpPorts <- MCTcpPorts
    Fits <- MCFits
    MaxStarts = 3
    FileSizes <- MCFileSizes
    MaxInt = 3
    Loaders <- MCLoaders
    Libraries <- MCLibraries
    LibOf <- MCLibOf
    ClassesOf <- MCClassesOf
    MaxLoads = 4
    MaxInstances = 2
    NoFactory = NoFactory
    Base = 4
    TypeAnswers <- MCTypeAnswers
    InputLists <- MCInputLists
    OutputLists <- MCOutputLists
    Samples <- MCSamples
    Levels <- MCLevels
    MaxRecipeCalls = 2
    Garbage = Garbage
    NonFinite = NonFinite
    Huge = 50
    SumPair = 3
    Ratio = 10
    Poses <- MCPoses
    OtherPoses <- MCOtherPoses
    NoPoses <- MCNoPoses
    Versions <- MCVersions
    Numbers <- MCNumbers
    Counts <- MCCounts
INVARIANTS
    RequestsAnswered BytesInOrder HandleServesItsLine JobsAreClean LoadedStaysMapped
    RecipesCarryValues PoseLaws ValuesConvert
PROPERTIES
    JobsEnd
CHECK_DEADLOCK FALSE
