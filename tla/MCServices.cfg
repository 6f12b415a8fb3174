CONSTANTS
    None = None
    f1 = f1
    f2 = f2
    f3 = f3
    sym = sym
    Targets = {f1, f2, f3}
    Root = f1
    NoBody = NoBody
    Lists <- MCLists
    Depths <- MCDepths
    Ceilings = {1, 2, 3}
    MaxDepth = 2
    Kinds = {"regex", "lookup", "query", "callers", "vulns", "strings", "taint", "crypto"}
    Hits = {1, 2}
    Repos <- MCRepos
    Limits = {0, 1, 2}
    PageSize = 2
    PageCap = 2
    ScanCap = 1
    QueryScan = 3
    Addrs = {0, 1, 2}
    Mapped = {0, 2}
    Decodable = {0, 2}
    Labels = {sym}
    Types = {"t"}
    EnumMembers = {"m1", "m2"}
    Locals = {"v"}
    Slots = 2
    FuncSize = 2
    MaxCalls = 3
    Insns <- Alphabet
    FlowPrograms <- MCPrograms
    StackRegs = {"rsp"}
    Clobbered = {"rax", "rcx"}
    ArgRegs = {"rcx", "rdi"}
    ReturnReg = "rax"
    InputSources = {"recv"}
    SinkNames = {"strcpy"}
SPECIFICATION MCSpec
INVARIANTS
    Consistent
    TruncatedIffPartial
    GraphIsWhole
    WalksAreHonest
    
    MergePlansAreSound
    TracesAgree
    AnnouncedIsMeant
    ReportsAreTrue
    LookupsAgree
PROPERTY
    FailureLeavesNoTrace
    HintsAreTrue
\* A request is answered once.
CHECK_DEADLOCK FALSE
