CONSTANTS
    d1 = d1
    a = a
    scan = scan
    i1 = i1
    server = server
    cli = cli
    u1 = u1
    u2 = u2
    t1 = t1
    settings = settings
    claude = claude
    launcher = launcher
    Moving = {"document"}
    Extraction = "prepare"
    None = None
    Docs <- MCDocs
    Contents <- MCContents
    Unreadable <- MCUnreadable
    Ingests <- MCIngests
    Emitters <- MCEmitters
    Server = server
    Identities <- MCIdentities
    Topics <- MCTopics
    MaxChanges = 2
    MaxAsks = 4
    MaxEmissions = 2
    Enumerations <- MCEnumerations
    Digits <- MCDigits
    Numeral <- MCNumeral
    Spellings <- MCSpellings
    Texts <- MCTexts
    Sought <- MCSought
    Labels <- MCLabels
    Generic <- MCGeneric
    Minor <- MCMinor
    Single <- MCSingle
    Short <- MCShort
    Entities <- MCEntities
    MaxListed = 2
    MaxQuoted = 1
    MaxQuotedLines = 2
    LineSize = 4
    Libraries <- MCLibraries
    Requests <- MCRequests
    MaxHits = 5
    Served = 2
    EnoughEvidence = 8
    Repositories <- MCRepositories
    Codexes <- MCCodexes
    DirCap = 1
    IdleFiles = 1
    IdleBytes = 2
    LightFiles = 2
    LightBytes = 5
    Budget = 9
    LearnedBudget = 4
    Merged = {settings, claude}
    Owned = {launcher}
    Folders = {"dot-claude", "hooks"}
    FolderOf <- MCFolderOf
    MaxInits = 2
    MaxEdits = 1
SPECIFICATION PartsSpec
SYMMETRY Symmetry
INVARIANT
    SectionsRecovered
CHECK_DEADLOCK FALSE
