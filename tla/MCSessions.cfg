SPECIFICATION Spec
SYMMETRY MCSymmetry
CONSTANTS
    None = None
    SavedOne = SavedOne
    p1 = p1
    p2 = p2
    Procs <- MCProcs
    Leads <- MCLeads
    Kobos <- MCKobos
    UserMedia <- MCUserMedia
    MediaRoots <- MCMediaRoots
    Temporary <- MCTemporary
    Home <- MCHome
    Xdg <- MCXdg
    OnMac = FALSE
    Files <- MCFiles
    Port <- MCPort
    ByNumber <- MCByNumber
    Urls <- MCUrls
    Bookshelf <- MCBookshelf
    Expand <- MCExpand
    Refused <- MCRefused
    DefaultReader <- MCDefaultReader
    RootFolder <- MCRootFolder
    StartedIn <- MCStartedIn
    FirstFiles <- MCFirstFiles
    FirstThere <- MCFirstThere
    Pluggable <- MCPluggable
    Programs <- MCPrograms
    Drafts <- MCDrafts
    Items <- MCItems
    Stamped <- MCStamped
    MaxStarts = 2
    MaxEdits = 1
    MaxChanges = 1
    MaxLines = 2
    MaxEntries = 2
INVARIANT RunsAsItWouldStart
INVARIANT NothingOutsideTheLock
INVARIANT RecordInOrder
PROPERTY UpdatesPreserve
PROPERTY KnownIsTrue
CHECK_DEADLOCK FALSE
