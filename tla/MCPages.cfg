SPECIFICATION PagesSpec
CONSTANTS
    root = root
    docs = docs
    old = old
    note = note
    Dirs = {root, docs, old}
    Top = root
    Docs = {note}
    TextDocs = {note}
    MediaDocs = {}
    RowBefore <- Rows
    Vault <- Folders
    DepthLimit = 4
    Slots = {1, 2}
    MaxAsked = 2
    MaxNews = 1
    MaxVisits = 2
    MaxSends = 1
    MaxTries = 1
    Handlers = {1, 2}
    Forms = {"form"}
    MaxCalls = 4
    Browsers = {"b1", "b2"}
    Hashed = Hashed
    MaxKeys = 4
    Places = {1, 2}
    MaxAsks = 3
INVARIANTS
    SelectionShown
    ConfirmedOnce
    AttemptsBounded
    AcceptedIsLive
    PhraseWorks
PROPERTIES
    DeviceStays
CONSTRAINT Brief
CHECK_DEADLOCK FALSE
