SPECIFICATION ClientsSpec
CONSTANTS
\* two pages of one browser
    t1 = t1
    t2 = t2
    h1 = h1
    h2 = h2
    Tabs = {t1, t2}
    Hooks = {h1, h2}
    TabOf <- BrowserPage
    Main <- LoginForm
    MaxTokens = 1
    MaxMishaps = 0
\* one desktop, two commands at a time
    Runs = {r1, r2}
    NoKey = NoKey
    Here = Here
    There = There
    MaxIssued = 1
    MaxFailures = 0
\* two browsers and a desktop
    Webs = {w1, w2}
    Desktops = {m1}
    MaxCount = 2
    MaxSigned = 2
    MaxFaults = 1
\* two batches of three files
    Batches = {"b1", "b2"}
    FilesOf <- Drops
    Size = 2
    StoredSize = 3
    Limit = 7
    MaxTries = 2
    MaxUploadMishaps = 1
INVARIANT SignedInListed
CHECK_DEADLOCK FALSE
