\* The router with up to three rules, a websocket with up to three frames of its
\* peer, names of up to three bytes and texts of up to four, three threads that
\* publish nodes on x86, query strings of up to three pairs and one of four.
CONSTANTS
    RuleSet <- SomeRules
    MaxRules = 3
    Urls <- SomeUrls
    Methods = {"GET", "POST"}
    Frames <- SomeFrames
    MaxFrames = 3
    MaxSends = 1
    BufferSize = 1
    Limit7 = 1
    Limit16 = 2
    NameBytes = {0, 32, 37, 43, 50, 66, 103, 255}
    MaxName = 3
    RawBytes = {37, 43, 45, 48, 66, 103}
    MaxRaw = 4
    None = None
    Threads = {t1, t2, t3}
    Keys = {k1, k2}
    Null = Null
    Machine = "x86"
    QueryUrls <- UrlsWithPairs
    QueryNames <- NamesOfPairs
    MaxPairs = 3
CHECK_DEADLOCK FALSE
SPECIFICATION PartSpec
INVARIANTS RequestsRouted AdviceTruthful MessagesIntact FramesInOrder CloseReported NamesDecoded NodesPublished PairsRead PopsItsPairs
