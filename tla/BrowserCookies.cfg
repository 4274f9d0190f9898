\* The cookies alone: a persistent cookie and a new process.
SPECIFICATION WindowSpec
CONSTANTS
    a = a  b = b
    Running = {"cookies"}
    None = None
    NoNode = NoNode
    Values = {v, w}
    Pages <- MCPages
    Domains <- MCDomains
    Paths <- MCPaths
    Names = {"n"}
    Writable = {TRUE}
    Filed <- MCFiled
    MaxCookies = 3
    Segments <- MCSegments
    MaxSegments = 3
    Hosts <- MCHosts
    Ports <- MCPorts
    Delays = {0, 1, 2}
    MaxTimers = 2
    MaxDepth = 2
    MaxLate = 2
    Nodes = {a, b}
    Above <- MCAbove
    Functions = {"f"}
    Handled = {b}
    Inputs = {i}
    MaxOptions = 3
    Elements = {e}
    Kinds = {"img", "link", "script", "iframe"}
    Urls = {u1, u2}
    Files = {u2}
    Requests = {r1, r2}
    Platforms = {"threads", "threadless"}
    TagNames <- MCTagNames
    Words = {"", " 1"}
    Trimmed <- MCTrimmed
    Number <- MCNumber
    Pixels <- MCPixels
    Resolved <- MCResolved
    MaxWrites = 2
INVARIANT PersistentReadsBack
CHECK_DEADLOCK FALSE
