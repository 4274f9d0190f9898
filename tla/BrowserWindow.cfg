\* Two pages and one cookie name; addresses of three segments; two timers at a
\* time and two calls of wait; an event on two nodes; one input; a select with
\* three options; one element of each kind; two requests of two urls, one of
\* them of a file; every class of elements, two attributes set.
SPECIFICATION WindowSpec
CONSTANTS
    a = a  b = b
    Running = {"cookies", "urls", "timers", "events", "forms", "select", "insertion", "requests", "reflection"}
    None = None
    NoNode = NoNode
    Values = {v, w}
    Pages <- MCPages
    Domains <- MCDomains
    Paths <- MCPaths
    Names = {"n"}
    Writable = {TRUE}
    Filed <- MCFiled
    MaxCookies = 3
    Segments <- MCSegments
    MaxSegments = 3
    Hosts <- MCHosts
    Ports <- MCPorts
    Delays = {0, 1, 2}
    MaxTimers = 2
    MaxDepth = 2
    MaxLate = 2
    Nodes = {a, b}
    Above <- MCAbove
    Functions = {"f"}
    Handled = {b}
    Inputs = {i}
    MaxOptions = 3
    Elements = {e}
    Kinds = {"img", "link", "script", "iframe"}
    Urls = {u1, u2}
    Files = {u2}
    Requests = {r1, r2}
    Platforms = {"threads", "threadless"}
    TagNames <- MCTagNames
    Words = {"", " 1"}
    Trimmed <- MCTrimmed
    Number <- MCNumber
    Pixels <- MCPixels
    Resolved <- MCResolved
    MaxWrites = 2
INVARIANTS SessionReadsBack AddressesAreResolved StartsOnce ListenersAreCalled PageDecides
    ShowsChosen LoadedOnce HeardIsOwn
PROPERTIES WaitReturns PropertiesAreOwn
\* A page that is loaded, or has asked for all it may ask for, need not go on.
CHECK_DEADLOCK FALSE
