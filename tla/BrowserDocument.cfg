\* A tree of four nodes, one of another document; a text of three characters;
\* two elements with two of three attributes; three rows and two cells; five
\* elements below a document; a form and an image with two names.
SPECIFICATION DocumentSpec
CONSTANTS
    e1 = e1  e2 = e2  t1 = t1  t2 = t2
    a1 = a1  a2 = a2  a3 = a3
    form = form  image = image
    Running = {"tree", "text", "attributes", "tables", "document", "names"}
    Elements = {e1, e2}
    Attrs = {a1, a2}
    Names = {"id", "ID", "p:id"}
    Local <- MCLocal
    Namespaces = {"uri", "URI"}
    Lower <- MCLower
    Values = {"", v}
    Empty = ""
    None = None
    MaxLength = 2
    Nodes = {e1, e2, t1, t2}
    Fragments = {}
    Leaves = {t1, t2}
    Owners = {"this", "another"}
    DocumentOf <- MCDocumentOf
    NoNode = NoNode
    Tolerated = {}
    Characters = {"a"}
    MaxText = 3
    MaxNodes = 4
    Null = Null
    Sections <- MCSections
    MaxRows = 3
    MaxCells = 2
    Texts = {"a", "b"}
    Untitled = "untitled"
    MaxElements = 5
    Named = {form, image}
    TagOf <- MCTagOf
    ElementNames = {m, n}
SYMMETRY Symmetric
INVARIANTS MapsAgree LinksAgree AnswersStand NamesAgree
PROPERTIES CallsTouchOneName TextKept RowsAreWhereAsked
\* A tree in which a call went wrong is left as it is.
CHECK_DEADLOCK FALSE
