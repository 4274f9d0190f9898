\* Two clients of each user service; three messages; a page number that
\* overflows an int of four bits, and a sum that does; two runs of the page.
SPECIFICATION Spec
CONSTANTS
    Running = {"jdbc", "kafka", "jdeferred", "spark"}
    Clients = {c1, c2}
    Implementations = {"PureJDBC", "ApacheDBUtils", "Dalesbred"}
    Names = {"x", "y"}
    ItemsPerPage = {1, 4}
    Pages = {0, 1, 3, 4}
    IntBits = 4
    MaxUsers = 2
    NumberOfMessages = 3
    Programs <- AppAndTests
    Texts <- TypedTexts
    MaxRuns = 2
INVARIANTS CountsEverything NewestRunIsShown
PROPERTIES UndisturbedCallsKeepPromise CreatesAnswerNewUsers Returns EndsIfLate
\* The experiments end.
CHECK_DEADLOCK FALSE
