SPECIFICATION Spec
CONSTANTS
    Mirrors = {gl, pk}
    Sources = {s1, s2, s3}
    Extensions = {"epub", "pdf"}
    Values <- MCValues
    SearchResults <- MCSearchResults
    TitleOrder <- MCTitleOrder
    Ranking <- MCRanking
    NULL = NULL
    MAX_PROVIDER_CHUNK = 4
    Volumes <- MCVolumes
    Terms <- MCTerms
    Absent = Absent
    Corrupt = Corrupt
    NoKey = NoKey
    Limit <- MCLimit
    Window <- MCWindow
    Workloads <- MCWorkloads
    ann = ann
    bob = bob
    s1 = s1
    s2 = s2
    s3 = s3
INVARIANT WindowEnds
PROPERTIES SettledClean BooksKept PageExact
CHECK_DEADLOCK FALSE
