SPECIFICATION PagesSpec
CONSTANTS
    full = full
    lean = lean
    lib = lib
    base = base
    slim = slim
    s1 = s1
    s2 = s2
    r1 = r1
    latest = latest
    g1 = g1
    w1 = w1
    w2 = w2
    Scan = {s1, s2}
    Tag = {latest}
    Content <- MCContent
    Blob = {lib, base, slim}
    LayersOf <- MCLayersOf
    Schema = {"v2"}
    MaxMoves = 1
    None = None
    Root = Root
    Cve = {"old", "new"}
    Severity = {"Low", "High"}
    Os = {"debian", "alpine"}
    Review = {r1}
    Request <- MCRequest
    PolicyName = {"default", "team"}
    PostedPolicy <- MCPostedPolicy
    MaxPosts = 0
    Page = {g1}
    PageRequest <- MCPageRequest
    Post = {w1, w2}
    Posting <- MCPosting
    MaxRequests = 2
    MaxReads = 1
    FeaturesOf <- MCFeaturesOf
    InitiallyKnown = {"old"}
    defaultBlock = TRUE
SYMMETRY MCPagesSymmetry
INVARIANTS PagesTypeOK AdmittedIsClean AdmittedIsScanned ForbiddenIsListed CleanPageIsClean PostReadsBack
