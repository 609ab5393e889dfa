SPECIFICATION Spec
CONSTANTS
    n1 = n1
    n2 = n2
    l1 = l1
    l2 = l2
    p1 = p1
    p2 = p2
    s1 = s1
    c1 = c1
    c2 = c2
    None = None
    Namespace <- MCNamespace
    Cluster <- MCCluster
    Pod <- MCPod
    ContainerStatus <- MCStatus
    Crawl <- MCCrawl
    MaxDay = 2
SYMMETRY MCSymmetry
INVARIANTS
    IInv
    InventoryIsComplete
    ShownWasListed
PROPERTIES
    FirstSeenStays
