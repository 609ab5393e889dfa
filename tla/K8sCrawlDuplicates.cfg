SPECIFICATION Spec
CONSTANTS
    n1 = n1
    n2 = n2
    d1 = d1
    d2 = d2
    d3 = d3
    d4 = d4
    NoDigest = NoDigest
    Namespace <- MCNamespace
    Container <- MCContainer
    Listing <- MCListing
    RegAuth <- MCRegAuth
    Request <- MCRequest
INVARIANT
    OnlySameContentIsRemoved
