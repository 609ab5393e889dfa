SPECIFICATION Spec
CONSTANTS
    Name <- MCName
    MaxChanges = 3
INVARIANTS
    ListingIsComplete
    NothingListedTwice
    IInv
PROPERTIES
    CallMakesProgress
