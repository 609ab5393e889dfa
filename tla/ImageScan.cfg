SPECIFICATION Spec
CONSTANTS
    full = full
    lean = lean
    twice = twice
    app = app
    lib = lib
    base = base
    slim = slim
    Scan = {s1, s2}
    Tag = {latest}
    Content <- MCContent
    Blob <- MCBlob
    LayersOf <- MCLayersOf
    Schema = {"v1", "v2"}
    MaxMoves = 2
    None = None
    Root = Root
SYMMETRY MCSymmetry
INVARIANTS IInv ViewIsNeverPartial ScannedIsServed ParentIsThere
PROPERTIES StaysServed
