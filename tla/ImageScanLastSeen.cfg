SPECIFICATION Spec
CONSTANTS
    full = full
    lean = lean
    twice = twice
    app = app
    lib = lib
    base = base
    slim = slim
    Scan = {s1, s2, s3}
    Tag = {latest}
    Content <- MCPlainContent
    Blob <- MCBlob
    LayersOf <- MCOneLayerOf
    Schema = {"v2"}
    MaxMoves = 2
    None = None
    Root = Root
SYMMETRY MCSymmetry
INVARIANTS LastSeenIsLast
