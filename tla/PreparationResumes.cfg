CONSTANTS
    Revision = {1, 2, 3}
    Document = {"guide", "page", "notes"}
    Source = {"web", "mirror"}
    DocOf <- ThreePages
    Failed = {}
    ChunkSet <- AllSets
    Group <- AllSets
    Manifest <- AllManifests
    NoManifest = NoManifest
    MaxChunks = 5
    Importer = {i1}
    Gate = {g1}
    Preparer = {p1, p2}
    Release <- OneRelease
    Verdicts <- OneDoubtful
    Damaged = {}
    BytesOf <- MCBytesOf
    ContentOf <- MCContentOf
    Near <- MCNear
    Unreadable = {}
    Uncuttable = {3}
    Cut <- MCCut
SPECIFICATION Spec
SYMMETRY Symmetric
INVARIANTS CompleteIsSettled PlacesAreKept
CHECK_DEADLOCK FALSE
