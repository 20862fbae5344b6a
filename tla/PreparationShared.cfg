CONSTANTS
    Revision = {2, 3, 4}
    Document = {"page"}
    Source = {"web", "mirror"}
    DocOf <- OnePage
    Failed = {4}
    ChunkSet <- AllSets
    Group <- AllSets
    Manifest <- AllManifests
    NoManifest = NoManifest
    MaxChunks = 3
    Importer = {i1, i2}
    Gate = {g1}
    Preparer = {p1}
    Release <- PageReleases
    Verdicts <- AnyVerdict
    Damaged = {}
    BytesOf <- PageBytesOf
    ContentOf <- PageBytesOf
    Near = {}
    Unreadable = {}
    Uncuttable = {}
    Cut <- PageCut
SPECIFICATION Spec
INVARIANT SharedIsHeld
CHECK_DEADLOCK FALSE
