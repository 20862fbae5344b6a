CONSTANTS
    Revision = {2, 3, 4}
    Document = {"page"}
    Source = {"web", "mirror"}
    DocOf <- OnePage
    Failed = {4}
    ChunkSet <- AllSets
    Group <- AllSets
    Manifest <- AllManifests
    NoManifest = NoManifest
    MaxChunks = 3
    Importer = {i1, i2}
    Gate = {g1}
    Preparer = {p1}
    Release <- PageReleases
    Verdicts <- AnyVerdict
    Damaged = {4}
    BytesOf <- PageBytesOf
    ContentOf <- PageBytesOf
    Near = {}
    Unreadable = {3}
    Uncuttable = {}
    Cut <- PageCut
SPECIFICATION Spec
INVARIANTS CutFromEligible CommandsDecide HeldIsToldOnce
CHECK_DEADLOCK FALSE
