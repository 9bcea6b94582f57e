SPECIFICATION SourcesSpec
CONSTANTS
    Comment = {a, b, c, d}
    Story = S
    Kids <- KidLists
    MaxKids = 2
    MaxComments = 3
    Nature = {"kept", "dropped", "null"}
    MaxAncestors = 4
    MaxServed = 3
    ThreadCaps = {0, 1, 2, 4, 6}
    Sizes <- RenderedSizes
    Headline = 3
    Threshold = 8
    ChunkChars = 6
    MaxThread = 3
    Score = {0, 2, 3}
    Floor = 2
    TopCount = 1
    Para = {p, q}
    Noise = Noise
    Versions = {1, 2}
    Caps = {1, 2}
    WholeSize = 1
    MaxDoc = 3
    MaxDocPages = 4
    MaxLines = 2
    MaxPages = 3
    VisionPages = 1
    OverlapLines = 1
SYMMETRY Interchangeable
CHECK_DEADLOCK FALSE
INVARIANTS
    ThreadsAreReadWhole TextIsReadWhole
