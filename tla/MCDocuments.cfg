\* Two documents, each against every document up to two edits away.
SPECIFICATION Spec
CONSTANTS
    MaxDepth = 4
    KeyOrder <- Alphabetical
    MaxU32 = 3
    MaxI64 = 2
    MaxTolerance = 2
    Others = {0, 1, 3}
    Bases <- SpecAndBundle
    MaxEdits = 2
INVARIANTS
    SameDocumentSameHash
    HashDecidesTerms
CHECK_DEADLOCK FALSE
