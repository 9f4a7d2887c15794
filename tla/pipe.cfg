SPECIFICATION FairSpec
CONSTANTS
    CHUNK_SIZE = 3
    MIN_FREE = 2
    NrChunks = {2, 3}
    PrebufferLimit = 2
    StreamEnd = 6
    SeekWorks = {TRUE, FALSE}
INVARIANTS ExclusiveAccess InOrder DrainedAtEof ReadsHaveRoom
PROPERTIES ImplementsQueue EofHandled
