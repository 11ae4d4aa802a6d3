SPECIFICATION FairSpec
CONSTANTS
    Byte <- MCByte
    MaxLen = 4
    BufferLen = 2
    HeaderLen = 3
    Fd <- MCFd
    Other = {o1, o2}
INVARIANTS TypeOK OwnersOnly ResultIsTrue
PROPERTIES ReadingEnds
