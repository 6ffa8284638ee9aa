\* Frames of four sizes, cut in every way by both ends; MaxMetadata admits
\* all contexts but the last.
CONSTANTS
    MaxFrames = 4
    FrameSize <- MCFrameSize
    HeaderSize = 2
    MaxMessage = 2
    Contexts <- MCContexts
    Statuses <- MCStatuses
    Units <- MCUnits
    MaxValue = 7
    MaxNs = 127
    Radix = 2
    MaxMetadata = 6
SPECIFICATION ExchangeSpec
INVARIANTS TypeOK WireInOrder NoFrameStuck RequestArrives DeadlineCarries MetadataArrives StatusArrives
PROPERTY RequestEnds
CHECK_DEADLOCK FALSE
