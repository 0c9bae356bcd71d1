CONSTANTS
    Streams <- FoldedStreams
    MaxFrame = 12
    MaxWire = 8
    MaxBuffer = 12
    ChannelSize = 1
    MaxBytes = 7
    MAX_STREAM_TOOL_CALLS = 2
    MAX_CONTENT_BLOCKS = 2
    MaxIdBytes = 1
    MAX_REASONING_ITEMS = 1
SPECIFICATION Spec
INVARIANT CutsAreInvisible
CHECK_DEADLOCK FALSE
