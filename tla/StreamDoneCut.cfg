CONSTANTS
    Streams <- DoneStreams
    MaxFrame = 5
    MaxWire = 4
    MaxBuffer = 9
    ChannelSize = 1
    MaxBytes = 7
    MAX_STREAM_TOOL_CALLS = 2
    MAX_CONTENT_BLOCKS = 2
    MaxIdBytes = 1
    MAX_REASONING_ITEMS = 1
SPECIFICATION Spec
INVARIANT DoneIsSkipped
CHECK_DEADLOCK FALSE
