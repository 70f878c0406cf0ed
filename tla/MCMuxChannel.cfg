CONSTANTS
    ByteWindow <- MCByteWindow
    FrameWindow <- MCFrameWindow
    MaxFrameSize <- MCMaxFrameSize
    MaxBytes <- MCMaxBytes
SPECIFICATION FairSpec
INVARIANTS
    NoProtocolFault
    EofIsComplete
PROPERTIES
    DroppedIsReleased
    WrittenIsConsumed
    CloseAfterEofCompletes
CHECK_DEADLOCK FALSE
