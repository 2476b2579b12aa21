\* The frames of sendRaw, read by LengthPrefixedCodec::onMessage
SPECIFICATION Spec
CONSTANTS
    Protocols = {"codec"}
    Text <- OneString
    MaxData = 2
    MaxMessages = 2
INVARIANT FramesIntact
CHECK_DEADLOCK FALSE
