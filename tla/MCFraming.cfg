\* Frames and objects, two on a stream, cut in every way
SPECIFICATION Spec
CONSTANTS
    Protocols = {"prefix", "braces", "none"}
    Text <- PlainStrings
    MaxData = 2
    MaxMessages = 2
INVARIANTS FramesIntact
CHECK_DEADLOCK FALSE
