\* Strings that end in a backslash
SPECIFICATION Spec
CONSTANTS
    Protocols = {"braces"}
    Text <- Strings
    MaxData = 2
    MaxMessages = 2
INVARIANT FramesIntact
CHECK_DEADLOCK FALSE
