\* Requests to a chat server, cut in every way
SPECIFICATION Spec
CONSTANTS
    Protocols = {"none"}
    Text <- OneString
    MaxData = 2
    MaxMessages = 2
INVARIANT ReadsParse
CHECK_DEADLOCK FALSE
