CONSTANTS
    Before = 32
    MinLen = 32
    DefaultLen = 256
    Junk = junk
    LineLen = 200
    MaxSeq = 20
    Types <- UsedTypes
    Values <- UsedValues
    Translated <- Translation
    Heads = 21
    Cases <- Conversations
SPECIFICATION Spec
INVARIANTS
    InterfaceKept
    ArgumentsArrive
    ResultsArrive
    SoundCallsSucceed
CHECK_DEADLOCK FALSE
