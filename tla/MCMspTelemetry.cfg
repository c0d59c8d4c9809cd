SPECIFICATION FairSpec
CONSTANTS
    SeqCount = 3
    MaxLost = 1
    Skips = 2
    BufferMax = 2
    Gens = 3
    Transports = {"SMARTPORT", "CRSF"}
    Requests <- AllRequests
INVARIANTS TypeOK RequestIsWhole AnswerIsWhole
PROPERTIES AnswersComeBack
