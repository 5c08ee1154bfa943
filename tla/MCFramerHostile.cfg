CONSTANTS
    HdrSize = 2
    MinRbuf = 2
    Width = 8
    Frames <- MCFramesHostile
    MaxChunk = 8
    PeerCloses = TRUE
    QrpcPeer = FALSE
    MinWbuf = 2
    MaxSend = 3
    Comps <- MCCompsHostile
    Threshold = 4
    Datas <- MCDatasHostile
    CacheMin = 4
    SizeWidth = 16
    OtherUses = {}
SPECIFICATION Spec
INVARIANT
    BufferSane
CHECK_DEADLOCK FALSE
