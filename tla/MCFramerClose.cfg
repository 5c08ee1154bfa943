CONSTANTS
    HdrSize = 2
    MinRbuf = 2
    Width = 8
    Frames <- MCFramesClose
    MaxChunk = 8
    PeerCloses = TRUE
    QrpcPeer = TRUE
    MinWbuf = 2
    MaxSend = 3
    Comps <- MCCompsClose
    Threshold = 4
    Datas <- MCDatasClose
    CacheMin = 4
    SizeWidth = 16
    OtherUses = {}
SPECIFICATION Spec
INVARIANT
    NoFrameDroppedAtClose
CHECK_DEADLOCK FALSE
