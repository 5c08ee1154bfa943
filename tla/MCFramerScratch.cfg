CONSTANTS
    HdrSize = 2
    MinRbuf = 2
    Width = 8
    Frames <- MCFramesScratch
    MaxChunk = 8
    PeerCloses = TRUE
    QrpcPeer = FALSE
    MinWbuf = 2
    MaxSend = 3
    Comps <- MCCompsScratch
    Threshold = 4
    Datas <- MCDatasScratch
    CacheMin = 4
    SizeWidth = 16
    OtherUses = {}
SPECIFICATION Spec
INVARIANT
    ScratchFits
CHECK_DEADLOCK FALSE
