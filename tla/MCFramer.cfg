CONSTANTS
    HdrSize = 2
    MinRbuf = 2
    Width = 8
    Frames <- MCFrames
    MaxChunk = 8
    PeerCloses = TRUE
    QrpcPeer = TRUE
    MinWbuf = 2
    MaxSend = 3
    Comps <- MCComps
    Threshold = 4
    Datas <- MCDatas
    CacheMin = 4
    SizeWidth = 16
    OtherUses <- MCOtherUses
SPECIFICATION FairSpec
INVARIANTS
    TypeOK
    FramesDelivered
    BufferSane
    WbufSane
    NoDecodeAbort
    ScratchFits
PROPERTIES
    FramesEventuallyDelivered
    FramesEventuallySent
\* The connection stops for good once closed, and waits for more bytes
\* once the peer has sent all its frames.
CHECK_DEADLOCK FALSE
