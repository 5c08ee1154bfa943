------------------------------- MODULE Framer -------------------------------
(***************************************************************************)
(* qrpc's framer (Connection in src/rpc/connection.cc) on both ends of a  *)
(* TCP stream: the sending Connection's OnSend loop (SendNext, Encode with *)
(* ExpandWbuf, partial send() calls) and the receiving one's Recv, Decode  *)
(* and OnRecv state machine.  With QrpcPeer false the peer is not a qrpc   *)
(* Connection: the stream is given whole and may hold any header.         *)
(*                                                                         *)
(* The peer's byte stream is the concatenation of the frames it sends; a   *)
(* byte is named by its frame, whether it belongs to the header or the     *)
(* payload, and its index there.  The kernel delivers the stream in        *)
(* chunks of any size, and recv() returns as much as is queued and fits.   *)
(* Header fields are int in the code; they keep their signedness at a      *)
(* scaled width (Width bits instead of 32), the header at HdrSize bytes    *)
(* instead of 11.  The Compressor of each end's thread keeps a scratch    *)
(* buffer that every connection of that thread shares (ChannelImpl's      *)
(* per-thread table, a Worker's compressor_); other connections of the    *)
(* receiving thread use it between this connection's callbacks.           *)
(***************************************************************************)
EXTENDS Integers, Sequences, SequencesExt

CONSTANTS
    HdrSize,     \* kMsgHdrSize, scaled
    MinRbuf,     \* options.min_rbuf_size
    Frames,      \* the payload length field of each frame the peer sends
    Width,       \* bits of the payload length field (32 in the code)
    MaxChunk,    \* largest number of bytes that arrive at once
    PeerCloses,  \* the peer's end may close: closed by its owner, or on a
                 \* failed send()
    QrpcPeer,    \* the peer is a qrpc Connection sending Frames in order
    MinWbuf,     \* the sender's options.min_sbuf_size
    MaxSend,     \* bytes one send() takes when it takes some
    Comps,       \* the CompressionType each message asks for; for a peer
                 \* that is not qrpc, the comp byte of each header it sends
    Threshold,   \* kCompressionThreshold, scaled like the header
    Datas,       \* for a peer that is not qrpc, the data field of each
                 \* header it sends (a qrpc peer writes its message's size)
    CacheMin,    \* the 4096 bytes ExpandBufferCache starts from, scaled
    SizeWidth,   \* bits of size_t (64 in the code)
    OtherUses    \* the sizes other connections of the receiving thread
                 \* ask of the shared scratch buffer

\* Channel::New, like Server::New, refuses (kErrParam) options whose buffer
\* sizes are not positive (options_ok), so a connection starts with
\* min_rbuf_size and min_sbuf_size of at least one byte.
OptionsOk == MinRbuf \in Nat \ {0} /\ MinWbuf \in Nat \ {0}

ASSUME /\ HdrSize \in Nat \ {0} /\ OptionsOk
       /\ Width \in Nat \ {0}
       /\ Frames \in Seq(0..(2^Width - 1))
       /\ MaxChunk \in Nat \ {0} /\ PeerCloses \in BOOLEAN
       /\ QrpcPeer \in BOOLEAN /\ MaxSend \in Nat \ {0}
       /\ Comps \in Seq(0..255) /\ Len(Comps) = Len(Frames)
       /\ Threshold \in Nat
       /\ Datas \in Seq(0..(2^Width - 1)) /\ Len(Datas) = Len(Frames)
       /\ CacheMin \in Nat \ {0} /\ SizeWidth \in Nat \ {0}
       /\ OtherUses \subseteq 1..(2^(Width - 1) - 1)

\* The four reallocs Recv allows per readiness callback (num_allocs).
MaxAllocs == 4

\* ntohl(net_hdr->payload) stored into int rmsg_hdr_.payload_.
ToInt(u) == IF u >= 2^(Width - 1) THEN u - 2^Width ELSE u

\* The payload bytes the peer sends for frame i: as many as its header
\* says, or none when the length field does not fit an int (the model
\* only follows the stream up to such a header).
PayLen(i) == IF ToInt(Frames[i]) >= 0 THEN ToInt(Frames[i]) ELSE 0

Payload(i) == [j \in 1..PayLen(i) |-> <<i, "p", j>>]
FrameBytes(i) == [j \in 1..HdrSize |-> <<i, "h", j>>] \o Payload(i)
Stream == FlattenSeq([i \in DOMAIN Frames |-> FrameBytes(i)])

\* The data field of frame i's header: a qrpc peer writes meta + data, the
\* size of the message before compression (here as long as the payload).
HeaderData(i) == IF QrpcPeer THEN Frames[i] ELSE Datas[i]

-----------------------------------------------------------------------------
(* The Compressor (src/rpc/compressor.cc).  A codec's output is taken to  *)
(* be as long as its input (data that does not compress): the stream then *)
(* has the same bytes whether a frame is compressed or not, and what a     *)
(* frame's header and body say about compression is kept per frame by the *)
(* sender (wcomp).  The worst-case bounds are the libraries' own.          *)

\* enum CompressionType: kNoCompression, kZlibCompression, kLz4Compression,
\* kSnappyCompression.
CompressionTypes == 0..3

ASSUME QrpcPeer => \A i \in DOMAIN Comps : Comps[i] \in CompressionTypes

\* LZ4_MAX_INPUT_SIZE; no payload of the model comes near it.
Lz4MaxInput == 2130706432

\* Each library's compressor into an output buffer of olen bytes: it
\* refuses (kCompBufferTooSmall) when its worst case, compressBound,
\* LZ4_compressBound or MaxCompressedLength, does not fit.
ZlibCompress(n, olen) ==
    IF n + n \div 4096 + n \div 16384 + n \div 33554432 + 13 > olen
    THEN "small" ELSE "ok"
Lz4Compress(n, olen) ==
    CASE n > Lz4MaxInput               -> "invalid"
      [] n + n \div 255 + 16 > olen    -> "small"
      [] OTHER                         -> "ok"
SnappyCompress(n, olen) == IF 32 + n + n \div 6 > olen THEN "small" ELSE "ok"

\* Compressor::Compress on the type UseCompression set; kNoCompression is
\* LOG(FATAL).
Compress(t, n, olen) ==
    CASE t = 1 -> ZlibCompress(n, olen)
      [] t = 2 -> Lz4Compress(n, olen)
      [] t = 3 -> SnappyCompress(n, olen)
      [] OTHER -> "fatal"

\* Each library's decompressor, given whether the input is what its own
\* compressor made of the header's meta + data bytes: otherwise uncompress
\* reports Z_DATA_ERROR, LZ4_decompress_safe a negative count and snappy
\* no valid length.
ZlibUncompress(genuine) == IF genuine THEN "ok" ELSE "invalid"
Lz4Uncompress(genuine) == IF genuine THEN "ok" ELSE "small"
SnappyUncompress(genuine) == IF genuine THEN "ok" ELSE "invalid"

\* An int converted to size_t.
ToSize(n) == n % 2^SizeWidth

\* A Compressor's scratch buffer: len_, and the bytes realloc gave buffer_.
\* Compressor::Compressor: buffer_ NULL, len_ 0.
NoScratch == [len |-> 0, size |-> 0]

\* ExpandBufferCache's loop "for (; len_ < len; ) len_ *= 2" in size_t
\* arithmetic: a len_ that wraps to 0 stays 0, and the loop never ends
\* (the result is then 0, below len).
RECURSIVE DoubleTo(_, _)
DoubleTo(l, len) ==
    IF l >= len \/ l = 0 THEN l ELSE DoubleTo(ToSize(2 * l), len)

\* An ExpandBufferCache that reallocs buffer_ to the len asked for.
ExpandBufferCacheUnsized(c, len) ==
    IF len <= c.len THEN c
    ELSE [len |-> DoubleTo(IF c.len = 0 THEN CacheMin ELSE c.len, len),
          size |-> len]

\* Compressor::ExpandBufferCache(len): the buffer as it is when len fits
\* in len_; otherwise len_ from 4096 when it is 0, doubled until len fits,
\* and buffer_ realloc'ed to len_ (a failed realloc is LOG(FATAL), out of
\* memory, and not modelled).
ExpandBufferCache(c, len) ==
    IF len <= c.len THEN c
    ELSE LET l == DoubleTo(IF c.len = 0 THEN CacheMin ELSE c.len, len)
         IN [len |-> l, size |-> l]

\* Compressor::Uncompress on the type UseCompression set; any other type
\* (a comp byte no qrpc peer writes) is LOG(FATAL).
Uncompress(t, genuine) ==
    CASE t = 1 -> ZlibUncompress(genuine)
      [] t = 2 -> Lz4Uncompress(genuine)
      [] t = 3 -> SnappyUncompress(genuine)
      [] OTHER -> "fatal"

VARIABLES
    out,         \* the bytes the peer has handed to send() so far
    wsent,       \* the sender's messages taken by SendNext so far
    wmsg,        \* the frame wmsg_ is encoded from (0: wmsg_ is NULL)
    wcur,        \* wcur_ - wbuf_
    wbytes,      \* wbytes_
    wsize,       \* wsize_
    wcomp,       \* per frame encoded: <<comp byte of its header, codec of its body>>
    wscratch,    \* the sending thread's Compressor scratch buffer
    arrived,     \* stream bytes the kernel has queued for the socket so far
    peerClosed,  \* the peer's FIN has arrived after them
    pos,         \* stream bytes recv() has copied into rbuf_
    consumed,    \* stream position of rcur_
    off,         \* rcur_ - rbuf_
    rbytes,      \* rbytes_
    rsize,       \* rsize_
    hdr,         \* rmsg_hdr_.payload_ (0: no header parsed yet)
    rcomp,       \* rmsg_hdr_.compression_
    rdata,       \* rmsg_hdr_.meta_ + rmsg_hdr_.data_ (the model's meta_ is 0)
    scratch,     \* the receiving thread's Compressor scratch buffer
    spinning,    \* the receiving thread loops in ExpandBufferCache
    overrun,     \* RecvDone was handed fewer bytes than meta_ + data_
    closed,      \* OnRecv returned false (rstate_ = kClose): RecvFail
    delivered,   \* the payloads handed to RecvDone, in order
    misframed,   \* a header was parsed from bytes that are not a header
    aborted      \* the receiving process died in a LOG(FATAL) of Decode

sender == <<out, wsent, wmsg, wcur, wbytes, wsize, wcomp, wscratch>>

receiver == <<pos, consumed, off, rbytes, rsize, hdr, rcomp, rdata, closed,
              delivered, misframed, aborted, scratch, spinning, overrun>>

Scratches == [len : Nat, size : Nat]

vars == <<sender, arrived, peerClosed, receiver>>

TypeOK ==
    /\ out \in Seq(Range(Stream)) /\ Len(out) <= Len(Stream)
    /\ wsent \in 0..Len(Frames) /\ wmsg \in 0..Len(Frames)
    /\ wcur \in Nat /\ wbytes \in Nat /\ wsize \in Nat
    /\ wcomp \in [DOMAIN Frames -> (0..255) \X (0..255)]
    /\ rcomp \in 0..255 /\ aborted \in BOOLEAN /\ rdata \in Int
    /\ wscratch \in Scratches /\ scratch \in Scratches
    /\ spinning \in BOOLEAN /\ overrun \in BOOLEAN
    /\ arrived \in 0..Len(Stream) /\ peerClosed \in BOOLEAN
    /\ pos \in 0..arrived /\ consumed \in Int
    /\ off \in Int /\ rbytes \in Int /\ rsize \in Nat
    /\ hdr \in Int /\ closed \in BOOLEAN /\ misframed \in BOOLEAN
    /\ delivered \in Seq(Seq((DOMAIN Frames) \X {"p"} \X Nat))

-----------------------------------------------------------------------------
(* The receive side of a connection as a record.                          *)

Snap == [pos |-> pos, consumed |-> consumed, off |-> off, rbytes |-> rbytes,
         rsize |-> rsize, hdr |-> hdr, rcomp |-> rcomp, rdata |-> rdata,
         delivered |-> delivered, misframed |-> misframed,
         scratch |-> scratch, overrun |-> overrun, status |-> "again"]

Commit(S) ==
    /\ pos' = S.pos /\ consumed' = S.consumed /\ off' = S.off
    /\ rbytes' = S.rbytes /\ rsize' = S.rsize /\ hdr' = S.hdr /\ rcomp' = S.rcomp
    /\ rdata' = S.rdata /\ delivered' = S.delivered /\ misframed' = S.misframed
    /\ scratch' = S.scratch /\ overrun' = S.overrun

\* A read loop that never grows a full buffer.
RECURSIVE ReadMuchNoGrow(_, _)
ReadMuchNoGrow(S, n) ==
    IF S.rbytes >= S.rsize THEN S
    ELSE LET avail == S.rsize - S.rbytes
             ready == arrived - S.pos
             res   == Min({avail, ready})
             R     == [S EXCEPT !.rbytes = @ + res, !.pos = @ + res,
                                !.status = "ok"]
         IN IF ready > 0
            THEN IF res = avail THEN ReadMuchNoGrow(R, n) ELSE R
            ELSE IF peerClosed THEN [S EXCEPT !.status = "error"]
            ELSE S

\* A read loop that takes recv() to have filled the space it was given.
RECURSIVE ReadMuchFullReads(_, _)
ReadMuchFullReads(S, n) ==
    IF S.rbytes >= S.rsize /\ n = MaxAllocs THEN S
    ELSE LET grow  == S.rbytes >= S.rsize
             G     == IF grow THEN [S EXCEPT !.rsize = 2 * @] ELSE S
             avail == G.rsize - G.rbytes
             R     == [G EXCEPT !.rbytes = @ + avail, !.pos = @ + avail,
                                !.status = "ok"]
         IN IF arrived > G.pos THEN R
            ELSE IF peerClosed THEN [G EXCEPT !.status = "error"]
            ELSE G

\* Recv's read_much loop: grow a full buffer (at most MaxAllocs times per
\* call, then give up with what was read), recv() what is queued and fits,
\* and loop while recv() filled the buffer.  recv() returning 0 is kRecvError
\* even when bytes were read earlier in this call; EAGAIN keeps the status.
RECURSIVE ReadMuch(_, _)
ReadMuch(S, n) ==
    IF S.rbytes >= S.rsize /\ n = MaxAllocs THEN S
    ELSE LET grow  == S.rbytes >= S.rsize
             G     == IF grow THEN [S EXCEPT !.rsize = 2 * @] ELSE S
             avail == G.rsize - G.rbytes
             ready == arrived - G.pos
             res   == Min({avail, ready})
             R     == [G EXCEPT !.rbytes = @ + res, !.pos = @ + res,
                                !.status = "ok"]
         IN IF ready > 0
            THEN IF res = avail THEN ReadMuch(R, IF grow THEN n + 1 ELSE n)
                 ELSE R
            ELSE IF peerClosed THEN [G EXCEPT !.status = "error"]
            ELSE G

\* A Recv that reads after the unparsed fragment without moving it.
RecvWithoutCompact(S) == ReadMuch([S EXCEPT !.status = "again"], 0)

\* Recv: move the unparsed fragment to the front of the buffer, then read.
Recv(S) == ReadMuch([S EXCEPT !.off = 0, !.status = "again"], 0)

\* The header at the current read position, and whether the position is
\* the start of a header.
HeaderAt(S) == out[S.consumed + 1]
Aligned(S) == HeaderAt(S)[2] = "h" /\ HeaderAt(S)[3] = 1

\* Whether a body of the comp byte's codec t is what that codec made of a
\* frame's message: the sender compressed exactly these bytes with t.
Genuine(t, body) ==
    /\ body # <<>> /\ body = Payload(body[1][1])
    /\ wcomp[body[1][1]][2] = t

\* The header fields at the read position: the frame whose header the
\* bytes are gives the length field and the comp byte.
ParseHeader(S) ==
    [S EXCEPT !.hdr = ToInt(Frames[HeaderAt(S)[1]]),
              !.rcomp = wcomp[HeaderAt(S)[1]][1],
              !.rdata = ToInt(HeaderData(HeaderAt(S)[1])),
              !.misframed = @ \/ ~Aligned(S),
              !.off = @ + HdrSize, !.rbytes = @ - HdrSize,
              !.consumed = @ + HdrSize]

\* Decode's payload step once the payload is buffered: a plain one is
\* read in place (rmsg_ = rcur_); a compressed one is uncompressed into
\* the thread's scratch buffer, which ExpandBufferCache first grows to
\* the size_t meta_ + data_, and any outcome of Uncompress but kCompOk is
\* LOG(FATAL).  overrun records a buffer shorter than the meta_ + data_
\* bytes RecvDone parses from it.
Unpack(H, body) ==
    IF H.rcomp = 0
    THEN [H EXCEPT !.overrun = @ \/ H.hdr < H.rdata, !.status = "ok"]
    ELSE LET need == ToSize(H.rdata)
             X    == [H EXCEPT !.scratch = ExpandBufferCache(@, need)]
         IN IF X.scratch.len < need THEN [X EXCEPT !.status = "spin"]
            ELSE IF Uncompress(H.rcomp, Genuine(H.rcomp, body)) # "ok"
            THEN [X EXCEPT !.status = "abort"]
            ELSE [X EXCEPT !.overrun = @ \/ X.scratch.size < need,
                           !.status = "ok"]

\* A Decode after which rmsg_hdr_ is not reset.
DecodeKeepingHeader(S) ==
    LET H == IF S.hdr # 0 THEN S
             ELSE IF S.rbytes < HdrSize THEN [S EXCEPT !.status = "fragment"]
             ELSE ParseHeader(S)
        body == SubSeq(out, H.consumed + 1, H.consumed + H.hdr)
        U    == Unpack(H, body)
    IN IF H.status = "fragment" \/ H.rbytes < H.hdr
       THEN [H EXCEPT !.status = "fragment"]
       ELSE IF U.status # "ok" THEN U
       ELSE [U EXCEPT !.delivered = Append(@, body),
                      !.off = @ + H.hdr, !.rbytes = @ - H.hdr,
                      !.consumed = @ + H.hdr, !.status = "ok"]

\* Decode: parse the header unless payload_ says one is parsed, then take
\* the payload if all of it is buffered (Unpack).  Returns the record with
\* status "ok" (a frame was handed to RecvDone and rmsg_hdr_ reset by
\* OnRecv's memset), "fragment", "abort" or "spin".
Decode(S) ==
    LET H == IF S.hdr # 0 THEN S
             ELSE IF S.rbytes < HdrSize THEN [S EXCEPT !.status = "fragment"]
             ELSE ParseHeader(S)
        body == SubSeq(out, H.consumed + 1, H.consumed + H.hdr)
        U    == Unpack(H, body)
    IN IF H.status = "fragment" \/ H.rbytes < H.hdr
       THEN [H EXCEPT !.status = "fragment"]
       ELSE IF U.status # "ok" THEN U
       ELSE [U EXCEPT !.delivered = Append(@, body),
                      !.off = @ + H.hdr, !.rbytes = @ - H.hdr,
                      !.consumed = @ + H.hdr,
                      !.hdr = 0, !.rcomp = 0, !.rdata = 0, !.status = "ok"]

\* OnRecv's kParse state: decode frames until one is incomplete.  A frame
\* consumes at least its header, so the loop ends.
RECURSIVE Parse(_)
Parse(S) == LET D == Decode(S)
            IN IF D.status = "ok" /\ D.consumed > S.consumed THEN Parse(D)
               ELSE D

\* Connection::OnRecv: one Recv, then parse on kRecvOk, close on
\* kRecvError, wait on kRecvAgain.
OnRecv(S) ==
    LET R == Recv(S)
    IN CASE R.status = "ok"    -> Parse(R)
         [] R.status = "error" -> R
         [] R.status = "again" -> R

-----------------------------------------------------------------------------
(* The sending Connection as a record: Send and OnSend.                   *)

SSnap == [out |-> out, wsent |-> wsent, wmsg |-> wmsg, wcur |-> wcur,
          wbytes |-> wbytes, wsize |-> wsize, wcomp |-> wcomp,
          wscratch |-> wscratch, status |-> "ok"]

SCommit(S) ==
    /\ out' = S.out /\ wsent' = S.wsent /\ wmsg' = S.wmsg
    /\ wcur' = S.wcur /\ wbytes' = S.wbytes /\ wsize' = S.wsize
    /\ wcomp' = S.wcomp /\ wscratch' = S.wscratch

\* ExpandWbuf: "do { wsize_ *= 2; } while (wsize_ < required)".
RECURSIVE ExpandWbuf(_, _)
ExpandWbuf(w, required) ==
    IF 2 * w < required THEN ExpandWbuf(2 * w, required) ELSE 2 * w

\* The CompressionType Encode writes: the message's, unless its payload is
\* below kCompressionThreshold.
WireComp(i) == IF PayLen(i) < Threshold THEN 0 ELSE Comps[i]

\* Encode's compress loop: Compress into the wsize_ - kMsgHdrSize bytes
\* after the header and, on kCompBufferTooSmall, ExpandWbuf(wsize_ * 2)
\* and again.  Returns the wsize_ it ends with.  (kCompInvalidInput is
\* LOG(FATAL); only an lz4 input over LZ4_MAX_INPUT_SIZE gets it.)
RECURSIVE CompressInto(_, _, _)
CompressInto(w, t, n) ==
    IF Compress(t, n, w - HdrSize) = "small"
    THEN CompressInto(ExpandWbuf(w, 2 * w), t, n) ELSE w

\* An Encode that writes the frame without growing the buffer.
EncodeNoExpand(S) ==
    LET i == S.wsent + 1
    IN [S EXCEPT !.wsent = @ + 1, !.wmsg = i, !.wcur = 0,
                 !.wbytes = Len(FrameBytes(i)),
                 !.wcomp[i] = <<WireComp(i), WireComp(i)>>,
                 !.wscratch = IF WireComp(i) # 0
                              THEN ExpandBufferCache(@, PayLen(i)) ELSE @]

\* An Encode that clears compress below the threshold but writes the
\* message's own CompressionType into the header.
EncodeKeepingComp(S) ==
    LET i        == S.wsent + 1
        required == Len(FrameBytes(i))
        comp     == WireComp(i)
    IN [S EXCEPT !.wsent = @ + 1, !.wmsg = i, !.wcur = 0,
                 !.wbytes = required,
                 !.wcomp[i] = <<Comps[i], comp>>,
                 !.wscratch = IF comp # 0 THEN ExpandBufferCache(@, PayLen(i))
                              ELSE @,
                 !.wsize = IF comp # 0 THEN CompressInto(@, comp, PayLen(i))
                           ELSE IF required > @ THEN ExpandWbuf(@, required)
                           ELSE @]

\* SendNext hands over the next message and Encode writes it into wbuf_
\* after the header: uncompressed, growing wbuf_ to fit header and payload
\* first; or compressed, serialized into the thread's scratch buffer
\* (ExpandBufferCache of the payload) and compressed into wbuf_, growing
\* it until the codec's worst case fits.
\* The header's comp byte is the type used; wcur_ and wbytes_ are set.
Encode(S) ==
    LET i        == S.wsent + 1
        required == Len(FrameBytes(i))
        comp     == WireComp(i)
    IN [S EXCEPT !.wsent = @ + 1, !.wmsg = i, !.wcur = 0,
                 !.wbytes = required,
                 !.wcomp[i] = <<comp, comp>>,
                 !.wscratch = IF comp # 0 THEN ExpandBufferCache(@, PayLen(i))
                              ELSE @,
                 !.wsize = IF comp # 0 THEN CompressInto(@, comp, PayLen(i))
                           ELSE IF required > @ THEN ExpandWbuf(@, required)
                           ELSE @]

\* One send() of res bytes from wcur_: a short count is kSendAgain, the
\* last byte of the frame kSendOk, 0 or EAGAIN kSendAgain.  The bytes are
\* those of wbuf_, which holds the frame wmsg_ was encoded from.
Write(S, res) ==
    IF res = 0 THEN [S EXCEPT !.status = "again"]
    ELSE [S EXCEPT !.out = @ \o SubSeq(FrameBytes(S.wmsg), S.wcur + 1,
                                                        S.wcur + res),
                   !.wcur = @ + res, !.wbytes = @ - res,
                   !.status = IF S.wbytes = res THEN "ok" ELSE "again"]

\* Connection::Send: continue wmsg_ if there is one, otherwise take and
\* encode the next message (kSendNothing when there is none), then send();
\* the set of outcomes over what send() may return: EAGAIN (or 0), a
\* count of at most MaxSend bytes, short of the frame when more are left,
\* or, when the peer's end may close, an error other than EINTR and
\* EAGAIN (kSendError).
\* The counts in between lead to the same kSendAgain control and are left
\* out; the receiver still sees every cut of the stream through Arrive.
Send(S) ==
    IF S.wmsg = 0 /\ S.wsent = Len(Frames) THEN {[S EXCEPT !.status = "nothing"]}
    ELSE LET E == IF S.wmsg = 0 THEN Encode(S) ELSE S
         IN {Write(E, res) : res \in {0, Min({E.wbytes, MaxSend})}}
            \cup (IF PeerCloses THEN {[E EXCEPT !.status = "error"]} ELSE {})

\* An OnSend that leaves wmsg_ set after SendDone.
RECURSIVE OnSendKeepingMsg(_)
OnSendKeepingMsg(S) ==
    UNION {IF R.status = "ok" THEN OnSendKeepingMsg(R) ELSE {R} : R \in Send(S)}

\* Connection::OnSend: Send until it does not return kSendOk; after each
\* frame SendDone and wmsg_ = NULL.  kSendNothing disables EV_WRITE;
\* kSendError (wstate_ = kClose) makes it return false.
RECURSIVE OnSend(_)
OnSend(S) ==
    UNION {IF R.status = "ok" THEN OnSend([R EXCEPT !.wmsg = 0]) ELSE {R}
           : R \in Send(S)}

-----------------------------------------------------------------------------
(* Actions                                                                 *)

\* Both connections are created with empty buffers of at least
\* kMsgHdrSize bytes (min_rbuf_size, min_sbuf_size).
\* Connection::Connection: no message being written (wmsg_ NULL, wcur_ and
\* wbytes_ zero) and nothing read (rbytes_ zero; rcur_ is set to rbuf_ by
\* the subclass once rbuf_ is allocated).
ConnectionInit ==
    /\ wmsg = 0 /\ wcur = 0 /\ wbytes = 0
    /\ rbytes = 0 /\ off = 0

Init ==
    /\ out = IF QrpcPeer THEN <<>> ELSE Stream
    /\ wsent = IF QrpcPeer THEN 0 ELSE Len(Frames)
    /\ ConnectionInit
    /\ wcomp = [i \in DOMAIN Frames |-> IF QrpcPeer THEN <<0, 0>>
                                                  ELSE <<Comps[i], 0>>]
    /\ wsize = IF MinWbuf < HdrSize THEN HdrSize ELSE MinWbuf
    /\ arrived = 0 /\ peerClosed = FALSE
    /\ pos = 0 /\ consumed = 0
    /\ rsize = IF MinRbuf < HdrSize THEN HdrSize ELSE MinRbuf
    /\ hdr = 0 /\ rcomp = 0 /\ closed = FALSE /\ delivered = <<>>
    /\ misframed = FALSE /\ aborted = FALSE /\ rdata = 0
    /\ wscratch = NoScratch /\ scratch = NoScratch
    /\ spinning = FALSE /\ overrun = FALSE

\* EV_WRITE on the sender while it has something to send: OnSend.  When
\* it fails, HandleConnectedEvent calls SendFail, which closes the socket
\* (ServerConnection::Close, or ChannelImpl deleting its ClientConnection):
\* the stream ends there, as at PeerClose.
SendEvent ==
    /\ QrpcPeer /\ ~peerClosed /\ (wmsg # 0 \/ wsent < Len(Frames))
    /\ \E R \in OnSend(SSnap) : /\ SCommit(R)
                                /\ peerClosed' = (R.status = "error")
    /\ UNCHANGED <<arrived, receiver>>

\* The network delivers the next n bytes the peer has sent to the socket.
Arrive(n) ==
    /\ ~peerClosed /\ arrived + n <= Len(out)
    /\ arrived' = arrived + n
    /\ UNCHANGED <<sender, peerClosed, receiver>>

\* The peer closes its end (FIN after the bytes sent so far).
PeerClose ==
    /\ PeerCloses /\ ~peerClosed
    /\ peerClosed' = TRUE
    /\ UNCHANGED <<sender, arrived, receiver>>

\* The socket is readable: bytes are queued or the peer's FIN arrived.
ReadReady == ~closed /\ ~aborted /\ ~spinning /\ (arrived > pos \/ peerClosed)

\* EV_READ (level-triggered): the socket has bytes or an end of file.
ReadEvent ==
    /\ ReadReady
    /\ LET R == OnRecv(Snap)
       IN /\ Commit(R)
          /\ closed' = (R.status = "error")
          /\ aborted' = (R.status = "abort")
          /\ spinning' = (R.status = "spin")
          /\ UNCHANGED <<arrived, peerClosed>>
          /\ UNCHANGED sender

\* Another connection of the receiving thread (a Channel's on the same
\* thread, or a ServerConnection of the same Worker) encodes or decodes a
\* compressed message of n bytes between this connection's callbacks:
\* ExpandBufferCache(n) on the shared Compressor.
OtherUse(n) ==
    /\ ~aborted /\ ~spinning
    /\ scratch' = ExpandBufferCache(scratch, n)
    /\ spinning' = (scratch'.len < n)
    /\ overrun' = (overrun \/ scratch'.size < n)
    /\ UNCHANGED <<sender, arrived, peerClosed, pos, consumed, off, rbytes,
                   rsize, hdr, rcomp, rdata, closed, delivered, misframed,
                   aborted>>

Next == \/ SendEvent \/ ReadEvent \/ PeerClose
        \/ \E n \in 1..MaxChunk : Arrive(n)
        \/ \E n \in OtherUses : OtherUse(n)

Spec == Init /\ [][Next]_vars

\* ENABLED <<ReadEvent>>_vars, computed as a state predicate: the socket is
\* readable and OnRecv would change the connection.
ReadEnabled ==
    /\ ReadReady
    /\ LET R == OnRecv(Snap)
       IN R.status \in {"error", "abort"} \/ [R EXCEPT !.status = "again"] # Snap

\* An EV_WRITE callback whose send() calls do not fail.
SendTakes == SendEvent /\ ~peerClosed'

\* libevent reports a readable socket until it is read: weak fairness of
\* ReadEvent, written out with ReadEnabled for its enabling condition; and
\* a writable socket with EV_WRITE registered until the sender has
\* nothing left, whose send() eventually takes bytes (a failing send() is
\* possible, never assumed).
FairSpec == /\ Spec /\ ([]<>~ReadEnabled \/ []<><<ReadEvent>>_vars)
            /\ WF_vars(SendTakes)

-----------------------------------------------------------------------------
(* Properties                                                              *)

\* Stream position just after each frame.
FrameEnd == [i \in DOMAIN Frames |-> Len(FlattenSeq([j \in 1..i |-> FrameBytes(j)]))]

\* RecvDone is handed exactly the frames the peer sent, whole and in order,
\* however the stream was cut into recv() chunks, whatever the buffer
\* growth, and with the fragment moved to the front of the buffer between
\* reads: every header is parsed at a header boundary.
FramesDelivered ==
    /\ ~misframed
    /\ Len(delivered) <= Len(Frames)
    /\ \A k \in DOMAIN delivered : delivered[k] = Payload(k)

\* rcur_ and the rbytes_ bytes after it stay inside the rsize_ bytes of
\* rbuf_ (every memmove, recv() and Decode stays in bounds).
BufferSane == 0 <= off /\ 0 <= rbytes /\ off + rbytes <= rsize

\* A frame whose bytes have all reached the socket is eventually handed to
\* RecvDone, even when the read buffer must grow over several callbacks,
\* unless the connection is closed first (what a close may discard is
\* NoFrameDroppedAtClose's concern).
FramesEventuallyDelivered ==
    \A i \in DOMAIN Frames :
        arrived >= FrameEnd[i] ~> (Len(delivered) >= i \/ closed)

\* wcur_ and the wbytes_ bytes after it stay inside the wsize_ bytes of
\* wbuf_: Encode grows the buffer before it writes a frame larger than it.
WbufSane == wcur + wbytes <= wsize

\* A qrpc peer eventually hands every frame to send(), across short writes
\* and buffer growth, unless it closes its end first.
FramesEventuallySent == <>(out = Stream \/ peerClosed)

\* Decode never reaches the LOG(FATAL) of a failed Uncompress on a qrpc
\* peer's frames: the comp byte Encode writes into each header says how
\* the body after it was encoded, also for a message that asks for
\* compression but is below kCompressionThreshold and goes out plain.
NoDecodeAbort == ~aborted

\* When OnRecv gives up on the connection, every frame it has already
\* read whole has been handed to RecvDone: an end of file only discards an
\* incomplete frame.
NoFrameDroppedAtClose ==
    closed => \A i \in DOMAIN Frames : FrameEnd[i] <= pos => Len(delivered) >= i

\* Every ExpandBufferCache on the receiving thread's shared Compressor
\* returns, with a buffer at least as long as asked for, and RecvDone is
\* never handed fewer bytes than the header's meta_ + data_: across other
\* connections growing the buffer in between, for the frames a qrpc peer
\* writes.  (The data field is the peer's: one with the top bit set is a
\* negative int whose size_t makes len_ double through 2^64 to 0.)
ScratchFits == ~spinning /\ ~overrun

=============================================================================
