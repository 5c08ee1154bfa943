------------------------------ MODULE MCFramer ------------------------------
(* Model values for Framer: a two-byte header, a two-byte initial buffer,   *)
(* an 8-bit length field, frames of 1, 0 and 30 payload bytes (the last one *)
(* needs all four reallocs of a callback), and a hostile header whose       *)
(* length does not fit an int.  Compression: kCompressionThreshold is 4.   *)
(* ExpandBufferCache starts at 4 bytes; size_t has 16 bits.               *)
EXTENDS Framer

MCFrames == <<1, 0, 30>>
\* The first message asks for snappy but is below the threshold; the last
\* is compressed with lz4 (wbuf_ grows to LZ4_compressBound).
MCComps == <<3, 0, 2>>
MCFramesClose == <<2>>
MCCompsClose == <<0>>
MCFramesHostile == <<1, 250>>
MCCompsHostile == <<0, 0>>
\* A qrpc peer's data fields are its frames' sizes; the hostile peer's
\* equal its length fields.
MCDatas == MCFrames
MCDatasClose == MCFramesClose
MCDatasHostile == MCFramesHostile
\* A peer that sends one zlib frame of one byte whose data field has the
\* top bit set.
MCFramesScratch == <<1>>
MCCompsScratch == <<1>>
MCDatasScratch == <<200>>
\* Another connection of the receiving thread asks the shared scratch
\* buffer for 17 bytes: len_ grows from 4 to 32, past what the 30-byte
\* lz4 frame needs.
MCOtherUses == {17}
=============================================================================
