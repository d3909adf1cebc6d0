----------------------------- MODULE MediaChain -----------------------------
(***************************************************************************)
(* The nodes between a UdpSource and a sink: RtpDecoder, AirplayDecrypter, *)
(* AudioDecoderFfmpeg, SbcDecoder, AudioConverter and ScreamSource, in the *)
(* chains the program and its tests build of them.  What lies in a buffer  *)
(* is described and not spelled out: pkt is the datagram, at and size the  *)
(* part of it that is left, in bytes; form is what it holds: a "packet",   *)
(* "plain" or "noise" (decrypted with its own key or another), "samples";  *)
(* n counts frames that were decoded; conf is m_audioConf.                 *)
(* A node is an operator from a buffer to the buffers it may leave.        *)
(***************************************************************************)
EXTENDS Integers, Sequences, FiniteSetsExt

CONSTANTS SbcFrame, SbcSamples   \* bytes of an SBC frame, coded and decoded

ASSUME SbcAssumption == SbcFrame \in Nat /\ SbcSamples \in Nat

VARIABLES
  decr,      \* AirplayDecrypter: m_aesKey and m_iv
  codecData, \* AudioDecoderFfmpeg: m_codecData
  dec,       \* AudioDecoderFfmpeg: m_conf set?, and its context's extradata
  sbcConf,   \* SbcDecoder: m_conf
  rtp        \* RtpDecoder: m_seq and m_isFlushed

chainVars == <<decr, codecData, dec, sbcConf, rtp>>

Conf(codec, rate) == [codec |-> codec, rate |-> rate]
Invalid == Conf("Invalid", 0)

\* The atom init() makes of the numbers of an fmtp attribute; the parameters
\* of the entropy coder (the 5th to 7th number) are not taken from it.
QuicktimeAtom(numbers) ==
  [samplesPerFrame |-> numbers[2], sampleSize |-> numbers[4],
   channels |-> numbers[8], samplerate |-> numbers[12]]

NoData == QuicktimeAtom([i \in 1 .. 12 |-> 0])

ChainInit ==
  /\ decr = [key |-> <<>>, iv |-> <<>>]
  /\ codecData = NoData
  /\ dec = [open |-> FALSE, extradata |-> NoData]
  /\ sbcConf = Invalid
  /\ rtp = [seq |-> 0, flushed |-> TRUE]

\* The headers of a packet, as far as they matter: csrcCount, the words of the
\* extension, payloadType, marker, sequenceNumber; and for SBC the damaged
\* and whole frames and the set of its fragmentation bits.
RtpHeader(csrc, ext, pt, marker, seq) ==
  [csrc |-> csrc, ext |-> ext, pt |-> pt, marker |-> marker, seq |-> seq]
RtpSbcHeader(frames, frag) == [frames |-> frames, frag |-> frag]

\* UdpSource::onReceived.
Datagram(p) ==
  [pkt |-> p, at |-> 0, size |-> p.size, form |-> "packet", n |-> 0,
   conf |-> Conf("Unknown", 0)]

clear(b) == [b EXCEPT !.size = 0]
trimFront(b, n) ==
  IF n > b.size THEN b ELSE [b EXCEPT !.at = @ + n, !.size = @ - n]
-----------------------------------------------------------------------------
(* RtpDecoder.                                                             *)

\* Mutant: the extension is not counted.
HeaderSizeNoExtension(p) == (80 - (16 - p.head.csrc) * 4 - 4) % 256

\* RtpHeader::size, of eight bits.
HeaderSize(p) ==
  (80 - (16 - p.head.csrc) * 4
      - (1 - IF p.head.ext = 0 THEN 0 ELSE 1) * 4) % 256

\* onProcess refuses the header.
RtpRefuses(b) == b.size < 12 \/ b.pkt.head.pt < 96

\* m_seq, which wraps, and whether a discontinuity is logged.
RtpSequence(seq) == rtp' = [seq |-> seq, flushed |-> FALSE]
RtpWarns(seq) == ~rtp.flushed /\ (rtp.seq + 1) % 2 ^ 16 # seq
\* onStop.
RtpFlush == rtp' = [rtp EXCEPT !.flushed = TRUE]

RtpAlac(b) ==
  IF RtpRefuses(b) THEN [clear(b) EXCEPT !.conf = Invalid]
  ELSE [trimFront(b, HeaderSize(b.pkt)) EXCEPT !.conf = Conf("Alac", 0)]

isValidSbc(p) == ~p.head.marker /\ p.head.pt >= 96

\* RtpSbcHeader::isValid.
SbcHeaderIsValid(p) ==
  /\ p.sbc.frames # <<>>
  /\ p.sbc.frag # {"fragmented", "first", "last"}
  /\ "fragmented" \notin p.sbc.frag => p.sbc.frag = {}

\* The variant for SBC does not clear what it refuses.
RtpSbc(b) ==
  LET h == HeaderSize(b.pkt)
  IN IF RtpRefuses(b) THEN [clear(b) EXCEPT !.conf = Invalid]
     ELSE IF \/ b.size < h + 1 \/ ~isValidSbc(b.pkt)
             \/ ~SbcHeaderIsValid(b.pkt) \/ "fragmented" \in b.pkt.sbc.frag
     THEN [b EXCEPT !.conf = Invalid]
     ELSE [trimFront(b, h + 1) EXCEPT !.conf = Conf("Sbc", 0)]

RtpAc3(b) ==
  LET h == HeaderSize(b.pkt)
  IN IF \/ RtpRefuses(b) \/ b.size < h + 2
        \/ ~b.pkt.head.marker \/ b.pkt.sbc.frag # {}
     THEN [clear(b) EXCEPT !.conf = Invalid]
     ELSE [trimFront(b, h + 2) EXCEPT !.conf = Conf("Ac3", 0)]
-----------------------------------------------------------------------------
(* AirplayDecrypter and AudioDecoderFfmpeg.                                *)

\* onProcess: AES with the key of the last ANNOUNCE, from the IV on.
Decrypt(b) ==
  [b EXCEPT !.form = IF decr = [key |-> b.pkt.key, iv |-> b.pkt.iv]
                     THEN "plain" ELSE "noise",
            !.conf = Conf("Alac", 44100)]

\* Mutant: AES leaves its last block in m_iv.
DecryptedOnce == [decr EXCEPT !.iv = <<0>> \o @]

\* decrypt() works on a copy of the IV.
Decrypted == decr

\* onProcess's updateConf: the context is made at the first buffer, since
\* m_conf never differs again, with the codec data of that moment.
Opened == IF dec.open THEN dec ELSE [open |-> TRUE, extradata |-> codecData]

\* interleave: stereo samples of the frame, labelled with its rate.
Decoded(b, form, codec) ==
  [b EXCEPT !.form = form, !.n = 1, !.size = 4,
            !.conf = Conf(codec, b.pkt.rate)]

\* Without a frame the buffer is cleared; an ALAC context does not open without
\* extradata.  What libavcodec makes of noise, or of a format it was not opened
\* for, is open.
FfmpegAlac(b) ==
  IF dec'.extradata = NoData THEN {clear(b)}
  ELSE IF b.form = "plain" /\ dec'.extradata = QuicktimeAtom(b.pkt.fmtp)
  THEN {Decoded(b, "samples", "RawInt16")}
  ELSE {clear(b), Decoded(b, "noise", "RawInt16")}

PayloadAt(p) == 12 + 4 * p.head.csrc + 4 * p.head.ext

FfmpegAc3(b) ==
  IF b.at = PayloadAt(b.pkt) + 2 THEN {Decoded(b, "samples", "RawFloat32")}
  ELSE {clear(b)}
-----------------------------------------------------------------------------
(* SbcDecoder.                                                             *)

\* Frames up to the first that cannot be decoded; from a wrong offset, none.
GoodFrames(b) ==
  IF b.at # PayloadAt(b.pkt) + 1 THEN 0
  ELSE LET bad == {i \in DOMAIN b.pkt.sbc.frames : ~b.pkt.sbc.frames[i]}
       IN IF bad = {} THEN Len(b.pkt.sbc.frames) ELSE Min(bad) - 1

AllGood(b) == GoodFrames(b) > 0 /\ GoodFrames(b) = Len(b.pkt.sbc.frames)

\* SBC's fourth rate, 16000, has no counterpart: 0 is SampleRate::Invalid.
toCoroFrequency(rate) == IF rate \in {32000, 44100, 48000} THEN rate ELSE 0

\* m_conf changes only if every frame could be decoded.
SbcConf(b) ==
  IF AllGood(b) THEN Conf("RawInt16", toCoroFrequency(b.pkt.rate))
  ELSE sbcConf

\* sbc_decode is told that there is room for as many bytes as were received.
SbcDecode(b) ==
  [b EXCEPT !.form = "samples", !.n = GoodFrames(b),
            !.size = GoodFrames(b) * Min({SbcSamples, b.size}),
            !.conf = SbcConf(b)]
-----------------------------------------------------------------------------
(* ScreamSource and AudioConverter.                                        *)

\* Two base rates, 44100 and 48000, of which the first byte has a multiple.
ScreamHeader(rateMultiplier, sampleSize, channelCount) ==
  [rateMultiplier |-> rateMultiplier, sampleSize |-> sampleSize,
   channelCount |-> channelCount]

ScreamIsValid(h) ==
  h.rateMultiplier = 1 /\ h.sampleSize = 16 /\ h.channelCount = 2

Scream(b) ==
  IF b.size # 5 + 1152 \/ ~ScreamIsValid(b.pkt.scream)
  THEN [clear(b) EXCEPT !.conf = Invalid]
  ELSE [trimFront(b, 5) EXCEPT !.form = "samples", !.n = 1,
                               !.conf = Conf("RawInt16", b.pkt.rate)]

SampleSize(codec) ==
  CASE codec = "Invalid" -> 0 [] codec = "RawFloat32" -> 4 [] OTHER -> 2

\* The number of samples is a quotient: without a codec, a division by zero.
Divides(b) == b.size > 0 /\ SampleSize(b.conf.codec) = 0

ToFloat(b) == [b EXCEPT !.size = @ * 2, !.conf.codec = "RawFloat32"]
ToInt16(b) == [b EXCEPT !.size = @ \div 2, !.conf.codec = "RawInt16"]
=============================================================================
