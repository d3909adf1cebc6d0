-------------------------- MODULE EncodedPlayback --------------------------
(***************************************************************************)
(* A chain Source -> AudioEncoderFfmpeg -> AlsaSink: raw samples are cut   *)
(* into codec frames, encoded, and each packet is played before the rest   *)
(* of the buffer is looked at.                                             *)
(*                                                                         *)
(* Samples are numbered in the order in which they enter the encoder since *)
(* its last (re)configuration.  The codec is external: it takes a frame    *)
(* and may hold back up to Delay frames before it emits packets.           *)
(*                                                                         *)
(* Left out because it cannot happen: the flush of the encoder.            *)
(* AudioEncoderFfmpeg::onStop processes an empty buffer, and Node::process *)
(* returns at once on an empty buffer.                                     *)
(***************************************************************************)
EXTENDS AlsaSink, Sequences

CONSTANTS
    Supported,      \* the rates the codec can be opened with
    FrameSize,      \* AVCodecContext::frame_size of an open codec
    PacketSizes,    \* the sizes of encoded packets, in bytes
    Delay,          \* how many frames the codec holds back
    MaxPush,        \* bound: samples in one buffer
    MaxSamples      \* bound: samples between two reconfigurations

ASSUME EncoderAssumption ==
    /\ Supported \subseteq Rates
    /\ FrameSize \in Nat \ {0}
    /\ PacketSizes \subseteq Nat \ {0}
    /\ Delay \in Nat
    /\ MaxPush \in Nat /\ MaxSamples \in Nat

VARIABLES
    econf,       \* AudioEncoderFfmpeg::m_conf
    bypassed,    \* Node::m_isBypassed of the encoder
    encoding,    \* is the encoder in onProcess?
    input,       \* what is left of the buffer being encoded
    partial,     \* m_partialFrame
    held,        \* samples inside the codec: whole frames
    pushed,      \* how many samples were handed to the encoder
    encoded      \* the samples of the packets that left the encoder

encoderVars == <<econf, bypassed, encoding, input, partial, held, pushed,
                 encoded>>
vars == <<sinkVars, encoderVars>>

Samples == Seq(1..MaxSamples)

TypeOK ==
    /\ SinkTypeOK
    /\ econf \in Confs \cup {NoConf}
    /\ bypassed \in BOOLEAN
    /\ encoding \in BOOLEAN
    /\ {input, partial, held, encoded} \subseteq Samples
    /\ pushed \in 0..MaxSamples

Init ==
    /\ SinkInit
    /\ econf = NoConf
    /\ bypassed = FALSE
    /\ encoding = FALSE
    /\ input = <<>>
    /\ partial = <<>>
    /\ held = <<>>
    /\ pushed = 0
    /\ encoded = <<>>

----------------------------------------------------------------------------
InApplication == phase = "idle" /\ ~encoding

\* The samples first+1 .. last.
Numbered(first, last) == [i \in 1..(last - first) |-> first + i]

\* Source::pushBuffer on a bypassed encoder: the sink gets the buffer.
PushBypassed(rate, n) ==
    /\ InApplication /\ bypassed
    /\ Deliver([conf |-> [codec |-> "pcm", rate |-> rate],
                bytes |-> n * FrameBytes])
    /\ UNCHANGED encoderVars

\* AudioEncoderFfmpeg::onProcess with the configuration of the last buffer.
PushSame(n) ==
    /\ InApplication /\ ~bypassed
    /\ econf # NoConf
    /\ pushed + n <= MaxSamples
    /\ encoding' = TRUE
    /\ input' = Numbered(pushed, pushed + n)
    /\ pushed' = pushed + n
    /\ UNCHANGED <<econf, bypassed, partial, held, encoded, sinkVars>>

\* Mutant: the partial frame outlives the codec context.
PushNewKeepsPartial(rate, n) ==
    /\ InApplication /\ ~bypassed
    /\ econf.rate # rate
    /\ econf' = [codec |-> "pcm", rate |-> rate]
    /\ encoding' = TRUE
    /\ input' = Numbered(0, n)
    /\ pushed' = n
    /\ held' = <<>> /\ encoded' = <<>>
    /\ UNCHANGED <<bypassed, partial, sinkVars>>

\* ... and with another one: updateConf frees the codec and the partial frame
\* with whatever they hold.
PushNew(rate, n) ==
    /\ InApplication /\ ~bypassed
    /\ econf.rate # rate
    /\ econf' = [codec |-> "pcm", rate |-> rate]
    /\ encoding' = TRUE
    /\ input' = Numbered(0, n)
    /\ pushed' = n
    /\ partial' = <<>> /\ held' = <<>> /\ encoded' = <<>>
    /\ UNCHANGED <<bypassed, sinkVars>>

\* AudioEncoderFfmpeg::createFrame: a frame without samples.
CreateFrame == <<>>

\* The frame size is 0 as long as avcodec_open2 did not succeed.
frame_size == IF econf.rate \in Supported THEN FrameSize ELSE 0

\* AudioEncoderFfmpeg::fillFrame: the frame with as much of the buffer as it
\* takes.
FillFrame ==
    LET room == IF frame_size = 0 THEN 0 ELSE frame_size - Len(partial)
        n == IF room < Len(input) THEN room ELSE Len(input)
    IN  partial \o SubSeq(input, 1, n)

\* What fillFrame leaves of the buffer.
Rest == SubSeq(input, Len(FillFrame) - Len(partial) + 1, Len(input))

\* The buffer does not complete the frame, which becomes the partial frame.
FillPartial ==
    /\ phase = "idle" /\ encoding
    /\ Len(FillFrame) < frame_size
    /\ partial' = FillFrame
    /\ input' = Rest
    /\ encoding' = FALSE
    /\ UNCHANGED <<econf, bypassed, held, pushed, encoded, sinkVars>>

\* AudioEncoderFfmpeg::pushFrame: the codec takes the frame and emits no packet
\* (always so when it is not open); the empty buffer is not processed.  When
\* the codec is not open the round changes nothing and another one follows.
PushFrameHeld ==
    /\ phase = "idle" /\ encoding
    /\ Len(FillFrame) = frame_size
    /\ Len(held) < Delay * FrameSize \/ frame_size = 0
    /\ held' = held \o FillFrame
    /\ partial' = CreateFrame
    /\ input' = Rest
    /\ UNCHANGED <<econf, bypassed, encoding, pushed, encoded, sinkVars>>

\* ... and emits the packet of the oldest frame, which the sink then plays.
PushFrame(size) ==
    /\ encoding
    /\ frame_size > 0
    /\ Len(FillFrame) = frame_size
    /\ Len(held) = Delay * FrameSize
    /\ LET frames == held \o FillFrame
       IN  /\ encoded' = encoded \o SubSeq(frames, 1, FrameSize)
           /\ held' = SubSeq(frames, FrameSize + 1, Len(frames))
    /\ partial' = CreateFrame
    /\ input' = Rest
    /\ Deliver([conf |-> [codec |-> "ac3", rate |-> econf.rate],
                bytes |-> size])
    /\ UNCHANGED <<econf, bypassed, encoding, pushed>>

----------------------------------------------------------------------------
\* Node::setIsBypassed
SetIsBypassed ==
    /\ InApplication
    /\ bypassed' = ~bypassed
    /\ UNCHANGED <<econf, encoding, input, partial, held, pushed, encoded,
                   sinkVars>>

\* Source::stop; the encoder's onStop has no effect.
Stop == InApplication /\ SinkStop /\ UNCHANGED encoderVars

ChangeDevice == InApplication /\ SetDevice /\ UNCHANGED encoderVars

PlayFrames == \E n \in 1..left : WriteFrames(n)

SinkStep ==
    /\ \/ OnProcess
       \/ PlayFrames \/ Written \/ WriteNothing
       \/ Recover \/ RecoveryFails \/ Underrun
    /\ UNCHANGED encoderVars

EncoderStep ==
    FillPartial \/ PushFrameHeld \/ \E size \in PacketSizes : PushFrame(size)

Next ==
    \/ \E rate \in Rates, n \in 1..MaxPush :
          PushBypassed(rate, n) \/ PushNew(rate, n)
    \/ \E n \in 1..MaxPush : PushSame(n)
    \/ EncoderStep
    \/ SinkStep
    \/ SetIsBypassed \/ Stop \/ ChangeDevice

\* The calls run to their ends on the caller's thread.  A device that is
\* recovered takes frames before it fails again, at least every so often.
Fairness ==
    /\ WF_vars(EncoderStep)
    /\ WF_vars(OnProcess /\ UNCHANGED encoderVars)
    /\ WF_vars(Written /\ UNCHANGED encoderVars)
    /\ WF_vars((Recover \/ RecoveryFails) /\ UNCHANGED encoderVars)
    /\ SF_vars(PlayFrames /\ UNCHANGED encoderVars)

Spec == Init /\ [][Next]_vars /\ Fairness

----------------------------------------------------------------------------
(* Properties *)

\* Since the encoder was configured every sample left it once and in order, or
\* is still in the codec, in the partial frame or in the buffer: cutting
\* buffers of any sizes into frames (AudioEncoderFfmpeg::onProcess, fillFrame)
\* loses, repeats and swaps nothing.
SamplesOnce ==
    encoded \o held \o partial \o input = Numbered(0, pushed)

\* A buffer is only ever written to a device set to its rate, or to one that
\* refused its parameters and accepts nothing: m_conf and the device agree
\* through every stop, change of device and change of configuration
\* (AlsaSink::onProcess, setDevice).
PlayedAtRate ==
    phase = "write" => pcm = "unset" \/ pcmRate = packet.conf.rate

\* Every call of pushBuffer returns, or ends the program in ALSA: the loops of
\* the encoder and of writeSimple come to an end.
PushReturns ==
    phase \in {"process", "write"} \/ encoding
        ~> InApplication \/ phase = "aborted"

============================================================================
