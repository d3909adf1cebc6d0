--------------------------- MODULE PlaybackProofs --------------------------
(***************************************************************************)
(* For any set of rates, any codec and any buffers: AlsaSink writes a      *)
(* buffer only to a device set to the buffer's rate, or to one that has no *)
(* parameters and accepts nothing; and the encoder neither loses nor       *)
(* repeats a sample, however the buffers are cut.                          *)
(***************************************************************************)
EXTENDS EncodedPlayback, SequenceTheorems, TLAPS

\* While the device has parameters they are those of m_conf, and while a
\* buffer is being written m_conf is the buffer's configuration and the device
\* is open.  PlayedAtRate alone says nothing of the time between two buffers.
DeviceInv ==
    /\ pcm \in {"closed", "unset", "set", "xrun"}
    /\ pcm \in {"set", "xrun"} => pcmRate = mconf.rate
    /\ phase = "write" => mconf = packet.conf /\ pcm # "closed"

\* What AlsaSink::start leaves: a device set to the rate, one without
\* parameters, or, when the program ends, none.
LEMMA StartOutcome ==
    ASSUME NEW rate, NEW then, Start(rate, then)
    PROVE  \/ pcm' = "set" /\ pcmRate' = rate
           \/ pcm' = "unset"
           \/ pcm' = "closed" /\ phase' = "aborted"
  BY DEF Start, OpenSimple, SetParams, CloseDevice

\* AlsaSink::onProcess opens the device for the buffer or finds it open for it.
LEMMA OnProcessKeeps ==
    ASSUME DeviceInv, OnProcess
    PROVE  DeviceInv'
  <1>1. mconf' = packet.conf /\ packet' = packet
    BY DEF OnProcess
  <1>2. CASE mconf = packet.conf /\ pcm # "closed"
             /\ phase' = "write" /\ UNCHANGED <<pcm, pcmRate>>
    BY <1>1, <1>2 DEF DeviceInv
  <1>3. CASE Start(packet.conf.rate, "write")
    BY <1>1, <1>3, StartOutcome DEF DeviceInv
  <1> QED BY <1>2, <1>3 DEF OnProcess

\* The steps of the sink and of the device keep the invariant.
LEMMA SinkKeeps ==
    ASSUME DeviceInv, SinkStep
    PROVE  DeviceInv'
  <1>1. CASE OnProcess
    BY <1>1, OnProcessKeeps
  <1>2. CASE PlayFrames
    BY <1>2 DEF PlayFrames, WriteFrames, DeviceInv
  <1>3. CASE Written \/ WriteNothing \/ RecoveryFails
    BY <1>3 DEF Written, WriteNothing, RecoveryFails, Return, DeviceInv
  <1>4. CASE Recover
    BY <1>4 DEF Recover, DeviceInv
  <1>5. CASE Underrun
    BY <1>5 DEF Underrun, DeviceInv
  <1> QED BY <1>1, <1>2, <1>3, <1>4, <1>5 DEF SinkStep

\* A packet handed to the sink does not touch the device.
LEMMA DeliverKeeps ==
    ASSUME DeviceInv, NEW p, Deliver(p)
    PROVE  DeviceInv'
  <1>1. phase' # "write"
    BY DEF Deliver
  <1> QED BY <1>1 DEF Deliver, DeviceInv

LEMMA DeviceStep ==
    ASSUME DeviceInv, [Next]_vars
    PROVE  DeviceInv'
  <1>1. ASSUME NEW rate \in Rates, NEW n \in 1..MaxPush,
               PushBypassed(rate, n)
        PROVE  DeviceInv'
    BY <1>1, DeliverKeeps DEF PushBypassed
  <1>2. ASSUME NEW size \in PacketSizes, PushFrame(size) PROVE DeviceInv'
    BY <1>2, DeliverKeeps DEF PushFrame
  <1>3. CASE SinkStep
    BY <1>3, SinkKeeps
  <1>4. CASE Stop
    <2>1. pcm' = "closed" /\ phase' = "idle"
      BY <1>4 DEF Stop, SinkStop, CloseDevice
    <2> QED BY <2>1 DEF DeviceInv
  <1>5. CASE ChangeDevice
    <2>1. mconf' = mconf /\ Start(mconf.rate, "idle")
      BY <1>5 DEF ChangeDevice, SetDevice
    <2>2. phase' # "write"
      BY <2>1 DEF Start
    <2> QED BY <2>1, <2>2, StartOutcome DEF DeviceInv
  <1>6. CASE UNCHANGED sinkVars
    BY <1>6 DEF sinkVars, DeviceInv
  <1>7. ASSUME NEW rate \in Rates, NEW n \in 1..MaxPush, PushNew(rate, n)
        PROVE  UNCHANGED sinkVars
    BY <1>7 DEF PushNew
  <1>8. ASSUME NEW n \in 1..MaxPush, PushSame(n)
        PROVE  UNCHANGED sinkVars
    BY <1>8 DEF PushSame
  <1>9. FillPartial \/ PushFrameHeld \/ SetIsBypassed \/ UNCHANGED vars
           => UNCHANGED sinkVars
    BY DEF FillPartial, PushFrameHeld, SetIsBypassed, vars
  <1> QED
    BY <1>1, <1>2, <1>3, <1>4, <1>5, <1>6, <1>7, <1>8, <1>9
       DEF Next, EncoderStep

\* A buffer is only ever written to a device set to its rate, or to one that
\* refused its parameters (AlsaSink::onProcess, start, setDevice, onStop).
THEOREM AlwaysPlayedAtRate == Spec => []PlayedAtRate
  <1>1. Init => DeviceInv
    BY DEF Init, SinkInit, DeviceInv
  <1>2. DeviceInv /\ [Next]_vars => DeviceInv'
    BY DeviceStep
  <1>3. DeviceInv => PlayedAtRate
    BY DEF DeviceInv, PlayedAtRate
  <1> QED BY <1>1, <1>2, <1>3, PTL DEF Spec

----------------------------------------------------------------------------
(* The encoder *)

\* Between two buffers nothing is left of the last one, and a partial frame is
\* no whole frame: without that fillFrame would have no room to compute.
EncoderInv ==
    /\ {input, partial, held, encoded} \subseteq Seq(Nat)
    /\ pushed \in Nat
    /\ ~encoding => input = <<>>
    /\ partial = <<>> \/ Len(partial) < frame_size
    /\ SamplesOnce

\* Two halves of a sequence.
LEMMA Halves ==
    ASSUME NEW s \in Seq(Nat), NEW n \in 0..Len(s)
    PROVE  /\ SubSeq(s, 1, n) \in Seq(Nat) /\ Len(SubSeq(s, 1, n)) = n
           /\ SubSeq(s, n + 1, Len(s)) \in Seq(Nat)
           /\ SubSeq(s, 1, n) \o SubSeq(s, n + 1, Len(s)) = s
  <1>1. /\ Len(s) \in Nat /\ 1 \in 1..Len(s) + 1 /\ n \in (1 - 1)..Len(s)
        /\ Len(s) \in n..Len(s)
    OBVIOUS
  <1>2. SubSeq(s, 1, n) \o SubSeq(s, n + 1, Len(s)) = SubSeq(s, 1, Len(s))
    BY <1>1, ConcatAdjacentSubSeq
  <1>3. SubSeq(s, 1, Len(s)) = s
    BY SubSeqFull
  <1>4. SubSeq(s, 1, n) \in Seq(Nat) /\ Len(SubSeq(s, 1, n)) = n
    BY <1>1
  <1>5. SubSeq(s, n + 1, Len(s)) \in Seq(Nat)
    BY <1>1
  <1> QED BY <1>2, <1>3, <1>4, <1>5

\* Where the brackets of a concatenation are does not matter.
LEMMA Associative ==
    \A a, b, c \in Seq(Nat) : (a \o b) \o c = a \o (b \o c)
  <1> SUFFICES ASSUME NEW a \in Seq(Nat), NEW b \in Seq(Nat),
                      NEW c \in Seq(Nat)
               PROVE  (a \o b) \o c = a \o (b \o c)
    OBVIOUS
  <1> QED BY ConcatAssociative

LEMMA Regroup ==
    ASSUME NEW a \in Seq(Nat), NEW b \in Seq(Nat), NEW c \in Seq(Nat),
           NEW d \in Seq(Nat)
    PROVE  /\ a \o (b \o c) \o d = a \o b \o c \o d
           /\ a \o b \o (c \o d) = a \o b \o c \o d
           /\ a \o b \in Seq(Nat) /\ a \o b \o c \in Seq(Nat)
           /\ a \o <<>> = a /\ <<>> \o a = a
  <1>1. a \o b \in Seq(Nat) /\ b \o c \in Seq(Nat) /\ a \o b \o c \in Seq(Nat)
    BY ConcatProperties, Zenon
  <1>2. a \o (b \o c) = a \o b \o c
    BY Associative, Zenon
  <1>3. a \o b \o (c \o d) = a \o b \o c \o d
    <2>1. PICK e \in Seq(Nat) : e = a \o b
      BY <1>1
    <2>2. e \o (c \o d) = e \o c \o d
      BY Associative, Zenon
    <2> QED BY <2>1, <2>2, Zenon
  <1>4. a \o <<>> = a /\ <<>> \o a = a
    BY ConcatEmptySeq, Zenon
  <1> QED BY <1>1, <1>2, <1>3, <1>4, Zenon

\* The samples of one buffer after those of the buffers before it.
LEMMA NumberedOn ==
    ASSUME NEW p \in Nat, NEW n \in Nat
    PROVE  /\ Numbered(p, p + n) \in Seq(Nat)
           /\ Numbered(0, p) \o Numbered(p, p + n) = Numbered(0, p + n)
  <1> DEFINE u == Numbered(0, p)
             v == Numbered(p, p + n)
             w == Numbered(0, p + n)
  <1>1. /\ u \in Seq(Nat) /\ Len(u) = p /\ \A i \in 1..p : u[i] = i
        /\ v \in Seq(Nat) /\ Len(v) = n /\ \A i \in 1..n : v[i] = p + i
        /\ w \in Seq(Nat) /\ Len(w) = p + n /\ \A i \in 1..(p + n) : w[i] = i
    BY DEF Numbered
  <1> HIDE DEF u, v, w
  <1>2. /\ u \o v \in Seq(Nat) /\ Len(u \o v) = p + n
        /\ \A i \in 1..(p + n) :
             (u \o v)[i] = IF i <= p THEN u[i] ELSE v[i - p]
    <2>1. /\ u \o v \in Seq(Nat) /\ Len(u \o v) = Len(u) + Len(v)
          /\ \A i \in 1..Len(u) + Len(v) :
               (u \o v)[i] = IF i <= Len(u) THEN u[i] ELSE v[i - Len(u)]
      <3>1. u \in Seq(Nat) /\ v \in Seq(Nat)
        BY <1>1
      <3> QED BY <3>1, ConcatProperties, Zenon
    <2> QED BY <1>1, <2>1
  <1>3. \A i \in 1..(p + n) : (u \o v)[i] = w[i]
    <2>1. ASSUME NEW i \in 1..(p + n) PROVE (u \o v)[i] = w[i]
      <3>1. CASE i <= p
        BY <1>1, <1>2, <3>1
      <3>2. CASE i > p
        <4>1. i - p \in 1..n
          BY <3>2
        <4>2. v[i - p] = p + (i - p)
          BY <1>1, <4>1
        <4>3. (u \o v)[i] = v[i - p] /\ w[i] = i
          BY <1>1, <1>2, <3>2
        <4> QED BY <4>2, <4>3
      <3>3. i <= p \/ i > p
        OBVIOUS
      <3> QED BY <3>1, <3>2, <3>3, Zenon
    <2> QED BY <2>1
  <1>4. u \o v = w
    BY <1>1, <1>2, <1>3, SeqEqual
  <1> QED BY <1>1, <1>4 DEF u, v, w

\* fillFrame takes the beginning of the buffer and leaves the rest of it: all
\* of the buffer, if it does not complete the frame.
LEMMA FillFrameFacts ==
    ASSUME EncoderInv
    PROVE  /\ FillFrame \in Seq(Nat) /\ Rest \in Seq(Nat)
           /\ FillFrame \o Rest = partial \o input
           /\ Len(FillFrame) < frame_size => Rest = <<>>
  <1> DEFINE room == IF frame_size = 0 THEN 0 ELSE frame_size - Len(partial)
             n == IF room < Len(input) THEN room ELSE Len(input)
  <1>1. /\ input \in Seq(Nat) /\ partial \in Seq(Nat)
        /\ Len(input) \in Nat /\ Len(partial) \in Nat /\ frame_size \in Nat
    BY EncoderAssumption DEF EncoderInv, frame_size
  <1>2. room \in Nat
    <2>1. CASE partial = <<>>
      BY <1>1, <2>1
    <2>2. CASE Len(partial) < frame_size
      BY <1>1, <2>2
    <2> QED BY <2>1, <2>2 DEF EncoderInv
  <1>3. n \in 0..Len(input)
    BY <1>1, <1>2
  <1>4. FillFrame = partial \o SubSeq(input, 1, n)
    BY DEF FillFrame
  <1>5. Len(partial) + n < frame_size => n = Len(input)
    BY <1>1, <1>2
  <1> HIDE DEF n
  <1> DEFINE u == SubSeq(input, 1, n)
             v == SubSeq(input, n + 1, Len(input))
  <1>6. /\ u \in Seq(Nat) /\ Len(u) = n /\ v \in Seq(Nat) /\ u \o v = input
    BY <1>1, <1>3, Halves
  <1>7. FillFrame \in Seq(Nat) /\ Len(FillFrame) = Len(partial) + n
    <2>1. /\ partial \o u \in Seq(Nat)
          /\ Len(partial \o u) = Len(partial) + Len(u)
      BY <1>1, <1>6, ConcatProperties, Zenon
    <2> QED BY <1>4, <1>6, <2>1
  <1>8. Rest = v
    BY <1>1, <1>3, <1>7 DEF Rest
  <1>9. FillFrame \o Rest = partial \o input
    <2>1. (partial \o u) \o v = partial \o (u \o v)
      BY <1>1, <1>6, Associative, Zenon
    <2> QED BY <1>4, <1>6, <1>8, <2>1, Zenon
  <1>10. Len(FillFrame) < frame_size => Rest = <<>>
    <2>1. n = Len(input) => v = <<>>
      BY <1>1
    <2> QED BY <1>5, <1>7, <1>8, <2>1
  <1> QED BY <1>6, <1>7, <1>8, <1>9, <1>10

\* onProcess of a buffer: it is cut into frames, behind the partial one.
LEMMA EncoderStepKeeps ==
    ASSUME EncoderInv, EncoderStep
    PROVE  EncoderInv'
  <1>1. /\ input \in Seq(Nat) /\ partial \in Seq(Nat) /\ held \in Seq(Nat)
        /\ encoded \in Seq(Nat) /\ pushed \in Nat
        /\ encoded \o held \o partial \o input = Numbered(0, pushed)
    BY DEF EncoderInv, SamplesOnce
  <1>2. /\ FillFrame \in Seq(Nat) /\ Rest \in Seq(Nat)
        /\ FillFrame \o Rest = partial \o input
        /\ Len(FillFrame) < frame_size => Rest = <<>>
    BY FillFrameFacts
  <1>3. /\ econf' = econf /\ pushed' = pushed /\ frame_size' = frame_size
        /\ input' = Rest
    BY DEF EncoderStep, FillPartial, PushFrameHeld, PushFrame, frame_size
  <1>4. encoded \o held \o FillFrame \o Rest = Numbered(0, pushed)
    <2>1. PICK e \in Seq(Nat) : e = encoded \o held
      BY <1>1, ConcatProperties, Zenon
    <2>2. e \o (FillFrame \o Rest) = e \o FillFrame \o Rest
      BY <1>2, Associative, Zenon
    <2>3. e \o (partial \o input) = e \o partial \o input
      BY <1>1, Associative, Zenon
    <2> QED BY <1>1, <1>2, <2>1, <2>2, <2>3, Zenon
  <1>5. SUFFICES /\ {partial', held', encoded'} \subseteq Seq(Nat)
                 /\ ~encoding' => input' = <<>>
                 /\ partial' = <<>> \/ Len(partial') < frame_size
                 /\ encoded' \o held' \o partial' \o Rest
                      = encoded \o held \o FillFrame \o Rest
    <2>1. encoded' \o held' \o partial' \o input' = Numbered(0, pushed')
      BY <1>3, <1>4, <1>5, Zenon
    <2>2. SamplesOnce'
      BY <2>1 DEF SamplesOnce, Numbered
    <2> QED BY <1>1, <1>2, <1>3, <1>5, <2>2 DEF EncoderInv
  <1>6. CASE FillPartial
    <2>1. /\ partial' = FillFrame /\ held' = held /\ encoded' = encoded
          /\ Len(FillFrame) < frame_size
      BY <1>6 DEF FillPartial
    <2> QED BY <1>1, <1>2, <1>3, <2>1
  <1>7. CASE PushFrameHeld \/ \E size \in PacketSizes : PushFrame(size)
    <2>1. partial' = <<>> /\ encoding' = TRUE
      <3>1. PushFrameHeld => encoding' = TRUE
        BY DEF PushFrameHeld
      <3>2. (\E size \in PacketSizes : PushFrame(size)) => encoding' = TRUE
        BY DEF PushFrame
      <3> QED BY <1>7, <3>1, <3>2 DEF PushFrameHeld, PushFrame, CreateFrame
    <2>2. /\ {held', encoded'} \subseteq Seq(Nat)
          /\ encoded' \o held' = encoded \o held \o FillFrame
      <3>1. CASE PushFrameHeld
        <4>1. encoded' = encoded /\ held' = held \o FillFrame
          BY <3>1 DEF PushFrameHeld
        <4>2. held \o FillFrame \in Seq(Nat)
          BY <1>1, <1>2, Regroup
        <4>3. encoded \o (held \o FillFrame) = encoded \o held \o FillFrame
          BY <1>1, <1>2, Associative, Zenon
        <4> QED BY <1>1, <4>1, <4>2, <4>3
      <3>2. CASE \E size \in PacketSizes : PushFrame(size)
        <4> DEFINE frames == held \o FillFrame
                   first == SubSeq(frames, 1, FrameSize)
                   others == SubSeq(frames, FrameSize + 1, Len(frames))
        <4>1. /\ encoded' = encoded \o first /\ held' = others
              /\ Len(FillFrame) = frame_size /\ frame_size > 0
          BY <3>2 DEF PushFrame
        <4>2. Len(FillFrame) = FrameSize /\ FrameSize \in Nat
          BY <4>1, EncoderAssumption DEF frame_size
        <4>3. frames \in Seq(Nat) /\ Len(frames) = Len(held) + FrameSize
          BY <1>1, <1>2, <4>2, ConcatProperties
        <4>4. FrameSize \in 0..Len(frames)
          BY <1>1, <4>2, <4>3
        <4>5. /\ first \in Seq(Nat) /\ others \in Seq(Nat)
              /\ first \o others = frames
          BY <4>3, <4>4, Halves
        <4> HIDE DEF first, others
        <4>6. (encoded \o first) \o others = encoded \o (first \o others)
          BY <1>1, <4>5, Associative, Zenon
        <4>7. encoded \o (held \o FillFrame) = encoded \o held \o FillFrame
          BY <1>1, <1>2, Associative, Zenon
        <4>8. encoded \o first \in Seq(Nat)
          BY <1>1, <4>5, Regroup
        <4>9. encoded' \o held' = encoded \o held \o FillFrame
          BY <4>1, <4>5, <4>6, <4>7, Zenon
        <4> QED BY <4>1, <4>5, <4>8, <4>9
      <3> QED BY <1>7, <3>1, <3>2
    <2>3. encoded' \o held' \in Seq(Nat)
      BY <2>2, Regroup
    <2>4. encoded' \o held' \o <<>> = encoded' \o held'
      BY <2>3, Regroup
    <2>5. encoded' \o held' \o partial' \o Rest
            = encoded \o held \o FillFrame \o Rest
      BY <2>1, <2>2, <2>4, Zenon
    <2> QED BY <2>1, <2>2, <2>5
  <1> QED BY <1>6, <1>7 DEF EncoderStep

LEMMA EncoderKeeps ==
    ASSUME EncoderInv, [Next]_vars
    PROVE  EncoderInv'
  <1>1. CASE EncoderStep
    BY <1>1, EncoderStepKeeps
  <1>2. ASSUME NEW rate \in Rates, NEW n \in 1..MaxPush, PushNew(rate, n)
        PROVE  EncoderInv'
    <2>1. /\ encoding' = TRUE /\ input' = Numbered(0, n) /\ pushed' = n
          /\ partial' = <<>> /\ held' = <<>> /\ encoded' = <<>> /\ n \in Nat
      BY <1>2, EncoderAssumption DEF PushNew
    <2>2. Numbered(0, n) \in Seq(Nat)
      BY <2>1 DEF Numbered
    <2>3. <<>> \o <<>> = <<>> /\ <<>> \o Numbered(0, n) = Numbered(0, n)
      BY <2>2, Regroup
    <2>4. SamplesOnce'
      BY <2>1, <2>3 DEF SamplesOnce, Numbered
    <2> QED BY <2>1, <2>2, <2>4 DEF EncoderInv
  <1>3. ASSUME NEW n \in 1..MaxPush, PushSame(n)
        PROVE  EncoderInv'
    <2>1. /\ encoding' = TRUE /\ pushed' = pushed + n
          /\ input' = Numbered(pushed, pushed + n)
          /\ partial' = partial /\ held' = held /\ encoded' = encoded
          /\ frame_size' = frame_size /\ n \in Nat /\ pushed \in Nat
      BY <1>3, EncoderAssumption DEF PushSame, frame_size, EncoderInv
    <2>2. ~encoding
      BY <1>3 DEF PushSame, InApplication
    <2>3. /\ partial \in Seq(Nat) /\ held \in Seq(Nat)
          /\ encoded \in Seq(Nat) /\ input = <<>>
      BY <2>2 DEF EncoderInv
    <2>4. encoded \o held \o partial \in Seq(Nat)
      BY <2>3, Regroup
    <2>5. encoded \o held \o partial = Numbered(0, pushed)
      <3>1. encoded \o held \o partial \o <<>> = encoded \o held \o partial
        BY <2>4, Regroup
      <3> QED BY <2>3, <3>1, Zenon DEF EncoderInv, SamplesOnce
    <2>6. /\ Numbered(pushed, pushed + n) \in Seq(Nat)
          /\ Numbered(0, pushed) \o Numbered(pushed, pushed + n)
               = Numbered(0, pushed + n)
      BY <2>1, NumberedOn
    <2>7. encoded' \o held' \o partial' \o input' = Numbered(0, pushed')
      BY <2>1, <2>5, <2>6, Zenon
    <2>8. SamplesOnce'
      BY <2>7 DEF SamplesOnce, Numbered
    <2> QED BY <2>1, <2>3, <2>6, <2>8 DEF EncoderInv
  <1>4. CASE UNCHANGED <<econf, encoding, input, partial, held, pushed,
                         encoded>>
    BY <1>4 DEF EncoderInv, SamplesOnce, Numbered, frame_size
  <1>5. ASSUME NEW rate \in Rates, NEW n \in 1..MaxPush,
               PushBypassed(rate, n)
        PROVE  UNCHANGED encoderVars
    BY <1>5 DEF PushBypassed
  <1>6. SinkStep \/ Stop \/ ChangeDevice \/ UNCHANGED vars
          => UNCHANGED encoderVars
    BY DEF SinkStep, Stop, ChangeDevice, vars
  <1> QED
    BY <1>1, <1>2, <1>3, <1>4, <1>5, <1>6
       DEF Next, SetIsBypassed, encoderVars

\* However the buffers are cut and however many frames the codec holds back,
\* every sample that was pushed since the encoder was configured has left it
\* once and in order or is still inside: fillFrame and pushFrame lose, repeat
\* and swap nothing.
THEOREM EncoderKeepsSamples == Spec => []SamplesOnce
  <1>1. Init => EncoderInv
    <2> SUFFICES ASSUME Init PROVE EncoderInv
      OBVIOUS
    <2>1. /\ input = <<>> /\ partial = <<>> /\ held = <<>>
          /\ encoded = <<>> /\ pushed = 0
      BY DEF Init
    <2>2. Numbered(0, 0) = <<>> /\ <<>> \o <<>> = <<>>
      BY DEF Numbered
    <2> QED BY <2>1, <2>2 DEF EncoderInv, SamplesOnce
  <1>2. EncoderInv /\ [Next]_vars => EncoderInv'
    BY EncoderKeeps
  <1>3. EncoderInv => SamplesOnce
    BY DEF EncoderInv
  <1> QED BY <1>1, <1>2, <1>3, PTL DEF Spec

============================================================================
