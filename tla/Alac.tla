-------------------------------- MODULE Alac --------------------------------
(***************************************************************************)
(* The ALAC decoder of the AirPlay chain: alac.c, called by AlacDecoder    *)
(* for every packet.  The input is a sequence of bytes read at a position  *)
(* in bits, pos (input_buffer and input_buffer_bitaccumulator); one step   *)
(* is one round of a loop of the decoder.  Channel 1 is buffer_a, channel  *)
(* 2 is buffer_b.  The frame decoded is chosen once, in frame.             *)
(***************************************************************************)
EXTENDS AlacFrames, FiniteSetsExt

CONSTANTS
  Positive, Negative,   \* sample values, and values taken with a minus
  NumSamples,    \* setinfo_max_samples_per_frame
  ShortFrame,    \* samples of a frame that gives its own size
  Predictors     \* numbers of coefficients

VARIABLES
  frame, input,  \* the frame sent, and its bytes
  pos,           \* bits read
  pc, channel,   \* the loop the decoder is in, and for which channel
  hdr,           \* what was read from the headers
  coefs,         \* coefs[c]: predictor_coef_table, as adapted so far
  raw,           \* uncompressed_bytes_buffer_a and _b, alternating
  history, signModifier,
  errors,        \* errors[c]: predicterror_buffer
  samples,       \* samples[c]: outputsamples_buffer
  out,           \* the output: samples of both channels, alternating
  outputsize     \* in bytes

vars == <<frame, input, pos, pc, channel, hdr, coefs, raw, history,
          signModifier, errors, samples, out, outputsize>>

Values == Positive \cup {-v : v \in Negative}

\* The same sample n times.
Constant(v, n) == [i \in 1 .. n |-> v]

\* Coefficients a sender starts with, scaled by 2^4.
StartCoefs(num) == [j \in 1 .. num |-> IF j = 1 THEN 20 ELSE -6]

\* Plain and compressed frames, mono and stereo, of 16 bits, of 24 bits, and
\* of 24 bits with the low byte stored as it is.  A frame with a size is a
\* shorter one, such as the last of a track.  The right channel is silent, or
\* constant and mixed with the left one.
Frames ==
  UNION {
    {[stereo |-> st, hassize |-> n # NumSamples, plain |-> p.plain,
      size |-> s.size, raw |-> IF p.plain THEN 0 ELSE s.raw,
      weight |-> p.weight, num |-> p.num,
      coefs |-> IF p.num = 31 THEN Constant(0, 31) ELSE StartCoefs(p.num),
      quant |-> 4, left |-> l, right |-> Constant(9 * p.weight, n)] :
        st \in BOOLEAN,
        p \in {[plain |-> TRUE, weight |-> 0, num |-> 0]}
                \cup [plain : {FALSE}, weight : {0, 1}, num : Predictors],
        s \in {[size |-> 16, raw |-> 0], [size |-> 24, raw |-> 1]},
        l \in [1 .. n -> Values]} :
    n \in {ShortFrame, NumSamples}}

Init ==
  /\ frame \in {f \in Frames : /\ f.stereo \/ f.weight = 0
                            /\ f.num = 31 => f.hassize}
  /\ input \in {Bytes(bits) : bits \in {FrameBits(frame)}}
  /\ pos = 0 /\ pc = "header" /\ channel = 1
  /\ hdr = [none |-> TRUE]
  /\ coefs = <<>> /\ raw = <<>>
  /\ history = 0 /\ signModifier = 0
  /\ errors = <<<<>>, <<>>>> /\ samples = <<<<>>, <<>>>>
  /\ out = <<>> /\ outputsize = 0
-----------------------------------------------------------------------------
(* AlacDecoder.                                                            *)

\* init: the numbers of the fmtp attribute the decoder uses.
setinfo ==
  LET fmtp == Fmtp(NumSamples, frame.size)
  IN [max_samples_per_frame |-> fmtp[2], sample_size |-> fmtp[4],
      rice_historymult |-> fmtp[5], rice_initialhistory |-> fmtp[6],
      rice_kmodifier |-> fmtp[7]]

\* alac_allocate_buffers: what each of the six buffers holds, in samples.
BufferSize == (setinfo.max_samples_per_frame * 4) \div 4

\* alac_create(16, 2).
bytespersample == (16 \div 8) * 2
-----------------------------------------------------------------------------
(* The bit reader.  Bytes past the frame are whatever the packet's buffer  *)
(* holds: a value is looked ahead, and the bit given back.                 *)

\* Mutant: the bits already read are not shifted out.
ReadbitsUnshifted(p, n) ==
  LET at == p \div 8
      Byte(i) == IF at + i <= Len(input) THEN input[at + i] ELSE 255
      word == Byte(1) * 2^16 + Byte(2) * 2^8 + Byte(3)
  IN word \div 2^(24 - n)

readbits_16(p, n) ==
  LET at == p \div 8
      Byte(i) == IF at + i <= Len(input) THEN input[at + i] ELSE 255
      word == Byte(1) * 2^16 + Byte(2) * 2^8 + Byte(3)
      used == p % 8
  IN ((word % 2^(24 - used)) * 2^used) \div 2^(24 - n)

readbits(p, n) ==
  IF n > 16 THEN readbits_16(p, 16) * 2^(n - 16) + readbits_16(p + 16, n - 16)
  ELSE readbits_16(p, n)

readbit(p) == readbits_16(p, 1)

unreadbits(p, n) == p - n

SIGN_EXTENDED32(v, bits) == ((v + 2^(bits - 1)) % 2^bits) - 2^(bits - 1)

\* Each of its variants, for x > 0.
count_leading_zeros(x) == 31 - Floor2(x)

\* Mutant: the bit looked at is not given back.
DecodeKeepsBit(p, size, k, mask) ==
  LET ones == Max({n \in 0 .. 9 : \A i \in 0 .. n - 1 : readbit(p + i) = 1})
      q == p + ones + 1
      extraBits == readbits(q, k)
      x == ones * (AtMost(2^k, mask + 1) - 1)
  IN IF ones > 8 THEN <<readbits(p + ones, size), p + ones + size>>
     ELSE IF k = 1 THEN <<ones, q>>
     ELSE IF extraBits > 1 THEN <<x + extraBits - 1, q + k>>
     ELSE <<x, q + k>>

\* A value and the position after it.
entropy_decode_value(p, size, k, mask) ==
  LET ones == Max({n \in 0 .. 9 : \A i \in 0 .. n - 1 : readbit(p + i) = 1})
      q == p + ones + 1
      extraBits == readbits(q, k)
      x == ones * (AtMost(2^k, mask + 1) - 1)
  IN IF ones > 8 THEN <<readbits(p + ones, size), p + ones + size>>
     ELSE IF k = 1 THEN <<ones, q>>
     ELSE IF extraBits > 1 THEN <<x + extraBits - 1, q + k>>
     ELSE <<x, unreadbits(q + k, 1)>>

-----------------------------------------------------------------------------
\* The head of alac_decode_frame.  extra is the bit more that a difference
\* of two channels needs.
FrameHead(extra) ==
  LET hassize == readbits(19, 1) = 1
      bytes == readbits(20, 2)
      n == IF hassize THEN readbits(23, 32)
           ELSE setinfo.max_samples_per_frame
  IN /\ hdr' = [stereo |-> extra = 1, bytes |-> bytes, num |-> n,
                plain |-> readbits(22, 1) = 1,
                size |-> setinfo.sample_size - 8 * bytes + extra,
                shift |-> 0, weight |-> 0, quant |-> <<>>, rice |-> <<>>]
     /\ pos' = IF hassize THEN 55 ELSE 23
     /\ outputsize' = n * bytespersample
     /\ pc' = IF hdr'.plain THEN "plain" ELSE "coefs"
     /\ UNCHANGED <<frame, input, channel, coefs, raw, history, signModifier,
                    errors, samples, out>>

MonoHeader == pc = "header" /\ readbits(0, 3) = 0 /\ FrameHead(0)

StereoHeader == pc = "header" /\ readbits(0, 3) = 1 /\ FrameHead(1)

\* The table of coefficients of a channel.
CoefTable(p) ==
  [j \in 1 .. readbits(p + 11, 5) |->
     SIGN_EXTENDED32(readbits(p + 16 * j, 16), 16)]

\* One channel: two bytes that are skipped, and its predictor.
MonoCoefs ==
  /\ pc = "coefs" /\ ~hdr.stereo
  /\ hdr' = [hdr EXCEPT !.quant = <<readbits(pos + 20, 4)>>,
                        !.rice = <<readbits(pos + 24, 3)>>]
  /\ coefs' = <<CoefTable(pos + 16)>>
  /\ pos' = pos + 32 + 16 * Len(coefs'[1])
  /\ pc' = "raw"
  /\ history' = setinfo.rice_initialhistory
  /\ UNCHANGED <<frame, input, channel, raw, signModifier, errors, samples,
                 out, outputsize>>

\* Two channels: interlacing_shift and _leftweight, and a predictor for each.
StereoCoefs ==
  /\ pc = "coefs" /\ hdr.stereo
  /\ LET a == pos + 16
         b == a + 16 + 16 * readbits(a + 11, 5)
     IN /\ hdr' = [hdr EXCEPT
             !.shift = readbits(pos, 8), !.weight = readbits(pos + 8, 8),
             !.quant = <<readbits(a + 4, 4), readbits(b + 4, 4)>>,
             !.rice = <<readbits(a + 8, 3), readbits(b + 8, 3)>>]
        /\ coefs' = <<CoefTable(a), CoefTable(b)>>
        /\ pos' = b + 16 + 16 * Len(coefs'[2])
  /\ pc' = "raw"
  /\ history' = setinfo.rice_initialhistory
  /\ UNCHANGED <<frame, input, channel, raw, signModifier, errors, samples,
                 out, outputsize>>

\* uncompressed_bytes of n values.
ReadRaw(n) ==
  LET width == 8 * hdr.bytes
      count == IF hdr.bytes = 0 THEN 0 ELSE n
  IN /\ raw' = [i \in 1 .. count |-> readbits(pos + (i - 1) * width, width)]
     /\ pos' = pos + count * width
     /\ pc' = "rice"
     /\ UNCHANGED <<frame, input, channel, hdr, coefs, history, signModifier,
                    errors, samples, out, outputsize>>

MonoRaw == pc = "raw" /\ ~hdr.stereo /\ ReadRaw(hdr.num)

\* Left and right in turn.
StereoRaw == pc = "raw" /\ hdr.stereo /\ ReadRaw(2 * hdr.num)

PlainSample(i) ==
  LET size == setinfo.sample_size
  IN SIGN_EXTENDED32(readbits(pos + i * size, size), size)

\* A frame that is not compressed.
MonoPlain ==
  /\ pc = "plain" /\ ~hdr.stereo
  /\ samples' = <<[i \in 1 .. hdr.num |-> PlainSample(i - 1)], <<>>>>
  /\ pos' = pos + hdr.num * setinfo.sample_size
  /\ hdr' = [hdr EXCEPT !.bytes = 0]
  /\ pc' = "output"
  /\ UNCHANGED <<frame, input, channel, coefs, raw, history, signModifier,
                 errors, out, outputsize>>

StereoPlain ==
  /\ pc = "plain" /\ hdr.stereo
  /\ samples' = <<[i \in 1 .. hdr.num |-> PlainSample(2 * i - 2)],
                  [i \in 1 .. hdr.num |-> PlainSample(2 * i - 1)]>>
  /\ pos' = pos + 2 * hdr.num * setinfo.sample_size
  /\ hdr' = [hdr EXCEPT !.bytes = 0, !.shift = 0, !.weight = 0]
  /\ pc' = "output"
  /\ UNCHANGED <<frame, input, channel, coefs, raw, history, signModifier,
                 errors, out, outputsize>>

\* What entropy_rice_decode is called with, for either channel.
RiceArguments ==
  [kmodifier |-> setinfo.rice_kmodifier,
   mult |-> (hdr.rice[channel] * setinfo.rice_historymult) \div 4,
   mask |-> 2^setinfo.rice_kmodifier - 1]

\* Which channel's values or samples come next: first the one, then the other.
MonoAfter(loop) ==
  [loop |-> IF loop = "rice" THEN "predict" ELSE "output", channel |-> 1]

StereoAfter(loop) ==
  IF loop = "rice" THEN [loop |-> "predict", channel |-> channel]
  ELSE IF channel = 1 THEN [loop |-> "rice", channel |-> 2]
  ELSE [loop |-> "output", channel |-> 2]

\* To the next round of the loop, or out of it.
Continue(loop, last) ==
  LET after == IF hdr.stereo THEN StereoAfter(loop) ELSE MonoAfter(loop)
      next == IF last THEN after ELSE [loop |-> loop, channel |-> channel]
  IN pc' = next.loop /\ channel' = next.channel

\* One value of entropy_rice_decode, and the zeros that may follow it.
RiceDecode ==
  LET arg == RiceArguments
      logk == 31 - count_leading_zeros(history \div 2^9 + 3)
      k == AtMost(logk, arg.kmodifier)
      first == entropy_decode_value(pos, hdr.size, k, 2^29 - 1)
      decoded == first[1] + signModifier
      final == ((decoded + 1) \div 2) * (IF decoded % 2 = 1 THEN -1 ELSE 1)
      h == IF decoded > 65535 THEN 65535
           ELSE history + decoded * arg.mult
                          - ((history * arg.mult) \div 2^9)
      done == Len(errors[channel]) + 1
      block == h < 128 /\ done < hdr.num
      zk == count_leading_zeros(h) + ((h + 16) \div 64) - 24
      zeros == entropy_decode_value(first[2], 16, zk, arg.mask)
      got == <<final>> \o (IF block THEN [i \in 1 .. zeros[1] |-> 0] ELSE <<>>)
      last == Len(errors[channel]) + Len(got) >= hdr.num
  IN /\ pc = "rice"
     /\ errors' = [errors EXCEPT ![channel] = @ \o got]
     /\ pos' = IF block THEN zeros[2] ELSE first[2]
     /\ signModifier' = IF block /\ ~last /\ zeros[1] <= 65535 THEN 1 ELSE 0
     /\ history' = IF last THEN setinfo.rice_initialhistory
                   ELSE IF block THEN 0 ELSE h
     /\ Continue("rice", last)
     /\ UNCHANGED <<frame, input, hdr, coefs, raw, samples, out,
                    outputsize>>

SIGN_ONLY(v) == IF v < 0 THEN -1 ELSE IF v > 0 THEN 1 ELSE 0

\* Mutant: adapted from the first coefficient on.
AdaptedForwards(window, table, error, quant) ==
  LET n == Len(table)
      dir == SIGN_ONLY(error)
      Step(st, j) ==
        LET val == window[1] - window[n + 2 - j]
            sign == dir * SIGN_ONLY(val)
        IN IF st.error * dir <= 0 THEN st
           ELSE [table |-> [st.table EXCEPT ![j] = @ - sign],
                 error |-> st.error
                             - ((val * sign) \div 2^quant) * (n + 1 - j)]
  IN FoldLeft(Step, [table |-> table, error |-> error],
              [i \in 1 .. n |-> i]).table

\* The inner loop that adapts the coefficients: from the last one to the
\* first, until the error has changed its sign.  window is buffer_out.
Adapted(window, table, error, quant) ==
  LET n == Len(table)
      dir == SIGN_ONLY(error)
      Step(st, j) ==
        LET val == window[1] - window[n + 2 - j]
            sign == dir * SIGN_ONLY(val)
        IN IF st.error * dir <= 0 THEN st
           ELSE [table |-> [st.table EXCEPT ![j] = @ - sign],
                 error |-> st.error
                             - ((val * sign) \div 2^quant) * (n + 1 - j)]
  IN FoldLeft(Step, [table |-> table, error |-> error],
              [i \in 1 .. n |-> n + 1 - i]).table

\* One sample of predictor_decompress_fir_adapt.
Predict ==
  LET table == coefs[channel]
      n == Len(table)
      quant == hdr.quant[channel]
      done == samples[channel]
      i == Len(done) + 1
      error == errors[channel][i]
      window == SubSeq(done, i - n - 1, i - 1)
      Term(sum, j) == sum + (window[n + 2 - j] - window[1]) * table[j]
      sum == FoldLeft(Term, 0, [j \in 1 .. n |-> j])
      value ==
        CASE n = 0 \/ i = 1 -> error
          [] n > 0 /\ i > 1 /\ (n = 31 \/ i <= n + 1) ->
               SIGN_EXTENDED32(done[i - 1] + error, hdr.size)
          [] n > 0 /\ n # 31 /\ i > n + 1 ->
               SIGN_EXTENDED32((2^(quant - 1) + sum) \div 2^quant
                                 + window[1] + error, hdr.size)
      general == n > 0 /\ n # 31 /\ i > n + 1
      last == i = hdr.num
  IN /\ pc = "predict"
     /\ samples' = [samples EXCEPT ![channel] = Append(@, value)]
     /\ coefs' = [coefs EXCEPT ![channel] =
          IF general THEN Adapted(window, table, error, quant) ELSE @]
     /\ Continue("predict", last)
     /\ UNCHANGED <<frame, input, pos, hdr, raw, history, signModifier,
                    errors, out, outputsize>>

\* Left and right of the i-th sample.
deinterlace_16(i) ==
  LET a == samples[1][i]  b == samples[2][i]
      right == a - ((b * hdr.weight) \div 2^hdr.shift)
  IN IF hdr.weight = 0 THEN <<a, b>> ELSE <<right + b, right>>

\* The same, with the bytes that were not compressed below.
deinterlace_24(i) ==
  LET pair == deinterlace_16(i)
      Whole(c) == pair[c] * 256^hdr.bytes + raw[2 * i - 2 + c]
  IN IF hdr.bytes = 0 THEN pair ELSE <<Whole(1), Whole(2)>>

\* A sample as it is stored: cut to its size.
StereoOutput ==
  LET Pair(i) == IF setinfo.sample_size = 16 THEN deinterlace_16(i)
                 ELSE deinterlace_24(i)
  IN /\ pc = "output" /\ hdr.stereo
     /\ out' = [i \in 1 .. 2 * hdr.num |->
          SIGN_EXTENDED32(Pair((i + 1) \div 2)[2 - (i % 2)],
                          setinfo.sample_size)]
     /\ pc' = "done"
     /\ UNCHANGED <<frame, input, pos, channel, hdr, coefs, raw, history,
                    signModifier, errors, samples, outputsize>>

MonoOutput ==
  LET Whole(i) == IF hdr.bytes = 0 THEN samples[1][i]
                  ELSE samples[1][i] * 256^hdr.bytes + raw[i]
  IN /\ pc = "output" /\ ~hdr.stereo
     /\ out' = [i \in 1 .. hdr.num |->
                  SIGN_EXTENDED32(Whole(i), setinfo.sample_size)]
     /\ pc' = "done"
     /\ UNCHANGED <<frame, input, pos, channel, hdr, coefs, raw, history,
                    signModifier, errors, samples, outputsize>>

Next ==
  \/ MonoHeader \/ StereoHeader \/ MonoCoefs \/ StereoCoefs
  \/ MonoRaw \/ StereoRaw
  \/ MonoPlain \/ StereoPlain \/ RiceDecode \/ Predict
  \/ StereoOutput \/ MonoOutput

Spec == Init /\ [][Next]_vars
-----------------------------------------------------------------------------
(* Properties.                                                             *)

\* The decoder gives back the samples the frame was made of, whatever the
\* predictor, the weights and the runs of zeros, and AlacDecoder commits just
\* the bytes they take (alac_create is told 16 bits and two channels).
Lossless ==
  pc = "done" =>
    /\ out = IF frame.stereo THEN InTurn(frame.left, frame.right)
             ELSE frame.left
    /\ frame.stereo /\ frame.size = 16 => outputsize = 2 * Len(out)

\* The two channels are read from one stream without a mark between them: at
\* the end of the frame its last byte, and none after it, has been reached.
AllBitsRead == pc = "done" => (pos + 7) \div 8 = Len(input)

\* A run of zeros is set with memset, unchecked: the runs of a well-formed
\* frame never reach past the samples of its channel, and the history is zero
\* only after a run (count_leading_zeros is undefined for zero).
RunsFit ==
  /\ \A c \in 1 .. 2 : Len(errors[c]) <= BufferSize
  /\ pc = "rice" /\ signModifier = 0 => history > 0
=============================================================================
