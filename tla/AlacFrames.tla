----------------------------- MODULE AlacFrames -----------------------------
(***************************************************************************)
(* Well-formed ALAC frames: what a sender puts on the wire for given       *)
(* samples.  This is the reference the decoder (Alac) is checked against,  *)
(* written from the format and not from the decoder: bits are numbers in a *)
(* sequence, samples are indexed from the first one of the frame.          *)
(***************************************************************************)
EXTENDS Integers, Sequences, SequencesExt

\* The fmtp attribute an AirPlay sender announces, for frames of so many
\* samples of so many bits, the parameters it codes with, and its modifier.
Fmtp(samples, size) ==
  <<96, samples, 0, size, 40, 10, 14, 2, 255, 0, 0, 44100>>

HistoryMult == 40
InitialHistory == 10
KModifier == 14
RiceModifier == 4

Bits(v, width) == [i \in 1 .. width |-> (v \div 2^(width - i)) % 2]

Floor2(x) == CHOOSE n \in 0 .. 29 : 2^n <= x /\ x < 2^(n + 1)
AtMost(a, b) == IF a < b THEN a ELSE b

\* Elias-like code of a count: q ones and a zero, then the rest in k bits, or
\* one bit less when there is none; nine ones announce the plain number.
CodeValue(x, k, size) ==
  LET d == 2^k - 1  q == x \div d  r == x % d
  IN IF q > 8 THEN [i \in 1 .. 9 |-> 1] \o Bits(x, size)
     ELSE [i \in 1 .. q + 1 |-> IF i <= q THEN 1 ELSE 0]
            \o (IF k = 1 THEN <<>>
                ELSE IF r = 0 THEN Bits(0, k - 1) ELSE Bits(r + 1, k))

\* Numbers alternate around zero: 0, -1, 1, -2, 2, ...
Fold(v) == IF v < 0 THEN -2 * v - 1 ELSE 2 * v

ZerosAfter(e, i) ==
  LET runs == {n \in 0 .. Len(e) - i : \A j \in 1 .. n : e[i + j] = 0}
  IN CHOOSE n \in runs : n + 1 \notin runs

\* Residuals from the i-th on, with a mean that adapts and runs of zeros.
RECURSIVE CodeResiduals(_, _, _, _, _)
CodeResiduals(e, i, mean, less, size) ==
  IF i > Len(e) THEN <<>>
  ELSE LET x == Fold(e[i])
           m == mean + x * HistoryMult - (mean * HistoryMult) \div 512
           k == AtMost(Floor2(mean \div 512 + 3), KModifier)
           zeros == ZerosAfter(e, i)
           first == CodeValue(x - less, k, size)
       IN IF m < 128 /\ i < Len(e)
          THEN first
                 \o CodeValue(zeros, 7 - Floor2(m) + (m + 16) \div 64, 16)
                 \o CodeResiduals(e, i + 1 + zeros, 0, 1, size)
          ELSE first \o CodeResiduals(e, i + 1, m, 0, size)

Sign(v) == IF v < 0 THEN -1 ELSE IF v > 0 THEN 1 ELSE 0
Abs(v) == IF v < 0 THEN -v ELSE v

\* The j-th coefficient after the residual r of sample i: each one moves
\* towards the sample it is for, until the residual is used up.
Moved(s, i, coefs, r, quant) ==
  LET n == Len(coefs)
      Gap(j) == s[i - n - 1] - s[i - j]
      used == [j \in 1 .. n + 1 |->
                 LET Weight(m) == (Abs(Gap(m)) \div 2^quant) * (n + 1 - m)
                     cost == [m \in j .. n |-> IF Sign(r) > 0 THEN Weight(m)
                                ELSE ((-Abs(Gap(m))) \div 2^quant)
                                       * (n + 1 - m) * (-1)]
                 IN FoldFunctionOnSet(LAMBDA a, b : a + b, 0, cost, j .. n)]
  IN [j \in 1 .. n |->
        IF Abs(r) > used[j + 1] /\ r # 0
        THEN coefs[j] - Sign(r) * Sign(Gap(j)) ELSE coefs[j]]

\* What remains of the samples after prediction, from the i-th on.
RECURSIVE Residuals(_, _, _, _)
Residuals(s, i, coefs, quant) ==
  LET n == Len(coefs)
      sum == FoldLeft(LAMBDA a, j : a + (s[i - j] - s[i - n - 1]) * coefs[j],
                      0, [j \in 1 .. n |-> j])
      r == s[i] - s[i - n - 1] - (sum + 2^(quant - 1)) \div 2^quant
  IN IF i > Len(s) THEN <<>>
     ELSE <<r>> \o Residuals(s, i + 1, Moved(s, i, coefs, r, quant), quant)

\* num = 0: the samples; num = 31: differences; else the predictor.
Remainder(s, num, coefs, quant) ==
  LET Difference(i) == IF i = 1 THEN s[1] ELSE s[i] - s[i - 1]
      warm == AtMost(num + 1, Len(s))
  IN IF num = 0 THEN s
     ELSE [i \in 1 .. warm |-> Difference(i)]
            \o (IF num = 31 THEN <<>> ELSE Residuals(s, num + 2, coefs, quant))

-----------------------------------------------------------------------------
(* A frame f: f.left and f.right are its samples, f.stereo, f.hassize,     *)
(* f.plain (not compressed), f.size (bits of a sample), f.raw (low bytes   *)
(* stored as they are), f.weight, f.num, f.coefs, f.quant.                 *)

Shift == 1

High(f, s) == [i \in 1 .. Len(s) |-> s[i] \div 256^f.raw]
Low(f, s) == [i \in 1 .. Len(s) |-> s[i] % 256^f.raw]

First(f) ==
  LET l == High(f, f.left)  r == High(f, f.right)
  IN IF f.stereo /\ f.weight # 0
     THEN [i \in 1 .. Len(l) |->
             r[i] + ((l[i] - r[i]) * f.weight) \div 2^Shift]
     ELSE l
Second(f) ==
  LET l == High(f, f.left)  r == High(f, f.right)
  IN IF f.weight # 0 THEN [i \in 1 .. Len(l) |-> l[i] - r[i]] ELSE r

Words(seq, width) ==
  FoldLeft(LAMBDA bits, v : bits \o Bits(v, width), <<>>, seq)

InTurn(a, b) ==
  [i \in 1 .. 2 * Len(a) |-> IF i % 2 = 1 THEN a[(i + 1) \div 2]
                                          ELSE b[i \div 2]]

Header(f) ==
  Bits(IF f.stereo THEN 1 ELSE 0, 3) \o Bits(0, 16)
    \o Bits(IF f.hassize THEN 1 ELSE 0, 1) \o Bits(f.raw, 2)
    \o Bits(IF f.plain THEN 1 ELSE 0, 1)
    \o (IF f.hassize THEN Bits(0, 16) \o Bits(Len(f.left), 16) ELSE <<>>)

ChannelHeader(f) ==
  Bits(0, 4) \o Bits(f.quant, 4) \o Bits(RiceModifier, 3) \o Bits(f.num, 5)
    \o Words(f.coefs, 16)

FrameBits(f) ==
  LET size == f.size - 8 * f.raw + (IF f.stereo THEN 1 ELSE 0)
      Coded(s) == CodeResiduals(Remainder(s, f.num, f.coefs, f.quant), 1,
                                InitialHistory, 0, size)
  IN Header(f) \o
     IF f.plain
     THEN Words(IF f.stereo THEN InTurn(f.left, f.right) ELSE f.left,
                f.size)
     ELSE Bits(Shift, 8) \o Bits(f.weight, 8)
            \o ChannelHeader(f)
            \o (IF f.stereo THEN ChannelHeader(f) ELSE <<>>)
            \o (IF f.raw = 0 THEN <<>>
                ELSE Words(IF f.stereo
                           THEN InTurn(Low(f, f.left), Low(f, f.right))
                           ELSE Low(f, f.left), 8 * f.raw))
            \o Coded(First(f))
            \o (IF f.stereo THEN Coded(Second(f)) ELSE <<>>)

\* The bytes of a frame, the last one filled up with zeros.
Bytes(bits) ==
  LET At(i) == IF i <= Len(bits) THEN bits[i] ELSE 0
      Pair(i) == 2 * At(i + 1) + At(i + 2)
  IN [b \in 1 .. (Len(bits) + 7) \div 8 |->
        LET i == 8 * (b - 1)
        IN 64 * Pair(i) + 16 * Pair(i + 2) + 4 * Pair(i + 4) + Pair(i + 6)]
=============================================================================
