---------------------------- MODULE StreamProofs ----------------------------
(***************************************************************************)
(* Proofs about AirplayStream, for any number of requests, packets and     *)
(* faults and any sizes of SBC frames.                                     *)
(*                                                                         *)
(* While no receive has cut a request, the text on the wire is the request *)
(* the client waits for, whole (Sent in Protocol): what the server reads   *)
(* of it is what the client has written (WholeSays), so the decrypter gets *)
(* the key of the session's ANNOUNCE (Keyed) and the answer its number.    *)
(* However requests are cut, between the key line of one and the IV line   *)
(* of another there is a medium (WireKeys), and attributes are read only   *)
(* up to the second medium.  What is in the air and in the RtpDecoder is   *)
(* numbered without a gap up to the session's next number (Playing), which *)
(* is why nothing is logged when numbers wrap or a session begins.         *)
(***************************************************************************)
EXTENDS AirplayStream, SequenceTheorems, WellFoundedInduction, TLAPS

(* The inductive invariant.                                                *)

Methods == {"OPTIONS", "ANNOUNCE", "SETUP", "TEARDOWN"}

\* What stands in a line.
Values ==
  {<<>>} \cup {<<n>> : n \in Nat} \cup {Fmtp(f) : f \in 1 .. 2}
  \cup {TextOf(Challenge, p) : p \in BOOLEAN}
  \cup {TextOf(Rsa(Key(a)), p) : a \in Nat, p \in BOOLEAN}
  \cup {TextOf(Iv(a), p) : a \in Nat, p \in BOOLEAN}

Lines ==
  [kind : {"request", "header", "words", "media", "attribute"},
   key : Methods \cup {"CSeq", "Apple-Challenge", "iTunes", "audio", "fmtp",
                       "rsaaeskey", "aesiv"},
   val : Values]

SessionPackets(a, f) ==
  {AirplayPacket(Key(a), Iv(a), a, f, seq) : seq \in 0 .. 2 ^ 16 - 1}

AirPackets ==
  (UNION {SessionPackets(a, 1) \cup SessionPackets(a, 2) :
            a \in 1 .. MaxRequests})
  \cup {AirplayPacket(<<0>>, <<0>>, 0, 1, 9)}

TypeOK ==
  /\ padded \in BOOLEAN /\ owed \in BOOLEAN /\ started \in BOOLEAN
  /\ alive \in BOOLEAN /\ cut \in BOOLEAN /\ disturbed \in BOOLEAN
  /\ wire \in Seq(Lines)
  /\ asked.n \in 0 .. MaxRequests /\ asked.method \in Methods \cup {"none"}
  /\ asked.missing \in BOOLEAN
  /\ session \in [announce : 0 .. MaxRequests, fmtp : 0 .. 2,
                  streams : BOOLEAN, seq : Nat]
  /\ session.announce <= asked.n
  /\ session.announce # 0 => session.fmtp # 0
  /\ reply.sent \in BOOLEAN
  /\ air \in Seq(AirPackets)
  /\ rtp \in [seq : Int, flushed : BOOLEAN]

\* A session of another chain.
NoSession ==
  chain # "airplay" =>
    /\ asked.n = 0 /\ wire = <<>> /\ ~owed /\ ~reply.sent /\ ~answer.sent
    /\ ~session.streams /\ air = <<>> /\ decr.key = <<>>
    /\ last.announce = 0 /\ ~last.warned

KeyLine(l) == l.kind = "attribute" /\ l.key = "rsaaeskey"
IvLine(l) == l.kind = "attribute" /\ l.key = "aesiv"

\* Between a key and an IV of different requests there is a medium.
Matched(text, i, j) ==
  /\ KeyLine(text[i]) /\ IvLine(text[j])
  /\ \A k \in 1 .. Len(text) :
       text[k].kind = "media" => ~(i < k /\ k < j) /\ ~(j < k /\ k < i)
  => \E a \in 1 .. MaxRequests : /\ text[i].val = TextOf(Rsa(Key(a)), padded)
                                 /\ text[j].val = TextOf(Iv(a), padded)

Matching(text) == \A i, j \in 1 .. Len(text) : Matched(text, i, j)

WireKeys == Matching(wire)

OneAnnounce ==
  padded /\ decr.key # <<>> =>
    \E a \in 1 .. MaxRequests : decr = [key |-> Key(a), iv |-> Iv(a)]

\* Where a request is: not sent, on its way, answered, or it has thrown.
Idle == ~owed /\ wire = <<>> /\ ~reply.sent /\ alive
Sent ==
  /\ owed /\ ~reply.sent /\ alive
  /\ wire = Text(asked.method, asked.n, session.announce, session.fmtp,
                 asked.missing, padded)
  /\ asked.method \in Methods
  /\ asked.method = "ANNOUNCE" => session.announce = asked.n
Answered == owed /\ wire = <<>> /\ reply.sent /\ alive
Thrown == owed /\ wire = <<>> /\ ~reply.sent /\ ~alive
          /\ (asked.missing \/ ~padded)

Answers(r) ==
  /\ r.cseq = <<asked.n>>
  /\ asked.method = "OPTIONS" /\ padded =>
       BytesOf(r.apple) =
         Rsa(Challenge \o Ip \o hwAddress \o [i \in 1 .. 21 |-> 0])

Protocol ==
  ~cut /\ chain = "airplay" =>
    /\ Idle \/ Sent \/ Answered \/ Thrown
    /\ reply.sent => Answers(reply)
    /\ answer.sent /\ ~owed => Answers(answer)

\* Before a session's SETUP is answered there is no packet of it.
NotYet ==
  /\ session.streams => ~owed /\ asked.method = "SETUP"
  /\ asked.method \in {"ANNOUNCE", "SETUP"} => session.announce # 0
  /\ asked.method = "ANNOUNCE" \/ (asked.method = "SETUP" /\ owed) =>
       /\ ~session.streams /\ last.announce # session.announce
       /\ \A i \in 1 .. Len(air) : air[i].announce # session.announce
  /\ last.announce \in 0 .. session.announce
  /\ \A i \in 1 .. Len(air) : air[i].announce <= session.announce

Running == session.streams \/ (Sent /\ asked.method = "TEARDOWN")

Playing ==
  ~cut /\ chain = "airplay" =>
    /\ started => Running \/ (Answered /\ asked.method = "SETUP")
    /\ ~disturbed =>
         /\ \A i \in 1 .. Len(air) :
              air[i].announce = session.announce =>
                air[i].head.seq = (session.seq - (Len(air) - i) - 1) % 2 ^ 16
         /\ ~rtp.flushed =>
              Running /\ rtp.seq = (session.seq - Len(air) - 1) % 2 ^ 16
    /\ last.warned => disturbed

\* Decrypter and decoder have what the session's ANNOUNCE said.
Keyed ==
  ~cut /\ padded /\ chain = "airplay" =>
    /\ /\ session.announce # 0 /\ alive
       /\ ~(Sent /\ asked.method = "ANNOUNCE")
       => /\ decr = [key |-> Key(session.announce),
                     iv |-> Iv(session.announce)]
          /\ codecData = QuicktimeAtom(Fmtp(session.fmtp))
    /\ opened # 0 => \E f \in 1 .. 2 :
                       /\ opened = Fmtp(f)[2]
                       /\ dec.open /\ dec.extradata = QuicktimeAtom(Fmtp(f))
    /\ /\ last.announce = session.announce /\ last.announce # 0
       /\ last.as = opened
       => last.out = "samples"

SbcConfs == {Conf("RawInt16", r) : r \in Nat} \cup {Invalid}

Decodes ==
  /\ sbcConf \in SbcConfs
  /\ chain = "airplay" => last.due = 0
  /\ DecodedIffValid

StreamInv ==
  /\ TypeOK /\ NoSession /\ WireKeys /\ OneAnnounce /\ Protocol /\ NotYet
  /\ Playing /\ Keyed /\ Decodes
-----------------------------------------------------------------------------
(* The chains of SBC, AC3 and Scream.                                      *)

\* Min is an element of a set of positions, and the least.
LEMMA MinIs == ASSUME NEW S \in SUBSET Nat, S # {}
               PROVE  Min(S) \in S /\ \A y \in S : Min(S) <= y
<1> DEFINE R == OpToRel(<, Nat)
<1>1. IsWellFoundedOn(R, Nat)
  BY NatLessThanWellFounded
<1>2. \A y, x \in Nat : y < x => <<y, x>> \in R
  BY DEF OpToRel
<1> HIDE DEF R
<1>3. PICK x \in S : \A y \in S : ~(<<y, x>> \in R)
  BY <1>1, WFMin
<1>4. \A y \in S : ~(y < x)
  BY <1>2, <1>3, Zenon
<1>5. \A y \in S : x <= y
  BY <1>4
<1>6. QED
  BY <1>5 DEF Min

ScreamHeaders ==
  [rateMultiplier : Nat, sampleSize : Nat, channelCount : Nat]

Datagrams ==
  [head : [csrc : 0 .. 1, ext : 0 .. 2, pt : {95, 96}, marker : BOOLEAN,
           seq : {0}],
   sbc : [frames : Seq(BOOLEAN),
          frag : SUBSET {"fragmented", "first", "last"}],
   rate : {16000, 44100, 48000}, size : Nat,
   scream : ScreamHeaders \cup {<<>>}]

Header(p) == 12 + 4 * p.head.csrc + 4 * p.head.ext

\* The decoder's header length falls short by the content of an extension of
\* two words, and by nothing else.
LEMMA HeaderSizes ==
  ASSUME NEW p \in Datagrams
  PROVE  /\ PayloadAt(p) = Header(p) /\ Header(p) \in 12 .. 24
         /\ HeaderSize(p) \in 12 .. Header(p)
         /\ p.head.ext < 2 => HeaderSize(p) = Header(p)
         /\ p.head.ext = 2 => HeaderSize(p) = Header(p) - 4
<1>1. p.head.csrc \in {0, 1} /\ p.head.ext \in {0, 1, 2}
  BY DEF Datagrams
<1>2. CASE p.head.ext = 0
  BY <1>1, <1>2 DEF PayloadAt, Header, HeaderSize
<1>3. CASE p.head.ext # 0
  BY <1>1, <1>3 DEF PayloadAt, Header, HeaderSize
<1>4. QED
  BY <1>2, <1>3

\* trimFront on a fresh datagram.
LEMMA TrimDatagram ==
  ASSUME NEW p, p.size \in Nat, NEW n \in Nat, n <= p.size
  PROVE  trimFront(Datagram(p), n) =
           [pkt |-> p, at |-> n, size |-> p.size - n, form |-> "packet",
            n |-> 0, conf |-> Conf("Unknown", 0)]
<1>1. 0 + n = n /\ ~(n > p.size)
  OBVIOUS
<1>2. trimFront(Datagram(p), n) =
        [Datagram(p) EXCEPT !.at = @ + n, !.size = @ - n]
  BY <1>1 DEF trimFront, Datagram
<1>3. QED
  BY <1>1, <1>2 DEF Datagram

\* The payload of a whole SBC packet, without its header, or a buffer that
\* begins elsewhere.
SbcWhole(p) ==
  /\ p.size >= 12 /\ p.head.pt >= 96 /\ ~p.head.marker
  /\ p.sbc.frag = {} /\ p.sbc.frames # <<>>

\* RtpSbc leaves the frames exactly if the packet is whole.
LEMMA RtpSbcLeaves ==
  ASSUME NEW p \in Datagrams,
         p.size = 8 \/ p.size = Header(p) + 1 + SbcFrame * Len(p.sbc.frames)
  PROVE  LET r == RtpSbc(Datagram(p)) IN
         /\ r.pkt = p /\ r.size \in Nat /\ r.at \in Nat
         /\ DOMAIN r = DOMAIN Datagram(p)
         /\ r.at = PayloadAt(p) + 1 <=> SbcWhole(p) /\ p.head.ext < 2
         /\ r.at = PayloadAt(p) + 1 => r.size = SbcFrame * Len(p.sbc.frames)
<1> DEFINE b == Datagram(p)
           r == RtpSbc(b)
           h == HeaderSize(p)
<1>1. /\ PayloadAt(p) = Header(p) /\ Header(p) \in 12 .. 24
      /\ h \in 12 .. Header(p)
      /\ p.head.ext < 2 => h = Header(p)
      /\ p.head.ext = 2 => h = Header(p) - 4
  BY HeaderSizes
<1> HIDE DEF h
<1>2. /\ p.head.ext \in 0 .. 2 /\ p.sbc.frames \in Seq(BOOLEAN)
      /\ p.size \in Nat /\ p.head.pt \in Nat
  BY DEF Datagrams
<1> DEFINE x == SbcFrame * Len(p.sbc.frames)
<1>3. x \in Nat
  BY <1>2, SbcAssumption
<1> HIDE DEF x
<1>4. /\ b.pkt = p /\ b.at = 0 /\ b.size = p.size
  BY DEF Datagram
<1>5. CASE p.size < 12 \/ p.head.pt < 96
  <2>1. r = [clear(b) EXCEPT !.conf = Invalid]
    BY <1>4, <1>5 DEF RtpSbc, RtpRefuses
  <2>2. r.pkt = p /\ r.size = 0 /\ r.at = 0 /\ DOMAIN r = DOMAIN Datagram(p)
    BY <2>1 DEF Datagram, clear
  <2>3. r.size \in Nat /\ r.at \in Nat /\ r.at # PayloadAt(p) + 1
    BY <1>1, <2>2
  <2>4. ~SbcWhole(p)
    BY <1>2, <1>5 DEF SbcWhole
  <2>5. QED
    BY <2>2, <2>3, <2>4, Zenon
<1>6. CASE ~(p.size < 12 \/ p.head.pt < 96) /\ ~SbcWhole(p)
  <2>1. r = [b EXCEPT !.conf = Invalid]
    BY <1>4, <1>6 DEF RtpSbc, RtpRefuses, isValidSbc, SbcHeaderIsValid,
                      SbcWhole, Datagrams
  <2>2. r.pkt = p /\ r.size = p.size /\ r.at = 0
        /\ DOMAIN r = DOMAIN Datagram(p)
    BY <2>1 DEF Datagram
  <2>3. r.size \in Nat /\ r.at \in Nat /\ r.at # PayloadAt(p) + 1
    BY <1>1, <1>2, <2>2
  <2>4. QED
    BY <1>6, <2>2, <2>3, Zenon
<1>7. CASE SbcWhole(p)
  <2>1. /\ ~(p.size < 12 \/ p.head.pt < 96) /\ isValidSbc(p)
        /\ SbcHeaderIsValid(p) /\ "fragmented" \notin p.sbc.frag
    BY <1>7 DEF SbcWhole, isValidSbc, SbcHeaderIsValid, Datagrams
  <2>2. p.size = Header(p) + 1 + x
    BY <2>1 DEF x
  <2>3. ~(p.size < h + 1)
    BY <1>1, <1>3, <2>2
  <2>4. r = [trimFront(b, h + 1) EXCEPT !.conf = Conf("Sbc", 0)]
    BY <1>4, <2>1, <2>3 DEF RtpSbc, RtpRefuses, h
  <2>5. trimFront(b, h + 1) =
          [pkt |-> p, at |-> h + 1, size |-> p.size - (h + 1),
           form |-> "packet", n |-> 0, conf |-> Conf("Unknown", 0)]
    <3>1. h + 1 \in Nat /\ h + 1 <= p.size
      BY <1>1, <1>2, <2>3
    <3>2. QED
      BY <1>2, <3>1, TrimDatagram
  <2>6. /\ r.pkt = p /\ r.size = p.size - (h + 1) /\ r.at = h + 1
        /\ DOMAIN r = DOMAIN Datagram(p)
    BY <2>4, <2>5 DEF Datagram
  <2>7. r.size \in Nat /\ r.at \in Nat
    BY <1>1, <1>2, <2>3, <2>6
  <2>8. CASE p.head.ext < 2
    <3>1. r.at = PayloadAt(p) + 1 /\ r.size = x
      BY <1>1, <1>3, <2>2, <2>6, <2>8
    <3>2. QED
      BY <1>7, <2>6, <2>7, <2>8, <3>1 DEF x
  <2>9. CASE p.head.ext = 2
    BY <1>1, <1>7, <2>6, <2>7, <2>9
  <2>10. QED
    BY <1>2, <2>8, <2>9
<1>8. QED
  BY <1>5, <1>6, <1>7 DEF SbcWhole, Datagrams

\* Decoding stops at the first damaged frame.
LEMMA GoodFramesAre ==
  ASSUME NEW r, r.pkt \in Datagrams, r.at = PayloadAt(r.pkt) + 1
  PROVE  LET f == r.pkt.sbc.frames IN
         /\ GoodFrames(r) \in 0 .. Len(f)
         /\ (\A i \in DOMAIN f : f[i]) => GoodFrames(r) = Len(f)
         /\ (\E i \in DOMAIN f : ~f[i]) => GoodFrames(r) < Len(f)
<1> DEFINE f == r.pkt.sbc.frames
           bad == {i \in DOMAIN f : ~f[i]}
<1>1. f \in Seq(BOOLEAN)
  BY DEF Datagrams
<1>2. DOMAIN f = 1 .. Len(f) /\ Len(f) \in Nat
  BY <1>1
<1>3. GoodFrames(r) = IF bad = {} THEN Len(f) ELSE Min(bad) - 1
  BY DEF GoodFrames
<1>4. CASE bad = {}
  BY <1>2, <1>3, <1>4
<1>5. CASE bad # {}
  <2>1. bad \in SUBSET Nat
    BY <1>2
  <2>2. Min(bad) \in bad
    BY <1>5, <2>1, MinIs
  <2>3. Min(bad) \in 1 .. Len(f) /\ GoodFrames(r) = Min(bad) - 1
    BY <1>2, <1>3, <1>5, <2>2
  <2>4. QED
    BY <1>2, <1>5, <2>3
<1>6. QED
  BY <1>4, <1>5

\* What DecodedIffValid says of the last datagram.
Meets(l) ==
  /\ l.due > 0 => /\ l.out = "samples" /\ l.size = l.due
                  /\ l.conf.rate = (IF l.as = 16000 THEN 0 ELSE l.as)
  /\ l.due = 0 => l.out = "none"
  /\ l.out # "packet"

\* The fields of what a sink gets.
LEMMA SunkHas ==
  ASSUME NEW c, NEW p
  PROVE  LET l == Sunk(c, p) IN
         /\ l.due = Due(p) /\ l.as = p.rate /\ l.size = c.size
         /\ l.conf = c.conf
         /\ c.size = 0 => l.out = "none"
         /\ c.size # 0 => l.out = c.form
         /\ l.announce = 0 /\ l.warned = FALSE
  BY DEF Sunk, AtSink, NoPacket

Fields == {"pkt", "at", "size", "form", "n", "conf"}

\* The converter keeps all but size and codec.
LEMMA Converts ==
  ASSUME NEW d, DOMAIN d = Fields, NEW codec, NEW rate,
         d.conf = Conf(codec, rate)
  PROVE  /\ ToFloat(d).size = d.size * 2 /\ ToFloat(d).form = d.form
         /\ ToFloat(d).conf.rate = rate
         /\ ToInt16(d).size = d.size \div 2 /\ ToInt16(d).form = d.form
         /\ ToInt16(d).conf.rate = rate
<1>1. /\ [d.conf EXCEPT !.codec = "RawFloat32"].rate = rate
      /\ [d.conf EXCEPT !.codec = "RawInt16"].rate = rate
  BY DEF Conf
<1>2. ToFloat(d) = [d EXCEPT !.size = @ * 2,
                             !.conf = [d.conf EXCEPT !.codec = "RawFloat32"]]
  BY DEF ToFloat
<1>3. ToInt16(d) = [d EXCEPT !.size = @ \div 2,
                             !.conf = [d.conf EXCEPT !.codec = "RawInt16"]]
  BY DEF ToInt16
<1>4. QED
  BY <1>1, <1>2, <1>3 DEF Fields

\* A cleared buffer keeps its fields.
LEMMA Clears ==
  ASSUME NEW d, DOMAIN d = Fields, NEW conf
  PROVE  LET c == [clear(d) EXCEPT !.conf = conf] IN
         /\ DOMAIN c = Fields /\ c.pkt = d.pkt /\ c.at = d.at
         /\ c.size = 0 /\ c.conf = conf
  BY DEF clear, Fields

\* The fields of a fresh datagram.
LEMMA DatagramHas ==
  ASSUME NEW p
  PROVE  LET b == Datagram(p) IN
         /\ DOMAIN b = Fields /\ b.pkt = p /\ b.at = 0 /\ b.size = p.size
         /\ b.form = "packet"
  BY DEF Datagram, Fields

\* SBC's chain.
LEMMA SbcMeets ==
  ASSUME NEW p \in Datagrams, chain = "sbc", sbcConf \in SbcConfs,
         p.size = 8 \/ p.size = Header(p) + 1 + SbcFrame * Len(p.sbc.frames)
  PROVE  LET r == RtpSbc(Datagram(p))
             d == SbcDecode(r)
         IN /\ SbcConf(r) \in SbcConfs
            /\ Meets(Sunk(ToFloat(d), p))
            /\ Divides(d) => Due(p) = -1 /\ SbcConf(r) = Invalid
<1> DEFINE r == RtpSbc(Datagram(p))
           d == SbcDecode(r)
           g == GoodFrames(r)
           f == p.sbc.frames
           w == SbcWhole(p) /\ p.head.ext < 2
           m == Min({SbcSamples, r.size})
           l == Sunk(ToFloat(d), p)
<1>1. /\ r.pkt = p /\ r.size \in Nat /\ r.at \in Nat
      /\ DOMAIN r = DOMAIN Datagram(p)
      /\ r.at = PayloadAt(p) + 1 <=> w
      /\ r.at = PayloadAt(p) + 1 => r.size = SbcFrame * Len(f)
  BY RtpSbcLeaves
<1>2. f \in Seq(BOOLEAN) /\ Len(f) \in Nat /\ (f # <<>> => Len(f) > 0)
      /\ p.size \in Nat /\ p.head.pt \in Nat /\ p.head.ext \in Nat
  BY DEF Datagrams
<1>3. /\ m \in Nat
      /\ r.size >= SbcSamples => m = SbcSamples
  <2>1. {SbcSamples, r.size} \in SUBSET Nat
    BY <1>1, SbcAssumption
  <2>2. /\ m \in {SbcSamples, r.size}
        /\ \A y \in {SbcSamples, r.size} : m <= y
    BY <2>1, MinIs
  <2>3. QED
    BY <2>1, <2>2
<1> HIDE DEF r, m
<1>4. /\ d.size = g * m /\ d.form = "samples" /\ d.conf = SbcConf(r)
  BY <1>1 DEF SbcDecode, Datagram, m
<1>5. SbcConf(r) \in SbcConfs /\ SbcConf(r).rate \in Nat
  BY <1>1 DEF SbcConf, SbcConfs, Conf, Invalid, toCoroFrequency, Datagrams
<1>6. /\ ToFloat(d).size = g * m * 2 /\ ToFloat(d).form = "samples"
      /\ ToFloat(d).conf.rate = SbcConf(r).rate
  <2>1. PICK codec, rate : SbcConf(r) = Conf(codec, rate)
    BY <1>5 DEF SbcConfs, Invalid
  <2>2. SbcConf(r).rate = rate
    BY <2>1 DEF Conf
  <2>3. DOMAIN d = Fields
    BY <1>1, DatagramHas DEF SbcDecode
  <2>4. QED
    BY <1>4, <2>1, <2>2, <2>3, Converts
<1>7. g \in Nat /\ (~w => g = 0)
  <2>1. CASE w
    <3>1. g \in 0 .. Len(f)
      BY <1>1, <2>1, GoodFramesAre
    <3>2. QED
      BY <1>2, <2>1, <3>1
  <2>2. CASE ~w
    BY <1>1, <2>2 DEF GoodFrames
  <2>3. QED
    BY <2>1, <2>2
<1>8. l.due = Due(p) /\ l.as = p.rate /\ l.size = g * m * 2
      /\ l.out = (IF g * m * 2 = 0 THEN "none" ELSE "samples")
      /\ l.conf.rate = SbcConf(r).rate
  BY <1>6, SunkHas
<1> HIDE DEF d, l
<1>9. CASE ~w
  <2>1. g * m = 0
    BY <1>3, <1>7, <1>9
  <2>2. Due(p) = 0
    BY <1>2, <1>9 DEF Due, SbcWhole
  <2>3. Meets(l)
    BY <1>8, <2>1, <2>2 DEF Meets
  <2>4. ~Divides(d)
    BY <1>4, <2>1 DEF Divides
  <2>5. QED
    BY <1>5, <2>3, <2>4 DEF l, d, r
<1>10. CASE w
  <2>1. /\ g \in 0 .. Len(f)
        /\ (\A i \in DOMAIN f : f[i]) => g = Len(f)
        /\ (\E i \in DOMAIN f : ~f[i]) => g < Len(f)
    BY <1>1, <1>10, GoodFramesAre
  <2>2. r.size = SbcFrame * Len(f) /\ Len(f) > 0
    BY <1>1, <1>2, <1>10 DEF SbcWhole
  <2>3. Due(p) = IF \/ \E i \in DOMAIN f : ~f[i]
                    \/ SbcFrame * Len(f) < SbcSamples THEN -1
                 ELSE 2 * SbcSamples * Len(f)
    BY <1>2, <1>10 DEF Due, SbcWhole
  <2>4. CASE (\E i \in DOMAIN f : ~f[i]) \/ SbcFrame * Len(f) < SbcSamples
    <3>1. Due(p) = -1
      BY <2>3, <2>4
    <3>2. Meets(l)
      BY <1>8, <3>1 DEF Meets
    <3>3. Divides(d) => SbcConf(r) = Invalid
      BY <1>4, <1>5 DEF Divides, SampleSize, SbcConfs, Conf
    <3>4. QED
      BY <1>5, <3>1, <3>2, <3>3 DEF l, d, r
  <2>5. CASE ~(\E i \in DOMAIN f : ~f[i]) /\ ~(SbcFrame * Len(f) < SbcSamples)
    <3>1. g = Len(f) /\ m = SbcSamples
      BY <1>1, <1>3, <2>1, <2>2, <2>5, SbcAssumption
    <3>2. Due(p) = g * m * 2
      BY <1>2, <2>3, <2>5, <3>1, SbcAssumption
    <3>3. SbcConf(r) = Conf("RawInt16", toCoroFrequency(p.rate))
      BY <1>1, <1>2, <2>2, <3>1 DEF SbcConf, AllGood
    <3>4. SbcConf(r).rate = IF p.rate = 16000 THEN 0 ELSE p.rate
      BY <3>3 DEF Conf, toCoroFrequency, Datagrams
    <3>5. Meets(l)
      BY <1>8, <3>2, <3>4 DEF Meets
    <3>6. ~Divides(d)
      BY <1>4, <3>3 DEF Divides, SampleSize, Conf
    <3>7. QED
      BY <1>5, <3>5, <3>6 DEF l, d, r
  <2>6. QED
    BY <2>4, <2>5
<1>11. QED
  BY <1>9, <1>10

\* AC3's chain.
LEMMA Ac3Meets ==
  ASSUME NEW p \in Datagrams, chain = "ac3", p.rate \in {44100, 48000},
         p.size = 8 \/ p.size = Header(p) + 64,
         NEW d \in FfmpegAc3(RtpAc3(Datagram(p)))
  PROVE  Meets(Sunk(ToInt16(d), p))
<1> DEFINE b == Datagram(p)
           r == RtpAc3(b)
           h == HeaderSize(p)
           w == p.size >= 12 /\ p.head.pt >= 96 /\ p.head.marker
                /\ p.sbc.frag = {}
           l == Sunk(ToInt16(d), p)
<1>1. /\ PayloadAt(p) = Header(p) /\ Header(p) \in 12 .. 24
      /\ h \in 12 .. Header(p)
      /\ p.head.ext < 2 => h = Header(p)
      /\ p.head.ext = 2 => h = Header(p) - 4
  BY HeaderSizes
<1>2. /\ p.head.ext \in 0 .. 2 /\ p.size \in Nat /\ p.head.pt \in Nat
  BY DEF Datagrams
<1>3. b.pkt = p /\ b.size = p.size /\ b.at = 0 /\ DOMAIN b = Fields
  BY DatagramHas
<1>4. Due(p) = IF w /\ p.head.ext < 2 THEN 2 ELSE 0
  BY DEF Due
<1>5. r.pkt = p /\ DOMAIN r = Fields
      /\ (r.at = PayloadAt(p) + 2 <=> w /\ p.head.ext < 2)
  <2>1. CASE ~w
    <3>1. r = [clear(b) EXCEPT !.conf = Invalid]
      BY <1>2, <1>3, <2>1 DEF RtpAc3, RtpRefuses
    <3>2. r.pkt = p /\ r.at = 0 /\ DOMAIN r = Fields
      BY <1>3, <3>1, Clears
    <3>3. QED
      BY <1>1, <2>1, <3>2
  <2>2. CASE w
    <3>1. h + 2 \in Nat /\ h + 2 <= p.size /\ ~(p.size < h + 2)
      BY <1>1, <1>2, <2>2
    <3>2. r = [trimFront(b, h + 2) EXCEPT !.conf = Conf("Ac3", 0)]
      BY <1>2, <1>3, <2>2, <3>1 DEF RtpAc3, RtpRefuses
    <3>3. trimFront(b, h + 2) =
            [pkt |-> p, at |-> h + 2, size |-> p.size - (h + 2),
             form |-> "packet", n |-> 0, conf |-> Conf("Unknown", 0)]
      BY <1>2, <3>1, TrimDatagram
    <3>4. r.pkt = p /\ r.at = h + 2 /\ DOMAIN r = Fields
      BY <3>2, <3>3 DEF Fields
    <3>5. QED
      BY <1>1, <1>2, <2>2, <3>4
  <2>3. QED
    BY <2>1, <2>2
<1>6. /\ l.due = Due(p) /\ l.as = p.rate /\ l.size = ToInt16(d).size
      /\ l.conf = ToInt16(d).conf
      /\ ToInt16(d).size = 0 => l.out = "none"
      /\ ToInt16(d).size # 0 => l.out = ToInt16(d).form
  BY DEF Sunk, AtSink, NoPacket
<1> HIDE DEF r, w, b, l
<1>7. CASE w /\ p.head.ext < 2
  <2>1. d = Decoded(r, "samples", "RawFloat32")
    BY <1>5, <1>7 DEF FfmpegAc3, r, b, w
  <2>2. d.size = 4 /\ d.form = "samples" /\ DOMAIN d = Fields
        /\ d.conf = Conf("RawFloat32", p.rate)
    BY <1>5, <2>1 DEF Decoded, Fields
  <2>3. 4 \div 2 = 2
    OBVIOUS
  <2>4. ToInt16(d).size = 2 /\ ToInt16(d).form = "samples"
        /\ ToInt16(d).conf.rate = p.rate
    BY <2>2, <2>3, Converts
  <2>5. Due(p) = 2
    BY <1>4, <1>7
  <2>6. l.due = 2 /\ l.out = "samples" /\ l.size = 2
        /\ l.conf.rate = p.rate /\ l.as = p.rate
    BY <1>6, <2>4, <2>5
  <2>7. Meets(l)
    BY <2>6 DEF Meets
  <2>8. QED
    BY <2>7 DEF l
<1>8. CASE ~(w /\ p.head.ext < 2)
  <2>1. d = clear(r)
    BY <1>5, <1>8 DEF FfmpegAc3, r, b, w
  <2>2. d.size = 0
    BY <1>5, <2>1 DEF clear, Fields
  <2>3. 0 \div 2 = 0
    OBVIOUS
  <2>4. "size" \in DOMAIN d
    BY <1>5, <2>1 DEF clear, Fields
  <2>5. ToInt16(d).size = 0
    BY <2>2, <2>3, <2>4 DEF ToInt16
  <2>6. Due(p) = 0
    BY <1>4, <1>8
  <2>7. l.due = 0 /\ l.out = "none"
    BY <1>6, <2>5, <2>6
  <2>8. Meets(l)
    BY <2>7 DEF Meets
  <2>9. QED
    BY <2>8 DEF l
<1>9. QED
  BY <1>7, <1>8

\* Scream's chain.
LEMMA ScreamMeets ==
  ASSUME NEW p \in Datagrams, chain = "scream", p.rate \in {44100, 48000},
         p.scream \in ScreamHeaders
  PROVE  Meets(Sunk(ToFloat(Scream(Datagram(p))), p))
<1> DEFINE b == Datagram(p)
           d == Scream(b)
           l == Sunk(ToFloat(d), p)
           w == p.size = 1157 /\ ScreamIsValid(p.scream)
<1>1. p.size \in Nat /\ b.size = p.size /\ b.pkt = p /\ DOMAIN b = Fields
  BY DatagramHas DEF Datagrams
<1>2. ScreamIsValid(p.scream) <=> p.scream = ScreamHeader(1, 16, 2)
  BY DEF ScreamHeaders, ScreamIsValid, ScreamHeader
<1>3. Due(p) = IF w THEN 2304 ELSE 0
  BY <1>2 DEF Due
<1>4. /\ l.due = Due(p) /\ l.as = p.rate /\ l.size = ToFloat(d).size
      /\ l.conf = ToFloat(d).conf
      /\ ToFloat(d).size = 0 => l.out = "none"
      /\ ToFloat(d).size # 0 => l.out = ToFloat(d).form
  BY DEF Sunk, AtSink, NoPacket
<1> HIDE DEF l
<1>5. CASE w
  <2>1. trimFront(b, 5) =
          [pkt |-> p, at |-> 5, size |-> p.size - 5,
           form |-> "packet", n |-> 0, conf |-> Conf("Unknown", 0)]
    BY <1>1, <1>5, TrimDatagram
  <2>2. d = [trimFront(b, 5) EXCEPT !.form = "samples", !.n = 1,
                                    !.conf = Conf("RawInt16", p.rate)]
    BY <1>1, <1>5 DEF Scream
  <2>3. p.size - 5 = 1152 /\ 1152 * 2 = 2304
    BY <1>5
  <2>4. d.size = 1152 /\ d.form = "samples" /\ DOMAIN d = Fields
        /\ d.conf = Conf("RawInt16", p.rate)
    BY <2>1, <2>2, <2>3 DEF Fields
  <2> HIDE DEF d
  <2>5. ToFloat(d).size = 2304 /\ ToFloat(d).form = "samples"
        /\ ToFloat(d).conf.rate = p.rate
    BY <2>3, <2>4, Converts
  <2>6. Due(p) = 2304
    BY <1>3, <1>5
  <2>7. l.due = 2304 /\ l.out = "samples" /\ l.size = 2304
        /\ l.conf.rate = p.rate /\ l.as = p.rate
    BY <1>4, <2>5, <2>6
  <2>8. Meets(l)
    BY <2>7 DEF Meets
  <2>9. QED
    BY <2>8 DEF d, l
<1>6. CASE ~w
  <2>1. d = [clear(b) EXCEPT !.conf = Invalid]
    BY <1>1, <1>6 DEF Scream
  <2>2. d.size = 0 /\ DOMAIN d = Fields /\ d.conf = Conf("Invalid", 0)
    BY <1>1, <2>1, Clears DEF Invalid
  <2> HIDE DEF d
  <2>3. ToFloat(d).size = 0
    BY <2>2, Converts
  <2>4. Due(p) = 0
    BY <1>3, <1>6
  <2>5. l.due = 0 /\ l.out = "none"
    BY <1>4, <2>3, <2>4
  <2>6. Meets(l)
    BY <2>5 DEF Meets
  <2>7. QED
    BY <2>6 DEF d, l
<1>7. QED
  BY <1>5, <1>6

\* What lies in the datagrams of each chain.
LEMMA PayloadHas ==
  ASSUME NEW v \in Payload(chain), chain \in {"sbc", "ac3", "scream"}
  PROVE  /\ v.frames \in Seq(BOOLEAN) /\ v.marker \in BOOLEAN
         /\ v.frag \in SUBSET {"fragmented", "first", "last"}
         /\ v.scream \in ScreamHeaders \cup {<<>>} /\ v.len \in Nat
         /\ chain = "sbc" => v.len = 1
         /\ chain = "ac3" => v.len = 64 /\ v.frames = <<>>
         /\ chain = "scream" => v.scream \in ScreamHeaders /\ v.frames = <<>>
<1>1. CASE chain = "sbc"
  <2>1. /\ v.frames \in {<<>>, <<TRUE, TRUE>>} \cup [1 .. 5 -> BOOLEAN]
        /\ v.marker \in BOOLEAN /\ v.len = 1 /\ v.scream = <<>>
        /\ v.frag \in {{}, {"first"}, {"fragmented", "last"},
                      {"fragmented", "first", "last"}}
    <3> DEFINE F == {<<>>, <<TRUE, TRUE>>} \cup [1 .. 5 -> BOOLEAN]
               G == {{}, {"first"}, {"fragmented", "last"},
                     {"fragmented", "first", "last"}}
    <3>1. Payload(chain) = [frames : F, marker : BOOLEAN, len : {1},
                            scream : {<<>>}, frag : G]
      BY <1>1, Zenon DEF Payload, SbcPayload
    <3> HIDE DEF F, G
    <3>2. /\ v.frames \in F /\ v.marker \in BOOLEAN /\ v.len = 1
          /\ v.scream = <<>> /\ v.frag \in G
      BY <3>1
    <3>3. QED
      BY <3>2 DEF F, G
  <2>2. v.frames \in Seq(BOOLEAN)
    <3>1. CASE v.frames \in [1 .. 5 -> BOOLEAN]
      BY <3>1, SeqDef
    <3>2. <<>> \in Seq(BOOLEAN) /\ <<TRUE, TRUE>> \in Seq(BOOLEAN)
      OBVIOUS
    <3>3. QED
      BY <2>1, <3>1, <3>2
  <2>3. v.frag \in SUBSET {"fragmented", "first", "last"}
    BY <2>1
  <2>4. QED
    BY <1>1, <2>1, <2>2, <2>3
<1>2. CASE chain = "ac3"
  <2>1. /\ v.frames = <<>> /\ v.marker \in BOOLEAN /\ v.len = 64
        /\ v.scream = <<>> /\ v.frag \in {{}, {"fragmented"}}
    BY <1>2 DEF Payload, Ac3Payload
  <2>2. /\ <<>> \in Seq(BOOLEAN)
        /\ v.frag \in SUBSET {"fragmented", "first", "last"}
    BY <2>1
  <2>3. QED
    BY <1>2, <2>1, <2>2
<1>3. CASE chain = "scream"
  <2>1. /\ v.frames = <<>> /\ v.marker \in BOOLEAN /\ v.len \in Nat
        /\ v.frag = {}
        /\ v.scream \in [rateMultiplier : {1, 2}, sampleSize : {16, 24},
                         channelCount : {2, 6}]
    <3> DEFINE H == [rateMultiplier : {1, 2}, sampleSize : {16, 24},
                     channelCount : {2, 6}]
               M == {FALSE}
               L == {5, 1152}
    <3>1. ScreamPayload = [frames : {<<>>}, marker : M, len : L, frag : {{}},
                           scream : H]
      BY DEF ScreamPayload
    <3>2. M \subseteq BOOLEAN /\ L \subseteq Nat
      OBVIOUS
    <3> HIDE DEF H, M, L
    <3>3. Payload(chain) = ScreamPayload
      BY <1>3 DEF Payload
    <3>4. v \in [frames : {<<>>}, marker : M, len : L, frag : {{}},
                scream : H]
      BY <3>1, <3>3, Zenon
    <3>5. /\ v.frames = <<>> /\ v.marker \in M /\ v.len \in L
          /\ v.scream \in H /\ v.frag = {}
      BY <3>4
    <3>6. QED
      BY <3>2, <3>5 DEF H
  <2>2. v.scream \in ScreamHeaders
    BY <2>1 DEF ScreamHeaders
  <2>3. /\ <<>> \in Seq(BOOLEAN)
        /\ {} \in SUBSET {"fragmented", "first", "last"}
    OBVIOUS
  <2>4. QED
    BY <1>3, <2>1, <2>2, <2>3
<1>4. QED
  BY <1>1, <1>2, <1>3

\* The main loop ends only by a division.
LEMMA DividesEnds == ASSUME NEW d, alive' = ~Divides(d)
                     PROVE  ~alive' => Divides(d)
  BY Zenon

\* A datagram of the other chains leaves a sink what DecodedIffValid says.
LEMMA DatagramDecodes ==
  ASSUME StreamInv, OnDatagram
  PROVE  Decodes'
<1>1. alive /\ sbcConf \in SbcConfs /\ chain' = chain
  BY DEF OnDatagram, StreamInv, Decodes
<1>2. PICK v \in Payload(chain), csrc \in 0 .. 1, ext \in 0 .. 2,
           pt \in {95, 96}, rate \in {16000, 44100, 48000},
           short \in BOOLEAN :
        /\ rate = 16000 => chain = "sbc"
        /\ PushDatagram(Received(v, csrc, ext, pt, rate, short))
  BY SMT DEF OnDatagram
<1> DEFINE head == IF chain = "scream" THEN 5 ELSE 12 + 4 * csrc + 4 * ext
           size == IF short THEN 8
                   ELSE head + v.len + SbcFrame * Len(v.frames)
           p == Received(v, csrc, ext, pt, rate, short)
<1>3. PushDatagram(p) /\ (rate = 16000 => chain = "sbc")
  BY <1>2
<1>4. chain \in {"sbc", "ac3", "scream"}
  BY <1>3 DEF PushDatagram
<1>5. /\ v.frames \in Seq(BOOLEAN) /\ v.marker \in BOOLEAN
      /\ v.frag \in SUBSET {"fragmented", "first", "last"}
      /\ v.scream \in ScreamHeaders \cup {<<>>} /\ v.len \in Nat
      /\ chain = "sbc" => v.len = 1
      /\ chain = "ac3" => v.len = 64 /\ v.frames = <<>>
      /\ chain = "scream" => v.scream \in ScreamHeaders /\ v.frames = <<>>
  BY <1>4, PayloadHas
<1>6. SbcFrame * Len(v.frames) \in Nat
  BY <1>5, SbcAssumption
<1>7. size \in Nat
  BY <1>5, <1>6
<1>8. p = [head |-> RtpHeader(csrc, ext, pt, v.marker, 0),
           sbc |-> RtpSbcHeader(v.frames, v.frag),
           rate |-> rate, scream |-> v.scream, size |-> size]
  BY DEF Received
<1> HIDE DEF p, size
<1>9. /\ p.size = size /\ p.rate = rate /\ p.scream = v.scream
      /\ p.sbc.frames = v.frames /\ p.head.csrc = csrc /\ p.head.ext = ext
      /\ p \in Datagrams
  BY <1>5, <1>7, <1>8 DEF Datagrams, RtpHeader, RtpSbcHeader
<1>10. chain = "sbc" =>
         size = 8 \/ size = Header(p) + 1 + SbcFrame * Len(v.frames)
  BY <1>5, <1>6, <1>9 DEF Header, size
<1>11. chain = "ac3" => size = 8 \/ size = Header(p) + 64
  BY <1>5, <1>9, SbcAssumption DEF Header, size
<1> HIDE DEF head
<1>12. CASE chain = "sbc"
  <2> DEFINE r == RtpSbc(Datagram(p))
             d == SbcDecode(r)
  <2>1. /\ alive' = ~Divides(d) /\ sbcConf' = SbcConf(r)
        /\ last' = Sunk(ToFloat(d), p)
    BY <1>3, <1>12 DEF PushDatagram
  <2>2. /\ SbcConf(r) \in SbcConfs
        /\ Meets(Sunk(ToFloat(d), p))
        /\ Divides(d) => Due(p) = -1 /\ SbcConf(r) = Invalid
    BY <1>1, <1>9, <1>10, <1>12, SbcMeets
  <2>3. last'.due = Due(p)
    BY <2>1 DEF Sunk, AtSink, NoPacket
  <2> HIDE DEF r, d
  <2>4. QED
    <3>1. Meets(last') /\ last'.due = Due(p)
      BY <2>1, <2>2, <2>3
    <3>2. sbcConf' \in SbcConfs
      BY <2>1, <2>2
    <3>3. ~alive' => last'.due = -1 /\ sbcConf' = Invalid
      <4>1. ~alive' => Divides(d)
        BY <2>1, DividesEnds
      <4>2. Divides(d) => Due(p) = -1 /\ sbcConf' = Invalid
        BY <2>1, <2>2
      <4>3. QED
        BY <3>1, <4>1, <4>2
    <3>4. QED
      BY <1>1, <1>12, <3>1, <3>2, <3>3 DEF Decodes, DecodedIffValid, Meets
<1>13. CASE chain = "ac3"
  <2>1. /\ alive' = alive /\ sbcConf' = sbcConf
        /\ \E d \in FfmpegAc3(RtpAc3(Datagram(p))) :
             last' = Sunk(ToInt16(d), p)
    BY <1>3, <1>13 DEF PushDatagram
  <2>2. Meets(last')
    BY <1>3, <1>9, <1>11, <1>13, <2>1, Ac3Meets
  <2>3. QED
    BY <1>1, <1>13, <2>1, <2>2 DEF Decodes, DecodedIffValid, Meets
<1>14. CASE chain = "scream"
  <2>1. /\ alive' = alive /\ sbcConf' = sbcConf
        /\ last' = Sunk(ToFloat(Scream(Datagram(p))), p)
    BY <1>3, <1>14 DEF PushDatagram
  <2>2. Meets(last')
    BY <1>3, <1>5, <1>9, <1>14, <2>1, ScreamMeets
  <2>3. QED
    BY <1>1, <1>14, <2>1, <2>2 DEF Decodes, DecodedIffValid, Meets
<1>15. QED
  BY <1>4, <1>12, <1>13, <1>14
-----------------------------------------------------------------------------
(* The text of requests.                                                   *)

\* Max is an element of a set of positions, and the greatest.
LEMMA MaxIs == ASSUME NEW n \in Nat, NEW S \in SUBSET (0 .. n), S # {}
               PROVE  Max(S) \in S /\ \A y \in S : y <= Max(S)
<1> DEFINE T == {n - x : x \in S}
<1>1. T \in SUBSET Nat /\ T # {}
  <2>1. \A x \in S : n - x \in Nat
    OBVIOUS
  <2>2. QED
    BY <2>1
<1>2. Min(T) \in T /\ \A y \in T : Min(T) <= y
  BY <1>1, MinIs
<1>3. PICK x \in S : Min(T) = n - x
  BY <1>2
<1>4. \A y \in S : y <= x
  <2> SUFFICES ASSUME NEW y \in S PROVE y <= x
    OBVIOUS
  <2>1. n - x <= n - y
    BY <1>2, <1>3
  <2>2. QED
    BY <2>1
<1>5. QED
  BY <1>4 DEF Max

\* Short concatenations, element by element.
LEMMA Concat21 == ASSUME NEW a, NEW b, NEW c
                  PROVE  <<a, b>> \o <<c>> = <<a, b, c>>
<1> DEFINE S == {a, b, c}
           s == <<a, b>> \o <<c>>
<1>1. <<a, b>> \in Seq(S) /\ <<c>> \in Seq(S)
  OBVIOUS
<1>2. s \in Seq(S) /\ Len(s) = 3 /\ s[1] = a /\ s[2] = b /\ s[3] = c
  BY <1>1
<1> HIDE DEF s
<1>3. s = <<s[1], s[2], s[3]>>
  BY <1>2
<1>4. QED
  BY <1>2, <1>3 DEF s

LEMMA Concat24 == ASSUME NEW a, NEW b, NEW c, NEW d, NEW e, NEW f
                  PROVE  <<a, b>> \o <<c, d, e, f>> = <<a, b, c, d, e, f>>
<1> DEFINE S == {a, b, c, d, e, f}
           s == <<a, b>> \o <<c, d, e, f>>
<1>1. <<a, b>> \in Seq(S) /\ <<c, d, e, f>> \in Seq(S)
  OBVIOUS
<1>2. s \in Seq(S) /\ Len(s) = 6 /\ s[1] = a /\ s[2] = b /\ s[3] = c
      /\ s[4] = d /\ s[5] = e /\ s[6] = f
  BY <1>1
<1> HIDE DEF s
<1>3. s = <<s[1], s[2], s[3], s[4], s[5], s[6]>>
  BY <1>2
<1>4. QED
  BY <1>2, <1>3 DEF s

LEMMA Concat61 == ASSUME NEW a, NEW b, NEW c, NEW d, NEW e, NEW f, NEW g
                  PROVE  /\ <<a, b, c, d, e, f>> \o <<g>>
                              = <<a, b, c, d, e, f, g>>
                         /\ <<a, b, c, d, e, f>> \o <<>>
                              = <<a, b, c, d, e, f>>
<1> DEFINE S == {a, b, c, d, e, f, g}
           s == <<a, b, c, d, e, f>> \o <<g>>
<1>1. <<a, b, c, d, e, f>> \in Seq(S) /\ <<g>> \in Seq(S)
  OBVIOUS
<1>2. s \in Seq(S) /\ Len(s) = 7 /\ s[1] = a /\ s[2] = b /\ s[3] = c
      /\ s[4] = d /\ s[5] = e /\ s[6] = f /\ s[7] = g
  BY <1>1
<1> HIDE DEF s
<1>3. s = <<s[1], s[2], s[3], s[4], s[5], s[6], s[7]>>
  BY <1>2
<1>4. <<a, b, c, d, e, f>> \o <<>> = <<a, b, c, d, e, f>>
  BY <1>1, ConcatEmptySeq
<1>5. QED
  BY <1>2, <1>3, <1>4 DEF s
\* The lines of the requests, by their places.
LEMMA TextIs ==
  ASSUME NEW n, NEW a, NEW f, NEW missing \in BOOLEAN
  PROVE  LET T(name) == Text(name, n, a, f, missing, padded)
             r(name) == Line("request", name, <<>>)
             c == Line("header", "CSeq", <<n>>)
             w == Line("words", "iTunes", <<>>)
             m == Line("media", "audio", <<>>)
             t == Line("attribute", "fmtp", Fmtp(f))
             k == Line("attribute", "rsaaeskey",
                       TextOf(Rsa(Key(a)), padded))
             v == Line("attribute", "aesiv", TextOf(Iv(a), padded))
         IN /\ T("OPTIONS") = <<r("OPTIONS"), c,
                                Line("header", "Apple-Challenge",
                                     TextOf(Challenge, padded))>>
            /\ missing =>
                 T("ANNOUNCE") = <<r("ANNOUNCE"), c, w, m, t, k>>
            /\ ~missing =>
                 T("ANNOUNCE") = <<r("ANNOUNCE"), c, w, m, t, k, v>>
            /\ T("SETUP") = <<r("SETUP"), c>>
            /\ T("TEARDOWN") = <<r("TEARDOWN"), c>>
<1> DEFINE T(name) == Text(name, n, a, f, missing, padded)
           r(name) == Line("request", name, <<>>)
           c == Line("header", "CSeq", <<n>>)
           w == Line("words", "iTunes", <<>>)
           m == Line("media", "audio", <<>>)
           t == Line("attribute", "fmtp", Fmtp(f))
           k == Line("attribute", "rsaaeskey", TextOf(Rsa(Key(a)), padded))
           v == Line("attribute", "aesiv", TextOf(Iv(a), padded))
           h == Line("header", "Apple-Challenge", TextOf(Challenge, padded))
<1>1. /\ T("OPTIONS") = Head2("OPTIONS", n) \o <<h>>
      /\ T("SETUP") = Head2("SETUP", n)
      /\ T("TEARDOWN") = Head2("TEARDOWN", n)
  BY Zenon DEF Text
<1>2. T("ANNOUNCE") = Head2("ANNOUNCE", n) \o <<w, m, t, k>>
                      \o (IF missing THEN <<>> ELSE <<v>>)
  BY Zenon DEF Text
<1>3. \A name : Head2(name, n) = <<r(name), c>>
  BY DEF Head2
<1> HIDE DEF T, r, c, w, m, t, k, v, h
<1>4. T("OPTIONS") = <<r("OPTIONS"), c, h>>
  BY <1>1, <1>3, Concat21
<1> DEFINE six == <<r("ANNOUNCE"), c, w, m, t, k>>
<1>5. Head2("ANNOUNCE", n) \o <<w, m, t, k>> = six
  <2>1. Head2("ANNOUNCE", n) = <<r("ANNOUNCE"), c>>
    BY <1>3
  <2>2. <<r("ANNOUNCE"), c>> \o <<w, m, t, k>> = six
    BY Concat24, SMT
  <2>3. QED
    BY <2>1, <2>2, Zenon
<1>6. T("ANNOUNCE") = six \o (IF missing THEN <<>> ELSE <<v>>)
  BY <1>2, <1>5, Zenon
<1>7. CASE missing
  <2>1. T("ANNOUNCE") = six
    BY <1>6, <1>7, Concat61
  <2>2. QED
    BY <1>1, <1>3, <1>4, <1>7, <2>1 DEF T, r, c, w, m, t, k, v, h
<1>8. CASE ~missing
  <2>1. T("ANNOUNCE") = <<r("ANNOUNCE"), c, w, m, t, k, v>>
    BY <1>6, <1>8, Concat61
  <2>2. QED
    BY <1>1, <1>3, <1>4, <1>8, <2>1 DEF T, r, c, w, m, t, k, v, h
<1>9. QED
  BY <1>7, <1>8

\* A key that stands in one of the lines has the value of that line.
LEMMA ByKeyOne ==
  ASSUME NEW text, NEW lines \in SUBSET Nat, NEW k \in lines,
         \A i \in lines : text[i].key = text[k].key => i = k
  PROVE  /\ text[k].key \in DOMAIN ByKey(text, lines)
         /\ ByKey(text, lines)[text[k].key] = text[k].val
<1> DEFINE key == text[k].key
           S == {i \in lines : text[i].key = key}
<1>1. S = {k}
  OBVIOUS
<1>2. Max({k}) = k
  BY DEF Max
<1>3. key \in {text[i].key : i \in lines}
  OBVIOUS
<1>4. Max(S) = k
  BY <1>1, <1>2
<1>5. ByKey(text, lines)[key] = text[Max(S)].val
  BY <1>3 DEF ByKey
<1>6. DOMAIN ByKey(text, lines) = {text[i].key : i \in lines}
  BY DEF ByKey
<1>7. QED
  BY <1>3, <1>4, <1>5, <1>6

\* The method is that of a request line in front.
LEMMA MethodIs ==
  ASSUME NEW text, NEW n \in Nat, DOMAIN text = 1 .. n, n > 0,
         text[1].kind = "request"
  PROVE  method(text) = text[1].key
<1> DEFINE lines == {i \in DOMAIN text : text[i].kind \in {"request", "words"}}
<1>1. lines \in SUBSET Nat /\ 1 \in lines /\ \A i \in lines : 1 <= i
  OBVIOUS
<1>2. Min(lines) \in lines /\ \A i \in lines : Min(lines) <= i
  BY <1>1, MinIs
<1>3. Min(lines) = 1
  BY <1>1, <1>2
<1>4. QED
  BY <1>1, <1>3 DEF method

\* What the attributes of an ANNOUNCE say, and a request, taken whole.
Announces(attr, a, f, missing) ==
  /\ {"fmtp", "rsaaeskey"} \subseteq DOMAIN attr
  /\ attr["fmtp"] = Fmtp(f)
  /\ attr["rsaaeskey"] = TextOf(Rsa(Key(a)), padded)
  /\ ~missing => /\ "aesiv" \in DOMAIN attr
                 /\ attr["aesiv"] = TextOf(Iv(a), padded)
  /\ missing => "aesiv" \notin DOMAIN attr

Says(message, name, n, a, f, missing) ==
  /\ message.method = name /\ header(message, "CSeq") = <<n>>
  /\ name = "OPTIONS" =>
       header(message, "Apple-Challenge") = TextOf(Challenge, padded)
  /\ name = "ANNOUNCE" =>
       message.sdp # <<>> /\ Announces(message.sdp[1], a, f, missing)

\* A header of which there is one is found.
LEMMA HeaderOne ==
  ASSUME NEW text, NEW n \in Nat, Len(text) = n, NEW k \in 2 .. n,
         text[k].kind = "header",
         \A i \in 2 .. n :
           text[i].kind = "header" /\ text[i].key = text[k].key => i = k
  PROVE  header(deserializeRequest(text), text[k].key) = text[k].val
<1> DEFINE lines == {i \in 2 .. Len(text) : text[i].kind = "header"}
<1>1. lines \in SUBSET Nat /\ k \in lines
  OBVIOUS
<1>2. \A i \in lines : text[i].key = text[k].key => i = k
  OBVIOUS
<1>3. /\ text[k].key \in DOMAIN ByKey(text, lines)
      /\ ByKey(text, lines)[text[k].key] = text[k].val
  BY <1>1, <1>2, ByKeyOne
<1>4. deserializeRequest(text).headers = ByKey(text, lines)
  BY DEF deserializeRequest, headers
<1>5. QED
  BY <1>3, <1>4 DEF header

\* The lines of a text by their places, whichever request it is.
HasLines(t, s, name, n, a, f, missing) ==
  /\ s \in 2 .. 7 /\ DOMAIN t = 1 .. s
  /\ t[1] = Line("request", name, <<>>)
  /\ t[2] = Line("header", "CSeq", <<n>>)
  /\ name \in {"SETUP", "TEARDOWN"} => s = 2
  /\ name = "OPTIONS" =>
       /\ s = 3
       /\ t[3] = Line("header", "Apple-Challenge", TextOf(Challenge, padded))
  /\ name = "ANNOUNCE" =>
       /\ missing => s = 6
       /\ ~missing => s = 7
       /\ t[3] = Line("words", "iTunes", <<>>)
       /\ t[4] = Line("media", "audio", <<>>)
       /\ t[5] = Line("attribute", "fmtp", Fmtp(f))
       /\ t[6] = Line("attribute", "rsaaeskey", TextOf(Rsa(Key(a)), padded))
       /\ ~missing => t[7] = Line("attribute", "aesiv",
                                  TextOf(Iv(a), padded))

\* Every request has its lines.
LEMMA TextHas ==
  ASSUME NEW name \in Methods, NEW n \in Nat, NEW a, NEW f,
         NEW missing \in BOOLEAN
  PROVE  LET t == Text(name, n, a, f, missing, padded)
         IN HasLines(t, Len(t), name, n, a, f, missing)
<1>1. CASE name = "OPTIONS"
  BY <1>1, TextIs DEF HasLines
<1>2. CASE name = "SETUP"
  BY <1>2, TextIs DEF HasLines
<1>3. CASE name = "TEARDOWN"
  BY <1>3, TextIs DEF HasLines
<1>4. CASE name = "ANNOUNCE" /\ missing
  <2>1. Text(name, n, a, f, missing, padded) =
          <<Line("request", name, <<>>), Line("header", "CSeq", <<n>>),
            Line("words", "iTunes", <<>>), Line("media", "audio", <<>>),
            Line("attribute", "fmtp", Fmtp(f)),
            Line("attribute", "rsaaeskey", TextOf(Rsa(Key(a)), padded))>>
    BY <1>4, TextIs
  <2> DEFINE t == Text(name, n, a, f, missing, padded)
  <2>2. /\ Len(t) = 6 /\ DOMAIN t = 1 .. 6
        /\ t[1] = Line("request", name, <<>>)
        /\ t[2] = Line("header", "CSeq", <<n>>)
        /\ t[3] = Line("words", "iTunes", <<>>)
        /\ t[4] = Line("media", "audio", <<>>)
        /\ t[5] = Line("attribute", "fmtp", Fmtp(f))
        /\ t[6] = Line("attribute", "rsaaeskey", TextOf(Rsa(Key(a)), padded))
    BY <2>1
  <2> HIDE DEF t
  <2>3. Len(t) \in 2 .. 7 /\ DOMAIN t = 1 .. Len(t)
    BY <2>2
  <2>4. name \notin {"SETUP", "TEARDOWN"} /\ name # "OPTIONS"
    BY <1>4
  <2>5. QED
    BY <1>4, <2>2, <2>3, <2>4, Zenon DEF t, HasLines
<1>5. CASE name = "ANNOUNCE" /\ ~missing
  BY <1>5, TextIs DEF HasLines
<1>6. QED
  BY <1>1, <1>2, <1>3, <1>4, <1>5 DEF Methods

\* A request consists of Lines.
LEMMA TextType ==
  ASSUME NEW name \in Methods, NEW n \in Nat, NEW a \in Nat, NEW f,
         NEW missing \in BOOLEAN, name = "ANNOUNCE" => f \in 1 .. 2,
         padded \in BOOLEAN
  PROVE  Text(name, n, a, f, missing, padded) \in Seq(Lines)
<1> DEFINE t == Text(name, n, a, f, missing, padded)
           r == Line("request", name, <<>>)
           c == Line("header", "CSeq", <<n>>)
           w == Line("words", "iTunes", <<>>)
           m == Line("media", "audio", <<>>)
           x == Line("attribute", "fmtp", Fmtp(f))
           k == Line("attribute", "rsaaeskey", TextOf(Rsa(Key(a)), padded))
           v == Line("attribute", "aesiv", TextOf(Iv(a), padded))
           h == Line("header", "Apple-Challenge", TextOf(Challenge, padded))
<1>1. /\ <<>> \in Values /\ <<n>> \in Values
      /\ TextOf(Challenge, padded) \in Values
      /\ TextOf(Rsa(Key(a)), padded) \in Values
      /\ TextOf(Iv(a), padded) \in Values
      /\ f \in 1 .. 2 => Fmtp(f) \in Values
  <2>1. /\ <<>> \in Values /\ <<n>> \in Values
        /\ f \in 1 .. 2 => Fmtp(f) \in Values
    BY DEF Values
  <2>2. TextOf(Challenge, padded) \in Values
    BY DEF Values
  <2>3. TextOf(Rsa(Key(a)), padded) \in Values
    BY DEF Values
  <2>4. TextOf(Iv(a), padded) \in Values
    BY DEF Values
  <2>5. QED
    BY <2>1, <2>2, <2>3, <2>4
<1>2. /\ r \in Lines /\ c \in Lines /\ w \in Lines /\ m \in Lines
      /\ k \in Lines /\ v \in Lines /\ h \in Lines
      /\ f \in 1 .. 2 => x \in Lines
  BY <1>1 DEF Lines, Line, Methods
<1>3. CASE name = "OPTIONS"
  <2>1. t = <<r, c, h>>
    BY <1>3, TextIs
  <2> HIDE DEF t, r, c, w, m, x, k, v, h
  <2>2. t \in Seq(Lines)
    BY <1>2, <2>1
  <2>3. QED
    BY <2>2 DEF t
<1>4. CASE name = "SETUP" \/ name = "TEARDOWN"
  <2>1. t = <<r, c>>
    BY <1>4, TextIs
  <2> HIDE DEF t, r, c, w, m, x, k, v, h
  <2>2. t \in Seq(Lines)
    BY <1>2, <2>1
  <2>3. QED
    BY <2>2 DEF t
<1>5. CASE name = "ANNOUNCE"
  <2>1. /\ missing => t = <<r, c, w, m, x, k>>
        /\ ~missing => t = <<r, c, w, m, x, k, v>>
    BY <1>5, TextIs
  <2> HIDE DEF t, r, c, w, m, x, k, v, h
  <2>2. /\ <<r, c, w, m, x, k>> \in Seq(Lines)
        /\ <<r, c, w, m, x, k, v>> \in Seq(Lines)
    BY <1>2, <1>5
  <2>3. t \in Seq(Lines)
    BY <2>1, <2>2, Zenon
  <2>4. QED
    BY <2>3 DEF t
<1>6. QED
  BY <1>3, <1>4, <1>5 DEF Methods

\* A request read whole says what the client has written.
LEMMA WholeSays ==
  ASSUME NEW name \in Methods, NEW n \in Nat, NEW a, NEW f,
         NEW missing \in BOOLEAN
  PROVE  Says(deserializeRequest(Text(name, n, a, f, missing, padded)),
              name, n, a, f, missing)
<1> DEFINE t == Text(name, n, a, f, missing, padded)
           s == Len(t)
           message == deserializeRequest(t)
<1>0. HasLines(t, s, name, n, a, f, missing)
  BY TextHas
<1> HIDE DEF t
<1>1. /\ s \in 2 .. 7 /\ DOMAIN t = 1 .. s
      /\ t[1] = Line("request", name, <<>>)
      /\ t[2] = Line("header", "CSeq", <<n>>)
      /\ name \in {"SETUP", "TEARDOWN"} => s = 2
      /\ name = "OPTIONS" =>
           /\ s = 3
           /\ t[3] = Line("header", "Apple-Challenge",
                          TextOf(Challenge, padded))
  BY <1>0, Zenon DEF HasLines
<1>2. name = "ANNOUNCE" =>
        /\ missing => s = 6
        /\ ~missing => s = 7
        /\ t[3] = Line("words", "iTunes", <<>>)
        /\ t[4] = Line("media", "audio", <<>>)
        /\ t[5] = Line("attribute", "fmtp", Fmtp(f))
        /\ t[6] = Line("attribute", "rsaaeskey", TextOf(Rsa(Key(a)), padded))
        /\ ~missing => t[7] = Line("attribute", "aesiv",
                                   TextOf(Iv(a), padded))
  BY <1>0, Zenon DEF HasLines
<1>3. message.method = name
  <2>1. s \in Nat /\ s > 0 /\ t[1].kind = "request" /\ t[1].key = name
    BY <1>1 DEF Line
  <2>2. method(t) = name
    BY <1>1, <2>1, MethodIs
  <2>3. QED
    BY <2>2 DEF deserializeRequest
<1>4. \A i \in 2 .. s : t[i].kind = "header" /\ t[i].key = "CSeq" => i = 2
  <2>1. CASE name \in {"SETUP", "TEARDOWN"}
    BY <1>1, <2>1
  <2>2. CASE name = "OPTIONS"
    <3>1. t[3].key # "CSeq" /\ s = 3
      BY <1>1, <2>2 DEF Line
    <3>2. QED
      BY <3>1
  <2>3. CASE name = "ANNOUNCE"
    <3>1. /\ t[3].kind # "header" /\ t[4].kind # "header"
          /\ t[5].kind # "header" /\ t[6].kind # "header"
          /\ s = 6 \/ (s = 7 /\ t[7].kind # "header")
      BY <1>2, <2>3 DEF Line
    <3>2. QED
      BY <3>1
  <2>4. QED
    BY <2>1, <2>2, <2>3 DEF Methods
<1>5. header(message, "CSeq") = <<n>>
  <2>1. t[2].kind = "header" /\ t[2].key = "CSeq" /\ t[2].val = <<n>>
    BY <1>1 DEF Line
  <2>2. s \in Nat /\ 2 \in 2 .. s
    BY <1>1
  <2>3. header(message, t[2].key) = t[2].val
    BY <1>4, <2>1, <2>2, HeaderOne
  <2>4. QED
    BY <2>1, <2>3
<1>6. ASSUME name = "OPTIONS"
      PROVE  header(message, "Apple-Challenge") = TextOf(Challenge, padded)
  <2>1. /\ t[3].kind = "header" /\ t[3].key = "Apple-Challenge"
        /\ t[3].val = TextOf(Challenge, padded)
        /\ t[2].key = "CSeq" /\ s = 3
    BY <1>1, <1>6 DEF Line
  <2>2. \A i \in 2 .. 3 : t[i].kind = "header" /\ t[i].key = t[3].key => i = 3
    BY <2>1
  <2>3. 3 \in Nat /\ 3 \in 2 .. 3
    OBVIOUS
  <2>4. header(message, t[3].key) = t[3].val
    BY <2>1, <2>2, <2>3, HeaderOne, Zenon
  <2>5. QED
    BY <2>1, <2>4
<1>7. ASSUME name = "ANNOUNCE"
      PROVE  message.sdp # <<>> /\ Announces(message.sdp[1], a, f, missing)
  <2> DEFINE lines == {i \in 4 .. s : t[i].kind = "attribute"}
             attr == ByKey(t, lines)
  <2>1. /\ t[1].kind # "media" /\ t[2].kind # "media" /\ t[3].kind # "media"
        /\ t[4].kind = "media" /\ t[5].kind = "attribute"
        /\ t[6].kind = "attribute" /\ t[5].key = "fmtp"
        /\ t[6].key = "rsaaeskey" /\ t[5].val = Fmtp(f)
        /\ t[6].val = TextOf(Rsa(Key(a)), padded)
    BY <1>1, <1>2, <1>7 DEF Line
  <2>2. ~missing => /\ t[7].kind = "attribute" /\ t[7].key = "aesiv"
                    /\ t[7].val = TextOf(Iv(a), padded) /\ s = 7
    BY <1>2, <1>7 DEF Line
  <2>3. s = 6 \/ (s = 7 /\ ~missing)
    BY <1>2, <1>7
  <2>4. media(t) = {4}
    BY <1>1, <2>1, <2>2, <2>3 DEF media
  <2>5. Min({4}) = 4
    BY DEF Min
  <2>6. attributes(t) = attr
    BY <2>4, <2>5 DEF attributes
  <2>7. message.sdp = <<attr>>
    BY <2>4, <2>6 DEF deserializeRequest
  <2>8. lines \in SUBSET Nat /\ 5 \in lines /\ 6 \in lines
        /\ (~missing => 7 \in lines)
        /\ lines \subseteq 5 .. s
    BY <2>1, <2>2, <2>3
  <2> HIDE DEF lines
  <2>9. /\ \A i \in lines : t[i].key = t[5].key => i = 5
        /\ \A i \in lines : t[i].key = t[6].key => i = 6
        /\ ~missing => \A i \in lines : t[i].key = t[7].key => i = 7
    <3>1. CASE s = 6
      BY <2>1, <2>2, <2>8, <3>1
    <3>2. CASE s = 7 /\ ~missing
      BY <2>1, <2>2, <2>8, <3>2
    <3>3. QED
      BY <2>3, <3>1, <3>2
  <2>10. "fmtp" \in DOMAIN attr /\ attr["fmtp"] = Fmtp(f)
    <3>1. 5 \in lines /\ \A i \in lines : t[i].key = t[5].key => i = 5
      BY <2>8, <2>9
    <3>2. QED
      BY <2>1, <2>8, <3>1, ByKeyOne
  <2>11. /\ "rsaaeskey" \in DOMAIN attr
         /\ attr["rsaaeskey"] = TextOf(Rsa(Key(a)), padded)
    <3>1. 6 \in lines /\ \A i \in lines : t[i].key = t[6].key => i = 6
      BY <2>8, <2>9
    <3>2. QED
      BY <2>1, <2>8, <3>1, ByKeyOne
  <2>12. ASSUME ~missing
         PROVE  /\ "aesiv" \in DOMAIN attr
                /\ attr["aesiv"] = TextOf(Iv(a), padded)
    <3>1. /\ t[7].key = "aesiv" /\ t[7].val = TextOf(Iv(a), padded)
          /\ 7 \in lines /\ \A i \in lines : t[i].key = t[7].key => i = 7
      BY <2>2, <2>8, <2>9, <2>12
    <3>2. QED
      BY <2>8, <3>1, ByKeyOne
  <2>13. ASSUME missing
         PROVE  "aesiv" \notin DOMAIN attr
    <3>1. s = 6
      BY <2>3, <2>13, Zenon
    <3>2. \A i \in lines : i = 5 \/ i = 6
      BY <2>8, <3>1
    <3>3. \A i \in lines : t[i].key # "aesiv"
      BY <2>1, <3>2
    <3>4. QED
      BY <3>3 DEF ByKey
  <2> HIDE DEF attr
  <2>14. <<attr>> # <<>> /\ <<attr>>[1] = attr
    OBVIOUS
  <2>15. QED
    BY <2>7, <2>10, <2>11, <2>12, <2>13, <2>14 DEF Announces
<1>8. QED
  BY <1>3, <1>5, <1>6, <1>7, Zenon DEF Says, t

\* A request with attributes has its medium before them.
MediumFirst(t, s, name, a) ==
  \A k \in 1 .. s : t[k].kind = "attribute" =>
    /\ name = "ANNOUNCE" /\ k > 4 /\ s > 4 /\ t[4].kind = "media"
    /\ KeyLine(t[k]) => t[k].val = TextOf(Rsa(Key(a)), padded)
    /\ IvLine(t[k]) => t[k].val = TextOf(Iv(a), padded)

\* A request has its medium before its attributes.
LEMMA AttributeLines ==
  ASSUME NEW t, NEW s, NEW name \in Methods, NEW n, NEW a, NEW f,
         NEW missing \in BOOLEAN, HasLines(t, s, name, n, a, f, missing)
  PROVE  MediumFirst(t, s, name, a)
<1> USE DEF MediumFirst
<1>1. CASE name \in {"SETUP", "TEARDOWN"}
  <2>1. /\ s = 2 /\ t[1] = Line("request", name, <<>>)
        /\ t[2] = Line("header", "CSeq", <<n>>)
    BY <1>1, Zenon DEF HasLines
  <2>2. t[1].kind # "attribute" /\ t[2].kind # "attribute"
    BY <2>1 DEF Line
  <2>3. QED
    BY <2>1, <2>2
<1>2. CASE name = "OPTIONS"
  <2>1. /\ s = 3 /\ t[1] = Line("request", name, <<>>)
        /\ t[2] = Line("header", "CSeq", <<n>>)
        /\ t[3] = Line("header", "Apple-Challenge",
                       TextOf(Challenge, padded))
    BY <1>2, Zenon DEF HasLines
  <2>2. /\ t[1].kind # "attribute" /\ t[2].kind # "attribute"
        /\ t[3].kind # "attribute"
    BY <2>1 DEF Line
  <2>3. QED
    BY <2>1, <2>2
<1>3. CASE name = "ANNOUNCE"
  <2>1. /\ t[1].kind # "attribute" /\ t[2].kind # "attribute"
        /\ t[3].kind # "attribute" /\ t[4].kind = "media"
        /\ t[5].key = "fmtp" /\ t[6].key = "rsaaeskey"
        /\ t[6].val = TextOf(Rsa(Key(a)), padded)
    <3>1. /\ t[1] = Line("request", name, <<>>)
          /\ t[2] = Line("header", "CSeq", <<n>>)
          /\ t[3] = Line("words", "iTunes", <<>>)
          /\ t[4] = Line("media", "audio", <<>>)
          /\ t[5] = Line("attribute", "fmtp", Fmtp(f))
          /\ t[6] = Line("attribute", "rsaaeskey",
                         TextOf(Rsa(Key(a)), padded))
      BY <1>3, Zenon DEF HasLines
    <3>2. QED
      BY <3>1 DEF Line
  <2>2. s = 6 \/ (/\ s = 7 /\ t[7].key = "aesiv"
                  /\ t[7].val = TextOf(Iv(a), padded))
    <3>1. CASE missing
      BY <1>3, <3>1, Zenon DEF HasLines
    <3>2. CASE ~missing
      <4>1. s = 7 /\ t[7] = Line("attribute", "aesiv",
                                 TextOf(Iv(a), padded))
        BY <1>3, <3>2, Zenon DEF HasLines
      <4>2. QED
        BY <4>1 DEF Line
    <3>3. QED
      BY <3>1, <3>2
  <2>3. SUFFICES ASSUME NEW k \in 1 .. s, t[k].kind = "attribute"
                 PROVE  /\ k > 4 /\ s > 4
                        /\ t[k].key = "rsaaeskey" =>
                             t[k].val = TextOf(Rsa(Key(a)), padded)
                        /\ t[k].key = "aesiv" =>
                             t[k].val = TextOf(Iv(a), padded)
    BY <1>3, <2>1 DEF KeyLine, IvLine
  <2>4. k \in 5 .. 7 /\ (k = 7 => s = 7) /\ s > 4
    BY <2>1, <2>2, <2>3
  <2>5. k = 5 \/ k = 6 \/ k = 7
    BY <2>4
  <2>6. QED
    BY <2>1, <2>2, <2>4, <2>5
<1>4. QED
  BY <1>1, <1>2, <1>3 DEF Methods

\* A request that is appended keeps its key and its IV to itself.
LEMMA MatchedAppend ==
  ASSUME NEW name \in Methods, NEW n \in Nat, NEW a, NEW f,
         NEW missing \in BOOLEAN, name = "ANNOUNCE" => a \in 1 .. MaxRequests,
         wire \in Seq(Lines), WireKeys,
         Text(name, n, a, f, missing, padded) \in Seq(Lines),
         NEW w, w = wire \o Text(name, n, a, f, missing, padded)
  PROVE  Matching(w)
<1> DEFINE t == Text(name, n, a, f, missing, padded)
           s == Len(t)
           m == Len(wire)
<1>1. HasLines(t, s, name, n, a, f, missing)
  BY TextHas
<1> HIDE DEF t
<1>2. MediumFirst(t, s, name, a)
  BY <1>1, AttributeLines, Zenon
<1> SUFFICES ASSUME NEW i \in 1 .. Len(w), NEW j \in 1 .. Len(w),
                    KeyLine(w[i]), IvLine(w[j]),
                    \A k \in 1 .. Len(w) :
                      w[k].kind = "media" => /\ ~(i < k /\ k < j)
                                            /\ ~(j < k /\ k < i)
             PROVE  \E b \in 1 .. MaxRequests :
                      /\ w[i].val = TextOf(Rsa(Key(b)), padded)
                      /\ w[j].val = TextOf(Iv(b), padded)
  BY DEF Matching, Matched
<1>3. /\ m \in Nat /\ s \in Nat /\ Len(w) = m + s
      /\ \A k \in 1 .. m : w[k] = wire[k]
      /\ \A k \in 1 .. s : w[m + k] = t[k]
  BY DEF t
<1>4. CASE i <= m /\ j <= m
  <2>1. i \in 1 .. m /\ j \in 1 .. m /\ w[i] = wire[i] /\ w[j] = wire[j]
    BY <1>3, <1>4
  <2>2. \A k \in 1 .. m : k \in 1 .. Len(w) /\ w[k] = wire[k]
    BY <1>3
  <2>3. Matched(wire, i, j)
    BY <2>1 DEF WireKeys, Matching
  <2>4. \A k \in 1 .. m : wire[k].kind = "media" =>
          ~(i < k /\ k < j) /\ ~(j < k /\ k < i)
    BY <2>2
  <2>5. QED
    BY <2>1, <2>3, <2>4 DEF Matched
<1>5. CASE i > m /\ j > m
  <2>1. /\ i - m \in 1 .. s /\ j - m \in 1 .. s
        /\ w[i] = t[i - m] /\ w[j] = t[j - m]
    BY <1>3, <1>5
  <2>2. /\ w[i].val = TextOf(Rsa(Key(a)), padded)
        /\ w[j].val = TextOf(Iv(a), padded)
    BY <1>2, <2>1 DEF KeyLine, IvLine, MediumFirst
  <2>3. a \in 1 .. MaxRequests
    BY <1>2, <2>1 DEF KeyLine, MediumFirst
  <2>4. QED
    BY <2>2, <2>3
<1>6. CASE i <= m /\ j > m
  <2>1. j - m \in 1 .. s /\ w[j] = t[j - m]
    <3>1. j - m \in 1 .. s /\ m + (j - m) = j
      BY <1>3, <1>6
    <3>2. w[m + (j - m)] = t[j - m]
      BY <1>3, <3>1, Zenon
    <3>3. QED
      BY <3>1, <3>2
  <2>2. j - m > 4 /\ s > 4 /\ t[4].kind = "media"
    <3>1. t[j - m].kind = "attribute"
      BY <2>1 DEF IvLine
    <3>2. QED
      BY <1>2, <2>1, <3>1, Zenon DEF MediumFirst
  <2>3. m + 4 \in 1 .. Len(w) /\ w[m + 4].kind = "media"
    <3>1. 4 \in 1 .. s /\ m + 4 \in 1 .. Len(w)
      BY <1>3, <2>2
    <3>2. w[m + 4] = t[4]
      BY <1>3, <3>1, Zenon
    <3>3. QED
      BY <2>2, <3>1, <3>2
  <2>4. i < m + 4 /\ m + 4 < j
    BY <1>3, <1>6, <2>2
  <2>5. QED
    BY <2>3, <2>4
<1>7. CASE j <= m /\ i > m
  <2>1. i - m \in 1 .. s /\ w[i] = t[i - m]
    <3>0. i \in Int /\ i <= m + s /\ m \in Nat /\ s \in Nat
      BY <1>3
    <3>1. i - m \in 1 .. s /\ m + (i - m) = i
      BY <1>7, <3>0
    <3>2. w[m + (i - m)] = t[i - m]
      BY <1>3, <3>1, Zenon
    <3>3. QED
      BY <3>1, <3>2
  <2>2. i - m > 4 /\ s > 4 /\ t[4].kind = "media"
    <3>1. t[i - m].kind = "attribute"
      BY <2>1 DEF KeyLine
    <3>2. QED
      BY <1>2, <2>1, <3>1, Zenon DEF MediumFirst
  <2>3. m + 4 \in 1 .. Len(w) /\ w[m + 4].kind = "media"
    <3>1. 4 \in 1 .. s /\ m + 4 \in 1 .. Len(w)
      BY <1>3, <2>2
    <3>2. w[m + 4] = t[4]
      BY <1>3, <3>1, Zenon
    <3>3. QED
      BY <2>2, <3>1, <3>2
  <2>4. j < m + 4 /\ m + 4 < i
    BY <1>3, <1>7, <2>2
  <2>5. QED
    BY <2>3, <2>4
<1>8. QED
  BY <1>3, <1>4, <1>5, <1>6, <1>7

\* What is left after a receive, and what was received.
LEMMA MatchedParts ==
  ASSUME wire \in Seq(Lines), WireKeys, NEW n \in 1 .. Len(wire)
  PROVE  LET w == SubSeq(wire, n + 1, Len(wire))
             t == SubSeq(wire, 1, n)
         IN Matching(w) /\ Matching(t)
<1> DEFINE w == SubSeq(wire, n + 1, Len(wire))
           t == SubSeq(wire, 1, n)
           m == Len(wire)
<1>1. /\ m \in Nat /\ Len(w) = m - n /\ Len(t) = n
      /\ \A k \in 1 .. m - n : w[k] = wire[n + k]
      /\ \A k \in 1 .. n : t[k] = wire[k]
  OBVIOUS
<1> HIDE DEF w, t
<1>2. ASSUME NEW i \in 1 .. m - n, NEW j \in 1 .. m - n
      PROVE  Matched(w, i, j)
  <2>1. /\ n + i \in 1 .. m /\ n + j \in 1 .. m
        /\ w[i] = wire[n + i] /\ w[j] = wire[n + j]
    BY <1>1
  <2>2. Matched(wire, n + i, n + j)
    BY <2>1 DEF WireKeys, Matching
  <2>3. ASSUME \A k \in 1 .. Len(w) : w[k].kind = "media" =>
                 ~(i < k /\ k < j) /\ ~(j < k /\ k < i),
               NEW k \in 1 .. m, wire[k].kind = "media"
        PROVE  ~(n + i < k /\ k < n + j) /\ ~(n + j < k /\ k < n + i)
    <3>1. CASE k <= n
      BY <1>1, <3>1
    <3>2. CASE k > n
      <4>1. k - n \in 1 .. m - n /\ n + (k - n) = k
        BY <1>1, <3>2
      <4>2. w[k - n].kind = "media"
        BY <1>1, <2>3, <4>1
      <4>3. /\ ~(i < k - n /\ k - n < j) /\ ~(j < k - n /\ k - n < i)
        BY <1>1, <2>3, <4>1, <4>2
      <4>4. QED
        BY <4>1, <4>3
    <3>3. QED
      BY <1>1, <3>1, <3>2
  <2>4. QED
    BY <2>1, <2>2, <2>3 DEF Matched
<1>3. ASSUME NEW i \in 1 .. n, NEW j \in 1 .. n
      PROVE  Matched(t, i, j)
  <2>1. /\ i \in 1 .. m /\ j \in 1 .. m /\ t[i] = wire[i] /\ t[j] = wire[j]
    BY <1>1
  <2>2. Matched(wire, i, j)
    BY <2>1 DEF WireKeys, Matching
  <2>3. ASSUME \A k \in 1 .. Len(t) : t[k].kind = "media" =>
                 ~(i < k /\ k < j) /\ ~(j < k /\ k < i),
               NEW k \in 1 .. m, wire[k].kind = "media"
        PROVE  ~(i < k /\ k < j) /\ ~(j < k /\ k < i)
    <3>1. CASE k <= n
      <4>1. k \in 1 .. Len(t) /\ t[k].kind = "media"
        BY <1>1, <2>3, <3>1
      <4>2. QED
        BY <2>3, <4>1
    <3>2. CASE k > n
      BY <1>1, <3>2
    <3>3. QED
      BY <1>1, <3>1, <3>2
  <2>4. QED
    BY <2>1, <2>2, <2>3 DEF Matched
<1>4. QED
  BY <1>1, <1>2, <1>3 DEF w, t, Matching
\* What a key has as its value stood in one of the lines.
StoodIn(text, lines, key) ==
  \E i \in lines : /\ text[i].key = key
                   /\ ByKey(text, lines)[key] = text[i].val

\* A value that is read stands in one of the lines.
LEMMA ByKeyFrom ==
  ASSUME NEW text, Len(text) \in Nat, NEW lines,
         lines \subseteq 1 .. Len(text), NEW key,
         key \in DOMAIN ByKey(text, lines)
  PROVE  StoodIn(text, lines, key)
<1> DEFINE S == {i \in lines : text[i].key = key}
<1>1. key \in {text[i].key : i \in lines}
  BY DEF ByKey
<1>2. PICK n \in Nat : n = Len(text)
  OBVIOUS
<1>3. Max(S) \in S
  <2>1. S \in SUBSET (0 .. n) /\ S # {}
    <3>1. \A i \in lines : i \in 0 .. n
      BY <1>2
    <3>2. PICK i \in lines : key = text[i].key
      BY <1>1
    <3>3. S \subseteq 0 .. n
      BY <3>1
    <3>4. S # {}
      BY <3>2
    <3>5. QED
      BY <3>3, <3>4
  <2> HIDE DEF S
  <2>2. QED
    BY <2>1, MaxIs
<1>4. ByKey(text, lines)[key] = text[Max(S)].val
  BY <1>1 DEF ByKey
<1>5. QED
  BY <1>3, <1>4 DEF StoodIn

\* Attributes that contain both a key and an IV have those of one ANNOUNCE,
\* whatever piece of the stream they were read from.
LEMMA ChunkSays ==
  ASSUME NEW t \in Seq(Lines), Matching(t),
         media(t) # {}, {"rsaaeskey", "aesiv"} \subseteq DOMAIN attributes(t)
  PROVE  \E a \in 1 .. MaxRequests :
           /\ attributes(t)["rsaaeskey"] = TextOf(Rsa(Key(a)), padded)
           /\ attributes(t)["aesiv"] = TextOf(Iv(a), padded)
<1> DEFINE M == media(t)
           first == Min(M)
           after == M \ {first}
           end == IF after = {} THEN Len(t) ELSE Min(after)
           lines == {i \in first .. end : t[i].kind = "attribute"}
           attr == ByKey(t, lines)
<1>1. attributes(t) = attr
  BY DEF attributes
<1>2. M \in SUBSET (1 .. Len(t)) /\ Len(t) \in Nat
  BY DEF media
<1>3. \A k \in 1 .. Len(t) : t[k].kind = "media" <=> k \in M
  BY DEF media
<1> HIDE DEF M
<1>4. M \in SUBSET Nat /\ M # {}
  BY <1>2 DEF M
<1>5. first \in M /\ \A k \in M : first <= k
  BY <1>4, MinIs
<1> HIDE DEF first
<1>6. /\ end \in first .. Len(t)
      /\ \A k \in M : k # first => end <= k
  <2>1. CASE after = {}
    BY <1>2, <1>5, <2>1
  <2>2. CASE after # {}
    <3>1. Min(after) \in after /\ \A k \in after : Min(after) <= k
      <4>1. after \in SUBSET Nat
        BY <1>4
      <4> HIDE DEF after
      <4>2. QED
        BY <2>2, <4>1, MinIs
    <3>2. Min(after) \in M
      BY <3>1
    <3>3. QED
      <4>1. end = Min(after)
        BY <2>2
      <4>2. \A k \in M : k # first => k \in after
        OBVIOUS
      <4> HIDE DEF after, end
      <4>3. end \in M /\ \A k \in after : end <= k
        BY <3>1, <3>2, <4>1
      <4>4. end \in 1 .. Len(t) /\ first \in 1 .. Len(t) /\ first <= end
        BY <1>2, <1>5, <4>3
      <4>5. QED
        BY <4>2, <4>3, <4>4
  <2>3. QED
    BY <2>1, <2>2
<1> HIDE DEF end
<1>7. lines \in SUBSET (0 .. Len(t)) /\ lines \in SUBSET (1 .. Len(t))
  BY <1>2, <1>5, <1>6
<1> HIDE DEF lines
<1>8. PICK i \in lines : /\ t[i].key = "rsaaeskey"
                         /\ attr["rsaaeskey"] = t[i].val
  <2>1. "rsaaeskey" \in DOMAIN ByKey(t, lines)
    BY <1>1
  <2>2. StoodIn(t, lines, "rsaaeskey")
    BY <1>2, <1>7, <2>1, ByKeyFrom
  <2>3. QED
    BY <2>2 DEF StoodIn
<1>9. PICK j \in lines : t[j].key = "aesiv" /\ attr["aesiv"] = t[j].val
  <2>1. "aesiv" \in DOMAIN ByKey(t, lines)
    BY <1>1
  <2>2. StoodIn(t, lines, "aesiv")
    BY <1>2, <1>7, <2>1, ByKeyFrom
  <2>3. QED
    BY <2>2 DEF StoodIn
<1>10. KeyLine(t[i]) /\ IvLine(t[j])
  BY <1>8, <1>9 DEF KeyLine, IvLine, lines
<1>11. \A k \in 1 .. Len(t) : t[k].kind = "media" =>
         ~(i < k /\ k < j) /\ ~(j < k /\ k < i)
  <2> SUFFICES ASSUME NEW k \in 1 .. Len(t), t[k].kind = "media"
               PROVE  ~(i < k /\ k < j) /\ ~(j < k /\ k < i)
    OBVIOUS
  <2>1. k \in M
    BY <1>3
  <2>2. i \in first .. end /\ j \in first .. end
    BY <1>8, <1>9 DEF lines
  <2>3. CASE k = first
    BY <1>2, <1>5, <2>2, <2>3
  <2>4. CASE k # first
    BY <1>2, <1>5, <1>6, <2>1, <2>2, <2>4
  <2>5. QED
    BY <2>3, <2>4
<1>12. Matched(t, i, j)
  BY <1>7, <1>8, <1>9 DEF Matching
<1> HIDE DEF attr, lines
<1>13. PICK a \in 1 .. MaxRequests :
         /\ t[i].val = TextOf(Rsa(Key(a)), padded)
         /\ t[j].val = TextOf(Iv(a), padded)
  BY <1>10, <1>11, <1>12, Zenon DEF Matched
<1>14. QED
  BY <1>1, <1>8, <1>9, <1>13

\* RSA undoes what the client has done.
LEMMA RsaUndone ==
  ASSUME NEW a \in Nat
  PROVE  /\ Rsa(Rsa(Key(a))) = Key(a) /\ Len(Rsa(Key(a))) = Len(Key(1))
         /\ Key(a) # <<>>
<1> DEFINE k == Key(a)
           r == Rsa(k)
<1>1. k = <<k[1], k[2], k[3], k[4]>> /\ Len(k) = 4 /\ Len(Key(1)) = 4
  BY DEF Key
<1> HIDE DEF k
<1>2. r = [i \in 1 .. 4 |-> k[4 - i + 1]]
  BY <1>1 DEF Rsa, Reverse
<1>3. Len(r) = 4 /\ r[1] = k[4] /\ r[2] = k[3] /\ r[3] = k[2] /\ r[4] = k[1]
  BY <1>2
<1> HIDE DEF r
<1>4. Rsa(r) = [i \in 1 .. 4 |-> r[4 - i + 1]]
  BY <1>3 DEF Rsa, Reverse
<1>5. Rsa(r) = <<r[4], r[3], r[2], r[1]>>
  BY <1>4
<1>6. Rsa(r) = k
  BY <1>1, <1>3, <1>5
<1>7. QED
  BY <1>1, <1>3, <1>6 DEF r, k
-----------------------------------------------------------------------------
(* AirPlay's packets.                                                      *)

FromAnnounce(p) ==
  /\ p.announce \in 0 .. MaxRequests /\ p.head.seq \in 0 .. 2 ^ 16 - 1
  /\ p.head.pt = 96 /\ p.head.csrc = 0 /\ p.head.ext = 0 /\ p.size = 32
  /\ p.announce # 0 => p.key = Key(p.announce) /\ p.iv = Iv(p.announce)
  /\ \E f \in 1 .. 2 : p.fmtp = Fmtp(f)

\* The fields of a packet in the air.
LEMMA AirHas ==
  ASSUME NEW p \in AirPackets
  PROVE  FromAnnounce(p)
<1>1. CASE p = AirplayPacket(<<0>>, <<0>>, 0, 1, 9)
  <2>1. /\ p.announce = 0 /\ p.head = RtpHeader(0, 0, 96, FALSE, 9)
        /\ p.size = 32 /\ p.fmtp = Fmtp(1)
    BY <1>1 DEF AirplayPacket
  <2>2. /\ p.head.seq = 9 /\ p.head.pt = 96 /\ p.head.csrc = 0
        /\ p.head.ext = 0
    BY <2>1 DEF RtpHeader
  <2>3. 0 \in 0 .. MaxRequests /\ 9 \in 0 .. 2 ^ 16 - 1 /\ 1 \in 1 .. 2
    BY MaxRequestsAssumption
  <2>4. QED
    BY <2>1, <2>2, <2>3 DEF FromAnnounce
<1>2. ASSUME NEW a \in 1 .. MaxRequests, NEW f \in 1 .. 2,
             NEW seq \in 0 .. 2 ^ 16 - 1,
             p = AirplayPacket(Key(a), Iv(a), a, f, seq)
      PROVE  FromAnnounce(p)
  <2>1. /\ p.announce = a /\ p.head = RtpHeader(0, 0, 96, FALSE, seq)
        /\ p.size = 32 /\ p.key = Key(a) /\ p.iv = Iv(a)
        /\ p.fmtp = Fmtp(f)
    BY <1>2 DEF AirplayPacket
  <2>2. /\ p.head.seq = seq /\ p.head.pt = 96 /\ p.head.csrc = 0
        /\ p.head.ext = 0
    BY <2>1 DEF RtpHeader
  <2>3. a \in 0 .. MaxRequests
    BY MaxRequestsAssumption
  <2>4. QED
    BY <2>1, <2>2, <2>3 DEF FromAnnounce
<1>3. CASE p # AirplayPacket(<<0>>, <<0>>, 0, 1, 9)
  <2>1. PICK a \in 1 .. MaxRequests, f \in 1 .. 2, seq \in 0 .. 2 ^ 16 - 1 :
          p = AirplayPacket(Key(a), Iv(a), a, f, seq)
    <3>1. PICK a \in 1 .. MaxRequests :
            p \in SessionPackets(a, 1) \cup SessionPackets(a, 2)
      BY <1>3 DEF AirPackets
    <3>2. PICK f \in 1 .. 2 : p \in SessionPackets(a, f)
      BY <3>1
    <3>3. QED
      BY <3>2 DEF SessionPackets
  <2>2. QED
    BY <1>2, <2>1
<1>4. QED
  BY <1>1, <1>3

\* The two formats differ in their frames.
LEMMA FmtpHas ==
  ASSUME NEW f \in 1 .. 2
  PROVE  /\ Fmtp(f)[2] # 0 /\ QuicktimeAtom(Fmtp(f)) # NoData
         /\ \A g \in 1 .. 2 : Fmtp(f)[2] = Fmtp(g)[2] => f = g
<1>1. \A g \in 1 .. 2 : Fmtp(g)[2] = IF g = 1 THEN 352 ELSE 4096
  BY DEF Fmtp
<1>2. QuicktimeAtom(Fmtp(f)).samplesPerFrame = Fmtp(f)[2]
  BY DEF QuicktimeAtom
<1>3. NoData.samplesPerFrame = 0
  BY DEF NoData, QuicktimeAtom
<1>4. QED
  BY <1>1, <1>2, <1>3

\* A packet is decoded if the decrypter has its key and IV and the decoder
\* was opened for its format; its undecoded bytes do not reach the sink.
LEMMA AirMeets ==
  ASSUME NEW p \in AirPackets,
         NEW c \in FfmpegAlac(Decrypt(RtpAlac(Datagram(p))))
  PROVE  /\ AtSink(c).out # "packet" /\ AtSink(c).due = 0
         /\ /\ decr = [key |-> p.key, iv |-> p.iv]
            /\ dec'.extradata = QuicktimeAtom(p.fmtp)
            => AtSink(c).out = "samples"
<1> DEFINE r == RtpAlac(Datagram(p))
           b == Decrypt(r)
<1>1. /\ p.size = 32 /\ p.head.pt = 96 /\ p.head.csrc = 0 /\ p.head.ext = 0
      /\ \E f \in 1 .. 2 : p.fmtp = Fmtp(f)
  BY AirHas DEF FromAnnounce
<1>2. HeaderSize(p) = 12
  BY <1>1 DEF HeaderSize
<1>3. trimFront(Datagram(p), 12) =
        [pkt |-> p, at |-> 12, size |-> 20, form |-> "packet",
         n |-> 0, conf |-> Conf("Unknown", 0)]
  <2>1. p.size \in Nat /\ 12 \in Nat /\ 12 <= p.size
    BY <1>1
  <2>2. p.size - 12 = 20
    BY <1>1
  <2>3. QED
    BY <2>1, <2>2, TrimDatagram
<1>4. ~RtpRefuses(Datagram(p)) /\ Datagram(p).pkt = p
  BY <1>1 DEF RtpRefuses, Datagram
<1>5. r = [pkt |-> p, at |-> 12, size |-> 20, form |-> "packet",
           n |-> 0, conf |-> Conf("Alac", 0)]
  BY <1>2, <1>3, <1>4 DEF RtpAlac
<1> HIDE DEF r
<1>6. /\ b.pkt = p /\ b.form \in {"plain", "noise"}
      /\ decr = [key |-> p.key, iv |-> p.iv] => b.form = "plain"
  BY <1>5 DEF Decrypt
<1>7. DOMAIN b = {"pkt", "at", "size", "form", "n", "conf"}
  BY <1>5 DEF Decrypt
<1> HIDE DEF b
<1>8. ASSUME c = clear(b)
      PROVE  AtSink(c).out = "none" /\ AtSink(c).due = 0
  <2>1. c.size = 0
    BY <1>7, <1>8 DEF clear
  <2>2. QED
    BY <2>1 DEF AtSink, NoPacket
<1>9. ASSUME NEW form \in {"samples", "noise"},
             c = Decoded(b, form, "RawInt16")
      PROVE  AtSink(c).out = form /\ AtSink(c).due = 0
  <2>1. c.size = 4 /\ c.form = form
    BY <1>7, <1>9 DEF Decoded
  <2>2. QED
    BY <2>1 DEF AtSink, NoPacket
<1>10. CASE /\ decr = [key |-> p.key, iv |-> p.iv]
           /\ dec'.extradata = QuicktimeAtom(p.fmtp)
  <2>1. dec'.extradata # NoData
    BY <1>1, <1>10, FmtpHas
  <2>2. c = Decoded(b, "samples", "RawInt16")
    BY <1>6, <1>10, <2>1 DEF FfmpegAlac, b, r
  <2>3. QED
    BY <1>9, <2>2
<1>11. CASE ~(/\ decr = [key |-> p.key, iv |-> p.iv]
              /\ dec'.extradata = QuicktimeAtom(p.fmtp))
  <2>1. \/ c = clear(b) \/ c = Decoded(b, "samples", "RawInt16")
        \/ c = Decoded(b, "noise", "RawInt16")
    BY DEF FfmpegAlac, b, r
  <2>2. QED
    BY <1>8, <1>9, <1>11, <2>1
<1>12. QED
  BY <1>10, <1>11

\* A sequence without one of its elements.
LEMMA RemoveAtHas ==
  ASSUME NEW S, NEW s \in Seq(S), NEW i \in 1 .. Len(s)
  PROVE  /\ RemoveAt(s, i) \in Seq(S) /\ Len(RemoveAt(s, i)) = Len(s) - 1
         /\ \A k \in 1 .. Len(s) - 1 :
              /\ k < i => RemoveAt(s, i)[k] = s[k]
              /\ k >= i => RemoveAt(s, i)[k] = s[k + 1]
<1> DEFINE u == SubSeq(s, 1, i - 1)
           v == SubSeq(s, i + 1, Len(s))
<1>1. Len(s) \in Nat /\ i \in Nat
  OBVIOUS
<1>2. /\ u \in Seq(S) /\ Len(u) = i - 1
      /\ \A k \in 1 .. i - 1 : u[k] = s[k]
  OBVIOUS
<1>3. /\ v \in Seq(S) /\ Len(v) = Len(s) - i
      /\ \A k \in 1 .. Len(s) - i : v[k] = s[i + k]
  OBVIOUS
<1>4. RemoveAt(s, i) = u \o v
  BY DEF RemoveAt
<1> HIDE DEF u, v
<1>5. u \o v \in Seq(S) /\ Len(u \o v) = Len(s) - 1
  <2>1. u \o v \in Seq(S) /\ Len(u \o v) = Len(u) + Len(v)
    BY <1>2, <1>3, ConcatProperties
  <2>2. QED
    BY <1>1, <1>2, <1>3, <2>1
<1>6. ASSUME NEW k \in 1 .. Len(s) - 1
      PROVE  /\ k < i => (u \o v)[k] = s[k]
             /\ k >= i => (u \o v)[k] = s[k + 1]
  <2>1. CASE k < i
    BY <1>1, <1>2, <1>3, <2>1
  <2>2. CASE k >= i
    <3>1. (u \o v)[k] = v[k - (i - 1)]
      BY <1>1, <1>2, <1>3, <2>2
    <3>2. k - (i - 1) \in 1 .. Len(s) - i /\ i + (k - (i - 1)) = k + 1
      BY <1>1, <2>2
    <3>3. QED
      BY <1>3, <2>2, <3>1, <3>2
  <2>3. QED
    BY <1>1, <2>1, <2>2
<1>7. QED
  BY <1>4, <1>5, <1>6
\* A session's packets may be in the air.
LEMMA AirPacketIn ==
  ASSUME NEW a \in 1 .. MaxRequests, NEW f \in 1 .. 2, NEW seq \in Int
  PROVE  AirplayPacket(Key(a), Iv(a), a, f, seq % 2 ^ 16) \in AirPackets
<1>1. seq % 2 ^ 16 \in 0 .. 2 ^ 16 - 1
  OBVIOUS
<1>2. AirplayPacket(Key(a), Iv(a), a, f, seq % 2 ^ 16) \in SessionPackets(a, f)
  BY <1>1 DEF SessionPackets
<1>3. f = 1 \/ f = 2
  OBVIOUS
<1>4. QED
  BY <1>2, <1>3 DEF AirPackets
-----------------------------------------------------------------------------
(* The steps of the client.                                                *)

\* Only an ANNOUNCE has a format.
LEMMA TextWithout ==
  ASSUME NEW name \in {"OPTIONS", "SETUP", "TEARDOWN"}, NEW n, NEW missing,
         NEW a, NEW b, NEW f, NEW g
  PROVE  Text(name, n, a, f, missing, padded)
           = Text(name, n, b, g, missing, padded)
<1>1. CASE name = "OPTIONS"
  BY <1>1, Zenon DEF Text
<1>2. CASE name = "SETUP"
  BY <1>2, Zenon DEF Text
<1>3. CASE name = "TEARDOWN"
  BY <1>3, Zenon DEF Text
<1>4. QED
  BY <1>1, <1>2, <1>3

\* A request of any kind.
LEMMA AskStep ==
  ASSUME StreamInv, NEW name \in Methods, NEW f, NEW missing \in BOOLEAN,
         name = "ANNOUNCE" => f \in 1 .. 2, Ask(name, f, missing)
  PROVE  StreamInv'
<1> DEFINE n == asked.n + 1
           a == IF name = "ANNOUNCE" THEN n ELSE session.announce
           t == Text(name, n, a, f, missing, padded)
<1>1. /\ chain = "airplay" /\ alive /\ ~owed /\ n <= MaxRequests
      /\ name = "SETUP" => asked.method = "ANNOUNCE"
      /\ name = "TEARDOWN" <=> session.streams
      /\ owed' /\ asked' = [n |-> n, method |-> name, missing |-> missing]
      /\ wire' = wire \o t
  BY Zenon DEF Ask
<1>2. /\ name = "ANNOUNCE" =>
           session' = [announce |-> a, fmtp |-> f, streams |-> FALSE,
                       seq |-> FirstSeq(a)]
      /\ name = "TEARDOWN" => session' = [session EXCEPT !.streams = FALSE]
      /\ name \notin {"ANNOUNCE", "TEARDOWN"} => session' = session
  BY Zenon DEF Ask
<1>3. UNCHANGED <<chain, padded, reply, answer, started, alive, air, last,
                  packets, faults, decr, codecData, dec, sbcConf, rtp,
                  cut, disturbed, opened>>
  BY Zenon DEF Ask, chainVars, ghosts
<1>4. /\ TypeOK /\ NoSession /\ WireKeys /\ OneAnnounce /\ Protocol /\ NotYet
      /\ Playing /\ Keyed /\ Decodes
  BY DEF StreamInv
<1>5. /\ session \in [announce : 0 .. MaxRequests, fmtp : 0 .. 2,
                      streams : BOOLEAN, seq : Nat]
      /\ session.announce <= asked.n /\ asked.n \in 0 .. MaxRequests
      /\ session.announce # 0 => session.fmtp # 0
      /\ MaxRequests \in Nat /\ n \in 1 .. MaxRequests /\ a \in 0 .. n
      /\ session.announce < n
      /\ name = "ANNOUNCE" => a = n
      /\ name # "ANNOUNCE" => a = session.announce
  <2>1. /\ session \in [announce : 0 .. MaxRequests, fmtp : 0 .. 2,
                        streams : BOOLEAN, seq : Nat]
        /\ session.announce <= asked.n /\ asked.n \in 0 .. MaxRequests
        /\ session.announce # 0 => session.fmtp # 0
    BY <1>4, Zenon DEF TypeOK
  <2>2. /\ name = "ANNOUNCE" => a = n
        /\ name # "ANNOUNCE" => a = session.announce
    OBVIOUS
  <2>3. n \in 1 .. MaxRequests
    BY <1>1, <2>1, MaxRequestsAssumption
  <2>4. session.announce \in 0 .. MaxRequests
    BY <2>1
  <2>5. a \in 0 .. n /\ session.announce < n
    <3>1. /\ session.announce \in 0 .. n /\ n \in 0 .. n
          /\ session.announce < n
      BY <2>1, <2>3, <2>4, MaxRequestsAssumption
    <3>2. QED
      BY <2>2, <3>1
  <2> HIDE DEF n, a
  <2>6. QED
    BY <2>1, <2>2, <2>3, <2>5, MaxRequestsAssumption
<1>6. asked'.n = n /\ asked'.method = name /\ asked'.missing = missing
  BY <1>1
<1> HIDE DEF n, a
<1>7. /\ session' \in [announce : 0 .. MaxRequests, fmtp : 0 .. 2,
                       streams : BOOLEAN, seq : Nat]
      /\ session'.announce = a /\ ~session'.streams
      /\ name = "ANNOUNCE" => session'.fmtp = f
      /\ name # "ANNOUNCE" =>
           session'.fmtp = session.fmtp /\ session'.seq = session.seq
  <2>1. CASE name = "ANNOUNCE"
    <3>1. FirstSeq(a) \in Nat
      BY <1>5 DEF FirstSeq
    <3>2. /\ session'.announce = a /\ session'.fmtp = f
          /\ session'.streams = FALSE
      BY <1>2, <2>1
    <3>3. a \in 0 .. MaxRequests /\ f \in 0 .. 2
      BY <1>5, <2>1
    <3>4. session' \in [announce : 0 .. MaxRequests, fmtp : 0 .. 2,
                        streams : BOOLEAN, seq : Nat]
      <4>1. session' = [announce |-> a, fmtp |-> f, streams |-> FALSE,
                        seq |-> FirstSeq(a)]
        BY <1>2, <2>1, Zenon
      <4> DEFINE x == [announce |-> a, fmtp |-> f, streams |-> FALSE,
                       seq |-> FirstSeq(a)]
      <4>2. x \in [announce : 0 .. MaxRequests, fmtp : 0 .. 2,
                   streams : BOOLEAN, seq : Nat]
        BY <3>1, <3>3
      <4>3. QED
        BY <4>1, <4>2, Zenon
    <3>5. QED
      BY <2>1, <3>2, <3>4, Zenon
  <2>2. CASE name = "TEARDOWN"
    BY <1>2, <1>5, <2>2
  <2>3. CASE name \notin {"ANNOUNCE", "TEARDOWN"}
    BY <1>1, <1>2, <1>5, <2>3
  <2>4. QED
    BY <2>1, <2>2, <2>3
<1>8. t \in Seq(Lines) /\ wire \in Seq(Lines) /\ padded \in BOOLEAN
  <2>1. n \in Nat /\ a \in Nat /\ padded \in BOOLEAN /\ wire \in Seq(Lines)
    <3>1. padded \in BOOLEAN /\ wire \in Seq(Lines)
      BY <1>4, Zenon DEF TypeOK
    <3>2. n \in Nat /\ a \in Nat
      BY <1>5
    <3>3. QED
      BY <3>1, <3>2
  <2>2. QED
    BY <2>1, TextType
<1>9. TypeOK'
  <2>1. wire' \in Seq(Lines)
    BY <1>1, <1>8
  <2>2. session'.announce <= asked'.n
        /\ (session'.announce # 0 => session'.fmtp # 0)
    BY <1>5, <1>6, <1>7
  <2>3. asked'.n \in 0 .. MaxRequests
        /\ asked'.method \in Methods \cup {"none"}
        /\ asked'.missing \in BOOLEAN /\ owed' \in BOOLEAN
    <3>1. asked'.n \in 0 .. MaxRequests
          /\ asked'.method \in Methods \cup {"none"}
      <4>1. n \in 0 .. MaxRequests
        BY <1>5
      <4>2. QED
        BY <1>6, <4>1, Zenon
    <3>2. asked'.missing \in BOOLEAN
      BY <1>6, Zenon
    <3>3. owed' \in BOOLEAN
      BY <1>1, Zenon
    <3>4. QED
      BY <3>1, <3>2, <3>3, Zenon
  <2>4. QED
    BY <1>3, <1>4, <1>7, <2>1, <2>2, <2>3 DEF TypeOK
<1>10. NoSession'
  BY <1>1, <1>3 DEF NoSession
<1>11. WireKeys'
  <2>1. name = "ANNOUNCE" => a \in 1 .. MaxRequests
    BY <1>5
  <2>2. n \in Nat /\ WireKeys /\ wire' = wire \o t
    BY <1>1, <1>4, <1>5
  <2>3. Matching(wire')
    BY <1>8, <2>1, <2>2, MatchedAppend
  <2>4. QED
    BY <1>3, <2>3 DEF WireKeys, Matching, Matched
<1>12. OneAnnounce'
  BY <1>3, <1>4 DEF OneAnnounce
<1>13. ~cut => Idle /\ Sent'
  <2> SUFFICES ASSUME ~cut PROVE Idle /\ Sent'
    OBVIOUS
  <2>1. Idle
    BY <1>1, <1>4 DEF Protocol, Idle, Sent, Answered, Thrown
  <2>2. wire = <<>> /\ ~reply'.sent /\ alive'
    BY <1>3, <2>1 DEF Idle
  <2>3. wire' = t
    BY <1>1, <1>8, <2>2
  <2>4. t = Text(name, n, session'.announce, session'.fmtp, missing, padded)
    <3>1. CASE name = "ANNOUNCE"
      BY <1>7, <3>1
    <3>2. CASE name # "ANNOUNCE"
      BY <3>2, TextWithout DEF Methods
    <3>3. QED
      BY <3>1, <3>2
  <2>5. wire' = Text(asked'.method, asked'.n, session'.announce,
                     session'.fmtp, asked'.missing, padded')
    BY <1>3, <1>6, <2>3, <2>4
  <2>6. QED
    BY <1>1, <1>5, <1>6, <1>7, <2>1, <2>2, <2>5 DEF Sent
<1>14. Protocol'
  BY <1>1, <1>3, <1>13 DEF Protocol, Idle
<1>15. NotYet'
  <2>1. /\ ~session'.streams /\ session'.announce = a
        /\ asked'.method = name
    BY <1>6, <1>7
  <2>2. name \in {"ANNOUNCE", "SETUP"} => a # 0
    BY <1>1, <1>4, <1>5 DEF NotYet
  <2>3. last.announce \in 0 .. session.announce
        /\ \A i \in 1 .. Len(air) : air[i].announce <= session.announce
    BY <1>4 DEF NotYet
  <2>4. session.announce <= a /\ (name = "ANNOUNCE" => session.announce < a)
    BY <1>5
  <2>5. air \in Seq(AirPackets)
    BY <1>4 DEF TypeOK
  <2>6. \A i \in 1 .. Len(air) : air[i].announce \in Int
    BY <2>5, AirHas DEF FromAnnounce
  <2>7. last.announce \in 0 .. a
        /\ \A i \in 1 .. Len(air) : air[i].announce <= a
    BY <1>5, <2>3, <2>4, <2>6
  <2>8. ASSUME name = "ANNOUNCE" \/ name = "SETUP"
        PROVE  /\ last.announce # a
               /\ \A i \in 1 .. Len(air) : air[i].announce # a
    <3>1. CASE name = "ANNOUNCE"
      BY <1>5, <2>3, <2>4, <2>6, <3>1
    <3>2. CASE name = "SETUP"
      <4>1. asked.method = "ANNOUNCE" /\ a = session.announce
        BY <1>1, <1>5, <3>2
      <4>2. QED
        BY <1>4, <4>1 DEF NotYet
    <3>3. QED
      BY <2>8, <3>1, <3>2
  <2>9. QED
    BY <1>3, <2>1, <2>2, <2>7, <2>8 DEF NotYet
<1>16. Playing'
  <2> SUFFICES ASSUME ~cut PROVE Playing'
    BY <1>3 DEF Playing
  <2>1. ~owed /\ ~Sent /\ ~Answered /\ Sent'
    BY <1>13 DEF Idle, Sent, Answered
  <2>2. /\ started => session.streams
        /\ ~disturbed /\ ~rtp.flushed =>
             session.streams /\ rtp.seq = (session.seq - Len(air) - 1) % 2 ^ 16
        /\ last.warned => disturbed
    BY <1>1, <1>4, <2>1, Zenon DEF Playing, Running
  <2>3. session.streams => name = "TEARDOWN" /\ Running'
    BY <1>1, <1>6, <2>1, Zenon DEF Running
  <2>4. ASSUME ~disturbed, NEW i \in 1 .. Len(air),
               air[i].announce = session'.announce
        PROVE  air[i].head.seq
                 = (session'.seq - (Len(air) - i) - 1) % 2 ^ 16
    <3>1. name # "ANNOUNCE"
      BY <1>3, <1>6, <1>15, <2>4, Zenon DEF NotYet
    <3>2. session'.announce = session.announce /\ session'.seq = session.seq
      BY <1>5, <1>7, <3>1, Zenon
    <3>3. QED
      BY <1>1, <1>4, <2>4, <3>2, Zenon DEF Playing
  <2>5. session.streams => session'.seq = session.seq
    BY <1>1, <1>7
  <2>6. QED
    BY <1>3, <2>2, <2>3, <2>4, <2>5, Zenon DEF Playing
<1>17. Keyed'
  <2> SUFFICES ASSUME ~cut, padded PROVE Keyed'
    BY <1>3, Zenon DEF Keyed
  <2>1. ~Sent /\ Sent'
    BY <1>13 DEF Idle, Sent
  <2>2. name = "ANNOUNCE" => last.announce # session'.announce
    BY <1>3, <1>6, <1>15, Zenon DEF NotYet
  <2>3. name # "ANNOUNCE" => /\ session'.announce = session.announce
                             /\ session'.fmtp = session.fmtp
    BY <1>5, <1>7, Zenon
  <2>4. name = "ANNOUNCE" => Sent' /\ asked'.method = "ANNOUNCE"
    BY <1>6, <2>1
  <2>5. /\ session.announce # 0 =>
             /\ decr = [key |-> Key(session.announce),
                        iv |-> Iv(session.announce)]
             /\ codecData = QuicktimeAtom(Fmtp(session.fmtp))
        /\ opened # 0 => \E g \in 1 .. 2 :
                           /\ opened = Fmtp(g)[2]
                           /\ dec.open
                           /\ dec.extradata = QuicktimeAtom(Fmtp(g))
        /\ /\ last.announce = session.announce /\ last.announce # 0
           /\ last.as = opened
           => last.out = "samples"
    BY <1>1, <1>4, <2>1, Zenon DEF Keyed
  <2>6. QED
    BY <1>3, <2>2, <2>3, <2>4, <2>5, Zenon DEF Keyed
<1>18. Decodes'
  BY <1>3, <1>4 DEF Decodes, DecodedIffValid
<1>19. QED
  BY <1>9, <1>10, <1>11, <1>12, <1>14, <1>15, <1>16, <1>17, <1>18
     DEF StreamInv
\* AirPlay's chain leaves DecodedIffValid to the others.
LEMMA AirplayDecodes ==
  ASSUME Decodes, chain = "airplay", UNCHANGED <<chain, sbcConf>>,
         last' = last \/ (last'.due = 0 /\ last'.out # "packet")
  PROVE  Decodes'
<1>1. last'.due = 0 /\ last'.out # "packet" /\ sbcConf' \in SbcConfs
  BY DEF Decodes, DecodedIffValid
<1>2. QED
  BY <1>1 DEF Decodes, DecodedIffValid

\* The client's next number.
LEMMA NextSeq ==
  ASSUME NEW s \in [announce : 0 .. MaxRequests, fmtp : 0 .. 2,
                    streams : BOOLEAN, seq : Nat]
  PROVE  LET t == [s EXCEPT !.seq = @ + 1]
         IN /\ t \in [announce : 0 .. MaxRequests, fmtp : 0 .. 2,
                      streams : BOOLEAN, seq : Nat]
            /\ t.announce = s.announce /\ t.fmtp = s.fmtp
            /\ t.streams = s.streams /\ t.seq = s.seq + 1
<1>1. s.seq + 1 \in Nat
  OBVIOUS
<1>2. QED
  BY <1>1

\* The client sends a packet.
LEMMA SendPacketStep ==
  ASSUME StreamInv, SendPacket
  PROVE  StreamInv'
<1> DEFINE a == session.announce
           p == AirplayPacket(Key(a), Iv(a), a, session.fmtp,
                              session.seq % 2 ^ 16)
           m == Len(air)
<1>1. /\ session.streams /\ air' = Append(air, p)
      /\ session' = [session EXCEPT !.seq = @ + 1]
      /\ UNCHANGED <<chain, padded, wire, asked, owed, reply, answer, started,
                     alive, last, faults, decr, codecData, dec, sbcConf, rtp,
                     cut, disturbed, opened>>
  BY Zenon DEF SendPacket, chainVars, ghosts
<1>2. /\ TypeOK /\ NoSession /\ WireKeys /\ OneAnnounce /\ Protocol /\ NotYet
      /\ Playing /\ Keyed /\ Decodes
  BY DEF StreamInv
<1>3. chain = "airplay"
  BY <1>1, <1>2 DEF NoSession
<1>4. /\ session \in [announce : 0 .. MaxRequests, fmtp : 0 .. 2,
                      streams : BOOLEAN, seq : Nat]
      /\ session.announce # 0 => session.fmtp # 0
      /\ air \in Seq(AirPackets)
  BY <1>2, Zenon DEF TypeOK
<1>5. ~owed /\ asked.method = "SETUP" /\ a # 0
  BY <1>1, <1>2 DEF NotYet
<1>6. /\ a \in 1 .. MaxRequests /\ session.fmtp \in 1 .. 2
      /\ session.seq \in Nat
  BY <1>4, <1>5, MaxRequestsAssumption
<1>7. p \in AirPackets /\ p.announce = a
      /\ p.head.seq = session.seq % 2 ^ 16
  <2>1. p \in AirPackets
    BY <1>6, AirPacketIn
  <2>2. QED
    BY <2>1 DEF AirplayPacket, RtpHeader
<1>8. /\ session'.announce = a /\ session'.fmtp = session.fmtp
      /\ session'.streams = session.streams /\ session'.seq = session.seq + 1
      /\ session' \in [announce : 0 .. MaxRequests, fmtp : 0 .. 2,
                       streams : BOOLEAN, seq : Nat]
  BY <1>1, <1>4, NextSeq, Zenon
<1> HIDE DEF p
<1>9. /\ air' \in Seq(AirPackets) /\ Len(air') = m + 1 /\ m \in Nat
      /\ \A i \in 1 .. m : air'[i] = air[i]
      /\ air'[m + 1] = p
  <2>1. air \in Seq(AirPackets) /\ p \in AirPackets
    BY <1>4, <1>7
  <2>2. /\ Append(air, p) \in Seq(AirPackets)
        /\ Len(Append(air, p)) = m + 1 /\ m \in Nat
        /\ \A i \in 1 .. m : Append(air, p)[i] = air[i]
        /\ Append(air, p)[m + 1] = p
    BY <2>1, AppendProperties, LenProperties
  <2>3. air' = Append(air, p)
    BY <1>1
  <2>4. QED
    BY <2>2, <2>3, Zenon
<1> HIDE DEF a
<1>10. TypeOK'
  BY <1>1, <1>2, <1>8, <1>9, Zenon DEF TypeOK, a
<1>11. NoSession'
  BY <1>1, <1>3 DEF NoSession
<1>12. WireKeys'
  BY <1>1, <1>2 DEF WireKeys, Matching, Matched
<1>13. OneAnnounce'
  BY <1>1, <1>2 DEF OneAnnounce
<1>14. (Sent' <=> Sent) /\ (Idle' <=> Idle) /\ (Answered' <=> Answered)
       /\ (Thrown' <=> Thrown)
  BY <1>1, <1>8, Zenon DEF Sent, Idle, Answered, Thrown, a
<1>15. Protocol'
  BY <1>1, <1>2, <1>14, Zenon DEF Protocol, Answers
<1>16. NotYet'
  <2>1. \A i \in 1 .. m + 1 : air'[i].announce <= a
    <3> SUFFICES ASSUME NEW i \in 1 .. m + 1 PROVE air'[i].announce <= a
      OBVIOUS
    <3>1. CASE i \in 1 .. m
      BY <1>2, <1>9, <3>1 DEF NotYet, a
    <3>2. CASE i = m + 1
      BY <1>6, <1>7, <1>9, <3>2
    <3>3. QED
      BY <1>9, <3>1, <3>2
  <2>2. last.announce \in 0 .. session.announce
    BY <1>2 DEF NotYet
  <2>3. asked'.method # "ANNOUNCE" /\ ~owed'
    BY <1>1, <1>5
  <2>4. QED
    BY <1>1, <1>5, <1>8, <1>9, <2>1, <2>2, <2>3, Zenon DEF NotYet, a
<1>17. Playing'
  <2> SUFFICES ASSUME ~cut PROVE Playing'
    BY <1>1 DEF Playing
  <2>1. Running'
    BY <1>1, <1>8, Zenon DEF Running
  <2>2. ASSUME ~disturbed, NEW i \in 1 .. m + 1,
               air'[i].announce = session'.announce
        PROVE  air'[i].head.seq
                 = (session'.seq - (m + 1 - i) - 1) % 2 ^ 16
    <3>1. CASE i \in 1 .. m
      <4>1. air[i].head.seq = (session.seq - (m - i) - 1) % 2 ^ 16
        BY <1>2, <1>3, <1>8, <1>9, <2>2, <3>1 DEF Playing, a
      <4>2. session'.seq - (m + 1 - i) - 1 = session.seq - (m - i) - 1
        BY <1>6, <1>8, <1>9
      <4>3. QED
        BY <1>9, <3>1, <4>1, <4>2, Zenon
    <3>2. CASE i = m + 1
      <4>1. session'.seq - (m + 1 - i) - 1 = session.seq
        BY <1>6, <1>8, <1>9, <3>2
      <4>2. QED
        BY <1>7, <1>9, <3>2, <4>1, Zenon
    <3>3. QED
      BY <1>9, <3>1, <3>2
  <2>3. ASSUME ~disturbed, ~rtp.flushed
        PROVE  rtp.seq = (session'.seq - (m + 1) - 1) % 2 ^ 16
    <3>1. rtp.seq = (session.seq - m - 1) % 2 ^ 16
      BY <1>2, <1>3, <2>3, Zenon DEF Playing
    <3>2. session.seq - m - 1 = session'.seq - (m + 1) - 1
      BY <1>6, <1>8, <1>9
    <3>3. QED
      BY <3>1, <3>2
  <2>4. last.warned => disturbed
    BY <1>2, <1>3 DEF Playing
  <2>5. QED
    <3>1. ~disturbed =>
            /\ \A i \in 1 .. Len(air') :
                 air'[i].announce = session'.announce =>
                   air'[i].head.seq
                     = (session'.seq - (Len(air') - i) - 1) % 2 ^ 16
            /\ ~rtp.flushed =>
                 rtp.seq = (session'.seq - Len(air') - 1) % 2 ^ 16
      BY <1>9, <2>2, <2>3
    <3>2. QED
      BY <1>1, <2>1, <2>4, <3>1, Zenon DEF Playing
<1>18. Keyed'
  BY <1>1, <1>2, <1>8, <1>14, Zenon DEF Keyed, a
<1>19. Decodes'
  BY <1>1, <1>2, <1>3, AirplayDecodes
<1>20. QED
  BY <1>10, <1>11, <1>12, <1>13, <1>15, <1>16, <1>17, <1>18, <1>19
     DEF StreamInv
\* A packet of another program's session.
LEMMA StrayPacketIs ==
  /\ AirplayPacket(<<0>>, <<0>>, 0, 1, 9) \in AirPackets
  /\ AirplayPacket(<<0>>, <<0>>, 0, 1, 9).announce = 0
<1>1. AirplayPacket(<<0>>, <<0>>, 0, 1, 9) \in AirPackets
  BY DEF AirPackets
<1>2. QED
  BY <1>1 DEF AirplayPacket

\* A packet comes that nobody sent, or gets lost.
LEMMA DisturbedStep ==
  ASSUME StreamInv, StrayPacket \/ LosePacket
  PROVE  StreamInv'
<1> DEFINE q == AirplayPacket(<<0>>, <<0>>, 0, 1, 9)
           m == Len(air)
<1>1. /\ disturbed' = TRUE
      /\ UNCHANGED <<chain, padded, wire, asked, owed, session, reply, answer,
                     started, alive, last, packets, decr, codecData, dec,
                     sbcConf, rtp, cut, opened>>
  BY Zenon DEF StrayPacket, LosePacket, rtspVars, chainVars
<1>2. /\ TypeOK /\ NoSession /\ WireKeys /\ OneAnnounce /\ Protocol /\ NotYet
      /\ Playing /\ Keyed /\ Decodes
  BY DEF StreamInv
<1>3. /\ air \in Seq(AirPackets)
      /\ session \in [announce : 0 .. MaxRequests, fmtp : 0 .. 2,
                      streams : BOOLEAN, seq : Nat]
      /\ session.announce <= asked.n
  BY <1>2, Zenon DEF TypeOK
<1>4. m \in Nat /\ session.announce \in Nat
  BY <1>3, MaxRequestsAssumption
<1>5. \A i \in 1 .. m : air[i].announce <= session.announce
  BY <1>2 DEF NotYet
<1>6. /\ chain = "airplay" /\ air' \in Seq(AirPackets)
      /\ \A i \in 1 .. Len(air') :
           \/ \E k \in 1 .. m : air'[i] = air[k]
           \/ session.announce = 0 /\ air'[i].announce = 0
  <2>1. CASE StrayPacket
    <3>1. chain = "airplay" /\ asked.n = 0 /\ air' = Append(air, q)
      BY <2>1, Zenon DEF StrayPacket
    <3>2. q \in AirPackets /\ q.announce = 0
      BY StrayPacketIs
    <3> HIDE DEF q
    <3>3. /\ Append(air, q) \in Seq(AirPackets)
          /\ Len(Append(air, q)) = m + 1
          /\ \A i \in 1 .. m : Append(air, q)[i] = air[i]
          /\ Append(air, q)[m + 1] = q
      BY <1>3, <3>2, AppendProperties
    <3>4. session.announce = 0
      BY <1>3, <1>4, <3>1
    <3>5. \A i \in 1 .. m + 1 : i \in 1 .. m \/ i = m + 1
      BY <1>4
    <3>6. QED
      BY <3>1, <3>2, <3>3, <3>4, <3>5, Zenon
  <2>2. CASE LosePacket
    <3>1. PICK i \in DOMAIN air : air' = RemoveAt(air, i)
      BY <2>2, Zenon DEF LosePacket
    <3>2. i \in 1 .. m
      BY <1>3
    <3>3. /\ air' \in Seq(AirPackets) /\ Len(air') = m - 1
          /\ \A k \in 1 .. m - 1 : /\ k < i => air'[k] = air[k]
                                   /\ k >= i => air'[k] = air[k + 1]
      BY <1>3, <3>1, <3>2, RemoveAtHas
    <3>4. \A k \in 1 .. m - 1 : \E j \in 1 .. m : air'[k] = air[j]
      <4> SUFFICES ASSUME NEW k \in 1 .. m - 1
                   PROVE  \E j \in 1 .. m : air'[k] = air[j]
        OBVIOUS
      <4>1. k \in 1 .. m /\ k + 1 \in 1 .. m
        BY <1>4
      <4>2. air'[k] = air[k] \/ air'[k] = air[k + 1]
        BY <1>4, <3>2, <3>3
      <4>3. QED
        BY <4>1, <4>2
    <3>5. chain = "airplay"
      <4>1. air # <<>>
        BY <2>2, Zenon DEF LosePacket
      <4>2. QED
        BY <1>2, <4>1 DEF NoSession
    <3>6. QED
      BY <3>3, <3>4, <3>5, Zenon
  <2>3. QED
    BY <2>1, <2>2
<1>7. \A i \in 1 .. Len(air') : air'[i].announce <= session.announce
  BY <1>4, <1>5, <1>6
<1>8. TypeOK'
  BY <1>1, <1>2, <1>6, Zenon DEF TypeOK
<1>9. NoSession'
  BY <1>1, <1>6 DEF NoSession
<1>10. WireKeys'
  BY <1>1, <1>2 DEF WireKeys, Matching, Matched
<1>11. OneAnnounce'
  BY <1>1, <1>2 DEF OneAnnounce
<1>12. (Sent' <=> Sent) /\ (Idle' <=> Idle) /\ (Answered' <=> Answered)
       /\ (Thrown' <=> Thrown) /\ (Running' <=> Running)
  BY <1>1, Zenon DEF Sent, Idle, Answered, Thrown, Running
<1>13. Protocol'
  BY <1>1, <1>2, <1>12, Zenon DEF Protocol, Answers
<1>14. NotYet'
  <2>1. ASSUME asked.method = "ANNOUNCE" \/ (asked.method = "SETUP" /\ owed)
        PROVE  \A i \in 1 .. Len(air') : air'[i].announce # session.announce
    <3>1. session.announce # 0
          /\ \A i \in 1 .. m : air[i].announce # session.announce
      BY <1>2, <2>1 DEF NotYet
    <3>2. QED
      BY <1>6, <3>1, Zenon
  <2>2. QED
    BY <1>1, <1>2, <1>7, <2>1, Zenon DEF NotYet
<1>15. Playing'
  BY <1>1, <1>2, <1>12, Zenon DEF Playing
<1>16. Keyed'
  BY <1>1, <1>2, <1>12, Zenon DEF Keyed
<1>17. Decodes'
  BY <1>1, <1>2, <1>6, AirplayDecodes
<1>18. QED
  BY <1>8, <1>9, <1>10, <1>11, <1>13, <1>14, <1>15, <1>16, <1>17
     DEF StreamInv

\* The client gets its answer.
LEMMA OnSentStep ==
  ASSUME StreamInv, OnSent
  PROVE  StreamInv'
<1>1. /\ alive /\ reply.sent /\ answer' = reply /\ reply' = NoReply
      /\ owed' = FALSE
      /\ session' = [session EXCEPT !.streams = @ \/ asked.method = "SETUP"]
      /\ UNCHANGED <<chain, padded, wire, asked, started, alive, air, last,
                     packets, faults, decr, codecData, dec, sbcConf, rtp,
                     cut, disturbed, opened>>
  BY Zenon DEF OnSent, chainVars, ghosts
<1>2. /\ TypeOK /\ NoSession /\ WireKeys /\ OneAnnounce /\ Protocol /\ NotYet
      /\ Playing /\ Keyed /\ Decodes
  BY DEF StreamInv
<1>3. chain = "airplay" /\ ~reply'.sent
  <2>1. chain = "airplay"
    BY <1>1, <1>2 DEF NoSession
  <2>2. ~reply'.sent
    BY <1>1 DEF NoReply, createResponse
  <2>3. QED
    BY <2>1, <2>2
<1>4. session \in [announce : 0 .. MaxRequests, fmtp : 0 .. 2,
                   streams : BOOLEAN, seq : Nat]
  BY <1>2, Zenon DEF TypeOK
<1>5. /\ session' \in [announce : 0 .. MaxRequests, fmtp : 0 .. 2,
                       streams : BOOLEAN, seq : Nat]
      /\ session'.announce = session.announce
      /\ session'.fmtp = session.fmtp /\ session'.seq = session.seq
      /\ session'.streams <=> session.streams \/ asked.method = "SETUP"
  <2> DEFINE b == session.streams \/ asked.method = "SETUP"
  <2>1. b \in BOOLEAN
    OBVIOUS
  <2>2. session' = [session EXCEPT !.streams = b]
    BY <1>1, Zenon
  <2> HIDE DEF b
  <2>3. /\ session' \in [announce : 0 .. MaxRequests, fmtp : 0 .. 2,
                         streams : BOOLEAN, seq : Nat]
        /\ session'.announce = session.announce
        /\ session'.fmtp = session.fmtp /\ session'.seq = session.seq
        /\ session'.streams = b
    BY <1>4, <2>1, <2>2
  <2>4. QED
    BY <2>3, Zenon DEF b
<1>6. reply'.sent \in BOOLEAN
  BY <1>1 DEF NoReply, createResponse
<1>7. TypeOK'
  BY <1>1, <1>2, <1>5, <1>6, Zenon DEF TypeOK
<1>8. NoSession'
  BY <1>1, <1>3 DEF NoSession
<1>9. WireKeys'
  BY <1>1, <1>2 DEF WireKeys, Matching, Matched
<1>10. OneAnnounce'
  BY <1>1, <1>2 DEF OneAnnounce
<1>11. ~cut => Answered /\ ~Sent /\ Idle' /\ ~Sent'
  BY <1>1, <1>2, <1>3, Zenon
     DEF Protocol, Idle, Sent, Answered, Thrown
<1>12. Protocol'
  BY <1>1, <1>2, <1>3, <1>11, Zenon DEF Protocol, Answers
<1>13. NotYet'
  <2>1. session'.streams => asked.method = "SETUP"
    BY <1>2, <1>5, Zenon DEF NotYet
  <2>2. QED
    BY <1>1, <1>2, <1>5, <2>1, Zenon DEF NotYet
<1>14. Playing'
  <2> SUFFICES ASSUME ~cut PROVE Playing'
    BY <1>1 DEF Playing
  <2>1. Running => session.streams
    BY <1>11, Zenon DEF Running
  <2>2. session'.streams => Running'
    BY Zenon DEF Running
  <2>3. QED
    BY <1>1, <1>2, <1>3, <1>5, <2>1, <2>2, Zenon DEF Playing
<1>15. Keyed'
  BY <1>1, <1>2, <1>3, <1>5, <1>11, Zenon DEF Keyed
<1>16. Decodes'
  BY <1>1, <1>2, <1>3, AirplayDecodes
<1>17. QED
  BY <1>7, <1>8, <1>9, <1>10, <1>12, <1>13, <1>14, <1>15, <1>16
     DEF StreamInv
-----------------------------------------------------------------------------
(* The steps of the program.                                               *)

\* Sequence numbers wrap.
LEMMA Wraps ==
  ASSUME NEW n \in Int
  PROVE  ((n % 2 ^ 16) + 1) % 2 ^ 16 = (n + 1) % 2 ^ 16
  OBVIOUS

\* The fields of what AirPlay's sink gets.
LEMMA LastIs ==
  ASSUME NEW c, NEW a, NEW s, NEW w
  PROVE  LET t == [AtSink(c) EXCEPT !.announce = a, !.as = s, !.warned = w]
         IN /\ t.announce = a /\ t.as = s /\ t.due = AtSink(c).due
            /\ t.out = AtSink(c).out /\ t.warned = w
  BY DEF AtSink, NoPacket

\* A packet of the air is handled.
LEMMA OnPacketStep ==
  ASSUME StreamInv, OnPacket
  PROVE  StreamInv'
<1> DEFINE m == Len(air)
<1>1. /\ alive /\ air # <<>>
      /\ UNCHANGED <<chain, padded, wire, asked, owed, session, reply, answer,
                     started, alive, packets, codecData, sbcConf, cut>>
  BY Zenon DEF OnPacket, rtspVars
<1>2. PICK i \in DOMAIN air, again \in BOOLEAN :
        /\ air' = IF again THEN air ELSE RemoveAt(air, i)
        /\ disturbed' = (disturbed \/ again \/ i # 1 \/ ~started
                           \/ air[i].announce # session.announce)
        /\ RtpSequence(air[i].head.seq)
        /\ decr' = Decrypted /\ dec' = Opened
        /\ opened' = IF dec.open THEN opened
                     ELSE IF \/ session.announce = 0
                             \/ owed /\ asked.method = "ANNOUNCE" THEN 0
                     ELSE Fmtp(session.fmtp)[2]
        /\ \E c \in FfmpegAlac(Decrypt(RtpAlac(Datagram(air[i])))) :
             last' = [AtSink(c) EXCEPT !.announce = air[i].announce,
                        !.as = air[i].fmtp[2],
                        !.warned = RtpWarns(air[i].head.seq)]
  BY Zenon DEF OnPacket
<1> DEFINE p == air[i]
<1>3. /\ TypeOK /\ NoSession /\ WireKeys /\ OneAnnounce /\ Protocol /\ NotYet
      /\ Playing /\ Keyed /\ Decodes
  BY DEF StreamInv
<1>4. /\ air \in Seq(AirPackets)
      /\ session \in [announce : 0 .. MaxRequests, fmtp : 0 .. 2,
                      streams : BOOLEAN, seq : Nat]
      /\ session.announce # 0 => session.fmtp # 0
  BY <1>3, Zenon DEF TypeOK
<1>5. /\ m \in Nat /\ i \in 1 .. m /\ p \in AirPackets
      /\ session.announce \in Nat /\ session.seq \in Nat
  BY <1>2, <1>4, MaxRequestsAssumption
<1>6. chain = "airplay"
  BY <1>1, <1>3 DEF NoSession
<1>7. FromAnnounce(p)
  BY <1>5, AirHas
<1>8. PICK c \in FfmpegAlac(Decrypt(RtpAlac(Datagram(p)))) :
        last' = [AtSink(c) EXCEPT !.announce = p.announce,
                   !.as = p.fmtp[2], !.warned = RtpWarns(p.head.seq)]
  BY <1>2, Zenon
<1>9. /\ AtSink(c).out # "packet" /\ AtSink(c).due = 0
      /\ /\ decr = [key |-> p.key, iv |-> p.iv]
         /\ dec'.extradata = QuicktimeAtom(p.fmtp)
         => AtSink(c).out = "samples"
  BY <1>5, AirMeets
<1>10. /\ last'.announce = p.announce /\ last'.as = p.fmtp[2]
       /\ last'.due = 0 /\ last'.out = AtSink(c).out
       /\ last'.warned <=> RtpWarns(p.head.seq)
  BY <1>8, <1>9, LastIs
<1> HIDE DEF p
<1>11. /\ rtp' = [seq |-> p.head.seq, flushed |-> FALSE] /\ decr' = decr
       /\ dec' = Opened
       /\ disturbed' = (disturbed \/ again \/ i # 1 \/ ~started
                          \/ p.announce # session.announce)
       /\ disturbed' \in BOOLEAN
  BY <1>2, Zenon DEF RtpSequence, Decrypted, p
<1>12. /\ air' \in Seq(AirPackets)
       /\ \A k \in 1 .. Len(air') : \E j \in 1 .. m : air'[k] = air[j]
       /\ ~again /\ i = 1 =>
            /\ Len(air') = m - 1
            /\ \A k \in 1 .. m - 1 : air'[k] = air[k + 1]
  <2>1. CASE again
    BY <1>2, <1>4, <2>1
  <2>2. CASE ~again
    <3>1. air' = RemoveAt(air, i)
      BY <1>2, <2>2, Zenon
    <3>2. /\ air' \in Seq(AirPackets) /\ Len(air') = m - 1
          /\ \A k \in 1 .. m - 1 : /\ k < i => air'[k] = air[k]
                                   /\ k >= i => air'[k] = air[k + 1]
      <4>1. /\ RemoveAt(air, i) \in Seq(AirPackets)
            /\ Len(RemoveAt(air, i)) = m - 1
            /\ \A k \in 1 .. m - 1 :
                 /\ k < i => RemoveAt(air, i)[k] = air[k]
                 /\ k >= i => RemoveAt(air, i)[k] = air[k + 1]
        BY <1>4, <1>5, RemoveAtHas
      <4>2. QED
        BY <3>1, <4>1, Zenon
    <3>3. \A k \in 1 .. m - 1 : k \in 1 .. m /\ k + 1 \in 1 .. m /\ k >= 1
      BY <1>5
    <3>4. \A k \in 1 .. m - 1 : air'[k] = air[k] \/ air'[k] = air[k + 1]
      <4>1. \A k \in 1 .. m - 1 : k < i \/ k >= i
        BY <1>5
      <4>2. QED
        BY <3>2, <4>1, Zenon
    <3>5. QED
      BY <3>2, <3>3, <3>4
  <2>3. QED
    BY <2>1, <2>2
<1>13. TypeOK'
  <2>1. p.head.seq \in Int
    BY <1>7 DEF FromAnnounce
  <2>2. rtp' \in [seq : Int, flushed : BOOLEAN]
    BY <1>11, <2>1
  <2>3. QED
    BY <1>1, <1>3, <1>11, <1>12, <2>2, Zenon DEF TypeOK
<1>14. NoSession'
  BY <1>1, <1>6 DEF NoSession
<1>15. WireKeys'
  BY <1>1, <1>3 DEF WireKeys, Matching, Matched
<1>16. OneAnnounce'
  BY <1>1, <1>3, <1>11 DEF OneAnnounce
<1>17. (Sent' <=> Sent) /\ (Idle' <=> Idle) /\ (Answered' <=> Answered)
       /\ (Thrown' <=> Thrown) /\ (Running' <=> Running)
  BY <1>1, Zenon DEF Sent, Idle, Answered, Thrown, Running
<1>18. Protocol'
  BY <1>1, <1>3, <1>17, Zenon DEF Protocol, Answers
<1>19. /\ p.announce \in 0 .. session.announce
       /\ asked.method = "ANNOUNCE" \/ (asked.method = "SETUP" /\ owed) =>
            p.announce # session.announce
  <2>1. p.announce <= session.announce
    BY <1>3, <1>5 DEF NotYet, p
  <2>2. p.announce \in Nat
    BY <1>7, MaxRequestsAssumption DEF FromAnnounce
  <2>3. asked.method = "ANNOUNCE" \/ (asked.method = "SETUP" /\ owed) =>
          p.announce # session.announce
    BY <1>3, <1>5, Zenon DEF NotYet, p
  <2>4. QED
    BY <1>5, <2>1, <2>2, <2>3
<1>20. NotYet'
  <2>1. ASSUME asked.method = "ANNOUNCE" \/ (asked.method = "SETUP" /\ owed)
        PROVE  \A k \in 1 .. Len(air') : air'[k].announce # session.announce
    BY <1>3, <1>12, <2>1, Zenon DEF NotYet
  <2>2. \A k \in 1 .. Len(air') : air'[k].announce <= session.announce
    BY <1>3, <1>12, Zenon DEF NotYet
  <2>3. QED
    BY <1>1, <1>3, <1>10, <1>19, <2>1, <2>2, Zenon DEF NotYet
<1>21. Playing'
  <2> SUFFICES ASSUME ~cut PROVE Playing'
    BY <1>1 DEF Playing
  <2>1. last.warned => disturbed
    BY <1>3, <1>6 DEF Playing
  <2>2. started => Running \/ (Answered /\ asked.method = "SETUP")
    BY <1>3, <1>6, Zenon DEF Playing
  <2>3. ASSUME ~disturbed'
        PROVE  /\ ~disturbed /\ ~again /\ i = 1 /\ started
               /\ p.announce = session.announce
    BY <1>11, <2>3, Zenon
  <2>4. ASSUME ~disturbed'
        PROVE  /\ p.head.seq = (session.seq - (m - 1) - 1) % 2 ^ 16
               /\ Len(air') = m - 1
    <3>1. /\ ~disturbed /\ ~again /\ i = 1 /\ p.announce = session.announce
          /\ 1 \in 1 .. m
      BY <1>5, <2>3, <2>4
    <3>2. QED
      BY <1>3, <1>6, <1>12, <3>1, Zenon DEF Playing, p
  <2>5. ASSUME ~disturbed', NEW k \in 1 .. Len(air'),
               air'[k].announce = session.announce
        PROVE  air'[k].head.seq
                 = (session.seq - (Len(air') - k) - 1) % 2 ^ 16
    <3>1. /\ ~disturbed /\ ~again /\ i = 1 /\ Len(air') = m - 1
      BY <2>3, <2>4, <2>5, Zenon
    <3>2. k \in 1 .. m - 1
      BY <2>5, <3>1
    <3>3. air'[k] = air[k + 1] /\ k + 1 \in 1 .. m
      BY <1>5, <1>12, <3>1, <3>2
    <3>4. air[k + 1].head.seq = (session.seq - (m - (k + 1)) - 1) % 2 ^ 16
      BY <1>3, <1>6, <2>5, <3>1, <3>3, Zenon DEF Playing
    <3>5. Len(air') - k = m - (k + 1)
      BY <1>5, <3>1, <3>2
    <3>6. QED
      BY <3>3, <3>4, <3>5, Zenon
  <2>6. ASSUME ~disturbed'
        PROVE  /\ ~rtp'.flushed => Running'
               /\ rtp'.seq = (session.seq - Len(air') - 1) % 2 ^ 16
    <3>1. started /\ p.announce = session.announce
      BY <2>3, <2>6
    <3>2. Running
      BY <1>19, <2>2, <3>1, Zenon DEF Answered
    <3>3. rtp'.seq = p.head.seq
      BY <1>11
    <3>4. QED
      BY <1>17, <2>4, <2>6, <3>2, <3>3, Zenon
  <2>7. last'.warned => disturbed'
    <3> SUFFICES ASSUME last'.warned, ~disturbed' PROVE FALSE
      BY <1>11
    <3>1. ~rtp.flushed /\ (rtp.seq + 1) % 2 ^ 16 # p.head.seq
      BY <1>10, Zenon DEF RtpWarns
    <3>2. rtp.seq = (session.seq - m - 1) % 2 ^ 16
      BY <1>3, <1>6, <2>3, <3>1, Zenon DEF Playing
    <3>3. p.head.seq = (session.seq - (m - 1) - 1) % 2 ^ 16
      BY <2>4
    <3>4. (session.seq - m - 1 + 1) = (session.seq - (m - 1) - 1)
          /\ session.seq - m - 1 \in Int
      BY <1>5
    <3>5. (((session.seq - m - 1) % 2 ^ 16) + 1) % 2 ^ 16
            = (session.seq - m - 1 + 1) % 2 ^ 16
      BY <3>4, Wraps
    <3>6. QED
      BY <3>1, <3>2, <3>3, <3>4, <3>5, Zenon
  <2>8. started' => Running' \/ (Answered' /\ asked'.method = "SETUP")
    BY <1>1, <1>17, <2>2, Zenon
  <2>9. QED
    BY <1>1, <2>5, <2>6, <2>7, <2>8, Zenon DEF Playing
<1>22. Keyed'
  <2> SUFFICES ASSUME ~cut, padded PROVE Keyed'
    BY <1>1, Zenon DEF Keyed
  <2>1. ASSUME session.announce # 0, ~(Sent /\ asked.method = "ANNOUNCE")
        PROVE  /\ decr = [key |-> Key(session.announce),
                          iv |-> Iv(session.announce)]
               /\ codecData = QuicktimeAtom(Fmtp(session.fmtp))
    BY <1>1, <1>3, <1>6, <2>1, Zenon DEF Keyed
  <2>2. opened # 0 => \E f \in 1 .. 2 :
          /\ opened = Fmtp(f)[2]
          /\ dec.open /\ dec.extradata = QuicktimeAtom(Fmtp(f))
    BY <1>3, <1>6, Zenon DEF Keyed
  <2>3. opened' # 0 => \E f \in 1 .. 2 :
          /\ opened' = Fmtp(f)[2]
          /\ dec'.open /\ dec'.extradata = QuicktimeAtom(Fmtp(f))
    <3>1. CASE dec.open
      <4>1. opened' = opened /\ dec' = dec
        BY <1>2, <3>1, Zenon DEF Opened
      <4>2. QED
        BY <2>2, <4>1, Zenon
    <3>2. CASE ~dec.open
      <4> SUFFICES ASSUME opened' # 0
                   PROVE  \E f \in 1 .. 2 :
                            /\ opened' = Fmtp(f)[2] /\ dec'.open
                            /\ dec'.extradata = QuicktimeAtom(Fmtp(f))
        OBVIOUS
      <4>1. /\ session.announce # 0 /\ ~(owed /\ asked.method = "ANNOUNCE")
            /\ opened' = Fmtp(session.fmtp)[2]
        BY <1>2, <3>2, Zenon
      <4>2. codecData = QuicktimeAtom(Fmtp(session.fmtp))
        BY <2>1, <4>1, Zenon DEF Sent
      <4>3. dec' = [open |-> TRUE, extradata |-> codecData]
        BY <1>2, <3>2, Zenon DEF Opened
      <4>4. session.fmtp \in 1 .. 2
        BY <1>4, <4>1
      <4>5. dec'.open /\ dec'.extradata = codecData
        BY <4>3
      <4>6. QED
        BY <4>1, <4>2, <4>4, <4>5, Zenon
    <3>3. QED
      BY <3>1, <3>2
  <2>4. ASSUME last'.announce = session.announce, last'.announce # 0,
               last'.as = opened'
        PROVE  last'.out = "samples"
    <3>1. p.announce = session.announce /\ session.announce # 0
      BY <1>10, <2>4
    <3>2. p.key = Key(session.announce) /\ p.iv = Iv(session.announce)
      BY <1>7, <3>1, Zenon DEF FromAnnounce
    <3>3. PICK f \in 1 .. 2 : p.fmtp = Fmtp(f)
      BY <1>7, Zenon DEF FromAnnounce
    <3>4. opened' = Fmtp(f)[2]
      BY <1>10, <2>4, <3>3, Zenon
    <3>5. opened' # 0
      BY <3>4, FmtpHas
    <3>6. PICK g \in 1 .. 2 : /\ opened' = Fmtp(g)[2]
                              /\ dec'.extradata = QuicktimeAtom(Fmtp(g))
      BY <2>3, <3>5, Zenon
    <3>7. f = g
      BY <3>4, <3>6, FmtpHas
    <3>8. decr = [key |-> p.key, iv |-> p.iv]
      BY <1>19, <2>1, <3>1, <3>2, Zenon
    <3>9. dec'.extradata = QuicktimeAtom(p.fmtp)
      BY <3>3, <3>6, <3>7, Zenon
    <3>10. QED
      BY <1>9, <1>10, <3>8, <3>9, Zenon
  <2>5. QED
    BY <1>1, <1>11, <1>17, <2>1, <2>3, <2>4, Zenon DEF Keyed
<1>23. Decodes'
  BY <1>1, <1>3, <1>6, <1>9, <1>10, AirplayDecodes
<1>24. QED
  BY <1>13, <1>14, <1>15, <1>16, <1>18, <1>20, <1>21, <1>22, <1>23
     DEF StreamInv

\* What the program reads in a padded request.
LEMMA KeysRead ==
  ASSUME padded = TRUE, NEW a \in 1 .. MaxRequests, NEW junk \in {0, 65}
  PROVE  /\ Rsa(base64Decode(TextOf(Rsa(Key(a)), padded), junk)) = Key(a)
         /\ Len(base64Decode(TextOf(Rsa(Key(a)), padded), junk))
              = Len(Key(1))
         /\ base64Decode(TextOf(Iv(a), padded), junk) = Iv(a)
<1>1. /\ base64Decode(TextOf(Rsa(Key(a)), padded), junk) = Rsa(Key(a))
      /\ base64Decode(TextOf(Iv(a), padded), junk) = Iv(a)
  BY KeysSurvive, Zenon
<1>2. a \in Nat
  BY MaxRequestsAssumption
<1>3. QED
  BY <1>1, <1>2, RsaUndone, Zenon

\* What the client reads in the answer to a challenge.
LEMMA ChallengeRead ==
  ASSUME padded = TRUE, NEW junk \in {0, 65}, NEW message,
         header(message, "Apple-Challenge") = TextOf(Challenge, padded)
  PROVE  BytesOf(AppleResponse(message, junk)) =
           Rsa(Challenge \o Ip \o hwAddress \o [i \in 1 .. 21 |-> 0])
<1> DEFINE signed == Challenge \o Ip \o hwAddress
<1>1. /\ header(message, "Apple-Challenge") # <<>>
      /\ base64Decode(header(message, "Apple-Challenge"), junk) = Challenge
  BY ChallengeSurvives, Zenon
<1>2. Len(signed) = 11
  BY DEF Challenge, Ip, hwAddress
<1>3. Max({0, 32 - Len(signed)}) = 21
  <2>1. {0, 32 - Len(signed)} = {0, 21}
    BY <1>2
  <2>2. Max({0, 21}) = 21
    BY DEF Max
  <2>3. QED
    BY <2>1, <2>2
<1> HIDE DEF signed
<1>4. AppleResponse(message, junk)
        = base64Encode(Rsa(signed \o [i \in 1 .. 21 |-> 0]), FALSE)
  BY <1>1, <1>3, Zenon DEF AppleResponse, signed
<1>5. QED
  BY <1>4, ChallengeSurvives, Zenon DEF signed

\* RtpFlush.
LEMMA Flushed ==
  ASSUME NEW r \in [seq : Int, flushed : BOOLEAN]
  PROVE  LET s == [r EXCEPT !.flushed = TRUE]
         IN /\ s \in [seq : Int, flushed : BOOLEAN]
            /\ s.seq = r.seq /\ s.flushed
  OBVIOUS

\* A receive, of a whole request or a piece.
LEMMA OnReceivedStep ==
  ASSUME StreamInv, OnReceived
  PROVE  StreamInv'
<1>1. /\ alive /\ ~reply.sent /\ wire # <<>>
      /\ UNCHANGED <<chain, padded, asked, owed, session, answer, air, last,
                     packets, dec, sbcConf, disturbed, opened>>
  BY Zenon DEF OnReceived
<1>2. PICK n \in 1 .. Len(wire), junk \in {0, 65} :
        LET message == deserializeRequest(SubSeq(wire, 1, n))
        IN /\ wire' = SubSeq(wire, n + 1, Len(wire))
           /\ cut' = (cut \/ n < Len(wire))
           /\ IF Throws(message, junk)
              THEN alive' = FALSE
                   /\ UNCHANGED <<reply, started, decr, codecData, rtp>>
              ELSE OnMessage(message, junk) /\ UNCHANGED alive
  BY Zenon DEF OnReceived
<1> DEFINE chunk == SubSeq(wire, 1, n)
           message == deserializeRequest(chunk)
           attr == message.sdp[1]
<1>3. /\ TypeOK /\ NoSession /\ WireKeys /\ OneAnnounce /\ Protocol /\ NotYet
      /\ Playing /\ Keyed /\ Decodes
  BY DEF StreamInv
<1>4. /\ wire \in Seq(Lines) /\ asked.n \in 0 .. MaxRequests
      /\ asked.missing \in BOOLEAN /\ padded \in BOOLEAN
      /\ session \in [announce : 0 .. MaxRequests, fmtp : 0 .. 2,
                      streams : BOOLEAN, seq : Nat]
      /\ rtp \in [seq : Int, flushed : BOOLEAN]
  BY <1>3, Zenon DEF TypeOK
<1>5. chain = "airplay"
  BY <1>1, <1>3 DEF NoSession
<1>6. /\ wire' = SubSeq(wire, n + 1, Len(wire))
      /\ cut' = (cut \/ n < Len(wire))
      /\ Throws(message, junk) =>
           /\ alive' = FALSE
           /\ UNCHANGED <<reply, started, decr, codecData, rtp>>
      /\ ~Throws(message, junk) => OnMessage(message, junk) /\ alive' = alive
  BY <1>2, Zenon
<1>7. chunk \in Seq(Lines) /\ wire' \in Seq(Lines) /\ Len(wire) \in Nat
  BY <1>4, <1>6
<1>8. Matching(chunk) /\ Matching(wire')
  BY <1>3, <1>4, <1>6, MatchedParts
<1> HIDE DEF chunk
<1>9. message.sdp # <<>> => media(chunk) # {} /\ attr = attributes(chunk)
  BY DEF deserializeRequest
<1> HIDE DEF message, attr
<1>10. ASSUME ~Throws(message, junk)
       PROVE  /\ message.method = "ANNOUNCE" => OnAnnounce(message, junk)
              /\ message.method # "ANNOUNCE" => UNCHANGED <<decr, codecData>>
              /\ message.method = "SETUP" => started' = TRUE /\ rtp' = rtp
              /\ message.method = "TEARDOWN" =>
                   started' = FALSE /\ rtp' = [rtp EXCEPT !.flushed = TRUE]
              /\ message.method \notin {"SETUP", "TEARDOWN"} =>
                   UNCHANGED <<started, rtp>>
  BY <1>6, <1>10, Zenon
     DEF OnMessage, OnSetup, OnTeardown, OnRecord, RtpFlush
<1>11. ASSUME ~Throws(message, junk)
       PROVE  /\ reply'.sent /\ reply'.sent \in BOOLEAN
              /\ reply'.cseq = header(message, "CSeq")
              /\ message.method = "OPTIONS" =>
                   reply'.apple = AppleResponse(message, junk)
  <2>1. reply' = IF message.method = "OPTIONS" THEN OnOptions(message, junk)
                 ELSE createResponse(header(message, "CSeq"))
    BY <1>6, <1>11, Zenon DEF OnMessage
  <2>2. CASE message.method = "OPTIONS"
    BY <2>1, <2>2 DEF OnOptions, createResponse
  <2>3. CASE message.method # "OPTIONS"
    BY <2>1, <2>3 DEF createResponse
  <2>4. QED
    BY <2>2, <2>3
<1>12. /\ rtp' \in [seq : Int, flushed : BOOLEAN] /\ started' \in BOOLEAN
       /\ reply'.sent \in BOOLEAN
  <2>1. reply.sent \in BOOLEAN /\ started \in BOOLEAN
    BY <1>3, Zenon DEF TypeOK
  <2>2. CASE Throws(message, junk)
    BY <1>4, <1>6, <2>1, <2>2, Zenon
  <2>3. CASE ~Throws(message, junk)
    <3>1. rtp' \in [seq : Int, flushed : BOOLEAN]
      <4>1. rtp' = rtp \/ rtp' = [rtp EXCEPT !.flushed = TRUE]
        BY <1>10, <2>3, Zenon
      <4>2. QED
        BY <1>4, <4>1, Flushed, Zenon
    <3>2. started' = TRUE \/ started' = FALSE \/ started' = started
      BY <1>10, <2>3, Zenon
    <3>3. started' \in BOOLEAN
      BY <2>1, <3>2, Zenon
    <3>4. QED
      BY <1>11, <2>3, <3>1, <3>3, Zenon
  <2>4. QED
    BY <2>2, <2>3
<1>13. TypeOK'
  <2>1. alive' \in BOOLEAN /\ cut' \in BOOLEAN
    <3>1. alive \in BOOLEAN
      BY <1>3, Zenon DEF TypeOK
    <3>2. alive' = FALSE \/ alive' = alive
      BY <1>6, Zenon
    <3>3. alive' \in BOOLEAN
      BY <3>1, <3>2, Zenon
    <3>4. cut' \in BOOLEAN
      BY <1>6
    <3>5. QED
      BY <3>3, <3>4
  <2>2. QED
    BY <1>1, <1>3, <1>7, <1>12, <2>1, Zenon DEF TypeOK
<1>14. NoSession'
  BY <1>1, <1>5 DEF NoSession
<1>15. WireKeys'
  BY <1>1, <1>8 DEF WireKeys, Matching, Matched
<1>16. ASSUME message.method = "ANNOUNCE", message.sdp # <<>>,
              ~Throws(message, junk)
       PROVE  /\ {"rsaaeskey", "aesiv", "fmtp"} \subseteq DOMAIN attr
              /\ decr' = [key |-> Rsa(base64Decode(attr["rsaaeskey"], junk)),
                          iv |-> base64Decode(attr["aesiv"], junk)]
              /\ codecData' = QuicktimeAtom(attr["fmtp"])
  <2>1. {"rsaaeskey", "aesiv", "fmtp"} \subseteq DOMAIN attr
    BY <1>16, Zenon DEF Throws, attr
  <2>2. OnAnnounce(message, junk)
    BY <1>10, <1>16, Zenon
  <2>3. /\ DecrypterInit(attr["rsaaeskey"], attr["aesiv"], junk)
        /\ codecData' = QuicktimeAtom(attr["fmtp"])
    BY <1>16, <2>2, Zenon DEF OnAnnounce, attr
  <2>4. QED
    BY <2>1, <2>3, Zenon DEF DecrypterInit
<1>17. ASSUME padded, decr' # decr
       PROVE  \E a \in 1 .. MaxRequests :
                decr' = [key |-> Key(a), iv |-> Iv(a)]
  <2>1. ~Throws(message, junk)
    BY <1>6, <1>17
  <2>2. message.method = "ANNOUNCE" /\ message.sdp # <<>>
    BY <1>10, <1>17, <2>1, Zenon DEF OnAnnounce
  <2>3. media(chunk) # {} /\ attr = attributes(chunk)
    BY <1>9, <2>2
  <2>4. {"rsaaeskey", "aesiv"} \subseteq DOMAIN attributes(chunk)
    BY <1>16, <2>1, <2>2, <2>3
  <2>5. PICK a \in 1 .. MaxRequests :
          /\ attributes(chunk)["rsaaeskey"] = TextOf(Rsa(Key(a)), padded)
          /\ attributes(chunk)["aesiv"] = TextOf(Iv(a), padded)
    BY <1>7, <1>8, <2>3, <2>4, ChunkSays
  <2>6. padded = TRUE
    BY <1>4, <1>17, Zenon
  <2>7. decr' = [key |-> Key(a), iv |-> Iv(a)]
    BY <1>16, <2>1, <2>2, <2>3, <2>5, <2>6, KeysRead, Zenon
  <2>8. QED
    BY <2>7
<1>18. OneAnnounce'
  <2>1. CASE decr' = decr
    BY <1>1, <1>3, <2>1 DEF OneAnnounce
  <2>2. CASE decr' # decr
    <3>1. padded => \E a \in 1 .. MaxRequests :
                      decr' = [key |-> Key(a), iv |-> Iv(a)]
      BY <1>17, <2>2
    <3>2. padded' = padded
      BY <1>1
    <3>3. QED
      BY <3>1, <3>2, Zenon DEF OneAnnounce
  <2>3. QED
    BY <2>1, <2>2
<1>19. ASSUME ~cut'
       PROVE  /\ ~cut /\ n = Len(wire) /\ Sent /\ wire' = <<>>
              /\ Says(message, asked.method, asked.n, session.announce,
                      session.fmtp, asked.missing)
  <2>1. ~cut /\ n = Len(wire)
    <3>1. ~cut /\ ~(n < Len(wire))
      BY <1>6, <1>19, Zenon
    <3>2. n = Len(wire)
      BY <1>7, <3>1
    <3>3. QED
      BY <3>1, <3>2
  <2>2. Sent
    BY <1>1, <1>3, <1>5, <2>1, Zenon DEF Protocol, Idle, Answered, Thrown
  <2>3. wire' = <<>> /\ chunk = wire
    BY <1>4, <1>6, <2>1 DEF chunk
  <2>4. asked.method \in Methods /\ asked.n \in Nat
    BY <1>4, <2>2, MaxRequestsAssumption DEF Sent
  <2>5. message = deserializeRequest(Text(asked.method, asked.n,
                    session.announce, session.fmtp, asked.missing, padded))
    BY <2>2, <2>3, Zenon DEF Sent, message
  <2>6. Says(deserializeRequest(Text(asked.method, asked.n,
                    session.announce, session.fmtp, asked.missing, padded)),
             asked.method, asked.n, session.announce, session.fmtp,
             asked.missing)
    <3>1. asked.missing \in BOOLEAN
      BY <1>4
    <3>2. QED
      BY <2>4, <3>1, WholeSays
  <2>7. Says(message, asked.method, asked.n, session.announce, session.fmtp,
             asked.missing)
    BY <2>5, <2>6, Zenon
  <2>8. QED
    BY <2>1, <2>2, <2>3, <2>7
<1>20. ASSUME ~cut', asked.method = "ANNOUNCE"
       PROVE  /\ message.method = "ANNOUNCE" /\ message.sdp # <<>>
              /\ attr["fmtp"] = Fmtp(session.fmtp)
              /\ attr["rsaaeskey"] = TextOf(Rsa(Key(session.announce)), padded)
              /\ {"fmtp", "rsaaeskey"} \subseteq DOMAIN attr
              /\ ~asked.missing =>
                   /\ "aesiv" \in DOMAIN attr
                   /\ attr["aesiv"] = TextOf(Iv(session.announce), padded)
              /\ asked.missing => "aesiv" \notin DOMAIN attr
              /\ session.announce \in 1 .. MaxRequests
  <2>1. /\ message.method = "ANNOUNCE" /\ message.sdp # <<>>
        /\ Announces(attr, session.announce, session.fmtp, asked.missing)
    BY <1>19, <1>20, Zenon DEF Says, attr
  <2>2. session.announce # 0
    BY <1>3, <1>20, Zenon DEF NotYet
  <2>3. session.announce \in 1 .. MaxRequests
    BY <1>4, <2>2, MaxRequestsAssumption
  <2>4. QED
    BY <2>1, <2>3, Zenon DEF Announces
<1>21. ASSUME ~cut', Throws(message, junk), padded
       PROVE  asked.missing
  <2>1. message.method = "ANNOUNCE"
    BY <1>21, Zenon DEF Throws
  <2>2. asked.method = "ANNOUNCE"
    BY <1>19, <1>21, <2>1, Zenon DEF Says
  <2>3. padded = TRUE
    BY <1>4, <1>21, Zenon
  <2>4. Len(base64Decode(attr["rsaaeskey"], junk)) = Len(Key(1))
    <3>1. /\ session.announce \in 1 .. MaxRequests
          /\ attr["rsaaeskey"] = TextOf(Rsa(Key(session.announce)), padded)
      BY <1>20, <1>21, <2>2
    <3>2. Len(base64Decode(TextOf(Rsa(Key(session.announce)), padded), junk))
            = Len(Key(1))
      BY <2>3, <3>1, KeysRead
    <3>3. QED
      BY <3>1, <3>2, Zenon
  <2>5. ~(Len(Key(1)) > Len(Key(1)))
    <3>1. Len(Key(1)) = 4
      BY DEF Key
    <3>2. QED
      BY <3>1
  <2>6. \/ ~({"rsaaeskey", "aesiv", "fmtp"} \subseteq DOMAIN attr)
        \/ Len(base64Decode(attr["rsaaeskey"], junk)) > Len(Key(1))
    BY <1>21, Zenon DEF Throws, attr
  <2>7. ~({"rsaaeskey", "aesiv", "fmtp"} \subseteq DOMAIN attr)
    BY <2>4, <2>5, <2>6, Zenon
  <2>8. "aesiv" \notin DOMAIN attr
    BY <1>20, <1>21, <2>2, <2>7
  <2>9. QED
    BY <1>20, <1>21, <2>2, <2>8, Zenon
<1>22. ASSUME ~cut', ~Throws(message, junk)
       PROVE  Answered' /\ Answers(reply')
  <2>1. Answered'
    BY <1>1, <1>6, <1>11, <1>19, <1>22, Zenon DEF Answered, Sent
  <2>2. reply'.cseq = <<asked.n>>
    BY <1>11, <1>19, <1>22, Zenon DEF Says
  <2>3. ASSUME asked.method = "OPTIONS", padded
        PROVE  BytesOf(reply'.apple) =
                 Rsa(Challenge \o Ip \o hwAddress \o [i \in 1 .. 21 |-> 0])
    <3>1. padded = TRUE
      BY <1>4, <2>3, Zenon
    <3>2. reply'.apple = AppleResponse(message, junk)
      BY <1>11, <1>19, <1>22, <2>3, Zenon DEF Says
    <3>3. header(message, "Apple-Challenge") = TextOf(Challenge, padded)
      BY <1>19, <1>22, <2>3, Zenon DEF Says
    <3>4. BytesOf(AppleResponse(message, junk)) =
            Rsa(Challenge \o Ip \o hwAddress \o [i \in 1 .. 21 |-> 0])
      BY <3>1, <3>3, ChallengeRead
    <3>5. QED
      BY <3>2, <3>4, Zenon
  <2>4. QED
    BY <2>1, <2>2, <2>3, Zenon DEF Answers
<1>23. Protocol'
  <2> SUFFICES ASSUME ~cut' PROVE Protocol'
    BY Zenon DEF Protocol
  <2>1. owed /\ owed' = owed /\ asked' = asked /\ padded' = padded
    BY <1>1, <1>19, Zenon DEF Sent
  <2>2. CASE Throws(message, junk)
    <3>1. alive' = FALSE /\ reply' = reply /\ wire' = <<>>
      BY <1>6, <1>19, <2>2, Zenon
    <3>2. padded => asked.missing
      BY <1>21, <2>2
    <3>3. asked'.missing \/ ~padded'
      BY <2>1, <3>2, Zenon
    <3>4. ~reply'.sent
      BY <1>1, <3>1, Zenon
    <3>5. ~alive'
      BY <3>1
    <3>6. Thrown'
      BY <2>1, <3>1, <3>3, <3>4, <3>5, Zenon DEF Thrown
    <3>7. QED
      BY <2>1, <3>4, <3>6, Zenon DEF Protocol
  <2>3. CASE ~Throws(message, junk)
    <3>1. Answered' /\ Answers(reply')
      BY <1>22, <2>3
    <3>2. Answers(reply)'
      BY <2>1, <3>1, Zenon DEF Answers
    <3>3. QED
      BY <2>1, <3>1, <3>2, Zenon DEF Protocol
  <2>4. QED
    BY <2>2, <2>3
<1>24. NotYet'
  <2>1. UNCHANGED <<session, asked, owed, last, air>>
    BY <1>1
  <2>2. QED
    BY <1>3, <2>1, Zenon DEF NotYet
<1>25. Playing'
  <2> SUFFICES ASSUME ~cut' PROVE Playing'
    BY Zenon DEF Playing
  <2>1. ~cut /\ Sent /\ message.method = asked.method /\ ~session.streams
    BY <1>3, <1>19, Zenon DEF Sent, Says, NotYet
  <2>2. ~Sent'
    BY <1>6, <1>22, Zenon DEF Sent, Answered
  <2>3. started => asked.method = "TEARDOWN"
    BY <1>3, <1>5, <2>1, Zenon DEF Playing, Running, Answered, Sent
  <2>4. ~disturbed /\ ~rtp.flushed => asked.method = "TEARDOWN"
    BY <1>3, <1>5, <2>1, Zenon DEF Playing, Running
  <2>5. started' => Answered' /\ asked.method = "SETUP"
    <3>1. CASE Throws(message, junk)
      BY <1>6, <2>1, <2>3, <3>1, Zenon DEF Throws
    <3>2. CASE ~Throws(message, junk)
      BY <1>10, <1>22, <2>1, <2>3, <3>2, Zenon
    <3>3. QED
      BY <3>1, <3>2
  <2>6. ~disturbed => rtp'.flushed
    <3>1. CASE Throws(message, junk)
      BY <1>6, <2>1, <2>4, <3>1, Zenon DEF Throws
    <3>2. CASE ~Throws(message, junk)
      BY <1>4, <1>10, <2>1, <2>4, <3>2, Flushed, Zenon
    <3>3. QED
      BY <3>1, <3>2
  <2>7. UNCHANGED <<chain, session, air, disturbed, last, asked>>
    BY <1>1
  <2>8. QED
    BY <1>3, <2>1, <2>5, <2>6, <2>7, Zenon DEF Playing
<1>26. Keyed'
  <2> SUFFICES ASSUME ~cut', padded PROVE Keyed'
    BY <1>1, Zenon DEF Keyed
  <2>1. ~cut /\ Sent /\ message.method = asked.method
    BY <1>19, Zenon DEF Says
  <2>2. UNCHANGED <<chain, padded, session, opened, dec, last>>
    BY <1>1
  <2>3. ASSUME session.announce # 0, alive'
        PROVE  /\ decr' = [key |-> Key(session.announce),
                           iv |-> Iv(session.announce)]
               /\ codecData' = QuicktimeAtom(Fmtp(session.fmtp))
    <3>1. ~Throws(message, junk)
      BY <1>6, <2>3, Zenon
    <3>2. CASE asked.method = "ANNOUNCE"
      <4>1. /\ message.method = "ANNOUNCE" /\ message.sdp # <<>>
            /\ attr["fmtp"] = Fmtp(session.fmtp)
            /\ attr["rsaaeskey"] = TextOf(Rsa(Key(session.announce)), padded)
            /\ session.announce \in 1 .. MaxRequests
        BY <1>20, <3>2
      <4>2. /\ {"rsaaeskey", "aesiv", "fmtp"} \subseteq DOMAIN attr
            /\ decr' = [key |-> Rsa(base64Decode(attr["rsaaeskey"], junk)),
                        iv |-> base64Decode(attr["aesiv"], junk)]
            /\ codecData' = QuicktimeAtom(attr["fmtp"])
        BY <1>16, <3>1, <4>1
      <4>3. attr["aesiv"] = TextOf(Iv(session.announce), padded)
        BY <1>4, <1>20, <3>2, <4>2
      <4>4. padded = TRUE
        BY <1>4, Zenon
      <4>5. QED
        BY <4>1, <4>2, <4>3, <4>4, KeysRead, Zenon
    <3>3. CASE asked.method # "ANNOUNCE"
      BY <1>1, <1>3, <1>5, <1>10, <2>1, <2>3, <3>1, <3>3, Zenon DEF Keyed
    <3>4. QED
      BY <3>2, <3>3
  <2>4. QED
    BY <1>3, <2>1, <2>2, <2>3, Zenon DEF Keyed
<1>27. Decodes'
  BY <1>1, <1>3, <1>5, AirplayDecodes
<1>28. QED
  BY <1>13, <1>14, <1>15, <1>18, <1>23, <1>24, <1>25, <1>26, <1>27
     DEF StreamInv
\* A datagram of another chain.
LEMMA OnDatagramStep ==
  ASSUME StreamInv, OnDatagram
  PROVE  StreamInv'
<1>1. /\ TypeOK /\ NoSession /\ WireKeys /\ OneAnnounce /\ Protocol /\ NotYet
      /\ Playing /\ Keyed /\ Decodes
  BY DEF StreamInv
<1>2. /\ chain # "airplay"
      /\ UNCHANGED <<chain, padded, wire, asked, owed, session, reply, answer,
                     started, air, decr, codecData, rtp, cut, disturbed,
                     opened>>
  BY SMT DEF OnDatagram, rtspVars, ghosts
<1>3. PICK p : PushDatagram(p)
  BY SMT DEF OnDatagram
<1>4. \E c : last' = Sunk(c, p)
  BY <1>3, Zenon DEF PushDatagram
<1>5. last'.announce = 0 /\ last'.warned = FALSE
  BY <1>4, SunkHas
<1>6. alive' \in BOOLEAN
  <2>1. alive \in BOOLEAN
    BY <1>1, Zenon DEF TypeOK
  <2>2. alive' = alive \/ \E d : alive' = ~Divides(d)
    BY <1>3, Zenon DEF PushDatagram
  <2>3. \A d : (~Divides(d)) \in BOOLEAN
    BY Zenon
  <2>4. QED
    BY <2>1, <2>2, <2>3, Zenon
<1>7. TypeOK'
  BY <1>1, <1>2, <1>6, Zenon DEF TypeOK
<1>8. NoSession'
  BY <1>1, <1>2, <1>5, Zenon DEF NoSession
<1>9. WireKeys'
  BY <1>1, <1>2 DEF WireKeys, Matching, Matched
<1>10. OneAnnounce'
  BY <1>1, <1>2 DEF OneAnnounce
<1>11. Protocol' /\ Playing' /\ Keyed'
  BY <1>2, Zenon DEF Protocol, Playing, Keyed
<1>12. NotYet'
  <2>1. asked.n = 0 /\ session.announce <= asked.n
        /\ session.announce \in 0 .. MaxRequests
    <3>1. session \in [announce : 0 .. MaxRequests, fmtp : 0 .. 2,
                       streams : BOOLEAN, seq : Nat]
      BY <1>1, Zenon DEF TypeOK
    <3>2. asked.n = 0 /\ session.announce <= asked.n
      BY <1>1, <1>2, Zenon DEF TypeOK, NoSession
    <3>3. QED
      BY <3>1, <3>2
  <2>2. session.announce = 0
    BY <2>1, MaxRequestsAssumption
  <2>3. last'.announce \in 0 .. session.announce
    BY <1>5, <2>2
  <2>4. ~(asked.method \in {"ANNOUNCE", "SETUP"})
    BY <1>1, <2>2, Zenon DEF NotYet
  <2>5. ~(asked.method = "ANNOUNCE" \/ (asked.method = "SETUP" /\ owed))
    BY <2>4
  <2>6. QED
    BY <1>1, <1>2, <2>3, <2>4, <2>5, Zenon DEF NotYet
<1>13. Decodes'
  BY DatagramDecodes
<1>14. QED
  BY <1>7, <1>8, <1>9, <1>10, <1>11, <1>12, <1>13 DEF StreamInv
-----------------------------------------------------------------------------
(* The theorems.                                                           *)

\* The start.
LEMMA InitHolds ==
  ASSUME Init
  PROVE  StreamInv
<1>1. /\ wire = <<>> /\ owed = FALSE /\ started = FALSE /\ alive = TRUE
      /\ asked = [n |-> 0, method |-> "none", missing |-> FALSE]
      /\ session = [announce |-> 0, fmtp |-> 0, streams |-> FALSE, seq |-> 0]
      /\ reply = NoReply /\ answer = NoReply /\ air = <<>>
      /\ last = NoPacket /\ cut = FALSE /\ disturbed = FALSE /\ opened = 0
      /\ padded \in BOOLEAN /\ decr = [key |-> <<>>, iv |-> <<>>]
      /\ sbcConf = Invalid /\ rtp = [seq |-> 0, flushed |-> TRUE]
  BY DEF Init, ChainInit
<1>2. /\ reply.sent = FALSE /\ answer.sent = FALSE
      /\ last.announce = 0 /\ last.warned = FALSE /\ last.due = 0
      /\ last.out = "none" /\ decr.key = <<>> /\ rtp.flushed = TRUE
      /\ rtp \in [seq : Int, flushed : BOOLEAN]
      /\ asked.n = 0 /\ asked.method = "none" /\ asked.missing = FALSE
      /\ session.announce = 0 /\ session.streams = FALSE
  BY <1>1 DEF NoReply, createResponse, NoPacket
<1>3. TypeOK
  <2>1. /\ owed \in BOOLEAN /\ started \in BOOLEAN /\ alive \in BOOLEAN
        /\ cut \in BOOLEAN /\ disturbed \in BOOLEAN /\ reply.sent \in BOOLEAN
        /\ asked.missing \in BOOLEAN /\ padded \in BOOLEAN
    BY <1>1, <1>2, Zenon
  <2>2. /\ wire \in Seq(Lines) /\ air \in Seq(AirPackets)
        /\ asked.n \in 0 .. MaxRequests
        /\ asked.method \in Methods \cup {"none"}
        /\ session.announce <= asked.n
        /\ session \in [announce : 0 .. MaxRequests, fmtp : 0 .. 2,
                        streams : BOOLEAN, seq : Nat]
    BY <1>1, <1>2, MaxRequestsAssumption
  <2>3. QED
    BY <1>2, <2>1, <2>2, Zenon DEF TypeOK
<1>4. NoSession /\ OneAnnounce
  BY <1>1, <1>2, Zenon DEF NoSession, OneAnnounce
<1>5. Len(wire) = 0 /\ Len(air) = 0 /\ 1 .. 0 = {}
  BY <1>1
<1>6. WireKeys
  BY <1>5, Zenon DEF WireKeys, Matching
<1>7. Idle /\ Protocol
  BY <1>1, <1>2 DEF Idle, Protocol
<1>8. NotYet
  BY <1>1, <1>2, <1>5 DEF NotYet
<1>9. Playing
  BY <1>1, <1>2, <1>5, Zenon DEF Playing
<1>10. Keyed
  BY <1>1, <1>2, Zenon DEF Keyed
<1>11. Decodes
  BY <1>1, <1>2 DEF Decodes, DecodedIffValid, SbcConfs
<1>12. QED
  BY <1>3, <1>4, <1>6, <1>7, <1>8, <1>9, <1>10, <1>11 DEF StreamInv

\* The client sends a request.
LEMMA RequestStep ==
  ASSUME StreamInv, SendRequest
  PROVE  StreamInv'
<1>1. ASSUME NEW name \in {"OPTIONS", "SETUP", "TEARDOWN"},
             Ask(name, 0, FALSE)
      PROVE  StreamInv'
  <2>1. name \in Methods /\ name # "ANNOUNCE" /\ FALSE \in BOOLEAN
    BY DEF Methods
  <2>2. QED
    BY <1>1, <2>1, AskStep
<1>2. ASSUME NEW f \in 1 .. 2, NEW missing \in BOOLEAN,
             Ask("ANNOUNCE", f, missing)
      PROVE  StreamInv'
  <2>1. "ANNOUNCE" \in Methods
    BY DEF Methods
  <2>2. QED
    BY <1>2, <2>1, AskStep
<1>3. QED
  BY <1>1, <1>2, Zenon DEF SendRequest

\* Nothing changes.
LEMMA StutterStep ==
  ASSUME StreamInv, UNCHANGED vars
  PROVE  StreamInv'
<1>1. /\ UNCHANGED <<chain, padded, wire, asked, owed, session, reply, answer,
                     started, alive, air, last, packets, faults>>
      /\ UNCHANGED <<decr, codecData, dec, sbcConf, rtp, cut, disturbed,
                     opened>>
  BY Zenon DEF vars, rtspVars, chainVars, ghosts
<1>2. /\ TypeOK /\ NoSession /\ WireKeys /\ OneAnnounce /\ Protocol /\ NotYet
      /\ Playing /\ Keyed /\ Decodes
  BY DEF StreamInv
<1>3. TypeOK'
  <2>1. /\ padded' \in BOOLEAN /\ owed' \in BOOLEAN /\ started' \in BOOLEAN
        /\ alive' \in BOOLEAN /\ cut' \in BOOLEAN /\ disturbed' \in BOOLEAN
        /\ asked'.missing \in BOOLEAN /\ reply'.sent \in BOOLEAN
    BY <1>1, <1>2, Zenon DEF TypeOK
  <2>2. UNCHANGED <<wire, asked, session, air, rtp>>
    BY <1>1
  <2>3. /\ wire' \in Seq(Lines) /\ asked'.n \in 0 .. MaxRequests
        /\ asked'.method \in Methods \cup {"none"}
        /\ session' \in [announce : 0 .. MaxRequests, fmtp : 0 .. 2,
                         streams : BOOLEAN, seq : Nat]
        /\ session'.announce <= asked'.n
        /\ session'.announce # 0 => session'.fmtp # 0
        /\ air' \in Seq(AirPackets) /\ rtp' \in [seq : Int, flushed : BOOLEAN]
    BY <1>2, <2>2, Zenon DEF TypeOK
  <2>4. QED
    BY <2>1, <2>3, Zenon DEF TypeOK
<1>4. NoSession'
  BY <1>1, <1>2, Zenon DEF NoSession
<1>5. WireKeys'
  BY <1>1, <1>2 DEF WireKeys, Matching, Matched
<1>6. OneAnnounce'
  BY <1>1, <1>2 DEF OneAnnounce
<1>7. Sent' <=> Sent
  BY <1>1, Zenon DEF Sent
<1>8. Protocol'
  BY <1>1, <1>2, <1>7, Zenon DEF Protocol, Idle, Answered, Thrown, Answers
<1>9. NotYet'
  BY <1>1, <1>2, Zenon DEF NotYet
<1>10. Playing'
  BY <1>1, <1>2, <1>7, Zenon DEF Playing, Running, Answered
<1>11. Keyed'
  BY <1>1, <1>2, <1>7, Zenon DEF Keyed
<1>12. Decodes'
  BY <1>1, <1>2 DEF Decodes, DecodedIffValid
<1>13. QED
  BY <1>3, <1>4, <1>5, <1>6, <1>8, <1>9, <1>10, <1>11, <1>12 DEF StreamInv

\* Every step keeps the invariant.
LEMMA NextStep ==
  ASSUME StreamInv, [Next]_vars
  PROVE  StreamInv'
<1>1. CASE SendRequest
  BY <1>1, RequestStep
<1>2. CASE SendPacket
  BY <1>2, SendPacketStep
<1>3. CASE StrayPacket \/ LosePacket
  BY <1>3, DisturbedStep
<1>4. CASE OnReceived
  BY <1>4, OnReceivedStep
<1>5. CASE OnSent
  BY <1>5, OnSentStep
<1>6. CASE OnPacket
  BY <1>6, OnPacketStep
<1>7. CASE OnDatagram
  BY <1>7, OnDatagramStep
<1>8. CASE UNCHANGED vars
  BY <1>8, StutterStep
<1>9. QED
  BY <1>1, <1>2, <1>3, <1>4, <1>5, <1>6, <1>7, <1>8, Zenon DEF Next

\* The invariant holds in every state, however often and wherever the stream
\* of requests is cut and whatever packets are lost, repeated or late.
THEOREM StreamInvariant == Spec => []StreamInv
<1>1. Init => StreamInv
  BY InitHolds
<1>2. StreamInv /\ [Next]_vars => StreamInv'
  BY NextStep
<1>3. QED
  BY <1>1, <1>2, PTL DEF Spec

\* PushDatagram: a sink of the other chains gets the samples of the datagrams
\* that are whole and nothing of the others, and the converter divides by zero
\* only over a first SBC packet that is damaged; for every size of the SBC
\* frames and every number of datagrams.
THEOREM OnlyValidIsDecoded == Spec => []DecodedIffValid
<1>1. StreamInv => DecodedIffValid
  BY DEF StreamInv, Decodes
<1>2. QED
  BY <1>1, StreamInvariant, PTL

\* OnReceived and OnSent: requests that arrive one by one are answered one by
\* one, each with its own number and its own signature, and only an ANNOUNCE
\* that lacks an attribute or is not padded ends the main loop.
THEOREM AnswersAreMatched == Spec => []AnswersMatch
<1>1. ASSUME StreamInv
      PROVE  AnswersMatch
  <2>1. Protocol
    BY <1>1, Zenon DEF StreamInv
  <2>2. ASSUME ~cut, chain = "airplay", answer.sent, ~owed
        PROVE  Answers(answer)
    BY <2>1, <2>2, Zenon DEF Protocol
  <2>3. ASSUME ~cut, chain = "airplay", ~alive
        PROVE  asked.missing \/ ~padded
    BY <2>1, <2>3, Zenon DEF Protocol, Idle, Sent, Answered, Thrown
  <2>4. QED
    BY <2>2, <2>3, Zenon DEF AnswersMatch, Answers
<1>2. QED
  BY <1>1, StreamInvariant, PTL

\* OnAnnounce and OnPacket: while requests arrive one by one, a packet of the
\* session announced last becomes samples unless the decoder was opened for
\* another format, and a discontinuity is only logged if packets were
\* disturbed; and in every case key and IV are those of one ANNOUNCE.
THEOREM SessionIsPlayed == Spec => []SessionPlays
<1>1. ASSUME StreamInv
      PROVE  SessionPlays
  <2>1. NoSession /\ OneAnnounce /\ Playing /\ Keyed
    BY <1>1, Zenon DEF StreamInv
  <2>2. padded /\ decr.key # <<>> =>
          \E a \in 1 .. MaxRequests : decr = [key |-> Key(a), iv |-> Iv(a)]
    BY <2>1, Zenon DEF OneAnnounce
  <2>3. CASE chain = "airplay"
    BY <2>1, <2>2, <2>3, Zenon DEF SessionPlays, Playing, Keyed
  <2>4. CASE chain # "airplay"
    BY <2>1, <2>2, <2>4, Zenon DEF SessionPlays, NoSession
  <2>5. QED
    BY <2>3, <2>4
<1>2. QED
  BY <1>1, StreamInvariant, PTL
=============================================================================
