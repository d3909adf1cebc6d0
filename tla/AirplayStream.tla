---------------------------- MODULE AirplayStream ----------------------------
(***************************************************************************)
(* An RTSP client that announces, sets up and tears down AirPlay sessions, *)
(* the RTP packets it sends, and what the program makes of both: the text  *)
(* of requests as it arrives in receives (RtspText), the handlers of       *)
(* AirplayRtspMessageHandler, and the nodes the packets pass (MediaChain). *)
(* Besides AirPlay's chain there are those for SBC, AC3 and Scream, which  *)
(* take datagrams without a session.                                       *)
(*                                                                         *)
(* The client sends a request when the one before is answered.  TCP keeps  *)
(* the order but not the boundaries of what is sent; UDP neither.  Keys,   *)
(* IVs and challenges have a length of 1 modulo 3, as the real ones have.  *)
(***************************************************************************)
EXTENDS RtspText, MediaChain

CONSTANTS
  Chains, MaxRequests, MaxPackets, MaxFaults   \* bounds

ASSUME MaxRequestsAssumption == MaxRequests \in Nat

VARIABLES
  chain,      \* "airplay", "sbc", "ac3" or "scream"
  padded,     \* does the client pad its base64?
  wire,       \* lines sent and not received
  asked,      \* the client's last request, and how many it has sent
  owed,       \* it waits for an answer
  session,    \* the client's: announce, format, whether it streams, next seq
  reply,      \* the response being sent, or NoReply
  answer,     \* the last response the client got
  started,    \* m_isStarted of the receiver
  alive,      \* no exception has left the main loop, and no fault
  air,        \* packets in flight
  last,       \* the last packet handled: its buffer at the sink, and a warning
  packets, faults,
  cut, disturbed, opened   \* see below

rtspVars == <<padded, wire, asked, owed, session, reply, answer>>
ghosts == <<cut, disturbed, opened>>
vars == <<chain, rtspVars, started, alive, air, last, packets, faults,
          chainVars, ghosts>>

createResponse(cseq) == [cseq |-> cseq, apple |-> <<>>, sent |-> TRUE]
NoReply == [createResponse(<<>>) EXCEPT !.sent = FALSE]
NoPacket == [announce |-> 0, as |-> 0, out |-> "none", conf |-> Invalid,
             size |-> 0, warned |-> FALSE, due |-> 0]

Key(a) == <<(10 * a) % 256, 255, 0, (129 + a) % 256>>
Iv(a) == <<(252 - a) % 256>>
\* Two formats: frames of 352 and of 4096 samples.
Fmtp(f) == <<96, IF f = 1 THEN 352 ELSE 4096, 0, 16, 40, 10, 14, 2, 255, 0, 0,
             44100>>
Challenge == <<171>>
Ip == <<192, 168, 0, 2>>
hwAddress == <<1, 2, 3, 4, 5, 6>>

\* RSA with the one key and the other: some permutation and its inverse.
Rsa(bytes) == Reverse(bytes)

\* What the server decodes of a text is what the client has encoded, and the
\* client reads in an answer what the server has encoded.
ASSUME KeysSurvive ==
  \A a \in 1 .. MaxRequests, junk \in {0, 65} :
    /\ base64Decode(TextOf(Rsa(Key(a)), TRUE), junk) = Rsa(Key(a))
    /\ base64Decode(TextOf(Iv(a), TRUE), junk) = Iv(a)

ASSUME ChallengeSurvives ==
  /\ TextOf(Challenge, TRUE) # <<>>
  /\ \A junk \in {0, 65} :
       base64Decode(TextOf(Challenge, TRUE), junk) = Challenge
  /\ LET signed == Challenge \o Ip \o hwAddress \o [i \in 1 .. 21 |-> 0]
     IN BytesOf(base64Encode(Rsa(signed), FALSE)) = Rsa(signed)

Init ==
  /\ ChainInit
  /\ chain \in Chains
  /\ padded \in BOOLEAN
  /\ wire = <<>> /\ owed = FALSE
  /\ asked = [n |-> 0, method |-> "none", missing |-> FALSE]
  /\ session = [announce |-> 0, fmtp |-> 0, streams |-> FALSE, seq |-> 0]
  /\ reply = NoReply /\ answer = NoReply
  /\ started = FALSE /\ alive = TRUE
  /\ air = <<>> /\ last = NoPacket
  /\ packets = 0 /\ faults = 0
  /\ cut = FALSE         \* a receive was not exactly one request
  /\ disturbed = FALSE   \* a packet was lost, late, early or out of order
  /\ opened = 0          \* samples per frame announced before the first packet
-----------------------------------------------------------------------------
(* The client.                                                             *)

Head2(name, n) ==
  <<Line("request", name, <<>>), Line("header", "CSeq", <<n>>)>>

Text(name, n, a, f, missing, pads) ==
  CASE name = "OPTIONS" ->
         Head2(name, n) \o <<Line("header", "Apple-Challenge",
                                  TextOf(Challenge, pads))>>
    [] name = "ANNOUNCE" ->
         Head2(name, n)
         \o <<Line("words", "iTunes", <<>>), Line("media", "audio", <<>>),
              Line("attribute", "fmtp", Fmtp(f)),
              Line("attribute", "rsaaeskey", TextOf(Rsa(Key(a)), pads))>>
         \o (IF missing THEN <<>>
             ELSE <<Line("attribute", "aesiv", TextOf(Iv(a), pads))>>)
    [] name \in {"SETUP", "TEARDOWN"} -> Head2(name, n)

\* Sequence numbers of a session soon wrap.
FirstSeq(a) == 65534 + a

\* Each kind of request at its place in the protocol.
Ask(name, f, missing) ==
  LET n == asked.n + 1
      a == IF name = "ANNOUNCE" THEN n ELSE session.announce
  IN /\ chain = "airplay" /\ alive /\ ~owed /\ n <= MaxRequests
     /\ name = "SETUP" => asked.method = "ANNOUNCE"
     /\ name = "TEARDOWN" <=> session.streams
     /\ owed' = TRUE
     /\ asked' = [n |-> n, method |-> name, missing |-> missing]
     /\ wire' = wire \o Text(name, n, a, f, missing, padded)
     /\ session' =
          CASE name = "ANNOUNCE" -> [announce |-> a, fmtp |-> f,
                                     streams |-> FALSE, seq |-> FirstSeq(a)]
            [] name = "TEARDOWN" -> [session EXCEPT !.streams = FALSE]
            [] OTHER -> session
     /\ UNCHANGED <<chain, padded, reply, answer, started, alive, air, last,
                    packets, faults, chainVars, ghosts>>

SendRequest ==
  \/ \E name \in {"OPTIONS", "SETUP", "TEARDOWN"} : Ask(name, 0, FALSE)
  \/ \E f \in 1 .. 2, missing \in BOOLEAN : Ask("ANNOUNCE", f, missing)

AirplayPacket(key, iv, a, f, seq) ==
  [head |-> RtpHeader(0, 0, 96, FALSE, seq), key |-> key, iv |-> iv,
   announce |-> a, fmtp |-> Fmtp(f), size |-> 32, rate |-> 44100]

\* A packet of the session's key, while it streams.
SendPacket ==
  /\ session.streams /\ packets < MaxPackets
  /\ packets' = packets + 1
  /\ LET a == session.announce
     IN air' = Append(air, AirplayPacket(Key(a), Iv(a), a, session.fmtp,
                                         session.seq % 2 ^ 16))
  /\ session' = [session EXCEPT !.seq = @ + 1]
  /\ UNCHANGED <<chain, padded, wire, asked, owed, reply, answer, started,
                 alive, last, faults, chainVars, ghosts>>

\* A packet of a session with another program that had the port before.
StrayPacket ==
  /\ chain = "airplay" /\ asked.n = 0 /\ faults < MaxFaults
  /\ faults' = faults + 1 /\ disturbed' = TRUE
  /\ air' = Append(air, AirplayPacket(<<0>>, <<0>>, 0, 1, 9))
  /\ UNCHANGED <<chain, rtspVars, started, alive, last, packets, chainVars,
                 cut, opened>>

LosePacket ==
  /\ air # <<>> /\ faults < MaxFaults
  /\ faults' = faults + 1 /\ disturbed' = TRUE
  /\ \E i \in DOMAIN air : air' = RemoveAt(air, i)
  /\ UNCHANGED <<chain, rtspVars, started, alive, last, packets, chainVars,
                 cut, opened>>
-----------------------------------------------------------------------------
(* AirplayRtspMessageHandler, behind RtspServerPrivate::onReceived.        *)

\* onOptions with onAppleChallenge.
AppleResponse(message, junk) ==
  LET challenge == header(message, "Apple-Challenge")
      signed == base64Decode(challenge, junk) \o Ip \o hwAddress
      zeros == [i \in 1 .. Max({0, 32 - Len(signed)}) |-> 0]
  IN IF challenge = <<>> THEN <<>>
     ELSE base64Encode(Rsa(signed \o zeros), FALSE)

\* onAnnounce throws without one of the attributes, and so does initKey when
\* RSA refuses a key that is longer than its own.
Throws(message, junk) ==
  /\ message.method = "ANNOUNCE" /\ message.sdp # <<>>
  /\ LET attr == message.sdp[1]
     IN \/ ~({"rsaaeskey", "aesiv", "fmtp"} \subseteq DOMAIN attr)
        \/ Len(base64Decode(attr["rsaaeskey"], junk)) > Len(Key(1))

\* AirplayDecrypter::init.
DecrypterInit(rsaaeskey, aesiv, junk) ==
  decr' = [key |-> Rsa(base64Decode(rsaaeskey, junk)),
           iv |-> base64Decode(aesiv, junk)]

OnAnnounce(message, junk) ==
  IF message.sdp = <<>> THEN UNCHANGED <<decr, codecData>>
  ELSE LET attr == message.sdp[1]
       IN /\ DecrypterInit(attr["rsaaeskey"], attr["aesiv"], junk)
          /\ codecData' = QuicktimeAtom(attr["fmtp"])

\* onOptions: a challenge is answered.
OnOptions(message, junk) ==
  [createResponse(header(message, "CSeq")) EXCEPT
     !.apple = AppleResponse(message, junk)]

\* onSetup starts the receiver and onTeardown stops it, with the RtpDecoder
\* behind it; onRecord and the others do nothing.
OnSetup == started' = TRUE /\ UNCHANGED rtp
OnTeardown == started' = FALSE /\ RtpFlush
OnRecord == UNCHANGED <<started, rtp>>

\* onMessage; what it does not know changes nothing and is answered all the
\* same.
OnMessage(message, junk) ==
  /\ IF message.method = "ANNOUNCE" THEN OnAnnounce(message, junk)
     ELSE UNCHANGED <<decr, codecData>>
  /\ CASE message.method = "SETUP" -> OnSetup
       [] message.method = "TEARDOWN" -> OnTeardown
       [] OTHER -> OnRecord
  /\ reply' = IF message.method = "OPTIONS" THEN OnOptions(message, junk)
              ELSE createResponse(header(message, "CSeq"))

\* onReceived: a receive brings what has arrived of the stream, and is taken
\* for one request.
OnReceived ==
  /\ alive /\ ~reply.sent /\ wire # <<>>
  /\ \E n \in 1 .. Len(wire), junk \in {0, 65} :
       LET message == deserializeRequest(SubSeq(wire, 1, n))
       IN /\ wire' = SubSeq(wire, n + 1, Len(wire))
          /\ n < Len(wire) => faults < MaxFaults
          /\ faults' = IF n < Len(wire) THEN faults + 1 ELSE faults
          /\ cut' = (cut \/ n < Len(wire))
          /\ IF Throws(message, junk)
             THEN alive' = FALSE
                  /\ UNCHANGED <<reply, started, decr, codecData, rtp>>
             ELSE OnMessage(message, junk) /\ UNCHANGED alive
  /\ UNCHANGED <<chain, padded, asked, owed, session, answer, air, last,
                 packets, dec, sbcConf, disturbed, opened>>

\* onSent; the client streams once its SETUP is answered.
OnSent ==
  /\ alive /\ reply.sent
  /\ answer' = reply /\ reply' = NoReply
  /\ owed' = FALSE
  /\ session' = [session EXCEPT !.streams = @ \/ asked.method = "SETUP"]
  /\ UNCHANGED <<chain, padded, wire, asked, started, alive, air, last,
                 packets, faults, chainVars, ghosts>>
-----------------------------------------------------------------------------
(* Packets.                                                                *)

\* What reaches the sink: Node::process stops at a buffer that is empty.
AtSink(b) ==
  [NoPacket EXCEPT !.out = IF b.size = 0 THEN "none" ELSE b.form,
                   !.conf = b.conf, !.size = b.size]

\* AirPlay's chain.  The receiver is not controlled: it takes packets also
\* while it is not started.
OnPacket ==
  /\ alive /\ air # <<>>
  /\ \E i \in DOMAIN air, again \in BOOLEAN :
       LET p == air[i]
           b == Decrypt(RtpAlac(Datagram(p)))
       IN /\ again => faults < MaxFaults
          /\ faults' = IF again THEN faults + 1 ELSE faults
          /\ air' = IF again THEN air ELSE RemoveAt(air, i)
          /\ disturbed' = (disturbed \/ again \/ i # 1 \/ ~started
                             \/ p.announce # session.announce)
          /\ RtpSequence(p.head.seq)
          /\ decr' = Decrypted
          /\ dec' = Opened
          /\ opened' = IF dec.open THEN opened
                       ELSE IF \/ session.announce = 0
                               \/ owed /\ asked.method = "ANNOUNCE" THEN 0
                       ELSE Fmtp(session.fmtp)[2]
          /\ \E c \in FfmpegAlac(b) :
               last' = [AtSink(c) EXCEPT !.announce = p.announce,
                          !.as = p.fmtp[2], !.warned = RtpWarns(p.head.seq)]
  /\ UNCHANGED <<chain, rtspVars, started, alive, packets, codecData, sbcConf,
                 cut>>

\* The bytes a sink should get of a datagram, 0 if there is nothing to decode,
\* and -1 where that is left open: some of its SBC frames are damaged, or it is
\* shorter than one decoded frame.  Header extensions with a content are not
\* understood.
Due(p) ==
  LET valid == p.size >= 12 /\ p.head.pt >= 96 /\ p.head.ext < 2
  IN CASE chain = "sbc" ->
            IF \/ ~valid \/ p.head.marker \/ p.sbc.frag # {}
               \/ p.sbc.frames = <<>> THEN 0
            ELSE IF \/ \E i \in DOMAIN p.sbc.frames : ~p.sbc.frames[i]
                    \/ SbcFrame * Len(p.sbc.frames) < SbcSamples THEN -1
            ELSE 2 * SbcSamples * Len(p.sbc.frames)
       [] chain = "ac3" ->
            IF valid /\ p.head.marker /\ p.sbc.frag = {} THEN 2 ELSE 0
       [] chain = "scream" ->
            IF p.size = 1157 /\ p.scream = ScreamHeader(1, 16, 2)
            THEN 2 * 1152 ELSE 0

\* What lies in the datagrams of the other chains; len counts the bytes
\* behind the RTP or Scream header that are not SBC frames.
SbcPayload ==
  [frames : {<<>>, <<TRUE, TRUE>>} \cup [1 .. 5 -> BOOLEAN],
   marker : BOOLEAN, len : {1}, scream : {<<>>},
   frag : {{}, {"first"}, {"fragmented", "last"},
           {"fragmented", "first", "last"}}]
Ac3Payload ==
  [frames : {<<>>}, marker : BOOLEAN, len : {64}, scream : {<<>>},
   frag : {{}, {"fragmented"}}]
ScreamPayload ==
  [frames : {<<>>}, marker : {FALSE}, len : {5, 1152}, frag : {{}},
   scream : [rateMultiplier : {1, 2}, sampleSize : {16, 24},
             channelCount : {2, 6}]]

Payload(kind) ==
  CASE kind = "sbc" -> SbcPayload
    [] kind = "ac3" -> Ac3Payload
    [] kind = "scream" -> ScreamPayload

\* Such a datagram, whole or cut off after 8 bytes.
Received(v, csrc, ext, pt, rate, short) ==
  LET head == IF chain = "scream" THEN 5 ELSE 12 + 4 * csrc + 4 * ext
  IN [head |-> RtpHeader(csrc, ext, pt, v.marker, 0),
      sbc |-> RtpSbcHeader(v.frames, v.frag),
      rate |-> rate, scream |-> v.scream,
      size |-> IF short THEN 8
               ELSE head + v.len + SbcFrame * Len(v.frames)]

Sunk(c, p) == [AtSink(c) EXCEPT !.due = Due(p), !.as = p.rate]

PushDatagram(p) ==
  LET b == Datagram(p)
  IN \/ /\ chain = "sbc"
        /\ LET d == SbcDecode(RtpSbc(b))
           IN /\ alive' = ~Divides(d)
              /\ sbcConf' = SbcConf(RtpSbc(b))
              /\ last' = Sunk(ToFloat(d), p)
        /\ UNCHANGED dec
     \/ /\ chain = "ac3"
        /\ dec' = Opened
        /\ \E d \in FfmpegAc3(RtpAc3(b)) : last' = Sunk(ToInt16(d), p)
        /\ UNCHANGED <<alive, sbcConf>>
     \/ /\ chain = "scream"
        /\ last' = Sunk(ToFloat(Scream(b)), p)
        /\ UNCHANGED <<alive, sbcConf, dec>>

OnDatagram ==
  /\ chain # "airplay" /\ alive /\ packets < MaxPackets
  /\ packets' = packets + 1
  /\ \E v \in Payload(chain), csrc \in 0 .. 1, ext \in 0 .. 2,
        pt \in {95, 96}, rate \in {16000, 44100, 48000}, short \in BOOLEAN :
       /\ rate = 16000 => chain = "sbc"
       /\ PushDatagram(Received(v, csrc, ext, pt, rate, short))
  /\ UNCHANGED <<chain, rtspVars, started, air, faults, decr, codecData, rtp,
                 ghosts>>
-----------------------------------------------------------------------------
Next ==
  \/ SendRequest \/ SendPacket \/ StrayPacket \/ LosePacket
  \/ OnReceived \/ OnSent \/ OnPacket \/ OnDatagram

Spec == Init /\ [][Next]_vars
-----------------------------------------------------------------------------
(* Properties.                                                             *)

\* A client whose requests arrive one by one gets for each one answer, with
\* the number of its request and, to a challenge it has padded, the signature
\* of that challenge; and the main loop ends only over an ANNOUNCE that lacks
\* an attribute or whose base64 is not padded.
AnswersMatch ==
  ~cut /\ chain = "airplay" =>
    /\ answer.sent /\ ~owed =>
         /\ answer.cseq = <<asked.n>>
         /\ asked.method = "OPTIONS" /\ padded =>
              BytesOf(answer.apple) =
                Rsa(Challenge \o Ip \o hwAddress \o [i \in 1 .. 21 |-> 0])
    /\ ~alive => asked.missing \/ ~padded

\* A packet of the session the client has announced last is decrypted with the
\* key and IV of that ANNOUNCE and decoded, if the decoder saw its first packet
\* after an ANNOUNCE of the same format: it is opened once, and an early packet
\* or another format spoils it for good.  Discontinuities are logged only when
\* a packet was lost, late, repeated or out of order, not when numbers wrap or
\* a session begins.  And however requests are cut into pieces, key and IV are
\* those of one ANNOUNCE.
SessionPlays ==
  /\ padded /\ decr.key # <<>> =>
       \E a \in 1 .. MaxRequests : decr = [key |-> Key(a), iv |-> Iv(a)]
  /\ ~cut /\ padded =>
    /\ /\ last.announce = session.announce /\ last.announce # 0
       /\ last.as = opened
       => last.out = "samples"
    /\ last.warned => disturbed

\* The sink of the other chains gets the samples of every datagram that is
\* whole, with their rate (0 for SBC's 16000, which SampleRate cannot name),
\* and nothing of any other; never undecoded bytes.
\* The converter divides by zero only if the very first SBC packet is damaged
\* after its first frame.
DecodedIffValid ==
  /\ last.due > 0 => /\ last.out = "samples" /\ last.size = last.due
                     /\ last.conf.rate = (IF last.as = 16000 THEN 0
                                          ELSE last.as)
  /\ last.due = 0 /\ chain # "airplay" => last.out = "none"
  /\ last.out # "packet"
  /\ ~alive /\ chain # "airplay" => last.due = -1 /\ sbcConf = Invalid
=============================================================================
