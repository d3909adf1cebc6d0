----------------------------- MODULE AlsaSink ------------------------------
(***************************************************************************)
(* AlsaSink: a sink that opens the sound device for the configuration of   *)
(* the buffer it is handed and writes the buffer in a loop that tries to   *)
(* recover from errors.                                                    *)
(*                                                                         *)
(* The device is external: it may refuse to open, refuse the parameters,   *)
(* accept fewer frames than offered, run empty at any time and recover or  *)
(* not.  A call of ALSA with a null handle ends the program (phase         *)
(* "aborted").  The sink runs on the caller's thread: Deliver hands it a   *)
(* packet, and the chain in front of it goes on when its phase is "idle"   *)
(* again.                                                                  *)
(***************************************************************************)
EXTENDS Naturals

CONSTANTS
    Rates,          \* the sample rates in use
    NoRate,         \* SampleRate::Invalid
    Ac3FrameSize    \* spdif::ac3FrameSize, the bytes of one burst

HeaderSize == 8     \* spdif::SpdifAc3Header::size()
FrameBytes == 4     \* two channels of 16 bits

ASSUME AlsaAssumption ==
    /\ NoRate \notin Rates
    /\ Ac3FrameSize \in Nat
    /\ Ac3FrameSize > HeaderSize

Codecs == {"pcm", "ac3"}
Confs == [codec : Codecs, rate : Rates]
NoConf == [codec |-> "invalid", rate |-> NoRate]
Packets == [conf : Confs, bytes : Nat]
NoPacket == [conf |-> NoConf, bytes |-> 0]

VARIABLES
    pcm,        \* m_pcm: closed, unset (open, parameters refused), set, or
                \* xrun (set, but writes fail until it is recovered)
    pcmRate,    \* the rate the device is set to
    mconf,      \* m_conf
    phase,      \* where the sink is: idle, process, write, or aborted
    packet,     \* the packet onProcess was called with
    left        \* frameCount of writeSimple

sinkVars == <<pcm, pcmRate, mconf, phase, packet, left>>

SinkTypeOK ==
    /\ pcm \in {"closed", "unset", "set", "xrun"}
    /\ pcmRate \in Rates \cup {NoRate}
    /\ mconf \in Confs \cup {NoConf}
    /\ phase \in {"idle", "process", "write", "aborted"}
    /\ packet \in Packets \cup {NoPacket}
    /\ left \in Nat

SinkInit ==
    /\ pcm = "closed"
    /\ pcmRate = NoRate
    /\ mconf = NoConf
    /\ phase = "idle"
    /\ packet = NoPacket
    /\ left = 0

----------------------------------------------------------------------------
(* The device *)

\* AlsaSink::onStop closes the device.  Stopping again changes nothing.
CloseDevice == pcm' = "closed" /\ pcmRate' = NoRate

\* snd_pcm_set_params2: the device is set to the rate or refuses something,
\* a missing rate always.
SetParams(rate) ==
    \/ pcm' = "set" /\ pcmRate' = rate /\ rate # NoRate
    \/ pcm' = "unset" /\ pcmRate' = NoRate

\* AlsaSink::openSimple without a device handle.  When the parameters are
\* refused the device stays open.
OpenSimple(rate, opened) ==
    \/ opened /\ SetParams(rate)
    \/ ~opened /\ CloseDevice

\* AlsaSink::start ignores what openSimple returns: when the device could not
\* be opened its next call of ALSA gets a null handle.
Start(rate, then) ==
    \/ OpenSimple(rate, TRUE) /\ phase' = then
    \/ OpenSimple(rate, FALSE) /\ phase' = "aborted"

\* The device ran out of frames or was suspended.
Underrun ==
    /\ pcm = "set" /\ phase # "aborted"
    /\ pcm' = "xrun"
    /\ UNCHANGED <<pcmRate, mconf, phase, packet, left>>

----------------------------------------------------------------------------
(* The sink *)

\* Node::process: the node in front calls the sink with p.  A packet without
\* data goes no further.
Deliver(p) ==
    /\ phase = "idle"
    /\ packet' = p
    /\ phase' = IF p.bytes = 0 THEN "idle" ELSE "process"
    /\ UNCHANGED <<pcm, pcmRate, mconf, left>>

\* doAc3Payload: the frame becomes a burst of fixed length, or is dropped when
\* it does not fit.
Payload(p) ==
    IF p.conf.codec # "ac3" THEN p.bytes
    ELSE IF p.bytes > Ac3FrameSize - HeaderSize THEN 0
    ELSE Ac3FrameSize

\* Mutant: a new configuration does not close the device, which therefore
\* keeps its parameters.
OnProcessKeepsDevice ==
    /\ phase = "process"
    /\ \/ pcm # "closed" /\ phase' = "write" /\ UNCHANGED <<pcm, pcmRate>>
       \/ pcm = "closed" /\ Start(packet.conf.rate, "write")
    /\ mconf' = packet.conf
    /\ left' = Payload(packet) \div FrameBytes
    /\ UNCHANGED packet

\* AlsaSink::onProcess up to the write: the device is opened when there is
\* none, and closed and opened when the configuration changed.
OnProcess ==
    /\ phase = "process"
    /\ \/ /\ mconf = packet.conf /\ pcm # "closed"
          /\ phase' = "write"
          /\ UNCHANGED <<pcm, pcmRate>>
       \/ /\ mconf # packet.conf \/ pcm = "closed"
          /\ Start(packet.conf.rate, "write")
    /\ mconf' = packet.conf
    /\ left' = Payload(packet) \div FrameBytes
    /\ UNCHANGED packet

\* One round of writeSimple's loop: the device takes n frames.
WriteFrames(n) ==
    /\ phase = "write" /\ pcm = "set"
    /\ n \in 1..left
    /\ left' = left - n
    /\ UNCHANGED <<pcm, pcmRate, mconf, phase, packet>>

\* The write fails and snd_pcm_recover succeeds: another round.
Recover ==
    /\ phase = "write" /\ pcm = "xrun" /\ left > 0
    /\ pcm' = "set"
    /\ UNCHANGED <<pcmRate, mconf, phase, packet, left>>

\* onProcess clears the buffer and returns.
Return ==
    /\ phase' = "idle"
    /\ left' = 0
    /\ packet' = NoPacket
    /\ UNCHANGED <<pcm, pcmRate, mconf>>

\* Everything is written.
Written == phase = "write" /\ left = 0 /\ Return

\* snd_pcm_writei returns 0, which the loop takes for the end.
WriteNothing == phase = "write" /\ pcm = "set" /\ left > 0 /\ Return

\* Mutant: a failed recovery does not end the loop.
RecoveryFailsAndRetries ==
    /\ phase = "write" /\ pcm \in {"unset", "xrun"} /\ left > 0
    /\ UNCHANGED sinkVars

\* The write fails and so does snd_pcm_recover: the loop ends.  A device
\* without parameters cannot be recovered.
RecoveryFails ==
    /\ phase = "write" /\ pcm \in {"unset", "xrun"} /\ left > 0
    /\ Return

\* Source::stop reaches AlsaSink::onStop.
SinkStop ==
    /\ phase = "idle"
    /\ CloseDevice
    /\ UNCHANGED <<mconf, phase, packet, left>>

\* AlsaSink::setDevice with another name: onStop, then start(m_conf).
SetDevice ==
    /\ phase = "idle"
    /\ Start(mconf.rate, "idle")
    /\ UNCHANGED <<mconf, packet, left>>

============================================================================
