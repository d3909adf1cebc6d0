--------------------------- MODULE AirplaySource ---------------------------
(***************************************************************************)
(* The AirPlay source: an RTSP server whose message handler starts and     *)
(* stops a UdpSource (the receiver), a chain behind that receiver which    *)
(* decodes and ends in an AppSink, and the AppSink's callbacks, which      *)
(* start, feed and stop the AirplaySource itself.  There are thus two      *)
(* Source objects with flags of their own.  A SourceSelector controls the  *)
(* AirplaySource next to another source; AirplaySource::setReadyCallback   *)
(* hands the selector's callback to the receiver.                          *)
(*                                                                         *)
(* Everything runs on the main loop, so a handler is one step.  Packets    *)
(* travel by UDP: they may be lost, overtake each other and arrive after   *)
(* the RTSP session that announced them has ended.                         *)
(***************************************************************************)
EXTENDS RtspServer

VARIABLES
    packets,          \* clients that have a packet in flight
    receiverStarted,  \* m_isStarted of the receiver
    airplayStarted,   \* m_isStarted and m_isReady of the AirplaySource
    airplayReady,
    otherStarted,     \* the same for the other source of the selector
    otherReady

flags == <<receiverStarted, airplayStarted, airplayReady, otherStarted,
           otherReady>>
vars == <<rtspVars, packets, flags>>

AirplayTypeOK ==
    /\ TypeOK
    /\ packets \subseteq Clients
    /\ {receiverStarted, airplayStarted, airplayReady, otherStarted,
        otherReady} \subseteq BOOLEAN

Init ==
    /\ RtspInit
    /\ packets = {}
    /\ receiverStarted = FALSE
    /\ airplayStarted = FALSE
    /\ airplayReady = FALSE
    /\ otherStarted = FALSE
    /\ otherReady = FALSE

----------------------------------------------------------------------------
(* SourceSelectorPrivate::onSourceReady, given the flags it finds: unless  *)
(* one of the two runs, all that are ready are started.                    *)

Select(aStarted, aReady, oStarted, oReady) ==
    LET idle == ~aStarted /\ ~oStarted
    IN  /\ airplayStarted' = (aStarted \/ (idle /\ aReady))
        /\ otherStarted' = (oStarted \/ (idle /\ oReady))

----------------------------------------------------------------------------
(* AirplayRtspMessageHandler *)

\* onSetup: the receiver is started, and with it, through the AppSink's
\* start callback, the AirplaySource.  The selector is not asked.
OnSetup ==
    /\ receiverStarted' = TRUE
    /\ airplayStarted' = TRUE
    /\ UNCHANGED <<airplayReady, otherStarted, otherReady>>

\* Mutant: the selector is told while the AirplaySource still runs.
OnTeardownTellsFirst ==
    /\ receiverStarted' = FALSE
    /\ airplayStarted' = FALSE
    /\ airplayReady' = FALSE
    /\ UNCHANGED <<otherStarted, otherReady>>

\* onTeardown: the receiver is stopped, through the stop callback the
\* AirplaySource too, and only then the selector is told.
OnTeardown ==
    /\ receiverStarted' = FALSE
    /\ airplayReady' = FALSE
    /\ Select(FALSE, FALSE, otherStarted, otherReady)
    /\ UNCHANGED otherReady

\* RtspMessageHandler::onMessage.  Nothing else changes the flags: OPTIONS,
\* RECORD and ANNOUNCE, which installs keys, and every unknown method.
OnMessage(r) ==
    \/ r = "SETUP" /\ OnSetup
    \/ r = "TEARDOWN" /\ OnTeardown
    \/ r \notin {"SETUP", "TEARDOWN"} /\ UNCHANGED flags

\* RtspServerPrivate::onReceived with its message handler.
HandleRequest ==
    \E r \in Requests : OnReceived(r) /\ OnMessage(r) /\ UNCHANGED packets

Serve == ServerStep /\ UNCHANGED <<packets, flags>>

----------------------------------------------------------------------------
(* The audio stream *)

\* A client sends a packet while it is connected.
SendPacket(c) ==
    /\ client[c] = "open"
    /\ packets' = packets \cup {c}
    /\ UNCHANGED <<rtspVars, flags>>

LosePacket(c) ==
    /\ c \in packets
    /\ packets' = packets \ {c}
    /\ UNCHANGED <<rtspVars, flags>>

\* Mutant: the AppSink does not feed the AirplaySource.
OnPacketIsNotReady(c) ==
    /\ c \in packets
    /\ packets' = packets \ {c}
    /\ Select(airplayStarted, airplayReady, otherStarted, otherReady)
    /\ UNCHANGED <<rtspVars, receiverStarted, airplayReady, otherReady>>

\* UdpSource::onReceived: the receiver's setReady asks the selector, with the
\* readiness the AirplaySource has so far; then the packet passes the chain
\* and AirplaySource::pushBuffer makes the source ready.  The receiver itself
\* is not controlled, so the packet always gets that far.
OnPacket(c) ==
    /\ c \in packets
    /\ packets' = packets \ {c}
    /\ Select(airplayStarted, airplayReady, otherStarted, otherReady)
    /\ airplayReady' = TRUE
    /\ UNCHANGED <<rtspVars, receiverStarted, otherReady>>

----------------------------------------------------------------------------
(* The other source of the selector *)

OtherPush ==
    /\ otherReady' = TRUE
    /\ Select(airplayStarted, airplayReady, otherStarted, TRUE)
    /\ UNCHANGED <<rtspVars, packets, receiverStarted, airplayReady>>

OtherStop ==
    /\ otherReady' = FALSE
    /\ Select(airplayStarted, airplayReady, FALSE, FALSE)
    /\ UNCHANGED <<rtspVars, packets, receiverStarted, airplayReady>>

----------------------------------------------------------------------------
Next ==
    \/ ClientStep /\ UNCHANGED <<packets, flags>>
    \/ Serve
    \/ HandleRequest
    \/ \E c \in Clients : SendPacket(c) \/ LosePacket(c) \/ OnPacket(c)
    \/ OtherPush
    \/ OtherStop

\* The main loop runs its handlers, and no client that is answered whenever
\* it asks stays connected for ever.  Nobody has to leave unanswered.
Fairness ==
    /\ WF_vars(Serve \/ HandleRequest)
    /\ \A c \in Clients :
          SF_vars(~awaiting[c] /\ HangUp(c) /\ UNCHANGED <<packets, flags>>)

Spec == Init /\ [][Next]_vars /\ Fairness

----------------------------------------------------------------------------
(* Properties *)

\* The hand-over works through the forwarded callback: the other source never
\* waits, ready and not started, while the AirplaySource does not run.
OtherNotStarved == otherReady /\ ~otherStarted => airplayStarted

\* Once nobody asks for a teardown any more, a stream that keeps coming is
\* played, or another source is: packets alone start the AirplaySource, even
\* though it is not ready yet when the first one asks the selector.
SenderIsPlayed ==
    /\ <>[](\A c \in Clients : request[c] # "TEARDOWN")
    /\ []<><<\E c \in Clients : OnPacket(c)>>_vars
    => []<>(airplayStarted \/ otherStarted)

=============================================================================
