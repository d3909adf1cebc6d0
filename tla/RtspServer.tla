----------------------------- MODULE RtspServer -----------------------------
(***************************************************************************)
(* The RTSP server: one acceptor, one socket, and a chain of asynchronous  *)
(* operations in which every handler starts the next one.  The server      *)
(* serves one client at a time; the others wait in the listen backlog.     *)
(*                                                                         *)
(* What a request does is left to the message handler: OnReceived is the   *)
(* server's part of it, and AirplaySource adds the handler's.  A client    *)
(* sends one request at a time and reads the answer before the next, and   *)
(* a request arrives in one piece, as the server assumes when it parses    *)
(* whatever one receive delivers as one message.                           *)
(***************************************************************************)
EXTENDS Naturals, Sequences, FiniteSets

CONSTANTS
    Clients,    \* hosts that may connect, again and again
    NoClient,   \* the socket is not connected
    Requests,   \* the requests they send
    NoRequest,  \* nothing to be received
    SendFails   \* may sending to a client that has gone fail?

ASSUME RtspAssumption ==
    /\ NoClient \notin Clients
    /\ NoRequest \notin Requests
    /\ SendFails \in BOOLEAN

VARIABLES
    pending,   \* outstanding asynchronous operations of the server
    conn,      \* the client the socket is connected to, or NoClient
    backlog,   \* connected clients the acceptor has not taken yet
    client,    \* client[c]: away, queued, open, or gone (it hung up)
    request,   \* request[c]: what c has sent and the server has not received
    awaiting   \* awaiting[c]: c has not been answered yet

rtspVars == <<pending, conn, backlog, client, request, awaiting>>

TypeOK ==
    /\ pending \subseteq {"accept", "receive", "send"}
    /\ conn \in Clients \cup {NoClient}
    /\ backlog \in Seq(Clients)
    /\ client \in [Clients -> {"away", "queued", "open", "gone"}]
    /\ request \in [Clients -> Requests \cup {NoRequest}]
    /\ awaiting \in [Clients -> BOOLEAN]

\* RtspServerPrivate::RtspServerPrivate opens the acceptor and accepts.
RtspInit ==
    /\ pending = {"accept"}
    /\ conn = NoClient
    /\ backlog = <<>>
    /\ client = [c \in Clients |-> "away"]
    /\ request = [c \in Clients |-> NoRequest]
    /\ awaiting = [c \in Clients |-> FALSE]

----------------------------------------------------------------------------
(* The clients *)

Connect(c) ==
    /\ client[c] = "away"
    /\ client' = [client EXCEPT ![c] = "queued"]
    /\ backlog' = Append(backlog, c)
    /\ UNCHANGED <<pending, conn, request, awaiting>>

Ask(c, r) ==
    /\ client[c] \in {"queued", "open"}
    /\ ~awaiting[c]
    /\ request' = [request EXCEPT ![c] = r]
    /\ awaiting' = [awaiting EXCEPT ![c] = TRUE]
    /\ UNCHANGED <<pending, conn, backlog, client>>

HangUp(c) ==
    /\ client[c] \in {"queued", "open"}
    /\ client' = [client EXCEPT ![c] = "gone"]
    /\ UNCHANGED <<pending, conn, backlog, request, awaiting>>

----------------------------------------------------------------------------
(* The handlers of the server *)

\* The connection to c is forgotten on both sides.
Forget(c) ==
    /\ client' = [client EXCEPT ![c] = "away"]
    /\ request' = [request EXCEPT ![c] = NoRequest]
    /\ awaiting' = [awaiting EXCEPT ![c] = FALSE]

\* onAccepted: on to the first receive.
OnAccepted ==
    /\ "accept" \in pending
    /\ backlog # <<>>
    /\ conn' = Head(backlog)
    /\ backlog' = Tail(backlog)
    /\ client' = [client EXCEPT ![Head(backlog)] =
                     IF @ = "queued" THEN "open" ELSE @]
    /\ pending' = (pending \ {"accept"}) \cup {"receive"}
    /\ UNCHANGED <<request, awaiting>>

\* onAccepted with an error (the client has gone meanwhile): accept again.
OnAcceptError ==
    /\ "accept" \in pending
    /\ backlog # <<>>
    /\ client[Head(backlog)] = "gone"
    /\ backlog' = Tail(backlog)
    /\ Forget(Head(backlog))
    /\ UNCHANGED <<pending, conn>>

\* Mutant: no response is sent.
OnReceivedForgetsSend(r) ==
    /\ "receive" \in pending
    /\ request[conn] = r
    /\ request' = [request EXCEPT ![conn] = NoRequest]
    /\ UNCHANGED <<pending, conn, backlog, client, awaiting>>

\* onReceived: the message is handled and the response sent.
OnReceived(r) ==
    /\ "receive" \in pending
    /\ request[conn] = r
    /\ request' = [request EXCEPT ![conn] = NoRequest]
    /\ pending' = (pending \ {"receive"}) \cup {"send"}
    /\ UNCHANGED <<conn, backlog, client, awaiting>>

\* Mutant: the server reads on from the lost connection.
OnReceiveErrorReceivesAgain ==
    /\ "receive" \in pending
    /\ client[conn] = "gone"
    /\ Forget(conn)
    /\ UNCHANGED <<pending, conn, backlog>>

\* onReceived with an error: close the socket and accept the next client.
OnReceiveError ==
    /\ "receive" \in pending
    /\ client[conn] = "gone"
    /\ Forget(conn)
    /\ conn' = NoClient
    /\ pending' = (pending \ {"receive"}) \cup {"accept"}
    /\ UNCHANGED backlog

\* Mutant: the next client is accepted as well.
OnSentTwice ==
    /\ "send" \in pending
    /\ awaiting' = [awaiting EXCEPT ![conn] = FALSE]
    /\ pending' = (pending \ {"send"}) \cup {"receive", "accept"}
    /\ UNCHANGED <<conn, backlog, client, request>>

\* onSent: on to the next receive.
OnSent ==
    /\ "send" \in pending
    /\ awaiting' = [awaiting EXCEPT ![conn] = FALSE]
    /\ pending' = (pending \ {"send"}) \cup {"receive"}
    /\ UNCHANGED <<conn, backlog, client, request>>

\* onSent with an error returns: nothing is started, the socket stays open.
OnSendError ==
    /\ "send" \in pending
    /\ SendFails
    /\ client[conn] = "gone"
    /\ pending' = pending \ {"send"}
    /\ UNCHANGED <<conn, backlog, client, request, awaiting>>

----------------------------------------------------------------------------
ClientStep ==
    \E c \in Clients : Connect(c) \/ HangUp(c) \/ \E r \in Requests : Ask(c, r)

\* Every handler but the one that carries a message.
ServerStep ==
    \/ OnAccepted
    \/ OnAcceptError
    \/ OnReceiveError
    \/ OnSent
    \/ OnSendError

----------------------------------------------------------------------------
(* Properties *)

\* The chain of handlers never splits: one operation is outstanding, accept
\* exactly while no client is connected.  It ends only on the socket of a
\* client that has gone, when the answer to it cannot be sent.
ServerAlive ==
    /\ Cardinality(pending) <= 1
    /\ conn = NoClient <=> pending = {"accept"}
    /\ pending = {} => client[conn] = "gone"

Dead == pending = {}

\* Whoever connects is taken from the backlog in the end, unless a failed
\* send has ended the server.
QueuedIsAccepted ==
    \A c \in Clients :
        (\E i \in DOMAIN backlog : backlog[i] = c)
           ~> (Dead \/ \A i \in DOMAIN backlog : backlog[i] # c)

\* Whoever asks is answered, unless it hangs up first or the server is dead.
RequestAnswered ==
    \A c \in Clients :
        awaiting[c] ~> (~awaiting[c] \/ client[c] = "gone" \/ Dead)

=============================================================================
