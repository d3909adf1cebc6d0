---------------------------- MODULE AirplayProofs ----------------------------
(***************************************************************************)
(* Proofs about RtspServer and AirplaySource, for any set of clients and   *)
(* any requests, whether or not a send may fail.                           *)
(***************************************************************************)
EXTENDS AirplaySource, FiniteSetTheorems, TLAPS

\* The chain of handlers: accept while no client is connected, otherwise a
\* receive or a send, or nothing once a send to a client gone has failed.
ChainInv ==
    \/ conn = NoClient /\ pending = {"accept"}
    \/ /\ conn \in Clients
       /\ client[conn] \in {"open", "gone"}
       /\ pending \in {{"receive"}, {"send"}, {}}
       /\ pending = {} => client[conn] = "gone"

\* A client waits at most once in the backlog, and not while it is served.
BacklogInv ==
    /\ \A i \in DOMAIN backlog :
          /\ client[backlog[i]] \in {"queued", "gone"}
          /\ backlog[i] # conn
    /\ \A i, j \in DOMAIN backlog : backlog[i] = backlog[j] => i = j

ServerInv == TypeOK /\ ChainInv /\ BacklogInv

IInv == AirplayTypeOK /\ ServerInv /\ OtherNotStarved
-----------------------------------------------------------------------------
(* The steps that involve the server's variables, one by one *)

LEMMA ServerInit == RtspInit => ServerInv
<1> SUFFICES ASSUME RtspInit PROVE ServerInv
  OBVIOUS
<1>1. TypeOK
  BY RtspAssumption DEF RtspInit, TypeOK
<1>2. ChainInv
  BY DEF RtspInit, ChainInv
<1>3. BacklogInv
  BY DEF RtspInit, BacklogInv
<1>4. QED
  BY <1>1, <1>2, <1>3 DEF ServerInv

\* A new client goes to the end of the backlog, where it was not before.
LEMMA ConnectKeeps ==
    ASSUME ServerInv, NEW c \in Clients, Connect(c)
    PROVE  ServerInv'
<1> USE DEF ServerInv
<1>1. TypeOK'
  BY DEF Connect, TypeOK
<1>2. ChainInv'
  BY RtspAssumption DEF Connect, TypeOK, ChainInv
<1>3. BacklogInv'
  <2>1. c # conn
    BY RtspAssumption DEF Connect, ChainInv
  <2>2. \A i \in DOMAIN backlog : backlog[i] # c
    BY DEF Connect, BacklogInv
  <2>3. /\ DOMAIN backlog = 1..Len(backlog)
        /\ DOMAIN backlog' = 1..(Len(backlog) + 1)
        /\ \A i \in 1..Len(backlog) : backlog'[i] = backlog[i]
        /\ backlog'[Len(backlog) + 1] = c
        /\ Len(backlog) \in Nat
    BY DEF Connect, TypeOK
  <2>4. \A i \in DOMAIN backlog' :
           \/ i \in DOMAIN backlog /\ backlog'[i] = backlog[i]
           \/ i = Len(backlog) + 1 /\ backlog'[i] = c
    BY <2>3
  <2>5. \A i \in DOMAIN backlog : backlog[i] \in Clients
    BY DEF TypeOK
  <2>6. /\ conn' = conn
        /\ client'[c] = "queued"
        /\ \A d \in Clients : d # c => client'[d] = client[d]
    BY DEF Connect, TypeOK
  <2>7. \A i \in DOMAIN backlog' :
           /\ client'[backlog'[i]] \in {"queued", "gone"}
           /\ backlog'[i] # conn'
    BY <2>1, <2>2, <2>4, <2>5, <2>6 DEF BacklogInv
  <2>8. \A i, j \in DOMAIN backlog' : backlog'[i] = backlog'[j] => i = j
    BY <2>2, <2>4 DEF BacklogInv
  <2>9. QED
    BY <2>7, <2>8 DEF BacklogInv
<1>4. QED
  BY <1>1, <1>2, <1>3

\* A request changes neither the chain nor the backlog.
LEMMA AskKeeps ==
    ASSUME ServerInv, NEW c \in Clients, NEW r \in Requests, Ask(c, r)
    PROVE  ServerInv'
  BY DEF ServerInv, TypeOK, ChainInv, BacklogInv, Ask

\* A client may hang up wherever it is: waiting, served, or being answered.
LEMMA HangUpKeeps ==
    ASSUME ServerInv, NEW c \in Clients, HangUp(c)
    PROVE  ServerInv'
<1> USE DEF ServerInv, HangUp
<1>1. TypeOK'
  BY DEF TypeOK
<1>2. ChainInv'
  BY DEF TypeOK, ChainInv
<1>3. BacklogInv'
  BY DEF TypeOK, BacklogInv
<1>4. QED
  BY <1>1, <1>2, <1>3

\* What is left of a backlog when its head has been taken.
LEMMA RestOfBacklog ==
    ASSUME TypeOK, BacklogInv, backlog # <<>>
    PROVE  /\ Head(backlog) \in Clients
           /\ Head(backlog) # conn
           /\ client[Head(backlog)] \in {"queued", "gone"}
           /\ Tail(backlog) \in Seq(Clients)
           /\ \A i \in DOMAIN Tail(backlog) :
                 /\ Tail(backlog)[i] \in Clients
                 /\ Tail(backlog)[i] # Head(backlog)
                 /\ Tail(backlog)[i] # conn
                 /\ client[Tail(backlog)[i]] \in {"queued", "gone"}
           /\ \A i, j \in DOMAIN Tail(backlog) :
                 Tail(backlog)[i] = Tail(backlog)[j] => i = j
<1>1. /\ backlog \in Seq(Clients)
      /\ Len(backlog) \in Nat
      /\ Len(backlog) > 0
      /\ DOMAIN backlog = 1..Len(backlog)
      /\ Head(backlog) = backlog[1]
      /\ Tail(backlog) \in Seq(Clients)
      /\ DOMAIN Tail(backlog) = 1..(Len(backlog) - 1)
      /\ \A i \in 1..(Len(backlog) - 1) : Tail(backlog)[i] = backlog[i + 1]
  BY DEF TypeOK
<1>2. 1 \in DOMAIN backlog
  BY <1>1
<1>3. \A i \in DOMAIN Tail(backlog) :
         i + 1 \in DOMAIN backlog /\ i + 1 # 1 /\ i \in Nat
  BY <1>1
<1>4. \A i \in DOMAIN backlog : backlog[i] \in Clients
  BY <1>1
<1>5. QED
  BY <1>1, <1>2, <1>3, <1>4 DEF BacklogInv

\* onAccepted takes the head of the backlog, which may have gone meanwhile.
LEMMA OnAcceptedKeeps ==
    ASSUME ServerInv, OnAccepted
    PROVE  ServerInv'
<1> USE DEF ServerInv
<1>0. backlog # <<>> /\ conn = NoClient /\ pending = {"accept"}
  BY DEF OnAccepted, ChainInv
<1>1. TypeOK'
  BY <1>0, RestOfBacklog DEF OnAccepted, TypeOK
<1>2. ChainInv'
  <2>1. conn' \in Clients /\ client'[conn'] \in {"open", "gone"}
    BY <1>0, RestOfBacklog DEF OnAccepted, TypeOK
  <2>2. pending' = {"receive"}
    BY <1>0 DEF OnAccepted
  <2>3. QED
    BY <2>1, <2>2 DEF ChainInv
<1>3. BacklogInv'
  <2>1. \A d \in Clients : d # Head(backlog) => client'[d] = client[d]
    BY <1>0, RestOfBacklog DEF OnAccepted, TypeOK
  <2>2. conn' = Head(backlog) /\ backlog' = Tail(backlog)
    BY DEF OnAccepted
  <2>3. QED
    BY <1>0, <2>1, <2>2, RestOfBacklog DEF BacklogInv
<1>4. QED
  BY <1>1, <1>2, <1>3

\* A failed accept forgets the client and leaves the chain as it was.
LEMMA OnAcceptErrorKeeps ==
    ASSUME ServerInv, OnAcceptError
    PROVE  ServerInv'
<1> USE DEF ServerInv
<1>0. backlog # <<>> /\ conn = NoClient /\ pending = {"accept"}
  BY DEF OnAcceptError, ChainInv
<1>1. TypeOK'
  BY <1>0, RestOfBacklog DEF OnAcceptError, Forget, TypeOK
<1>2. ChainInv'
  BY <1>0 DEF OnAcceptError, ChainInv
<1>3. BacklogInv'
  <2>1. \A d \in Clients : d # Head(backlog) => client'[d] = client[d]
    BY <1>0, RestOfBacklog DEF OnAcceptError, Forget, TypeOK
  <2>2. conn' = conn /\ backlog' = Tail(backlog)
    BY DEF OnAcceptError
  <2>3. QED
    BY <1>0, <2>1, <2>2, RestOfBacklog DEF BacklogInv
<1>4. QED
  BY <1>1, <1>2, <1>3

\* onReceived turns the receive into a send to the same client.
LEMMA OnReceivedKeeps ==
    ASSUME ServerInv, NEW r \in Requests, OnReceived(r)
    PROVE  ServerInv'
<1> USE DEF ServerInv, OnReceived
<1>0. conn \in Clients /\ pending = {"receive"}
  BY DEF ChainInv
<1>1. TypeOK'
  BY <1>0 DEF TypeOK
<1>2. ChainInv'
  BY <1>0 DEF ChainInv
<1>3. BacklogInv'
  BY DEF BacklogInv
<1>4. QED
  BY <1>1, <1>2, <1>3

\* A failed receive closes the socket; nobody in the backlog is disturbed.
LEMMA OnReceiveErrorKeeps ==
    ASSUME ServerInv, OnReceiveError
    PROVE  ServerInv'
<1> USE DEF ServerInv, OnReceiveError
<1>0. conn \in Clients /\ pending = {"receive"}
  BY DEF ChainInv
<1>1. TypeOK'
  BY <1>0 DEF TypeOK, Forget
<1>2. ChainInv'
  BY <1>0 DEF ChainInv
<1>3. BacklogInv'
  <2>1. \A i \in DOMAIN backlog : backlog[i] \in Clients
    BY DEF TypeOK
  <2>2. \A d \in Clients : d # conn => client'[d] = client[d]
    BY <1>0 DEF Forget, TypeOK
  <2>3. QED
    BY <2>1, <2>2, RtspAssumption DEF BacklogInv
<1>4. QED
  BY <1>1, <1>2, <1>3

\* onSent turns the send into the next receive; on an error nothing follows.
LEMMA OnSentKeeps ==
    ASSUME ServerInv, OnSent \/ OnSendError
    PROVE  ServerInv'
<1> USE DEF ServerInv
<1>0. conn \in Clients /\ pending = {"send"}
  BY DEF ChainInv, OnSent, OnSendError
<1>1. TypeOK'
  BY <1>0 DEF TypeOK, OnSent, OnSendError
<1>2. ChainInv'
  BY <1>0 DEF ChainInv, OnSent, OnSendError
<1>3. BacklogInv'
  BY DEF BacklogInv, OnSent, OnSendError
<1>4. QED
  BY <1>1, <1>2, <1>3

LEMMA RtspUnchangedKeeps ==
    ASSUME ServerInv, UNCHANGED rtspVars
    PROVE  ServerInv'
  BY DEF ServerInv, TypeOK, ChainInv, BacklogInv, rtspVars
-----------------------------------------------------------------------------
(* The AirplaySource around the server *)

\* Every step of the AirPlay source is one of the server's or leaves it alone.
LEMMA ServerStepKeeps == ServerInv /\ [Next]_vars => ServerInv'
<1> SUFFICES ASSUME ServerInv, [Next]_vars PROVE ServerInv'
  OBVIOUS
<1>1. CASE ClientStep
  BY <1>1, ConnectKeeps, AskKeeps, HangUpKeeps DEF ClientStep
<1>2. CASE ServerStep
  BY <1>2, OnAcceptedKeeps, OnAcceptErrorKeeps, OnReceiveErrorKeeps,
     OnSentKeeps DEF ServerStep
<1>3. CASE HandleRequest
  BY <1>3, OnReceivedKeeps DEF HandleRequest
<1>4. CASE UNCHANGED rtspVars
  BY <1>4, RtspUnchangedKeeps
<1>5. QED
  BY <1>1, <1>2, <1>3, <1>4
  DEF Next, Serve, SendPacket, LosePacket, OnPacket, OtherPush, OtherStop,
      vars

LEMMA FlagsStep == AirplayTypeOK /\ ServerInv /\ [Next]_vars => AirplayTypeOK'
<1> SUFFICES ASSUME AirplayTypeOK, ServerInv, [Next]_vars
             PROVE  AirplayTypeOK'
  OBVIOUS
<1>1. TypeOK'
  BY ServerStepKeeps DEF ServerInv
<1>2. packets' \subseteq Clients
  BY DEF AirplayTypeOK, Next, Serve, HandleRequest, SendPacket, LosePacket,
         OnPacket, OtherPush, OtherStop, vars
<1>3. {receiverStarted, airplayStarted, airplayReady, otherStarted,
       otherReady}' \subseteq BOOLEAN
  BY DEF AirplayTypeOK, Next, Serve, HandleRequest, SendPacket, LosePacket,
         OnPacket, OtherPush, OtherStop, OnMessage, OnSetup, OnTeardown,
         Select, flags, vars
<1>4. QED
  BY <1>1, <1>2, <1>3 DEF AirplayTypeOK

\* What onSourceReady leaves behind, whatever flags it finds: the other
\* source runs if it is ready, unless the AirplaySource does.
LEMMA SelectServes ==
    ASSUME NEW aS \in BOOLEAN, NEW aR \in BOOLEAN,
           NEW oS \in BOOLEAN, NEW oR \in BOOLEAN, Select(aS, aR, oS, oR)
    PROVE  oR /\ ~otherStarted' => airplayStarted'
<1>1. CASE oS = TRUE
  BY <1>1 DEF Select
<1>2. CASE oS = FALSE /\ aS = TRUE
  BY <1>2 DEF Select
<1>3. CASE oS = FALSE /\ aS = FALSE
  BY <1>3 DEF Select
<1>4. QED
  BY <1>1, <1>2, <1>3

\* SETUP may start the AirplaySource past the selector, but whoever stops it
\* (a TEARDOWN) or stops the other source asks the selector afterwards.
LEMMA OtherStep ==
    AirplayTypeOK /\ OtherNotStarved /\ [Next]_vars => OtherNotStarved'
<1> SUFFICES ASSUME AirplayTypeOK, OtherNotStarved, [Next]_vars
             PROVE  OtherNotStarved'
  OBVIOUS
<1>0. /\ airplayStarted \in BOOLEAN /\ airplayReady \in BOOLEAN
      /\ otherStarted \in BOOLEAN /\ otherReady \in BOOLEAN
  BY DEF AirplayTypeOK
<1>1. ASSUME NEW r \in Requests, OnMessage(r) PROVE OtherNotStarved'
  <2>1. CASE OnSetup
    BY <2>1 DEF OnSetup, OtherNotStarved
  <2>2. CASE OnTeardown
    BY <1>0, <2>2, SelectServes DEF OnTeardown, OtherNotStarved
  <2>3. CASE UNCHANGED flags
    BY <2>3 DEF OtherNotStarved, flags
  <2>4. QED
    BY <1>1, <2>1, <2>2, <2>3 DEF OnMessage
<1>2. CASE \E c \in Clients : OnPacket(c)
  BY <1>0, <1>2, SelectServes DEF OnPacket, OtherNotStarved
<1>3. CASE OtherPush \/ OtherStop
  BY <1>0, <1>3, SelectServes DEF OtherPush, OtherStop, OtherNotStarved
<1>4. CASE UNCHANGED flags
  BY <1>4 DEF OtherNotStarved, flags
<1>5. QED
  BY <1>1, <1>2, <1>3, <1>4
  DEF Next, Serve, HandleRequest, SendPacket, LosePacket, vars

LEMMA IInvInit == Init => IInv
  BY ServerInit DEF Init, IInv, AirplayTypeOK, ServerInv, OtherNotStarved

LEMMA IInvStep == IInv /\ [Next]_vars => IInv'
  BY ServerStepKeeps, FlagsStep, OtherStep DEF IInv

\* One operation outstanding, or none after a failed send.
LEMMA ChainIsAlive == ServerInv => ServerAlive
<1> SUFFICES ASSUME ServerInv PROVE ServerAlive
  OBVIOUS
<1>1. \A x : Cardinality({x}) = 1
  BY FS_Singleton
<1>2. Cardinality({}) = 0
  BY FS_EmptySet
<1>3. Cardinality(pending) \in {0, 1}
  <2>1. pending = {} \/ \E x : pending = {x}
    BY DEF ServerInv, ChainInv
  <2>2. QED
    BY <1>1, <1>2, <2>1
<1>4. conn = NoClient <=> pending = {"accept"}
  BY RtspAssumption DEF ServerInv, ChainInv
<1>5. pending = {} => client[conn] = "gone"
  BY DEF ServerInv, ChainInv
<1>6. QED
  BY <1>3, <1>4, <1>5 DEF ServerAlive
-----------------------------------------------------------------------------
\* Type correctness of the server, the packets in flight and the flags.
THEOREM AirplayTypeCorrect == Spec => []AirplayTypeOK
<1>1. IInv => AirplayTypeOK
  BY DEF IInv
<1>2. QED
  BY <1>1, IInvInit, IInvStep, PTL DEF Spec

\* However the clients connect, ask and hang up, RtspServer's chain of
\* handlers neither splits (a client served twice, a second accept on the
\* one socket) nor ends, save by the early return of onSent on an error.
THEOREM ServerStaysAlive == Spec => []ServerAlive
<1>1. IInv => ServerAlive
  BY ChainIsAlive DEF IInv
<1>2. QED
  BY <1>1, IInvInit, IInvStep, PTL DEF Spec

\* A source of the selector that is ready is started whenever the
\* AirplaySource does not run, although SETUP starts that past the selector
\* and its readiness is told by the receiver's callback.
THEOREM OtherIsNotStarved == Spec => []OtherNotStarved
<1>1. IInv => OtherNotStarved
  BY DEF IInv
<1>2. QED
  BY <1>1, IInvInit, IInvStep, PTL DEF Spec
=============================================================================
