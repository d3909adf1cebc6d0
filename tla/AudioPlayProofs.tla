--------------------------- MODULE AudioPlayProofs --------------------------
(***************************************************************************)
(* The HDMI sink for any number of buffers, chunks and faults: a buffer of *)
(* the port is in one place, and the sink implements a queue of chunks.    *)
(*                                                                         *)
(* Both depend on where the client thread is: buffers are allocated when   *)
(* the device is empty, one is played only after it was lent, and a device *)
(* is freed before it is opened again.  Most of the code the thread runs   *)
(* only takes buffers away; it is called plain here.                       *)
(***************************************************************************)
EXTENDS AudioPlay, SequenceTheorems, FiniteSetTheorems, FunctionTheorems,
        TLAPS
-----------------------------------------------------------------------------
(* Types *)

States == {"Loaded", "Idle", "Executing"}

\* What OMX_SendCommand is called with.
Commands == ({"StateSet"} \X States)
              \cup ({"PortEnable", "PortDisable", "Flush"} \X {"port"})

Events == ({"CmdComplete"} \X {"StateSet"} \X States)
            \cup ({"CmdComplete"} \X {"PortEnable", "PortDisable", "Flush"}
                                  \X {"port"})
            \cup ({"Error"} \X {"SameState", "PortUnpopulated",
                                "InsufficientResources", "StreamCorrupt"}
                            \X {"cmd", "async"})
            \cup {<<"PortSettingsChanged", "port", "any">>}

Calls == Events \cup ({"EmptyBufferDone"} \X Buffers)

\* A command on its way, and whether it asks for what is the case already.
SentCommands ==
  ({"StateSet"} \X States \X BOOLEAN)
    \cup ({"PortEnable", "PortDisable", "Flush"} \X {"port"} \X BOOLEAN)

OmxRec == [state : States, enabled : BOOLEAN,
           cmds : Seq(SentCommands),
           tunnel : BOOLEAN, bufs : SUBSET Buffers, held : Seq(Buffers)]

IlTypeOK ==
  /\ omx \in [Components -> OmxRec]
  /\ calls \in [Components -> Seq(Calls)]
  /\ in_list \in Seq(Buffers)

SinkTypeOK ==
  /\ user_list \in Seq(Buffers)
  /\ what \in [Buffers -> Nat] /\ sent \in Nat /\ played \in Nat
  /\ handle \in BOOLEAN
-----------------------------------------------------------------------------
(* Plain code: every step of it, and of the code its branches lead to,     *)
(* allocates no buffer, lends none and plays none.                         *)

PlainStep(s) ==
  \/ /\ s[1] \in {"Wait", "Sleep", "Relate", "RemoveError", "WaitEvent",
                  "Reclaim", "Reclaimed", "Create", "ReturnEvents",
                  "FreeHandle"}
     /\ s[2] \in Components
  \/ s[1] = "Send" /\ s[2] \in Components /\ <<s[3], s[4]>> \in Commands
  \/ s[1] = "Transition" /\ s[2] \subseteq Components /\ s[3] \in States
  \/ s[1] = "SetupTunnel" /\ s[2] \in BOOLEAN
  \/ s[1] = "Woken" /\ s[2][1] = "WaitEvent" /\ s[2][2] \in Components
  \/ s[1] \in {"Mask", "Result", "SelectStream"}

PlainSteps(S) ==
  \A s \in S :
    \/ PlainStep(s)
    \/ /\ s[1] \in {"Branch", "IfOther"}
       /\ s[2] \in Seq(S) /\ s[3] \in Seq(S)
    \/ /\ s[1] \in {"IfLoaded", "IfEnabled"}
       /\ s[3] \in Seq(S) /\ s[4] \in Seq(S)

PlainCode(p) == \E S : PlainSteps(S) /\ p \in Seq(S)

LEMMA PlainEmpty == PlainCode(<<>>)
<1>1. PlainSteps({}) /\ <<>> \in Seq({})
  BY DEF PlainSteps
<1>2. QED
  BY <1>1 DEF PlainCode

LEMMA PlainOne == ASSUME NEW s, PlainStep(s) PROVE PlainCode(<<s>>)
<1>1. PlainSteps({s}) /\ <<s>> \in Seq({s})
  BY DEF PlainSteps
<1>2. QED
  BY <1>1 DEF PlainCode

LEMMA PlainUnion ==
  ASSUME NEW S, NEW T, PlainSteps(S), PlainSteps(T)
  PROVE  PlainSteps(S \cup T)
  BY DEF PlainSteps

LEMMA PlainJoin ==
  ASSUME NEW p, NEW q, PlainCode(p), PlainCode(q)
  PROVE  PlainCode(p \o q)
<1>1. PICK S : PlainSteps(S) /\ p \in Seq(S)
  BY DEF PlainCode
<1>2. PICK T : PlainSteps(T) /\ q \in Seq(T)
  BY DEF PlainCode
<1>3. PlainSteps(S \cup T)
  BY <1>1, <1>2, PlainUnion
<1>4. p \o q \in Seq(S \cup T)
  BY <1>1, <1>2
<1>5. QED
  BY <1>3, <1>4 DEF PlainCode

LEMMA PlainJump ==
  ASSUME NEW s, NEW p, NEW q, PlainCode(p), PlainCode(q),
         \/ s[1] \in {"Branch", "IfOther"} /\ s[2] = p /\ s[3] = q
         \/ s[1] \in {"IfLoaded", "IfEnabled"} /\ s[3] = p /\ s[4] = q
  PROVE  PlainCode(<<s>>)
<1>1. PICK S : PlainSteps(S) /\ p \in Seq(S)
  BY DEF PlainCode
<1>2. PICK T : PlainSteps(T) /\ q \in Seq(T)
  BY DEF PlainCode
<1> DEFINE U == (S \cup T) \cup {s}
<1>3. PlainSteps(S \cup T)
  BY <1>1, <1>2, PlainUnion
<1>4. Seq(S \cup T) \subseteq Seq(U)
  BY SeqMonotonic
<1>5. p \in Seq(U) /\ q \in Seq(U)
  BY <1>1, <1>2
<1>6. PlainSteps(U)
  BY <1>3, <1>4, <1>5 DEF PlainSteps
<1>7. <<s>> \in Seq(U)
  OBVIOUS
<1>8. QED
  BY <1>6, <1>7 DEF PlainCode

\* What is left of plain code after its first step is plain, and so is what
\* the first step branches to.
LEMMA PlainHead ==
  ASSUME NEW p, PlainCode(p), p # <<>>
  PROVE  /\ PlainCode(Tail(p))
         /\ LET s == Head(p)
            IN \/ PlainStep(s)
               \/ /\ s[1] \in {"Branch", "IfOther"}
                  /\ PlainCode(s[2]) /\ PlainCode(s[3])
               \/ /\ s[1] \in {"IfLoaded", "IfEnabled"}
                  /\ PlainCode(s[3]) /\ PlainCode(s[4])
<1>1. PICK S : PlainSteps(S) /\ p \in Seq(S)
  BY DEF PlainCode
<1>2. Head(p) \in S /\ Tail(p) \in Seq(S)
  BY <1>1
<1>3. QED
  BY <1>1, <1>2 DEF PlainCode, PlainSteps

\* A sequence, of whatever elements.
IsSeq(p) == \E S : p \in Seq(S)

LEMMA PlainIsSeq == ASSUME NEW p, PlainCode(p) PROVE IsSeq(p)
  BY DEF PlainCode, IsSeq

LEMMA SeqJoin == ASSUME NEW p, NEW q, IsSeq(p), IsSeq(q) PROVE IsSeq(p \o q)
<1>1. PICK S : p \in Seq(S)
  BY DEF IsSeq
<1>2. PICK T : q \in Seq(T)
  BY DEF IsSeq
<1>3. p \o q \in Seq(S \cup T)
  BY <1>1, <1>2
<1>4. QED
  BY <1>3 DEF IsSeq

LEMMA JoinAssociative ==
  ASSUME NEW p, NEW q, NEW r, IsSeq(p), IsSeq(q), IsSeq(r)
  PROVE  (p \o q) \o r = p \o (q \o r)
<1>1. PICK S : p \in Seq(S)
  BY DEF IsSeq
<1>2. PICK T : q \in Seq(T)
  BY DEF IsSeq
<1>3. PICK U : r \in Seq(U)
  BY DEF IsSeq
<1> DEFINE V == S \cup (T \cup U)
<1>4. p \in Seq(V) /\ q \in Seq(V) /\ r \in Seq(V)
  BY <1>1, <1>2, <1>3, SeqMonotonic
<1> HIDE DEF V
<1>5. QED
  BY <1>4, ConcatAssociative

Associates(p, q, r) == (p \o q) \o r = p \o (q \o r)

LEMMA SeqsAssociate ==
  \A p, q, r : IsSeq(p) /\ IsSeq(q) /\ IsSeq(r) => Associates(p, q, r)
  BY JoinAssociative DEF Associates

\* The first step of a sequence that goes on with k.
LEMMA FirstStep ==
  ASSUME NEW p, NEW k, IsSeq(p), IsSeq(k), p # <<>>
  PROVE  /\ p \o k # <<>>
         /\ Head(p \o k) = Head(p)
         /\ Tail(p \o k) = Tail(p) \o k
         /\ IsSeq(Tail(p))
<1>1. PICK S : p \in Seq(S)
  BY DEF IsSeq
<1>2. PICK T : k \in Seq(T)
  BY DEF IsSeq
<1> DEFINE U == S \cup T
<1>3. p \in Seq(U) /\ k \in Seq(U)
  BY <1>1, <1>2, SeqMonotonic
<1> HIDE DEF U
<1>4. Len(p) > 0 /\ Tail(p) \in Seq(U) /\ p \o k \in Seq(U)
  BY <1>3
<1>5. p \o k # <<>> /\ Head(p \o k) = Head(p)
  BY <1>3, <1>4
<1>6. Tail(p \o k) = Tail(p) \o k
  <2>1. /\ Tail(p \o k) \in Seq(U) /\ Tail(p) \o k \in Seq(U)
        /\ Len(Tail(p \o k)) = Len(Tail(p) \o k)
    BY <1>3, <1>4, <1>5
  <2>2. ASSUME NEW i \in 1 .. Len(Tail(p \o k))
        PROVE  Tail(p \o k)[i] = (Tail(p) \o k)[i]
    BY <1>3, <1>4, <1>5
  <2>3. QED
    BY <2>1, <2>2, SeqEqual
<1>7. QED
  BY <1>4, <1>5, <1>6 DEF IsSeq
-----------------------------------------------------------------------------
(* The functions of the library but the one that allocates are plain.      *)

LEMMA PlainTwo ==
  ASSUME NEW s, NEW t, PlainStep(s), PlainStep(t) PROVE PlainCode(<<s, t>>)
<1>1. PlainSteps({s, t}) /\ <<s, t>> \in Seq({s, t})
  BY DEF PlainSteps
<1>2. QED
  BY <1>1 DEF PlainCode

LEMMA PlainThree ==
  ASSUME NEW s, NEW t, NEW u, PlainStep(s), PlainStep(t), PlainStep(u)
  PROVE  PlainCode(<<s, t, u>>)
<1>1. PlainSteps({s, t, u}) /\ <<s, t, u>> \in Seq({s, t, u})
  BY DEF PlainSteps
<1>2. QED
  BY <1>1 DEF PlainCode

LEMMA PlainBranch ==
  ASSUME NEW p, NEW q, PlainCode(p), PlainCode(q)
  PROVE  PlainCode(Branch(p, q))
<1>1. LET s == <<"Branch", p, q>> IN s[1] = "Branch" /\ s[2] = p /\ s[3] = q
  OBVIOUS
<1>2. QED
  BY <1>1, PlainJump DEF Branch

LEMMA PlainIfLoaded ==
  ASSUME NEW c, NEW p, NEW q, PlainCode(p), PlainCode(q)
  PROVE  PlainCode(IfLoaded(c, p, q))
<1>1. LET s == <<"IfLoaded", c, p, q>>
      IN s[1] = "IfLoaded" /\ s[3] = p /\ s[4] = q
  OBVIOUS
<1>2. QED
  BY <1>1, PlainJump DEF IfLoaded

\* The steps the functions are made of.
LEMMA StepsArePlain ==
  /\ \A c \in Components, command \in Commands :
       PlainStep(Send(c, command[1], command[2]))
  /\ \A c \in Components : \A cmd, arg, other :
       PlainStep(Wait(c, cmd, arg, other))
  /\ \A c \in Components : \A d : PlainStep(Relate(c, d))
  /\ \A c \in Components : \A hows : PlainStep(RemoveError(c, hows))
  /\ \A c \in Components : \A mask, timeout :
       PlainStep(Sleep(c, mask, timeout))
  /\ \A S, on : PlainStep(Mask(S, on))
  /\ \A r : PlainStep(Result(r))
  /\ \A on \in BOOLEAN : PlainStep(SetupTunnel(on))
<1>1. ASSUME NEW c \in Components, NEW command \in Commands
      PROVE  PlainStep(Send(c, command[1], command[2]))
  BY DEF PlainStep, Send, Commands
<1>2. QED
  BY <1>1 DEF PlainStep, Wait, Relate, RemoveError, Sleep, Mask, Result,
              SetupTunnel

LEMMA SendsArePlain ==
  ASSUME NEW c \in Components
  PROVE  /\ \A state \in States : PlainStep(Send(c, "StateSet", state))
         /\ \A cmd \in {"PortEnable", "PortDisable", "Flush"} :
              PlainStep(Send(c, cmd, "port"))
  BY DEF PlainStep, Send, Commands

LEMMA WaitIsPlain ==
  ASSUME NEW c \in Components, NEW cmd, NEW arg
  PROVE  PlainCode(ilclient_wait_for_command_complete(c, cmd, arg))
  BY StepsArePlain, PlainOne DEF ilclient_wait_for_command_complete

LEMMA WaitEventIsPlain ==
  ASSUME NEW c \in Components, NEW ev, NEW mask, NEW timeout
  PROVE  PlainCode(ilclient_wait_for_event(c, ev, mask, timeout))
<1>1. PlainStep(<<"WaitEvent", c, ev, mask, timeout>>)
  BY DEF PlainStep
<1>2. QED
  BY <1>1, PlainOne DEF ilclient_wait_for_event

LEMMA ChangeStateIsPlain ==
  ASSUME NEW c \in Components, NEW state \in States
  PROVE  PlainCode(ilclient_change_component_state(c, state))
<1>1. PlainCode(<<Send(c, "StateSet", state)>>)
  BY SendsArePlain, PlainOne
<1>2. PlainCode(<<RemoveError(c, {"cmd", "async"}), Result(-1)>>)
  BY StepsArePlain, PlainTwo
<1>3. PlainCode(Branch(<<>>, <<RemoveError(c, {"cmd", "async"}),
                               Result(-1)>>))
  BY <1>2, PlainEmpty, PlainBranch
<1>4. QED
  BY <1>1, <1>3, WaitIsPlain, PlainJoin DEF ilclient_change_component_state

LEMMA DisablePortIsPlain ==
  ASSUME NEW c \in Components PROVE PlainCode(ilclient_disable_port(c))
<1>1. PlainCode(<<Send(c, "PortDisable", "port")>>)
  BY SendsArePlain, PlainOne
<1>2. QED
  BY <1>1, WaitIsPlain, PlainJoin DEF ilclient_disable_port

LEMMA CreateIsPlain ==
  ASSUME NEW c \in Components PROVE PlainCode(ilclient_create_component(c))
<1>1. PlainStep(<<"Create", c>>)
  BY DEF PlainStep
<1>2. QED
  BY <1>1, PlainOne, DisablePortIsPlain, PlainJoin
     DEF ilclient_create_component

\* The loop over the components, unrolled.
LEMMA CleanupIs ==
  ilclient_cleanup_components(<<"render">>)
    = <<<<"ReturnEvents", "render">>>> \o <<<<"FreeHandle", "render">>>>
  BY DEF ilclient_cleanup_components

LEMMA CleanupIsPlain ==
  /\ PlainCode(ilclient_cleanup_components(<<"render">>))
  /\ PlainCode(ilclient_cleanup_components(<<"source", "render">>))
<1> DEFINE S == {"ReturnEvents", "FreeHandle"} \X Components
<1>1. PlainSteps(S)
  BY DEF PlainSteps, PlainStep
<1>2. ASSUME NEW n \in Nat, NEW comps \in [1 .. n -> Components],
             Len(comps) = n
      PROVE  ilclient_cleanup_components(comps) \in Seq(S)
  <2>1. ASSUME NEW i \in 1 .. 2 * n
        PROVE  comps[(i + 1) \div 2] \in Components
    BY <2>1
  <2>2. QED
    BY <1>2, <2>1 DEF ilclient_cleanup_components
<1>3. /\ <<"render">> \in [1 .. 1 -> Components] /\ Len(<<"render">>) = 1
      /\ <<"source", "render">> \in [1 .. 2 -> Components]
      /\ Len(<<"source", "render">>) = 2
  BY DEF Components
<1>4. QED
  BY <1>1, <1>2, <1>3 DEF PlainCode

LEMMA DisablePortBuffersIsPlain ==
  ASSUME NEW c \in Components, NEW buffers
  PROVE  PlainCode(ilclient_disable_port_buffers(c, buffers))
<1> DEFINE p == <<Send(c, "PortDisable", "port"),
                  <<"Reclaim", c, buffers, NumBuffers>>>>
           s == <<"IfEnabled", c, p, <<>>>>
<1>1. PlainStep(<<"Reclaim", c, buffers, NumBuffers>>)
  BY DEF PlainStep
<1>2. PlainCode(p)
  BY <1>1, SendsArePlain, PlainTwo
<1>3. ilclient_disable_port_buffers(c, buffers) = <<s>>
  BY DEF ilclient_disable_port_buffers
<1>4. s[1] = "IfEnabled" /\ s[3] = p /\ s[4] = <<>>
  OBVIOUS
<1> HIDE DEF s, p
<1>5. QED
  BY <1>2, <1>3, <1>4, PlainEmpty, PlainJump

\* What ilclient_enable_port_buffers does once the buffers are there.
AfterBuffers(c) ==
  Branch(ilclient_wait_for_command_complete(c, "PortEnable", "port"), <<>>)
    \o Branch(<<>>, ilclient_disable_port_buffers(c, <<>>)
                      \o <<RemoveError(c, {"cmd"}), Result(-1)>>)

LEMMA AfterBuffersIsPlain ==
  ASSUME NEW c \in Components PROVE PlainCode(AfterBuffers(c))
<1>1. PlainCode(<<RemoveError(c, {"cmd"}), Result(-1)>>)
  BY StepsArePlain, PlainTwo
<1>2. PlainCode(Branch(ilclient_wait_for_command_complete(
                         c, "PortEnable", "port"), <<>>))
  BY WaitIsPlain, PlainEmpty, PlainBranch
<1>3. PlainCode(ilclient_disable_port_buffers(c, <<>>)
                  \o <<RemoveError(c, {"cmd"}), Result(-1)>>)
  BY <1>1, DisablePortBuffersIsPlain, PlainJoin
<1>4. QED
  BY <1>2, <1>3, PlainEmpty, PlainBranch, PlainJoin DEF AfterBuffers

LEMMA TransitionIsPlain ==
  ASSUME NEW state \in States PROVE PlainCode(ilclient_state_transition(state))
<1> DEFINE M(on) == Mask(IF state = "Loaded" THEN Components ELSE {}, on)
           t == <<"Transition", Components, state>>
           u == Wait("source", "StateSet", state, "none")
           v == Wait("render", "StateSet", state, "none")
<1>1. PlainStep(t)
  BY DEF PlainStep
<1>2. /\ PlainStep(M(TRUE)) /\ PlainStep(M(FALSE))
      /\ PlainStep(u) /\ PlainStep(v)
  BY StepsArePlain DEF Components
<1> DEFINE S == {M(TRUE), t, u, v, M(FALSE)}
<1>3. ilclient_state_transition(state) \in Seq(S)
  BY DEF ilclient_state_transition
<1>4. PlainSteps(S)
  BY <1>1, <1>2 DEF PlainSteps
<1>5. QED
  BY <1>3, <1>4 DEF PlainCode

LEMMA DisableTunnelIsPlain == PlainCode(ilclient_disable_tunnel)
<1> DEFINE m == Mask(Components, TRUE)
           n == Mask(Components, FALSE)
           s == Send("source", "PortDisable", "port")
           t == Send("render", "PortDisable", "port")
           u == Wait("source", "PortDisable", "port", "none")
           v == Wait("render", "PortDisable", "port", "none")
           S == {m, n, s, t, u, v}
<1>1. "source" \in Components /\ "render" \in Components
  BY DEF Components
<1>2. /\ PlainStep(m) /\ PlainStep(n) /\ PlainStep(u) /\ PlainStep(v)
      /\ PlainStep(s) /\ PlainStep(t)
  BY <1>1, StepsArePlain, SendsArePlain
<1>3. ilclient_disable_tunnel \in Seq(S)
  BY DEF ilclient_disable_tunnel
<1>4. PlainSteps(S)
  BY <1>2 DEF PlainSteps
<1>5. QED
  BY <1>3, <1>4 DEF PlainCode

LEMMA EnableTunnelIsPlain == PlainCode(ilclient_enable_tunnel)
<1>1. "source" \in Components /\ "render" \in Components
  BY DEF Components
<1> DEFINE waitS == ilclient_wait_for_command_complete(
                      "source", "PortEnable", "port")
           waitR == ilclient_wait_for_command_complete(
                      "render", "PortEnable", "port")
           dual == ilclient_wait_for_command_complete_dual(
                     "render", "StateSet", "Idle", "source")
           event == ilclient_wait_for_event("source",
                      CmdComplete("PortEnable", "port"),
                      {"PORT_ENABLED", "EVENT_ERROR"}, FALSE)
           offS == ilclient_disable_port("source")
           offR == ilclient_disable_port("render")
           fail == <<Result(-1)>>
           sends == <<Send("source", "PortEnable", "port"),
                      Send("render", "PortEnable", "port")>>
           idle == <<Send("render", "StateSet", "Idle")>>
           other == <<"IfOther", waitS \o offR, <<>>>>
<1>2. /\ PlainCode(waitS) /\ PlainCode(waitR) /\ PlainCode(event)
      /\ PlainCode(offS) /\ PlainCode(offR)
  BY <1>1, WaitIsPlain, WaitEventIsPlain, DisablePortIsPlain
<1>3. PlainCode(fail)
  BY StepsArePlain, PlainOne
<1>4. PlainCode(dual)
  BY <1>1, StepsArePlain, PlainThree
     DEF ilclient_wait_for_command_complete_dual
<1>5. PlainCode(sends) /\ PlainCode(idle)
  BY <1>1, SendsArePlain, PlainOne, PlainTwo DEF States
<1>6. PlainCode(<<other>>)
  <2>1. other[1] = "IfOther" /\ other[2] = waitS \o offR /\ other[3] = <<>>
    OBVIOUS
  <2>2. PlainCode(waitS \o offR)
    BY <1>2, PlainJoin
  <2> HIDE DEF other, waitS, offR
  <2>3. QED
    BY <2>1, <2>2, PlainEmpty, PlainJump
<1>7. SinkNotIdle = <<other>> \o offS \o fail
  BY DEF SinkNotIdle
<1>8. EnableSource = waitS \o Branch(<<>>, offR \o fail)
  BY DEF EnableSource
<1>9. ilclient_enable_tunnel =
        sends \o IfLoaded("render",
                   waitR \o Branch(idle \o dual, <<>>)
                     \o Branch(EnableSource, SinkNotIdle),
                   waitR \o Branch(EnableSource, offS \o event \o fail))
  BY DEF ilclient_enable_tunnel
<1> HIDE DEF waitS, waitR, dual, event, offS, offR, fail, sends, idle, other
<1>10. PlainCode(SinkNotIdle)
  BY <1>2, <1>3, <1>6, <1>7, PlainJoin
<1>11. PlainCode(EnableSource)
  BY <1>2, <1>3, <1>8, PlainEmpty, PlainJoin, PlainBranch
<1>12. PlainCode(waitR \o Branch(idle \o dual, <<>>)
                   \o Branch(EnableSource, SinkNotIdle))
  BY <1>2, <1>4, <1>5, <1>10, <1>11, PlainEmpty, PlainJoin, PlainBranch
<1>13. PlainCode(waitR \o Branch(EnableSource, offS \o event \o fail))
  BY <1>2, <1>3, <1>11, PlainJoin, PlainBranch
<1>14. QED
  BY <1>5, <1>9, <1>12, <1>13, PlainJoin, PlainIfLoaded

LEMMA FlushIsPlain == PlainCode(ilclient_flush_tunnels)
<1>1. "source" \in Components /\ "render" \in Components
  BY DEF Components
<1>2. PlainCode(<<Send("source", "Flush", "port"),
                  Send("render", "Flush", "port")>>)
  BY <1>1, SendsArePlain, PlainTwo
<1>3. QED
  BY <1>1, <1>2, WaitEventIsPlain, PlainJoin DEF ilclient_flush_tunnels

LEMMA SetupTunnelIsPlain ==
  ASSUME NEW timeout \in BOOLEAN
  PROVE  PlainCode(ilclient_setup_tunnel(timeout))
<1>1. "source" \in Components /\ "render" \in Components
  BY DEF Components
<1> DEFINE event == ilclient_wait_for_event("source",
                      <<"PortSettingsChanged", "port", "any">>,
                      {"PARAMETER_CHANGED", "EVENT_ERROR"}, TRUE)
           wait == IF timeout THEN event ELSE <<>>
           undo == <<SetupTunnel(FALSE), Result(-5)>>
           clean == <<RemoveError("render", {"cmd", "async"}),
                      RemoveError("source", {"cmd", "async"})>>
           on == <<SetupTunnel(TRUE)>>
           connect == on
             \o Branch(ilclient_enable_tunnel \o Branch(<<>>, clean \o undo),
                       undo)
           select == <<<<"SelectStream">>>>
           idle == ilclient_change_component_state("source", "Idle")
           zero == <<Result(0)>>
<1>2. PlainCode(wait) /\ PlainCode(idle)
  BY <1>1, WaitEventIsPlain, ChangeStateIsPlain, PlainEmpty DEF States
<1>3. /\ PlainCode(undo) /\ PlainCode(clean) /\ PlainCode(on)
      /\ PlainCode(zero)
  BY <1>1, StepsArePlain, PlainOne, PlainTwo
<1>4. PlainCode(select)
  <2>1. PlainStep(<<"SelectStream">>)
    BY DEF PlainStep
  <2>2. QED
    BY <2>1, PlainOne
<1>5. ilclient_setup_tunnel(timeout) =
        IfLoaded("source", idle, zero) \o Branch(wait, <<>>)
          \o Branch(ilclient_disable_tunnel \o select
                      \o Branch(connect, <<>>), <<>>)
  BY DEF ilclient_setup_tunnel
<1>6. PlainCode(connect)
  <2> HIDE DEF undo, clean, on
  <2>1. PlainCode(ilclient_enable_tunnel \o Branch(<<>>, clean \o undo))
    BY <1>3, EnableTunnelIsPlain, PlainEmpty, PlainJoin, PlainBranch
  <2>2. QED
    BY <1>3, <2>1, PlainJoin, PlainBranch
<1> HIDE DEF event, wait, undo, clean, on, connect, select, idle, zero
<1>7. PlainCode(ilclient_disable_tunnel \o select \o Branch(connect, <<>>))
  BY <1>4, <1>6, DisableTunnelIsPlain, PlainEmpty, PlainJoin, PlainBranch
<1>8. PlainCode(IfLoaded("source", idle, zero) \o Branch(wait, <<>>))
  BY <1>2, <1>3, PlainEmpty, PlainJoin, PlainBranch, PlainIfLoaded
<1>9. QED
  BY <1>5, <1>7, <1>8, PlainEmpty, PlainJoin, PlainBranch
-----------------------------------------------------------------------------
(* The code of the sink around the plain parts.                            *)

\* onProcess once the device is open.
Play(size) == <<<<"GetBuffer">>, <<"PlayBuffer", size>>>>

\* What follows the closing of the device.
AfterClose(r) ==
  \/ r = <<>>
  \/ \E conf, size : r = <<<<"Open", conf, size>>>> \o Play(size)

Closed == <<<<"Closed">>>>
FreeRender == <<<<"FreeHandle", "render">>>>

\* What follows audioplay_create.
AfterCreate(size) == Branch(<<<<"Opened">>>>, <<<<"Return">>>>) \o Play(size)

\* The steps of ilclient_enable_port_buffers up to the allocation.
Enabling ==
  <<Send("render", "PortEnable", "port"), <<"UseBuffers", "render">>>>
    \o Branch(ilclient_wait_for_command_complete(
                "render", "PortEnable", "port"), <<>>)
    \o Branch(<<>>, ilclient_disable_port_buffers("render", <<>>)
                      \o <<RemoveError("render", {"cmd"}), Result(-1)>>)
IfNotLoaded == <<"IfLoaded", "render", <<Result(-1)>>, Enabling>>
IfNotEnabled == <<"IfEnabled", "render", <<Result(-1)>>, <<IfNotLoaded>>>>
Allocate == <<"UseBuffers", "render">>

LEMMA DeleteIs ==
  \E p : PlainCode(p) /\ audioplay_delete = p \o FreeRender
<1>1. "render" \in Components /\ {"Idle", "Loaded"} \subseteq States
  BY DEF Components, States
<1> DEFINE a == ilclient_change_component_state("render", "Idle")
           b == <<Send("render", "StateSet", "Loaded")>>
           c == ilclient_disable_port_buffers("render", user_list)
           d == ilclient_change_component_state("render", "Loaded")
           e == <<<<"ReturnEvents", "render">>>>
           p == a \o b \o c \o d
<1>2. PlainCode(a) /\ PlainCode(b) /\ PlainCode(c) /\ PlainCode(d)
  BY <1>1, ChangeStateIsPlain, DisablePortBuffersIsPlain, SendsArePlain,
     PlainOne
<1>3. PlainCode(e)
  <2>1. PlainStep(<<"ReturnEvents", "render">>)
    BY <1>1 DEF PlainStep
  <2>2. QED
    BY <2>1, PlainOne
<1>4. audioplay_delete = p \o (e \o FreeRender)
  BY CleanupIs DEF audioplay_delete, FreeRender
<1> HIDE DEF a, b, c, d, e
<1>5. PlainCode(p)
  BY <1>2, PlainJoin
<1> HIDE DEF p
<1>6. IsSeq(FreeRender)
  <2>1. FreeRender \in Seq({<<"FreeHandle", "render">>})
    BY DEF FreeRender
  <2>2. QED
    BY <2>1 DEF IsSeq
<1>7. audioplay_delete = (p \o e) \o FreeRender
  <2>1. IsSeq(p) /\ IsSeq(e)
    BY <1>3, <1>5, PlainIsSeq
  <2>2. Associates(p, e, FreeRender)
    BY <1>6, <2>1, SeqsAssociate, Zenon
  <2>3. QED
    BY <1>4, <2>2 DEF Associates
<1>8. PlainCode(p \o e)
  BY <1>3, <1>5, PlainJoin
<1>9. QED
  BY <1>7, <1>8

LEMMA OneIsSeq == ASSUME NEW s PROVE IsSeq(<<s>>)
<1>1. <<s>> \in Seq({s})
  OBVIOUS
<1>2. QED
  BY <1>1 DEF IsSeq

LEMMA EnablingIs ==
  Enabling = <<Send("render", "PortEnable", "port")>>
               \o (<<Allocate>> \o AfterBuffers("render"))
<1> DEFINE s == Send("render", "PortEnable", "port")
           p == Branch(ilclient_wait_for_command_complete(
                         "render", "PortEnable", "port"), <<>>)
           q == Branch(<<>>, ilclient_disable_port_buffers("render", <<>>)
                         \o <<RemoveError("render", {"cmd"}), Result(-1)>>)
<1>1. IsSeq(p) /\ IsSeq(q)
  BY OneIsSeq DEF Branch
<1>2. Enabling = <<s, Allocate>> \o p \o q
  BY DEF Enabling, Allocate
<1>3. AfterBuffers("render") = p \o q
  BY DEF AfterBuffers
<1>4. <<s, Allocate>> = <<s>> \o <<Allocate>>
  OBVIOUS
<1> HIDE DEF s, p, q
<1>5. IsSeq(<<s>>) /\ IsSeq(<<Allocate>>)
  BY OneIsSeq
<1>6. IsSeq(<<s>> \o <<Allocate>>) /\ IsSeq(p \o q)
  BY <1>1, <1>5, SeqJoin
<1>7. (<<s>> \o <<Allocate>>) \o p \o q
        = (<<s>> \o <<Allocate>>) \o (p \o q)
  BY <1>1, <1>6, JoinAssociative
<1>8. (<<s>> \o <<Allocate>>) \o (p \o q)
        = <<s>> \o (<<Allocate>> \o (p \o q))
  BY <1>5, <1>6, JoinAssociative
<1>9. QED
  BY <1>2, <1>3, <1>4, <1>7, <1>8 DEF s

LEMMA CreateIs ==
  \E p, q : /\ PlainCode(p) /\ PlainCode(q)
            /\ audioplay_create = p \o (<<IfNotEnabled>> \o q)
<1>1. /\ "render" \in Components
      /\ {"Idle", "Loaded", "Executing"} \subseteq States
  BY DEF Components, States
<1> DEFINE a == ilclient_create_component("render")
           b == ilclient_change_component_state("render", "Idle")
           d == ilclient_change_component_state("render", "Executing")
           e == ilclient_change_component_state("render", "Loaded")
           f == ilclient_cleanup_components(<<"render">>)
           g == <<Result(0)>>
           h == <<Result(-1)>>
           q == Branch(d \o g, e \o f \o h)
<1>2. /\ PlainCode(a) /\ PlainCode(b) /\ PlainCode(d) /\ PlainCode(e)
      /\ PlainCode(f) /\ PlainCode(g) /\ PlainCode(h)
  BY <1>1, CreateIsPlain, ChangeStateIsPlain, CleanupIsPlain, StepsArePlain,
     PlainOne
<1>3. ilclient_enable_port_buffers("render") = <<IfNotEnabled>>
  BY DEF ilclient_enable_port_buffers, IfNotEnabled, IfNotLoaded, Enabling,
         IfLoaded
<1>4. audioplay_create = a \o b \o <<IfNotEnabled>> \o q
  BY <1>3 DEF audioplay_create
<1> HIDE DEF a, b, d, e, f, g, h
<1>5. PlainCode(q) /\ PlainCode(a \o b)
  BY <1>2, PlainJoin, PlainBranch
<1> HIDE DEF q
<1>6. a \o b \o <<IfNotEnabled>> \o q = (a \o b) \o (<<IfNotEnabled>> \o q)
  BY <1>5, OneIsSeq, PlainIsSeq, JoinAssociative
<1>7. QED
  BY <1>4, <1>5, <1>6
-----------------------------------------------------------------------------
(* What plain code does to the buffers: it takes some away.                *)

Drops ==
  /\ in_list' \in {in_list, <<>>}
  /\ \A c \in Components : /\ omx'[c].held \in {omx[c].held, <<>>}
                           /\ calls'[c] \in {calls[c], <<>>}

LEMMA ArgIs ==
  /\ Arg(1) = Head(code)[2] /\ Arg(2) = Head(code)[3]
  /\ Arg(3) = Head(code)[4] /\ Arg(4) = Head(code)[5]
<1>1. 1 + 1 = 2 /\ 2 + 1 = 3 /\ 3 + 1 = 4 /\ 4 + 1 = 5
  OBVIOUS
<1>2. QED
  BY <1>1 DEF Arg

LEMMA NothingDropped ==
  ASSUME IlTypeOK, UNCHANGED <<in_list, omx, calls>> PROVE IlTypeOK' /\ Drops
  BY DEF IlTypeOK, Drops

\* An update of a component that leaves its buffers.
LEMMA ComponentUpdated ==
  ASSUME IlTypeOK, NEW c \in Components, NEW o \in OmxRec,
         o.held \in {omx[c].held, <<>>}, omx' = [omx EXCEPT ![c] = o],
         calls' = calls, in_list' \in {in_list, <<>>}
  PROVE  IlTypeOK' /\ Drops
<1>1. \A d \in Components : omx'[d] = IF d = c THEN o ELSE omx[d]
  BY DEF IlTypeOK
<1>2. omx' \in [Components -> OmxRec]
  BY DEF IlTypeOK
<1>3. in_list' \in Seq(Buffers)
  <2>1. <<>> \in Seq(Buffers)
    OBVIOUS
  <2>2. QED
    BY <2>1 DEF IlTypeOK
<1>4. QED
  BY <1>1, <1>2, <1>3 DEF IlTypeOK, Drops

\* The code that follows a step.
LEMMA Continued ==
  ASSUME NEW p, NEW k, NEW steps, PlainCode(p), IsSeq(k), p # <<>>,
         code = p \o k, PlainCode(steps), Then(steps)
  PROVE  \E q : PlainCode(q) /\ code' = q \o k
<1>1. PlainCode(Tail(p))
  BY PlainHead
<1>2. Tail(code) = Tail(p) \o k
  BY FirstStep, PlainIsSeq
<1>3. steps \o (Tail(p) \o k) = (steps \o Tail(p)) \o k
  <2> DEFINE t == Tail(p)
  <2>1. IsSeq(steps) /\ IsSeq(t)
    BY <1>1, PlainIsSeq
  <2> HIDE DEF t
  <2>2. steps \o (t \o k) = (steps \o t) \o k
    <3>1. Associates(steps, t, k)
      BY <2>1, SeqsAssociate, Zenon
    <3>2. QED
      BY <3>1, Zenon DEF Associates
  <2>3. QED
    BY <2>2, Zenon DEF t
<1>4. PlainCode(steps \o Tail(p))
  BY <1>1, PlainJoin
<1>5. QED
  BY <1>2, <1>3, <1>4 DEF Then

LEMMA SendDrops ==
  ASSUME IlTypeOK, DoSend, PlainStep(Head(code)) PROVE IlTypeOK' /\ Drops
<1> DEFINE c == Arg(1)  cmd == Arg(2)  arg == Arg(3)
           again == cmd = "PortDisable" /\ ~omx[c].enabled
           cmds == Append(omx[c].cmds, <<cmd, arg, again>>)
           enabled == \/ cmd = "PortEnable"
                      \/ omx[c].enabled /\ cmd # "PortDisable"
           o == [omx[c] EXCEPT !.cmds = cmds, !.enabled = enabled]
<1>1. Head(code)[1] = "Send"
  BY DEF DoSend, Op
<1>2. c \in Components /\ <<cmd, arg>> \in Commands
  BY <1>1, ArgIs DEF PlainStep
<1>3. omx' = [omx EXCEPT ![c] = o]
  BY DEF DoSend
<1>4. omx[c] \in OmxRec
  BY <1>2 DEF IlTypeOK
<1>5. <<cmd, arg, again>> \in SentCommands
  BY <1>2 DEF Commands, SentCommands
<1>6. o \in OmxRec /\ o.held = omx[c].held
  <2>1. cmds \in Seq(SentCommands) /\ enabled \in BOOLEAN
    BY <1>4, <1>5 DEF OmxRec
  <2> HIDE DEF cmds, enabled
  <2>2. QED
    BY <1>4, <2>1 DEF OmxRec
<1>7. in_list' = in_list /\ calls' = calls
  BY DEF DoSend
<1> HIDE DEF o
<1>8. QED
  BY <1>2, <1>3, <1>6, <1>7, ComponentUpdated

LEMMA ReclaimDrops ==
  ASSUME IlTypeOK, Reclaim, PlainStep(Head(code)) PROVE IlTypeOK' /\ Drops
<1> DEFINE c == Arg(1)
           taken == IF Arg(2) = <<>> THEN in_list ELSE Arg(2)
           o == [omx[c] EXCEPT !.bufs = @ \ ToSet(taken)]
<1>1. Head(code)[1] = "Reclaim"
  BY DEF Reclaim, Op
<1>2. c \in Components
  BY <1>1, ArgIs DEF PlainStep
<1>3. omx[c] \in OmxRec
  BY <1>2 DEF IlTypeOK
<1>4. omx' = [omx EXCEPT ![c] = o]
  BY <1>2, <1>3 DEF Reclaim, OmxRec, IlTypeOK
<1>5. o \in OmxRec /\ o.held = omx[c].held
  BY <1>3 DEF OmxRec
<1>6. in_list' \in {in_list, <<>>} /\ calls' = calls
  BY DEF Reclaim
<1> HIDE DEF o
<1>7. QED
  BY <1>2, <1>4, <1>5, <1>6, ComponentUpdated

LEMMA TunnelDrops ==
  ASSUME IlTypeOK, DoSetupTunnel, PlainStep(Head(code))
  PROVE  IlTypeOK' /\ Drops
<1>1. UNCHANGED <<in_list, calls>>
  BY DEF DoSetupTunnel
<1>2. CASE omx' = omx
  BY <1>1, <1>2, NothingDropped
<1>3. CASE /\ Op("SetupTunnel")
           /\ omx' = [c \in Components |-> [omx[c] EXCEPT !.tunnel = Arg(1)]]
  <2>1. Arg(1) \in BOOLEAN
    BY <1>3, ArgIs DEF Op, PlainStep
  <2>2. ASSUME NEW c \in Components
        PROVE  omx'[c] \in OmxRec /\ omx'[c].held = omx[c].held
    <3>1. omx[c] \in OmxRec /\ omx'[c] = [omx[c] EXCEPT !.tunnel = Arg(1)]
      BY <1>3 DEF IlTypeOK
    <3>2. QED
      BY <2>1, <3>1 DEF OmxRec
  <2>3. omx' \in [Components -> OmxRec]
    BY <1>3, <2>2
  <2>4. QED
    BY <1>1, <2>2, <2>3 DEF IlTypeOK, Drops
<1>4. QED
  BY <1>2, <1>3 DEF DoSetupTunnel

LEMMA FreshType == FreshOmx \in OmxRec /\ FreshOmx.held = <<>>
<1>1. <<>> \in Seq(SentCommands) /\ <<>> \in Seq(Buffers)
  OBVIOUS
<1>2. QED
  BY <1>1 DEF FreshOmx, OmxRec, States

\* Freeing a component also ends its callbacks.
LEMMA ComponentDrops ==
  ASSUME IlTypeOK, DoComponent, PlainStep(Head(code))
  PROVE  /\ IlTypeOK' /\ Drops
         /\ Op("FreeHandle") =>
              omx'[Arg(1)].held = <<>> /\ calls'[Arg(1)] = <<>>
<1>1. in_list' = in_list
  BY DEF DoComponent
<1>2. CASE UNCHANGED <<omx, calls>> /\ Op("ReturnEvents")
  BY <1>1, <1>2, NothingDropped DEF Op
<1>3. CASE Op("Create") /\ omx' = [omx EXCEPT ![Arg(1)] = FreshOmx]
                        /\ calls' = calls
  <2>1. Arg(1) \in Components
    BY <1>3, ArgIs DEF Op, PlainStep
  <2>2. QED
    BY <1>1, <1>3, <2>1, FreshType, ComponentUpdated DEF Op
<1>4. CASE /\ Op("FreeHandle")
           /\ omx' = [omx EXCEPT ![Arg(1)] = FreshOmx]
           /\ calls' = [calls EXCEPT ![Arg(1)] = <<>>]
  <2> DEFINE c == Arg(1)
  <2>1. c \in Components
    BY <1>4, ArgIs DEF Op, PlainStep
  <2> HIDE DEF c
  <2>2. omx' = [omx EXCEPT ![c] = FreshOmx]
        /\ calls' = [calls EXCEPT ![c] = <<>>]
    BY <1>4 DEF c
  <2>3. <<>> \in Seq(Calls)
    OBVIOUS
  <2>4. calls' \in [Components -> Seq(Calls)]
    BY <2>2, <2>3 DEF IlTypeOK
  <2>5. omx' \in [Components -> OmxRec]
    BY <2>2, FreshType DEF IlTypeOK
  <2>6. \A d \in Components :
          /\ omx'[d] = IF d = c THEN FreshOmx ELSE omx[d]
          /\ calls'[d] = IF d = c THEN <<>> ELSE calls[d]
    BY <2>2 DEF IlTypeOK
  <2>7. omx'[c].held = <<>> /\ calls'[c] = <<>>
    BY <2>1, <2>6, FreshType
  <2>8. QED
    BY <1>1, <2>4, <2>5, <2>6, <2>7, FreshType DEF IlTypeOK, Drops, c
<1>5. QED
  BY <1>2, <1>3, <1>4 DEF DoComponent

\* The steps that leave the buffers alone.
QuietStep ==
  \/ DoWait \/ DoSleep \/ Timeout \/ DoWaitEvent \/ Woken \/ DoRemoveError
  \/ DoBranch \/ DoMask \/ DoTransition \/ Reclaimed

LEMMA QuietDrops == ASSUME IlTypeOK, QuietStep PROVE IlTypeOK' /\ Drops
<1>1. UNCHANGED <<in_list, omx, calls>>
  BY DEF QuietStep, DoWait, DoSleep, Timeout, DoWaitEvent, Woken,
         DoRemoveError, DoBranch, DoMask, DoTransition, Reclaimed, OnlyThread
<1>2. QED
  BY <1>1, NothingDropped

\* The first step of plain code is no allocation, and more plain code
\* follows it.
LEMMA QuietContinues ==
  ASSUME NEW p, NEW k, PlainCode(p), IsSeq(k), p # <<>>, code = p \o k,
         QuietStep
  PROVE  \E q : PlainCode(q) /\ code' = q \o k
<1> DEFINE s == Head(code)
<1>1. s = Head(p)
  BY FirstStep, PlainIsSeq
<1>2. \/ PlainStep(s)
      \/ /\ s[1] \in {"Branch", "IfOther"}
         /\ PlainCode(s[2]) /\ PlainCode(s[3])
      \/ /\ s[1] \in {"IfLoaded", "IfEnabled"}
         /\ PlainCode(s[3]) /\ PlainCode(s[4])
  BY <1>1, PlainHead
<1> HIDE DEF s
<1>3. ASSUME NEW steps, PlainCode(steps), Then(steps)
      PROVE  \E q : PlainCode(q) /\ code' = q \o k
  BY <1>3, Continued
<1>4. CASE DoWait
  <2>1. s[1] = "Wait"
    BY <1>4 DEF DoWait, Op, s
  <2>2. Arg(1) \in Components
    BY <1>2, <2>1, ArgIs DEF PlainStep, s
  <2> DEFINE sleep == Sleep(Arg(1), MaskFor(Arg(2)), FALSE)
  <2>3. CASE code' = <<sleep>> \o code
    <3>1. PlainCode(<<sleep>>)
      BY <2>2, StepsArePlain, PlainOne
    <3>2. <<sleep>> \o (p \o k) = (<<sleep>> \o p) \o k
      <4> DEFINE t == <<sleep>>
      <4>1. IsSeq(t) /\ IsSeq(p)
        BY <3>1, PlainIsSeq
      <4> HIDE DEF t
      <4>2. Associates(t, p, k)
        BY <4>1, SeqsAssociate, Zenon
      <4>3. QED
        BY <4>2, Zenon DEF Associates, t
    <3>3. QED
      BY <2>3, <3>1, <3>2, PlainJoin
  <2>4. CASE Then(<<>>)
    BY <1>3, <2>4, PlainEmpty
  <2>5. QED
    BY <1>4, <2>3, <2>4 DEF DoWait
<1>5. CASE DoSleep \/ Timeout \/ DoRemoveError \/ DoMask
  BY <1>3, <1>5, PlainEmpty DEF DoSleep, Timeout, DoRemoveError, DoMask
<1>6. CASE DoWaitEvent
  <2>1. s[1] = "WaitEvent"
    BY <1>6 DEF DoWaitEvent, Op, s
  <2>2. Arg(1) \in Components /\ s[2] \in Components
    BY <1>2, <2>1, ArgIs DEF PlainStep, s
  <2> DEFINE sleep == Sleep(Arg(1), Arg(3), Arg(4))
             woken == <<"Woken", Head(code)>>
  <2>3. PlainStep(sleep)
    BY <2>2, StepsArePlain
  <2>4. PlainStep(woken)
    BY <2>1, <2>2 DEF PlainStep, s
  <2>5. CASE Then(<<sleep, woken>>)
    <3>1. PlainCode(<<sleep, woken>>)
      BY <2>3, <2>4, PlainTwo
    <3>2. QED
      BY <1>3, <2>5, <3>1
  <2>6. CASE Then(<<>>)
    BY <1>3, <2>6, PlainEmpty
  <2>7. QED
    BY <1>6, <2>5, <2>6 DEF DoWaitEvent
<1>7. CASE Woken
  <2>1. s[1] = "Woken"
    BY <1>7 DEF Woken, Op, s
  <2>2. Arg(1)[1] = "WaitEvent" /\ Arg(1)[2] \in Components
    BY <1>2, <2>1, ArgIs DEF PlainStep, s
  <2>3. PlainStep(Arg(1))
    BY <2>2 DEF PlainStep
  <2>4. PlainCode(<<Arg(1)>>)
    BY <2>3, PlainOne
  <2>5. PICK steps : Then(steps) /\ steps \in {<<>>, <<Arg(1)>>}
    BY <1>7 DEF Woken
  <2>6. QED
    BY <1>3, <2>4, <2>5, PlainEmpty
<1>8. CASE DoBranch
  <2>1. PICK steps : Then(steps) /\ PlainCode(steps)
    <3>1. CASE Op("Result")
      BY <1>8, <3>1, PlainEmpty DEF DoBranch, Op
    <3>2. CASE Op("Branch") \/ Op("IfOther")
      <4>1. PlainCode(Arg(1)) /\ PlainCode(Arg(2))
        BY <1>2, <3>2, ArgIs DEF Op, PlainStep, s
      <4>2. Then(Arg(1)) \/ Then(Arg(2))
        BY <1>8, <3>2 DEF DoBranch, Op
      <4>3. QED
        BY <4>1, <4>2
    <3>3. CASE Op("IfLoaded") \/ Op("IfEnabled")
      <4>1. PlainCode(Arg(2)) /\ PlainCode(Arg(3))
        BY <1>2, <3>3, ArgIs DEF Op, PlainStep, s
      <4>2. Then(Arg(2)) \/ Then(Arg(3))
        BY <1>8, <3>3 DEF DoBranch, Op
      <4>3. QED
        BY <4>1, <4>2
    <3>4. QED
      BY <1>8, <3>1, <3>2, <3>3 DEF DoBranch
  <2>2. QED
    BY <1>3, <2>1
<1>9. CASE DoTransition
  <2>1. s[1] = "Transition"
    BY <1>9 DEF DoTransition, Op, s
  <2>2. Arg(1) \subseteq Components /\ Arg(2) \in States
    BY <1>2, <2>1, ArgIs DEF PlainStep, s
  <2>3. PICK c \in Arg(1) :
          Then(<<Send(c, "StateSet", Arg(2))>>
                 \o (IF Arg(1) = {c} THEN <<>>
                     ELSE <<<<"Transition", Arg(1) \ {c}, Arg(2)>>>>))
    BY <1>9 DEF DoTransition
  <2>4. PlainCode(<<Send(c, "StateSet", Arg(2))>>)
    BY <2>2, SendsArePlain, PlainOne
  <2>5. PlainStep(<<"Transition", Arg(1) \ {c}, Arg(2)>>)
    BY <2>2 DEF PlainStep
  <2>6. PlainCode(<<<<"Transition", Arg(1) \ {c}, Arg(2)>>>>)
    BY <2>5, PlainOne
  <2>7. QED
    BY <1>3, <2>3, <2>4, <2>6, PlainEmpty, PlainJoin
<1>10. CASE Reclaimed
  <2>1. s[1] = "Reclaimed"
    BY <1>10 DEF Reclaimed, Op, s
  <2>2. Arg(1) \in Components
    BY <1>2, <2>1, ArgIs DEF PlainStep, s
  <2>3. PlainStep(<<"Reclaim", Arg(1), <<>>, Arg(2)>>)
    BY <2>2 DEF PlainStep
  <2>4. PlainCode(<<<<"Reclaim", Arg(1), <<>>, Arg(2)>>>>)
    BY <2>3, PlainOne
  <2>5. Then(<<>>) \/ Then(<<<<"Reclaim", Arg(1), <<>>, Arg(2)>>>>)
    BY <1>10 DEF Reclaimed
  <2>6. QED
    BY <1>3, <2>4, <2>5, PlainEmpty
<1>11. QED
  BY <1>4, <1>5, <1>6, <1>7, <1>8, <1>9, <1>10 DEF QuietStep

LEMMA PlainClientStep ==
  ASSUME IlTypeOK, NEW p, NEW k, PlainCode(p), IsSeq(k), p # <<>>,
         code = p \o k, ClientStep
  PROVE  /\ IlTypeOK' /\ Drops
         /\ \E q : PlainCode(q) /\ code' = q \o k
<1> DEFINE s == Head(code)
<1>1. s = Head(p)
  BY FirstStep, PlainIsSeq
<1>2. \/ PlainStep(s)
      \/ s[1] \in {"Branch", "IfOther", "IfLoaded", "IfEnabled"}
  BY <1>1, PlainHead
<1> HIDE DEF s
<1>3. CASE QuietStep
  BY <1>3, QuietDrops, QuietContinues
<1>4. CASE DoSend
  <2>1. PlainStep(s)
    BY <1>2, <1>4 DEF DoSend, Op, s
  <2>2. Then(<<>>)
    BY <1>4 DEF DoSend
  <2>3. QED
    BY <1>4, <2>1, <2>2, SendDrops, Continued, PlainEmpty DEF s
<1>5. CASE Reclaim
  <2>1. PlainStep(s) /\ s[1] = "Reclaim"
    BY <1>2, <1>5 DEF Reclaim, Op, s
  <2>2. Arg(1) \in Components
    BY <2>1, ArgIs DEF PlainStep, s
  <2> DEFINE wait == Wait(Arg(1), "PortDisable", "port", "none")
             sleep == Sleep(Arg(1), {"PORT_DISABLED", "EVENT_ERROR",
                                     "EMPTY_BUFFER_DONE"}, FALSE)
             Next1(num) == <<"Reclaimed", Arg(1), num>>
  <2>3. \E num : Then(<<wait>>) \/ Then(<<sleep, Next1(num)>>)
    BY <1>5 DEF Reclaim
  <2>4. PlainCode(<<wait>>)
    BY <2>2, StepsArePlain, PlainOne
  <2>5. ASSUME NEW num PROVE PlainCode(<<sleep, Next1(num)>>)
    <3>1. PlainStep(sleep)
      BY <2>2, StepsArePlain
    <3>2. PlainStep(Next1(num))
      BY <2>2 DEF PlainStep
    <3>3. QED
      BY <3>1, <3>2, PlainTwo
  <2> HIDE DEF wait, sleep, Next1
  <2>6. \E q : PlainCode(q) /\ code' = q \o k
    BY <2>3, <2>4, <2>5, Continued
  <2>7. QED
    BY <1>5, <2>1, <2>6, ReclaimDrops DEF s
<1>6. CASE DoSetupTunnel
  <2>1. PlainStep(s)
    BY <1>2, <1>6 DEF DoSetupTunnel, Op, s
  <2>2. Then(<<>>)
    BY <1>6 DEF DoSetupTunnel
  <2>3. QED
    BY <1>6, <2>1, <2>2, TunnelDrops, Continued, PlainEmpty DEF s
<1>7. CASE DoComponent
  <2>1. PlainStep(s)
    BY <1>2, <1>7 DEF DoComponent, Op, s
  <2>2. Then(<<>>)
    BY <1>7 DEF DoComponent
  <2>3. QED
    BY <1>7, <2>1, <2>2, ComponentDrops, Continued, PlainEmpty DEF s
<1>8. CASE UseBuffers
  BY <1>2, <1>8 DEF UseBuffers, Op, PlainStep, s
<1>9. QED
  BY <1>3, <1>4, <1>5, <1>6, <1>7, <1>8 DEF ClientStep, QuietStep
-----------------------------------------------------------------------------
(* The places of buffers: a returned, b lent, h with the renderer, and w   *)
(* the callbacks of the renderer, some of which bring a buffer back.       *)

Distinct(q) == \A i, j \in DOMAIN q : q[i] = q[j] => i = j
Apart(q, r) == \A i \in DOMAIN q, j \in DOMAIN r : q[i] # r[j]
Back(w) == {i \in DOMAIN w : w[i][1] = "EmptyBufferDone"}
BackDistinct(w) == \A i, j \in Back(w) : w[i][2] = w[j][2] => i = j
BackApart(q, w) == \A i \in DOMAIN q, j \in Back(w) : q[i] # w[j][2]

Once(a, b, h, w) ==
  /\ Distinct(a) /\ Distinct(b) /\ Distinct(h) /\ BackDistinct(w)
  /\ Apart(a, b) /\ Apart(a, h) /\ Apart(b, h)
  /\ BackApart(a, w) /\ BackApart(b, w) /\ BackApart(h, w)

LEMMA OnceIsBufferOnce ==
  Once(in_list, user_list, omx["render"].held, calls["render"]) => BufferOnce
<1> DEFINE h == omx["render"].held
           w == calls["render"]
<1> SUFFICES ASSUME Once(in_list, user_list, h, w),
                    NEW p \in Places, NEW q \in Places,
                    BufferAt(p) = BufferAt(q)
             PROVE  p = q
  BY DEF BufferOnce
<1> DEFINE At(r) == /\ r = <<r[1], r[2]>>
                    /\ \/ /\ r[1] = "in_list" /\ r[2] \in DOMAIN in_list
                          /\ BufferAt(r) = in_list[r[2]]
                       \/ /\ r[1] = "user_list" /\ r[2] \in DOMAIN user_list
                          /\ BufferAt(r) = user_list[r[2]]
                       \/ /\ r[1] = "held" /\ r[2] \in DOMAIN h
                          /\ BufferAt(r) = h[r[2]]
                       \/ /\ r[1] = "calls" /\ r[2] \in Back(w)
                          /\ BufferAt(r) = w[r[2]][2]
<1>1. ASSUME NEW r \in Places PROVE At(r)
  BY DEF Places, BufferAt, Back
<1>2. At(p) /\ At(q)
  BY <1>1
<1> HIDE DEF h, w
<1>3. p[1] = q[1]
  BY <1>2 DEF Once, Apart, BackApart
<1>4. p[2] = q[2]
  BY <1>2, <1>3 DEF Once, Distinct, BackDistinct
<1>5. QED
  BY <1>2, <1>3, <1>4

LEMMA OnceDropped ==
  ASSUME NEW a, NEW b, NEW h, NEW w, Once(a, b, h, w),
         NEW a1 \in {a, <<>>}, NEW b1 \in {b, <<>>}, NEW h1 \in {h, <<>>},
         NEW w1 \in {w, <<>>}
  PROVE  Once(a1, b1, h1, w1)
<1>1. DOMAIN <<>> = {}
  OBVIOUS
<1>2. QED
  BY <1>1 DEF Once, Distinct, Apart, Back, BackDistinct, BackApart

\* empty_buffer_done queues the buffer.
LEMMA OnceReturned ==
  ASSUME NEW a \in Seq(Buffers), NEW b \in Seq(Buffers),
         NEW h \in Seq(Buffers), NEW w \in Seq(Calls), Once(a, b, h, w),
         w # <<>>
  PROVE  /\ Once(a, b, h, Tail(w))
         /\ Head(w)[1] = "EmptyBufferDone" =>
              Once(Append(a, Head(w)[2]), b, h, Tail(w))
<1> DEFINE v == Tail(w)
<1>1. /\ DOMAIN v = 1 .. Len(w) - 1 /\ DOMAIN w = 1 .. Len(w) /\ Len(w) \in Nat
      /\ 1 \in DOMAIN w /\ Head(w) = w[1]
      /\ \A i \in DOMAIN v : v[i] = w[i + 1]
  OBVIOUS
<1> HIDE DEF v
<1>2. \A i \in Back(v) : i + 1 \in Back(w) /\ i + 1 # 1 /\ i \in Nat
  BY <1>1 DEF Back
<1>3. BackDistinct(v)
  <2>1. ASSUME NEW i \in Back(v), NEW j \in Back(v), v[i][2] = v[j][2]
        PROVE  i = j
    <3>1. v[i] = w[i + 1] /\ v[j] = w[j + 1]
      BY <1>1 DEF Back
    <3>2. i + 1 = j + 1
      BY <1>2, <2>1, <3>1 DEF Once, BackDistinct
    <3>3. QED
      BY <1>2, <3>2
  <2>2. QED
    BY <2>1 DEF BackDistinct
<1>4. BackApart(a, v) /\ BackApart(b, v) /\ BackApart(h, v)
  BY <1>1, <1>2 DEF Once, BackApart, Back
<1>5. ASSUME w[1][1] = "EmptyBufferDone"
      PROVE  Once(Append(a, w[1][2]), b, h, v)
  <2> DEFINE c == Append(a, w[1][2])
  <2>1. /\ DOMAIN c = 1 .. Len(a) + 1 /\ DOMAIN a = 1 .. Len(a)
        /\ Len(a) \in Nat /\ c[Len(a) + 1] = w[1][2]
        /\ \A i \in DOMAIN a : c[i] = a[i]
    <3>1. w[1][2] \in Buffers
      <4>1. w[1] \in Calls
        BY <1>1
      <4>2. QED
        BY <4>1, <1>5 DEF Calls, Events
    <3>2. QED
      BY <3>1
  <2> HIDE DEF c
  <2>2. 1 \in Back(w)
    BY <1>1, <1>5 DEF Back
  <2>3. \A i \in DOMAIN c :
          i \in DOMAIN a \/ (i = Len(a) + 1 /\ c[i] = w[1][2])
    BY <2>1
  <2>4. Distinct(c)
    BY <2>1, <2>2, <2>3 DEF Once, Distinct, BackApart
  <2>5. Apart(c, b) /\ Apart(c, h)
    BY <2>1, <2>2, <2>3 DEF Once, Apart, BackApart
  <2>6. BackApart(c, v)
    <3>1. ASSUME NEW i \in DOMAIN c, NEW j \in Back(v) PROVE c[i] # v[j][2]
      <4>1. j + 1 \in Back(w) /\ v[j] = w[j + 1] /\ j + 1 # 1
        BY <1>1, <1>2 DEF Back
      <4>2. QED
        BY <2>1, <2>2, <2>3, <4>1 DEF Once, BackApart, BackDistinct
    <3>2. QED
      BY <3>1 DEF BackApart
  <2>7. QED
    BY <1>3, <1>4, <2>4, <2>5, <2>6 DEF Once, c
<1>6. QED
  BY <1>1, <1>3, <1>4, <1>5 DEF Once, v

\* audioplay_get_buffer lends the oldest returned buffer.
LEMMA OnceLent ==
  ASSUME NEW a \in Seq(Buffers), NEW b \in Seq(Buffers),
         NEW h \in Seq(Buffers), NEW w \in Seq(Calls), Once(a, b, h, w),
         a # <<>>
  PROVE  Once(Tail(a), <<Head(a)>> \o b, h, w)
<1> DEFINE c == Tail(a)
           d == <<Head(a)>> \o b
<1>1. /\ DOMAIN c = 1 .. Len(a) - 1 /\ DOMAIN a = 1 .. Len(a) /\ Len(a) \in Nat
      /\ 1 \in DOMAIN a
      /\ \A i \in DOMAIN c : c[i] = a[i + 1]
  OBVIOUS
<1>2. /\ DOMAIN d = 1 .. Len(b) + 1 /\ DOMAIN b = 1 .. Len(b)
      /\ Len(b) \in Nat /\ d[1] = a[1]
      /\ \A i \in DOMAIN b : d[i + 1] = b[i]
  OBVIOUS
<1> HIDE DEF c, d
<1>3. \A i \in DOMAIN c : i + 1 \in DOMAIN a /\ i + 1 # 1 /\ c[i] = a[i + 1]
  BY <1>1
<1>4. \A i \in DOMAIN d : \/ i = 1 /\ d[i] = a[1]
                          \/ i # 1 /\ i - 1 \in DOMAIN b /\ d[i] = b[i - 1]
  BY <1>2
<1>5. Distinct(c)
  <2>1. ASSUME NEW i \in DOMAIN c, NEW j \in DOMAIN c, c[i] = c[j]
        PROVE  i = j
    <3>1. i + 1 = j + 1
      BY <1>3, <2>1 DEF Once, Distinct
    <3>2. QED
      BY <1>1, <3>1
  <2>2. QED
    BY <2>1 DEF Distinct
<1>6. Distinct(d)
  <2>1. ASSUME NEW i \in DOMAIN d, NEW j \in DOMAIN d, d[i] = d[j]
        PROVE  i = j
    <3>1. CASE i = 1 \/ j = 1
      <4>1. \A k \in DOMAIN b : a[1] # b[k]
        BY <1>1 DEF Once, Apart
      <4>2. QED
        BY <1>4, <2>1, <3>1, <4>1
    <3>2. CASE i # 1 /\ j # 1
      <4>1. i - 1 = j - 1
        BY <1>4, <2>1, <3>2 DEF Once, Distinct
      <4>2. QED
        BY <1>2, <4>1
    <3>3. QED
      BY <3>1, <3>2
  <2>2. QED
    BY <2>1 DEF Distinct
<1>7. Apart(c, d)
  <2>1. ASSUME NEW i \in DOMAIN c, NEW j \in DOMAIN d PROVE c[i] # d[j]
    <3>1. a[i + 1] # a[1]
      BY <1>1, <1>3 DEF Once, Distinct
    <3>2. \A k \in DOMAIN b : a[i + 1] # b[k]
      BY <1>3 DEF Once, Apart
    <3>3. QED
      BY <1>3, <1>4, <3>1, <3>2
  <2>2. QED
    BY <2>1 DEF Apart
<1>8. Apart(c, h) /\ Apart(d, h)
  BY <1>1, <1>3, <1>4 DEF Once, Apart
<1>9. BackApart(c, w) /\ BackApart(d, w)
  BY <1>1, <1>3, <1>4 DEF Once, BackApart
<1>10. QED
  BY <1>5, <1>6, <1>7, <1>8, <1>9 DEF Once, c, d

\* audioplay_play_buffer hands the buffer lent last to the renderer.
LEMMA OncePlayed ==
  ASSUME NEW a \in Seq(Buffers), NEW b \in Seq(Buffers),
         NEW h \in Seq(Buffers), NEW w \in Seq(Calls), Once(a, b, h, w),
         b # <<>>
  PROVE  Once(a, Tail(b), Append(h, Head(b)), w)
<1> DEFINE c == Tail(b)
           d == Append(h, Head(b))
<1>1. /\ DOMAIN c = 1 .. Len(b) - 1 /\ DOMAIN b = 1 .. Len(b) /\ Len(b) \in Nat
      /\ 1 \in DOMAIN b
      /\ \A i \in DOMAIN c : c[i] = b[i + 1]
  OBVIOUS
<1>2. /\ DOMAIN d = 1 .. Len(h) + 1 /\ DOMAIN h = 1 .. Len(h)
      /\ Len(h) \in Nat /\ d[Len(h) + 1] = b[1]
      /\ \A i \in DOMAIN h : d[i] = h[i]
  OBVIOUS
<1> HIDE DEF c, d
<1>3. \A i \in DOMAIN c : i + 1 \in DOMAIN b /\ i + 1 # 1 /\ c[i] = b[i + 1]
  BY <1>1
<1>4. \A i \in DOMAIN d : \/ i = Len(h) + 1 /\ d[i] = b[1]
                          \/ i \in DOMAIN h /\ d[i] = h[i]
  BY <1>2
<1>5. Distinct(c)
  <2>1. ASSUME NEW i \in DOMAIN c, NEW j \in DOMAIN c, c[i] = c[j]
        PROVE  i = j
    <3>1. i + 1 = j + 1
      BY <1>3, <2>1 DEF Once, Distinct
    <3>2. QED
      BY <1>1, <3>1
  <2>2. QED
    BY <2>1 DEF Distinct
<1>6. Distinct(d)
  BY <1>1, <1>2, <1>4 DEF Once, Distinct, Apart
<1>7. Apart(a, c) /\ Apart(a, d)
  BY <1>1, <1>3, <1>4 DEF Once, Apart
<1>8. Apart(c, d)
  <2>1. ASSUME NEW i \in DOMAIN c, NEW j \in DOMAIN d PROVE c[i] # d[j]
    <3>1. b[i + 1] # b[1]
      BY <1>1, <1>3 DEF Once, Distinct
    <3>2. \A k \in DOMAIN h : b[i + 1] # h[k]
      BY <1>3 DEF Once, Apart
    <3>3. QED
      BY <1>3, <1>4, <3>1, <3>2
  <2>2. QED
    BY <2>1 DEF Apart
<1>9. BackApart(c, w) /\ BackApart(d, w)
  BY <1>1, <1>3, <1>4 DEF Once, BackApart
<1>10. QED
  BY <1>5, <1>6, <1>7, <1>8, <1>9 DEF Once, c, d

\* A component announces an event.
LEMMA BackReported ==
  ASSUME NEW w \in Seq(Calls), NEW e, e[1] # "EmptyBufferDone"
  PROVE  /\ Back(w \o <<e>>) = Back(w)
         /\ \A i \in Back(w) : (w \o <<e>>)[i] = w[i]
<1> DEFINE v == w \o <<e>>
<1>1. /\ DOMAIN v = 1 .. Len(w) + 1 /\ DOMAIN w = 1 .. Len(w)
      /\ Len(w) \in Nat /\ v[Len(w) + 1] = e
      /\ \A i \in DOMAIN w : v[i] = w[i]
  <2>1. w \in Seq(Calls \cup {e}) /\ <<e>> \in Seq(Calls \cup {e})
    OBVIOUS
  <2>2. QED
    BY <2>1
<1> HIDE DEF v
<1>2. Back(v) = Back(w)
  BY <1>1 DEF Back
<1>3. \A i \in Back(w) : v[i] = w[i]
  BY <1>1 DEF Back
<1>4. QED
  BY <1>2, <1>3 DEF v

LEMMA OnceReported ==
  ASSUME NEW a, NEW b, NEW h, NEW w \in Seq(Calls), NEW e,
         e[1] # "EmptyBufferDone", Once(a, b, h, w)
  PROVE  Once(a, b, h, w \o <<e>>)
<1> DEFINE v == w \o <<e>>
<1>1. Back(v) = Back(w) /\ \A i \in Back(w) : v[i] = w[i]
  BY BackReported
<1> HIDE DEF v
<1>2. BackDistinct(v)
  BY <1>1 DEF Once, BackDistinct
<1>3. BackApart(a, v) /\ BackApart(b, v) /\ BackApart(h, v)
  BY <1>1 DEF Once, BackApart
<1>4. QED
  BY <1>2, <1>3 DEF Once, v

\* The renderer gives back its oldest buffer.
LEMMA OnceRendered ==
  ASSUME NEW a \in Seq(Buffers), NEW b \in Seq(Buffers),
         NEW h \in Seq(Buffers), NEW w \in Seq(Calls), Once(a, b, h, w),
         h # <<>>
  PROVE  Once(a, b, Tail(h), Append(w, <<"EmptyBufferDone", Head(h)>>))
<1> DEFINE c == Tail(h)
           e == <<"EmptyBufferDone", Head(h)>>
           v == Append(w, e)
<1>1. /\ DOMAIN c = 1 .. Len(h) - 1 /\ DOMAIN h = 1 .. Len(h) /\ Len(h) \in Nat
      /\ 1 \in DOMAIN h
      /\ \A i \in DOMAIN c : c[i] = h[i + 1]
  OBVIOUS
<1>2. e \in Calls /\ e[1] = "EmptyBufferDone" /\ e[2] = h[1]
  BY DEF Calls
<1> HIDE DEF c, e
<1>3. /\ DOMAIN v = 1 .. Len(w) + 1 /\ DOMAIN w = 1 .. Len(w)
      /\ Len(w) \in Nat /\ v[Len(w) + 1] = e
      /\ \A i \in DOMAIN w : v[i] = w[i]
  BY <1>2
<1> HIDE DEF v
<1>4. \A i \in DOMAIN c : i + 1 \in DOMAIN h /\ i + 1 # 1 /\ c[i] = h[i + 1]
  BY <1>1
<1>5. \A i \in Back(v) : \/ i = Len(w) + 1 /\ v[i][2] = h[1]
                         \/ i \in Back(w) /\ v[i] = w[i]
  BY <1>2, <1>3 DEF Back
<1>6. Distinct(c)
  <2>1. ASSUME NEW i \in DOMAIN c, NEW j \in DOMAIN c, c[i] = c[j]
        PROVE  i = j
    <3>1. i + 1 = j + 1
      BY <1>4, <2>1 DEF Once, Distinct
    <3>2. QED
      BY <1>1, <3>1
  <2>2. QED
    BY <2>1 DEF Distinct
<1>7. Apart(a, c) /\ Apart(b, c)
  BY <1>4 DEF Once, Apart
<1>8. BackDistinct(v)
  <2>1. \A k \in Back(w) : h[1] # w[k][2]
    BY <1>1 DEF Once, BackApart
  <2>2. QED
    BY <1>5, <2>1 DEF Once, BackDistinct
<1>9. BackApart(a, v) /\ BackApart(b, v)
  <2>1. /\ \A i \in DOMAIN a : a[i] # h[1]
        /\ \A i \in DOMAIN b : b[i] # h[1]
    BY <1>1 DEF Once, Apart
  <2>2. ASSUME NEW i \in DOMAIN a, NEW j \in Back(v) PROVE a[i] # v[j][2]
    BY <1>5, <2>1 DEF Once, BackApart
  <2>3. ASSUME NEW i \in DOMAIN b, NEW j \in Back(v) PROVE b[i] # v[j][2]
    BY <1>5, <2>1 DEF Once, BackApart
  <2>4. QED
    BY <2>2, <2>3 DEF BackApart
<1>10. BackApart(c, v)
  <2>1. ASSUME NEW i \in DOMAIN c, NEW j \in Back(v) PROVE c[i] # v[j][2]
    <3>1. h[i + 1] # h[1]
      BY <1>1, <1>4 DEF Once, Distinct
    <3>2. \A k \in Back(w) : h[i + 1] # w[k][2]
      BY <1>4 DEF Once, BackApart
    <3>3. QED
      BY <1>4, <1>5, <3>1, <3>2
  <2>2. QED
    BY <2>1 DEF BackApart
<1>11. QED
  BY <1>6, <1>7, <1>8, <1>9, <1>10 DEF Once, c, e, v

\* The renderer stops and gives back all its buffers.
Returns(h) == [i \in 1 .. Len(h) |-> <<"EmptyBufferDone", h[i]>>]

LEMMA OnceStopped ==
  ASSUME NEW a \in Seq(Buffers), NEW b \in Seq(Buffers),
         NEW h \in Seq(Buffers), NEW w \in Seq(Calls), Once(a, b, h, w)
  PROVE  /\ w \o Returns(h) \in Seq(Calls)
         /\ Once(a, b, <<>>, w \o Returns(h))
         /\ h = <<>> => Returns(h) = <<>>
<1> DEFINE r == Returns(h)
           v == w \o r
<1>1. /\ r \in Seq(Calls) /\ Len(r) = Len(h)
      /\ \A i \in 1 .. Len(h) : r[i] = <<"EmptyBufferDone", h[i]>>
  <2>1. \A i \in 1 .. Len(h) : <<"EmptyBufferDone", h[i]>> \in Calls
    BY DEF Calls
  <2>2. QED
    BY <2>1 DEF Returns
<1> HIDE DEF r
<1>2. /\ v \in Seq(Calls) /\ Len(w) \in Nat /\ Len(h) \in Nat
      /\ DOMAIN v = 1 .. Len(w) + Len(h) /\ DOMAIN w = 1 .. Len(w)
      /\ DOMAIN h = 1 .. Len(h)
      /\ \A i \in DOMAIN w : v[i] = w[i]
      /\ \A i \in DOMAIN v : i > Len(w) => v[i] = r[i - Len(w)]
  <2>1. /\ v \in Seq(Calls) /\ Len(w) \in Nat /\ Len(h) \in Nat
        /\ Len(v) = Len(w) + Len(h)
    <3>1. v \in Seq(Calls) /\ Len(v) = Len(w) + Len(r)
      BY <1>1, ConcatProperties, Zenon
    <3>2. Len(w) \in Nat /\ Len(h) \in Nat /\ Len(r) = Len(h)
      BY <1>1
    <3>3. QED
      BY <3>1, <3>2
  <2>2. /\ DOMAIN v = 1 .. Len(v) /\ DOMAIN w = 1 .. Len(w)
        /\ DOMAIN h = 1 .. Len(h)
    BY <2>1
  <2>3. \A i \in 1 .. Len(w) + Len(r) :
          v[i] = IF i <= Len(w) THEN w[i] ELSE r[i - Len(w)]
    BY <1>1, ConcatProperties, Zenon
  <2> HIDE DEF v
  <2>4. QED
    BY <1>1, <2>1, <2>2, <2>3
<1> HIDE DEF v
<1>3. \A i \in Back(v) :
        \/ i \in Back(w) /\ v[i] = w[i]
        \/ i - Len(w) \in DOMAIN h /\ v[i][2] = h[i - Len(w)] /\ i \in Int
  <2>1. ASSUME NEW i \in Back(v), i > Len(w)
        PROVE  i - Len(w) \in DOMAIN h /\ v[i][2] = h[i - Len(w)] /\ i \in Int
    <3>1. i \in DOMAIN v
      BY DEF Back
    <3>2. v[i] = r[i - Len(w)] /\ i - Len(w) \in 1 .. Len(h)
      BY <1>2, <2>1, <3>1
    <3>3. r[i - Len(w)] = <<"EmptyBufferDone", h[i - Len(w)]>>
      BY <1>1, <3>2
    <3>4. v[i] = <<"EmptyBufferDone", h[i - Len(w)]>>
      BY <3>2, <3>3
    <3>5. QED
      BY <1>2, <3>1, <3>2, <3>4
  <2>2. ASSUME NEW i \in Back(v), ~(i > Len(w))
        PROVE  i \in Back(w) /\ v[i] = w[i]
    BY <1>2, <2>2 DEF Back
  <2>3. QED
    BY <2>1, <2>2
<1>4. BackDistinct(v)
  <2>1. ASSUME NEW i \in Back(v), NEW j \in Back(v), v[i][2] = v[j][2]
        PROVE  i = j
    <3>1. CASE i \in Back(w) /\ v[i] = w[i] /\ j \in Back(w) /\ v[j] = w[j]
      BY <2>1, <3>1 DEF Once, BackDistinct
    <3>2. CASE /\ i - Len(w) \in DOMAIN h /\ v[i][2] = h[i - Len(w)]
               /\ j - Len(w) \in DOMAIN h /\ v[j][2] = h[j - Len(w)]
               /\ i \in Int /\ j \in Int
      <4>1. i - Len(w) = j - Len(w)
        BY <2>1, <3>2 DEF Once, Distinct
      <4>2. QED
        BY <1>2, <3>2, <4>1
    <3>3. \A k \in DOMAIN h, l \in Back(w) : h[k] # w[l][2]
      BY DEF Once, BackApart
    <3>4. QED
      BY <1>3, <2>1, <3>1, <3>2, <3>3
  <2>2. QED
    BY <2>1 DEF BackDistinct
<1>5. BackApart(a, v) /\ BackApart(b, v)
  BY <1>3 DEF Once, Apart, BackApart
<1>6. Distinct(<<>>) /\ Apart(a, <<>>) /\ Apart(b, <<>>) /\ BackApart(<<>>, v)
  <2>1. DOMAIN <<>> = {}
    OBVIOUS
  <2>2. QED
    BY <2>1 DEF Distinct, Apart, BackApart
<1>7. h = <<>> => r = <<>>
  BY <1>1
<1>8. QED
  BY <1>2, <1>4, <1>5, <1>6, <1>7 DEF Once, v, r
-----------------------------------------------------------------------------
(* What the components do to the buffers.                                  *)

PlacesOnce == Once(in_list, user_list, omx["render"].held, calls["render"])

\* The component has no buffer and returns none.
NoBuffers(c) == omx[c].held = <<>> /\ Back(calls[c]) = {}

\* Buffers are returned by the renderer only.
OmxEffect ==
  /\ IlTypeOK' /\ PlacesOnce' /\ NoBuffers("source")'
  /\ omx'["render"].held \in {omx["render"].held, <<>>}
  /\ NoBuffers("render") => NoBuffers("render")' /\ in_list' = in_list

LEMMA BackTail ==
  ASSUME NEW w \in Seq(Calls), w # <<>>, Back(w) = {}
  PROVE  Back(Tail(w)) = {} /\ Head(w)[1] # "EmptyBufferDone"
<1>1. /\ 1 \in DOMAIN w /\ Head(w) = w[1]
      /\ \A i \in DOMAIN Tail(w) : i + 1 \in DOMAIN w /\ Tail(w)[i] = w[i + 1]
  OBVIOUS
<1>2. QED
  BY <1>1 DEF Back

LEMMA CallbackEffect ==
  ASSUME IlTypeOK, user_list \in Seq(Buffers), PlacesOnce,
         NoBuffers("source"), NEW c \in Components, Callback(c),
         user_list' = user_list
  PROVE  OmxEffect
<1> DEFINE w == calls[c]
<1>1. /\ w \in Seq(Calls) /\ w # <<>> /\ Tail(w) \in Seq(Calls)
      /\ Head(w) \in Calls
  BY DEF Callback, IlTypeOK
<1>2. omx' = omx /\ calls' = [calls EXCEPT ![c] = Tail(w)]
  BY DEF Callback
<1>3. /\ calls' \in [Components -> Seq(Calls)]
      /\ \A d \in Components : calls'[d] = IF d = c THEN Tail(w) ELSE calls[d]
  BY <1>1, <1>2 DEF IlTypeOK
<1>4. {"source", "render"} \subseteq Components
  BY DEF Components
<1>5. omx["render"].held \in Seq(Buffers) /\ calls["render"] \in Seq(Calls)
  BY <1>4 DEF IlTypeOK, OmxRec
<1>6. CASE Head(w)[1] = "EmptyBufferDone"
  <2>1. c = "render"
    BY <1>1, <1>6, BackTail DEF NoBuffers, Components
  <2>2. in_list' = Append(in_list, Head(w)[2])
    BY <1>6 DEF Callback, EmptyBufferDone
  <2>3. Head(w)[2] \in Buffers
    BY <1>1, <1>6 DEF Calls, Events
  <2>4. IlTypeOK'
    BY <1>2, <1>3, <2>2, <2>3 DEF IlTypeOK
  <2>5. Once(in_list', user_list, omx["render"].held, Tail(w))
    BY <1>1, <1>5, <1>6, <2>1, <2>2, OnceReturned DEF PlacesOnce, IlTypeOK
  <2>6. PlacesOnce'
    BY <1>2, <1>3, <1>4, <2>1, <2>5 DEF PlacesOnce
  <2>7. NoBuffers("source")'
    BY <1>2, <1>3, <1>4, <2>1 DEF NoBuffers
  <2>8. ~NoBuffers("render")
    BY <1>1, <1>6, <2>1, BackTail DEF NoBuffers
  <2>9. QED
    BY <1>2, <2>4, <2>6, <2>7, <2>8 DEF OmxEffect
<1>7. CASE Head(w)[1] # "EmptyBufferDone"
  <2>1. in_list' = in_list
    BY <1>7 DEF Callback, EventHandler
  <2>2. IlTypeOK'
    BY <1>2, <1>3, <2>1 DEF IlTypeOK
  <2>3. PlacesOnce'
    <3>1. CASE c = "render"
      <4>1. Once(in_list, user_list, omx["render"].held, Tail(w))
        BY <1>1, <1>5, <3>1, OnceReturned DEF PlacesOnce, IlTypeOK
      <4>2. QED
        BY <1>2, <1>3, <1>4, <2>1, <3>1, <4>1 DEF PlacesOnce
    <3>2. CASE c # "render"
      BY <1>2, <1>3, <1>4, <2>1, <3>2 DEF PlacesOnce
    <3>3. QED
      BY <3>1, <3>2
  <2>4. \A d \in Components : NoBuffers(d) => NoBuffers(d)'
    BY <1>1, <1>2, <1>3, BackTail DEF NoBuffers
  <2>5. QED
    BY <1>2, <1>4, <2>1, <2>2, <2>3, <2>4 DEF OmxEffect
<1>8. QED
  BY <1>6, <1>7

LEMMA JoinEmpty ==
  ASSUME NEW w \in Seq(Calls) PROVE w \o <<>> = w /\ <<>> \o w = w
  BY ConcatEmptySeq, Zenon

\* A component that reports something else keeps its buffers.
LEMMA ReportKeeps ==
  ASSUME NEW w \in Seq(Calls), NEW e \in Events
  PROVE  /\ w \o <<e>> \in Seq(Calls) /\ Append(w, e) = w \o <<e>>
         /\ Back(w \o <<e>>) = Back(w)
         /\ \A a, b, h : Once(a, b, h, w) => Once(a, b, h, w \o <<e>>)
<1>1. e \in Calls /\ e[1] # "EmptyBufferDone"
  BY DEF Calls, Events
<1>2. w \o <<e>> \in Seq(Calls) /\ Append(w, e) = w \o <<e>>
  BY <1>1
<1>3. QED
  BY <1>1, <1>2, BackReported, OnceReported

LEMMA CompleteEffect ==
  ASSUME IlTypeOK, user_list \in Seq(Buffers), PlacesOnce,
         NoBuffers("source"), NEW c \in Components, OmxComplete(c),
         user_list' = user_list
  PROVE  OmxEffect
<1> DEFINE o == omx[c]
           cmd == Head(o.cmds)[1]
           arg == Head(o.cmds)[2]
           same == Head(o.cmds)[3] \/ arg = o.state
           stop == cmd = "StateSet" /\ arg = "Idle"
           gone == o.tunnel /\ ~same /\ cmd \in {"PortDisable", "StateSet"}
                     /\ c = "source" /\ arg \in {"port", "Loaded"}
                     /\ omx["render"].enabled /\ omx["render"].state # "Loaded"
           sameState == EventError("SameState", "cmd")
           complete == CmdComplete(cmd, arg)
           unpopulated == EventError("PortUnpopulated", "async")
           back == IF stop THEN Returns(o.held) ELSE <<>>
           own == IF same THEN <<sameState>> ELSE back \o <<complete>>
           new == [o EXCEPT !.cmds = Tail(@),
                            !.state = IF cmd = "StateSet" THEN arg ELSE @,
                            !.held = IF stop THEN <<>> ELSE @]
<1>1. /\ o \in OmxRec /\ o.cmds \in Seq(SentCommands) /\ o.cmds # <<>>
      /\ o.held \in Seq(Buffers)
  BY DEF OmxComplete, IlTypeOK, OmxRec
<1>2. {"source", "render"} \subseteq Components
  BY DEF Components
<1>3. /\ sameState \in Events /\ complete \in Events /\ unpopulated \in Events
      /\ cmd = "StateSet" => arg \in States
  <2>1. Head(o.cmds) \in SentCommands
    BY <1>1
  <2>2. QED
    BY <2>1 DEF SentCommands, Events, EventError, CmdComplete
<1>4. /\ omx' = [omx EXCEPT ![c] = new]
      /\ in_list' = in_list
      /\ \A d \in Components :
           calls'[d] = calls[d] \o (IF d # c THEN <<>> ELSE own)
                         \o (IF gone /\ d = "render" THEN <<unpopulated>>
                             ELSE <<>>)
      /\ calls' = [d \in Components |-> calls'[d]]
  <2>1. omx' = [omx EXCEPT ![c] = new] /\ in_list' = in_list
    BY DEF OmxComplete
  <2>2. calls' = [d \in Components |->
          calls[d] \o (IF d # c THEN <<>> ELSE own)
            \o (IF gone /\ d = "render" THEN <<unpopulated>> ELSE <<>>)]
    BY DEF OmxComplete, Returns
  <2> HIDE DEF own, gone, new, unpopulated
  <2>3. QED
    BY <2>1, <2>2
<1>5. new \in OmxRec /\ new.held = IF stop THEN <<>> ELSE o.held
  <2>1. /\ Tail(o.cmds) \in Seq(SentCommands) /\ <<>> \in Seq(Buffers)
        /\ (IF cmd = "StateSet" THEN arg ELSE o.state) \in States
    BY <1>1, <1>3 DEF OmxRec
  <2> HIDE DEF o
  <2>2. QED
    BY <1>1, <2>1 DEF OmxRec
<1> HIDE DEF new
<1>6. /\ omx' \in [Components -> OmxRec]
      /\ \A d \in Components : omx'[d] = IF d = c THEN new ELSE omx[d]
  BY <1>4, <1>5 DEF IlTypeOK
<1>7. \A d \in Components : calls[d] \in Seq(Calls)
  BY DEF IlTypeOK
<1>8. \A d \in Components : d # c /\ ~(gone /\ d = "render")
                              => calls'[d] = calls[d]
  BY <1>4, <1>7, JoinEmpty
<1> HIDE DEF sameState, complete, unpopulated
<1>9. CASE c = "render"
  <2>1. calls'["source"] = calls["source"] /\ omx'["source"] = omx["source"]
    BY <1>2, <1>6, <1>8, <1>9
  <2> DEFINE w == calls["render"]
             v == calls'["render"]
  <2>2. w \in Seq(Calls)
    BY <1>2, <1>7
  <2>3. own \in Seq(Calls) /\ back \in Seq(Calls)
    <3>1. Returns(o.held) \in Seq(Calls)
      <4>1. \A i \in 1 .. Len(o.held) :
              <<"EmptyBufferDone", o.held[i]>> \in Calls
        BY <1>1 DEF Calls
      <4>2. QED
        BY <1>1, <4>1 DEF Returns
    <3>2. back \in Seq(Calls)
      <4>1. <<>> \in Seq(Calls)
        OBVIOUS
      <4>2. QED
        BY <3>1, <4>1
    <3> HIDE DEF back
    <3>3. <<sameState>> \in Seq(Calls) /\ <<complete>> \in Seq(Calls)
      BY <1>3 DEF Calls
    <3>4. QED
      BY <3>2, <3>3
  <2>4. v = w \o own
    <3> HIDE DEF own
    <3>1. v = w \o own \o <<>>
      BY <1>2, <1>4, <1>9
    <3>2. w \o own \in Seq(Calls)
      BY <2>2, <2>3
    <3>3. QED
      BY <3>1, <3>2, JoinEmpty
  <2> DEFINE Good(x) ==
        /\ x \in Seq(Calls)
        /\ Once(in_list, user_list, new.held, x)
        /\ NoBuffers("render") => new.held = <<>> /\ Back(x) = {}
  <2>5. Once(in_list, user_list, o.held, w)
    BY <1>9 DEF PlacesOnce
  <2>6. Once(in_list, user_list, new.held, w) /\ new.held \in {o.held, <<>>}
    BY <1>5, <2>5, OnceDropped
  <2>7. Good(w)
    BY <1>9, <2>2, <2>6 DEF NoBuffers
  <2>8. ASSUME NEW x, Good(x), NEW e \in Events PROVE Good(x \o <<e>>)
    BY <2>8, ReportKeeps
  <2>9. Good(w \o back)
    <3>1. CASE stop
      <4>1. /\ w \o Returns(o.held) \in Seq(Calls)
            /\ Once(in_list, user_list, <<>>, w \o Returns(o.held))
            /\ o.held = <<>> => Returns(o.held) = <<>>
        BY <1>1, <2>2, <2>5, OnceStopped DEF IlTypeOK
      <4>2. new.held = <<>> /\ back = Returns(o.held)
        BY <1>5, <3>1
      <4> HIDE DEF back
      <4>3. NoBuffers("render") => w \o back = w
        BY <1>9, <2>2, <4>1, <4>2, JoinEmpty DEF NoBuffers
      <4>4. QED
        BY <2>7, <4>1, <4>2, <4>3
    <3>2. CASE ~stop
      BY <2>2, <2>7, <3>2, JoinEmpty
    <3>3. QED
      BY <3>1, <3>2
  <2>10. w \o (back \o <<complete>>) = (w \o back) \o <<complete>>
    <3> HIDE DEF back, w
    <3>1. <<complete>> \in Seq(Calls)
      BY <1>3 DEF Calls
    <3>2. QED
      BY <2>2, <2>3, <3>1, ConcatAssociative
  <2>11. Good(v)
    BY <1>3, <2>4, <2>7, <2>8, <2>9, <2>10
  <2>12. calls' \in [Components -> Seq(Calls)]
    BY <1>4, <1>7, <1>9, <2>1, <2>11 DEF Components
  <2>13. QED
    BY <1>2, <1>4, <1>6, <1>9, <2>1, <2>6, <2>11, <2>12
       DEF OmxEffect, IlTypeOK, PlacesOnce, NoBuffers
<1>10. CASE c = "source"
  <2>1. back = <<>>
    BY <1>10 DEF NoBuffers, Returns
  <2>2. own \in {<<sameState>>, <<complete>>}
    <3>1. <<complete>> \in Seq(Calls)
      BY <1>3 DEF Calls
    <3>2. QED
      BY <2>1, <3>1, JoinEmpty
  <2> HIDE DEF own, back
  <2>3. PICK e \in Events : calls'["source"] = calls["source"] \o <<e>>
    <3>1. calls'["source"] = calls["source"] \o own \o <<>>
      BY <1>2, <1>4, <1>10
    <3>2. PICK e \in Events : own = <<e>>
      BY <1>3, <2>2
    <3>3. calls["source"] \o <<e>> \in Seq(Calls)
      BY <1>2, <1>7, <3>2, ReportKeeps
    <3>4. QED
      BY <3>1, <3>2, <3>3, JoinEmpty
  <2>4. \/ calls'["render"] = calls["render"]
        \/ \E f \in Events : calls'["render"] = calls["render"] \o <<f>>
    <3>1. CASE gone
      <4>1. calls'["render"] = calls["render"] \o <<>> \o <<unpopulated>>
        BY <1>2, <1>4, <1>10, <3>1
      <4>2. QED
        BY <1>2, <1>3, <1>7, <4>1, JoinEmpty
    <3>2. CASE ~gone
      BY <1>2, <1>8, <1>10, <3>2
    <3>3. QED
      BY <3>1, <3>2
  <2>5. /\ calls'["source"] \in Seq(Calls) /\ calls'["render"] \in Seq(Calls)
        /\ Back(calls'["source"]) = Back(calls["source"])
        /\ Back(calls'["render"]) = Back(calls["render"])
        /\ Once(in_list, user_list, omx["render"].held, calls'["render"])
    BY <1>2, <1>7, <2>3, <2>4, ReportKeeps DEF PlacesOnce
  <2>6. calls' \in [Components -> Seq(Calls)]
    BY <1>4, <2>5 DEF Components
  <2>7. omx'["source"].held = <<>> /\ omx'["render"] = omx["render"]
    BY <1>2, <1>5, <1>6, <1>10 DEF NoBuffers
  <2>8. QED
    BY <1>4, <1>6, <2>5, <2>6, <2>7
       DEF OmxEffect, IlTypeOK, PlacesOnce, NoBuffers
<1>11. QED
  BY <1>9, <1>10 DEF Components

LEMMA FaultEffect ==
  ASSUME IlTypeOK, user_list \in Seq(Buffers), PlacesOnce,
         NoBuffers("source"), NEW c \in Components, OmxFault(c),
         user_list' = user_list
  PROVE  OmxEffect
<1>1. in_list' = in_list
  BY DEF OmxFault, OmxFail, OmxReport
<1>2. {"source", "render"} \subseteq Components
  BY DEF Components
<1>3. PICK e \in Events : calls' = [calls EXCEPT ![c] = Append(@, e)]
  <2>1. /\ EventError("InsufficientResources", "cmd") \in Events
        /\ EventError("StreamCorrupt", "async") \in Events
        /\ <<"PortSettingsChanged", "port", "any">> \in Events
    BY DEF Events, EventError
  <2>2. QED
    BY <2>1 DEF OmxFault, OmxFail, OmxReport
<1>4. /\ omx' \in [Components -> OmxRec]
      /\ \A d \in Components : omx'[d].held = omx[d].held
  <2>1. CASE omx' = omx
    BY <2>1 DEF IlTypeOK
  <2>2. CASE OmxFail(c)
    <3> DEFINE o == omx[c]
               enable == Head(o.cmds)[1] = "PortEnable"
               on == o.enabled /\ ~enable
               bufs == IF enable THEN {} ELSE o.bufs
               new == [o EXCEPT !.cmds = Tail(@), !.enabled = @ /\ ~enable,
                                !.bufs = IF enable THEN {} ELSE @]
    <3>1. omx' = [omx EXCEPT ![c] = new]
      BY <2>2 DEF OmxFail
    <3>2. /\ o \in OmxRec /\ Tail(o.cmds) \in Seq(SentCommands)
          /\ on \in BOOLEAN /\ bufs \in SUBSET Buffers
      BY <2>2 DEF OmxFail, IlTypeOK, OmxRec
    <3>3. new = [o EXCEPT !.cmds = Tail(o.cmds), !.enabled = on,
                          !.bufs = bufs]
      OBVIOUS
    <3> HIDE DEF on, bufs, new
    <3>4. new \in OmxRec /\ new.held = o.held
      BY <3>2, <3>3 DEF OmxRec
    <3>5. QED
      BY <3>1, <3>4 DEF IlTypeOK
  <2>3. QED
    BY <2>1, <2>2 DEF OmxFault, OmxReport
<1>5. \A d \in Components :
        calls'[d] = IF d = c THEN Append(calls[d], e) ELSE calls[d]
  BY <1>3 DEF IlTypeOK
<1>6. \A d \in Components : calls[d] \in Seq(Calls)
  BY DEF IlTypeOK
<1>7. \A d \in Components :
        calls'[d] \in Seq(Calls) /\ Back(calls'[d]) = Back(calls[d])
  BY <1>5, <1>6, ReportKeeps
<1>8. calls' \in [Components -> Seq(Calls)]
  BY <1>3, <1>7 DEF IlTypeOK
<1>9. PlacesOnce'
  <2>1. Once(in_list, user_list, omx["render"].held, calls'["render"])
    BY <1>2, <1>5, <1>6, ReportKeeps DEF PlacesOnce
  <2>2. QED
    BY <1>1, <1>2, <1>4, <2>1 DEF PlacesOnce
<1>10. QED
  BY <1>1, <1>2, <1>4, <1>7, <1>8, <1>9 DEF OmxEffect, IlTypeOK, NoBuffers

LEMMA StepEffect ==
  ASSUME IlTypeOK, user_list \in Seq(Buffers), PlacesOnce,
         NoBuffers("source"), NEW c \in Components,
         OmxStep(c) \/ OmxFault(c), user_list' = user_list
  PROVE  OmxEffect
<1>1. CASE BufferFlag(c)
  <2>1. UNCHANGED <<in_list, omx, calls>>
    BY <1>1 DEF BufferFlag
  <2>2. QED
    BY <2>1 DEF OmxEffect, IlTypeOK, PlacesOnce, NoBuffers
<1>2. QED
  BY <1>1, CallbackEffect, CompleteEffect, FaultEffect DEF OmxStep
-----------------------------------------------------------------------------
(* Where the client thread is.                                             *)

\* audioplay_delete, up to OMX_FreeHandle, and after it.
ClosingCode ==
  \E p, r : /\ PlainCode(p) /\ AfterClose(r)
            /\ code = p \o (FreeRender \o (Closed \o r))
ClosedCode == \E r : AfterClose(r) /\ code = Closed \o r

\* audioplay_create: to be called, before and after the allocation.
OpenCode == \E conf, size : code = <<<<"Open", conf, size>>>> \o Play(size)
BeforeBuffers ==
  \E p, q, s, size :
    /\ PlainCode(p) /\ PlainCode(q)
    /\ s \in {IfNotEnabled, IfNotLoaded, Allocate}
    /\ code = p \o (<<s>> \o (q \o AfterCreate(size)))
BuffersThere == \E q, size : PlainCode(q) /\ code = q \o AfterCreate(size)
HandleCode ==
  \E size, s : s \in {"Opened", "Return"} /\ code = <<<<s>>>> \o Play(size)

PlayCode == \E size : code = Play(size)
PutCode == \E size : code = <<<<"PlayBuffer", size>>>>

\* No chunk in the renderer is newer than the newest, and none was heard.
Queued ==
  /\ played <= sent
  /\ \A i \in DOMAIN omx["render"].held : what[omx["render"].held[i]] <= sent

\* The newest chunk is lent to the sink and not played yet.
NewestLent ==
  /\ user_list # <<>> /\ what[Head(user_list)] = sent
  /\ played < sent
  /\ \A i \in DOMAIN omx["render"].held : what[omx["render"].held[i]] < sent

\* While the sink has no handle the device has no buffers, and none is lent
\* when they are allocated.
HdmiControl ==
  \/ code = Crashed
  \/ /\ handle
     /\ \/ code = <<>> \/ PlayCode
        \/ PutCode /\ NewestLent
        \/ ClosingCode
        \/ ClosedCode /\ NoBuffers("render")
  \/ /\ ~handle /\ NoBuffers("render")
     /\ \/ code = <<>> \/ OpenCode \/ BuffersThere \/ HandleCode
        \/ BeforeBuffers /\ in_list = <<>> /\ user_list = <<>>

\* The client of the tunnel allocates nothing.
TunnelControl ==
  PlainCode(code) /\ NoBuffers("render") /\ in_list = <<>> /\ user_list = <<>>

BuffersInv ==
  /\ IlTypeOK /\ SinkTypeOK
  /\ PlacesOnce /\ NoBuffers("source") /\ Queued
  /\ IF user = "hdmi" THEN HdmiControl ELSE TunnelControl

LEMMA EmptyFirst ==
  ASSUME NEW k, IsSeq(k) PROVE <<>> \o k = k /\ k \o <<>> = k
<1>1. PICK S : k \in Seq(S)
  BY DEF IsSeq
<1>2. QED
  BY <1>1, ConcatEmptySeq

LEMMA OneFirst ==
  ASSUME NEW s, NEW k, IsSeq(k)
  PROVE  <<s>> \o k # <<>> /\ Head(<<s>> \o k) = s /\ Tail(<<s>> \o k) = k
<1> DEFINE p == <<s>>
<1>1. p # <<>> /\ Head(p) = s /\ Tail(p) = <<>>
  OBVIOUS
<1>2. IsSeq(p)
  BY OneIsSeq
<1> HIDE DEF p
<1>3. /\ p \o k # <<>> /\ Head(p \o k) = Head(p)
      /\ Tail(p \o k) = Tail(p) \o k
  BY <1>1, <1>2, FirstStep, Zenon
<1>4. Tail(p) \o k = k
  BY <1>1, EmptyFirst, Zenon
<1>5. QED
  BY <1>1, <1>3, <1>4, Zenon DEF p

\* The parts of the sink's code are sequences.
LEMMA PartsAreSeqs ==
  /\ \A size : IsSeq(Play(size)) /\ IsSeq(AfterCreate(size))
  /\ \A r : AfterClose(r) => /\ IsSeq(r) /\ IsSeq(Closed \o r)
                             /\ IsSeq(FreeRender \o (Closed \o r))
  /\ IsSeq(Closed) /\ IsSeq(FreeRender)
<1>1. ASSUME NEW size PROVE IsSeq(Play(size)) /\ IsSeq(AfterCreate(size))
  <2>1. Play(size) \in Seq({<<"GetBuffer">>, <<"PlayBuffer", size>>})
    BY DEF Play
  <2>2. IsSeq(Play(size))
    BY <2>1 DEF IsSeq
  <2>3. IsSeq(Branch(<<<<"Opened">>>>, <<<<"Return">>>>))
    BY OneIsSeq DEF Branch
  <2>4. QED
    BY <2>2, <2>3, SeqJoin DEF AfterCreate
<1>2. IsSeq(Closed) /\ IsSeq(FreeRender)
  BY OneIsSeq DEF Closed, FreeRender
<1>3. ASSUME NEW r, AfterClose(r) PROVE IsSeq(r)
  <2>1. IsSeq(<<>>)
    BY PlainEmpty, PlainIsSeq
  <2>2. ASSUME NEW conf, NEW size
        PROVE  IsSeq(<<<<"Open", conf, size>>>> \o Play(size))
    BY <1>1, OneIsSeq, SeqJoin
  <2>3. QED
    BY <1>3, <2>1, <2>2 DEF AfterClose
<1>4. QED
  BY <1>1, <1>2, <1>3, SeqJoin

SinkNames == {"Open", "Opened", "Closed", "Return", "GetBuffer", "PlayBuffer",
              "Crashed"}

\* The library and the sink run different steps.
LEMMA ClientHead ==
  ASSUME ClientStep PROVE code # <<>> /\ Head(code)[1] \notin SinkNames
  BY DEF ClientStep, DoSend, DoWait, DoSleep, Timeout, DoWaitEvent, Woken,
         DoRemoveError, DoBranch, DoMask, DoTransition, UseBuffers, Reclaim,
         Reclaimed, DoSetupTunnel, DoComponent, Op, SinkNames

LEMMA PlainNotSink ==
  ASSUME NEW p, PlainCode(p), p # <<>> PROVE Head(p)[1] \notin SinkNames
  BY PlainHead DEF PlainStep, SinkNames

\* The head of the code in each place.
LEMMA Heads ==
  /\ \A size : /\ Play(size) # <<>> /\ Head(Play(size)) = <<"GetBuffer">>
               /\ Tail(Play(size)) = <<<<"PlayBuffer", size>>>>
  /\ OpenCode => code # <<>> /\ Head(code)[1] = "Open"
  /\ ClosedCode => code # <<>> /\ Head(code)[1] = "Closed"
  /\ HandleCode => code # <<>> /\ Head(code)[1] \in {"Opened", "Return"}
  /\ PlayCode => code # <<>> /\ Head(code)[1] = "GetBuffer"
  /\ PutCode => /\ code # <<>> /\ Head(code)[1] = "PlayBuffer"
                /\ Tail(code) = <<>>
  /\ code = Crashed => code # <<>> /\ Head(code)[1] = "Crashed"
  /\ ClosingCode => code # <<>> /\ Head(code)[1] \notin SinkNames
  /\ BuffersThere => code # <<>> /\ Head(code)[1] \notin SinkNames
  /\ BeforeBuffers => code # <<>> /\ Head(code)[1] \notin SinkNames
<1>1. \A size : /\ Play(size) # <<>> /\ Head(Play(size)) = <<"GetBuffer">>
                /\ Tail(Play(size)) = <<<<"PlayBuffer", size>>>>
  BY DEF Play
<1>2. OpenCode => code # <<>> /\ Head(code)[1] = "Open"
  BY PartsAreSeqs, OneFirst DEF OpenCode
<1>3. ClosedCode => code # <<>> /\ Head(code)[1] = "Closed"
  BY PartsAreSeqs, OneFirst DEF ClosedCode, Closed
<1>4. HandleCode => code # <<>> /\ Head(code)[1] \in {"Opened", "Return"}
  <2>1. \A s : <<s>>[1] = s
    OBVIOUS
  <2>2. QED
    BY <2>1, PartsAreSeqs, OneFirst DEF HandleCode
<1>5. PlayCode => code # <<>> /\ Head(code)[1] = "GetBuffer"
  BY <1>1 DEF PlayCode
<1>6. PutCode => code # <<>> /\ Head(code)[1] = "PlayBuffer"
                 /\ Tail(code) = <<>>
  BY DEF PutCode
<1>7. code = Crashed => code # <<>> /\ Head(code)[1] = "Crashed"
  BY DEF Crashed
<1>8. ASSUME NEW p, NEW k, NEW s, PlainCode(p), IsSeq(k),
             s[1] \notin SinkNames, code = p \o (<<s>> \o k)
      PROVE  code # <<>> /\ Head(code)[1] \notin SinkNames
  <2>1. IsSeq(<<s>> \o k)
    BY <1>8, OneIsSeq, SeqJoin
  <2>2. CASE p = <<>>
    <3>1. code = <<s>> \o k
      BY <1>8, <2>1, <2>2, EmptyFirst
    <3>2. QED
      BY <1>8, <3>1, OneFirst
  <2>3. CASE p # <<>>
    BY <1>8, <2>1, <2>3, FirstStep, PlainIsSeq, PlainNotSink
  <2>4. QED
    BY <2>2, <2>3
<1>9. ClosingCode => code # <<>> /\ Head(code)[1] \notin SinkNames
  <2>1. <<"FreeHandle", "render">>[1] \notin SinkNames
    BY DEF SinkNames
  <2>2. QED
    BY <1>8, <2>1, PartsAreSeqs DEF ClosingCode, FreeRender
<1>10. BuffersThere => code # <<>> /\ Head(code)[1] \notin SinkNames
  <2>1. <<"Branch", <<<<"Opened">>>>, <<<<"Return">>>>>>[1] \notin SinkNames
    BY DEF SinkNames
  <2>2. QED
    BY <1>8, <2>1, PartsAreSeqs DEF BuffersThere, AfterCreate, Branch
<1>11. BeforeBuffers => code # <<>> /\ Head(code)[1] \notin SinkNames
  <2>1. \A s \in {IfNotEnabled, IfNotLoaded, Allocate} : s[1] \notin SinkNames
    BY DEF SinkNames, IfNotEnabled, IfNotLoaded, Allocate
  <2>2. \A q, size : PlainCode(q) => IsSeq(q \o AfterCreate(size))
    BY PartsAreSeqs, PlainIsSeq, SeqJoin
  <2>3. QED
    BY <1>8, <2>1, <2>2 DEF BeforeBuffers
<1>12. QED
  BY <1>1, <1>2, <1>3, <1>4, <1>5, <1>6, <1>7, <1>9, <1>10, <1>11
-----------------------------------------------------------------------------
(* The client thread keeps the invariant.                                  *)

LEMMA WhichStep ==
  ASSUME ClientStep
  PROVE  /\ Head(code)[1] = "FreeHandle" => DoComponent
         /\ Head(code)[1] \in {"Branch", "IfLoaded", "IfEnabled"} => DoBranch
         /\ Head(code)[1] = "UseBuffers" => UseBuffers
  BY DEF ClientStep, DoSend, DoWait, DoSleep, Timeout, DoWaitEvent, Woken,
         DoRemoveError, DoBranch, DoMask, DoTransition, UseBuffers, Reclaim,
         Reclaimed, DoSetupTunnel, DoComponent, Op

LEMMA DropsKeep ==
  ASSUME PlacesOnce, Drops, user_list' \in {user_list, <<>>}
  PROVE  /\ PlacesOnce'
         /\ \A c \in Components : NoBuffers(c) => NoBuffers(c)'
         /\ in_list = <<>> => in_list' = <<>>
<1>1. "render" \in Components
  BY DEF Components
<1>2. PlacesOnce'
  BY <1>1, OnceDropped DEF PlacesOnce, Drops
<1>3. Back(<<>>) = {}
  BY DEF Back
<1>4. ASSUME NEW c \in Components, NoBuffers(c) PROVE NoBuffers(c)'
  BY <1>3, <1>4 DEF NoBuffers, Drops
<1>5. QED
  BY <1>2, <1>4 DEF Drops

LEMMA ClosingStep ==
  ASSUME IlTypeOK, PlacesOnce, ClosingCode, ClientStep, user_list' = user_list
  PROVE  /\ IlTypeOK' /\ Drops
         /\ ClosingCode' \/ (ClosedCode' /\ NoBuffers("render")')
<1>1. PICK p, r : /\ PlainCode(p) /\ AfterClose(r)
                  /\ code = p \o (FreeRender \o (Closed \o r))
  BY DEF ClosingCode
<1> DEFINE k == FreeRender \o (Closed \o r)
<1>2. IsSeq(k) /\ IsSeq(Closed \o r)
  BY <1>1, PartsAreSeqs
<1>3. CASE p # <<>>
  <2>1. code = p \o k
    BY <1>1
  <2> HIDE DEF k
  <2>2. IlTypeOK' /\ Drops /\ \E q : PlainCode(q) /\ code' = q \o k
    BY <1>1, <1>2, <1>3, <2>1, PlainClientStep
  <2>3. QED
    BY <1>1, <2>2 DEF ClosingCode, k
<1>4. CASE p = <<>>
  <2>1. code = k
    BY <1>1, <1>2, <1>4, EmptyFirst
  <2>2. Head(code) = <<"FreeHandle", "render">> /\ Tail(code) = Closed \o r
    BY <1>2, <2>1, OneFirst DEF FreeRender
  <2>3. /\ Head(code)[1] = "FreeHandle" /\ Head(code)[2] = "render"
        /\ PlainStep(Head(code))
    BY <2>2 DEF PlainStep, Components
  <2>4. DoComponent
    BY <2>3, WhichStep
  <2>5. Op("FreeHandle") /\ Arg(1) = "render"
    BY <2>3, <2>4, ArgIs DEF Op, DoComponent
  <2>6. /\ IlTypeOK' /\ Drops
        /\ omx'["render"].held = <<>> /\ calls'["render"] = <<>>
    BY <2>3, <2>4, <2>5, ComponentDrops
  <2>7. NoBuffers("render")'
    BY <2>6 DEF NoBuffers, Back
  <2>8. code' = Closed \o r
    <3>1. code' = <<>> \o Tail(code)
      BY <2>4 DEF DoComponent, Then
    <3>2. QED
      BY <1>2, <2>2, <3>1, EmptyFirst
  <2>9. QED
    BY <1>1, <2>6, <2>7, <2>8 DEF ClosedCode
<1>5. QED
  BY <1>3, <1>4

LEMMA BranchKeeps ==
  ASSUME IlTypeOK, DoBranch PROVE IlTypeOK' /\ Drops
<1>1. UNCHANGED <<in_list, omx, calls>>
  BY DEF DoBranch, OnlyThread
<1>2. QED
  BY <1>1, NothingDropped

LEMMA BuffersThereStep ==
  ASSUME IlTypeOK, BuffersThere, ClientStep
  PROVE  IlTypeOK' /\ Drops /\ (BuffersThere' \/ HandleCode')
<1>1. PICK q, size : PlainCode(q) /\ code = q \o AfterCreate(size)
  BY DEF BuffersThere
<1>2. IsSeq(AfterCreate(size)) /\ IsSeq(Play(size))
  BY PartsAreSeqs
<1>3. CASE q # <<>>
  <2>1. /\ IlTypeOK' /\ Drops
        /\ \E t : PlainCode(t) /\ code' = t \o AfterCreate(size)
    BY <1>1, <1>2, <1>3, PlainClientStep
  <2>2. QED
    BY <2>1 DEF BuffersThere
<1>4. CASE q = <<>>
  <2> DEFINE s == <<"Branch", <<<<"Opened">>>>, <<<<"Return">>>>>>
  <2>1. code = <<s>> \o Play(size)
    BY <1>1, <1>2, <1>4, EmptyFirst DEF AfterCreate, Branch
  <2>2. Head(code) = s /\ Tail(code) = Play(size)
    BY <1>2, <2>1, OneFirst
  <2>3. /\ s[1] = "Branch" /\ s[2] = <<<<"Opened">>>>
        /\ s[3] = <<<<"Return">>>>
    OBVIOUS
  <2> HIDE DEF s
  <2>4. DoBranch
    BY <2>2, <2>3, WhichStep
  <2>5. Then(Arg(1)) \/ Then(Arg(2))
    BY <2>2, <2>3, <2>4 DEF DoBranch, Op
  <2>6. /\ Arg(1) = <<<<"Opened">>>> /\ Arg(2) = <<<<"Return">>>>
    BY <2>2, <2>3, ArgIs
  <2>7. HandleCode'
    BY <2>2, <2>5, <2>6 DEF HandleCode, Then
  <2>8. QED
    BY <2>4, <2>7, BranchKeeps
<1>5. QED
  BY <1>3, <1>4

\* New buffers are queued as if they had been returned.
LEMMA AllocateStep ==
  ASSUME IlTypeOK, PlacesOnce, NoBuffers("render"), NoBuffers("source"),
         in_list = <<>>, user_list = <<>>, user_list' = user_list,
         UseBuffers, Arg(1) = "render"
  PROVE  /\ IlTypeOK' /\ PlacesOnce' /\ NoBuffers("render")'
         /\ NoBuffers("source")'
<1>1. {"source", "render"} \subseteq Components
  BY DEF Components
<1>2. PICK n \in 0 .. NumBuffers :
        /\ in_list' = [i \in 1 .. n |-> i] \o in_list
        /\ omx' = [omx EXCEPT !["render"].bufs = 1 .. n]
  BY DEF UseBuffers
<1>3. calls' = calls
  BY DEF UseBuffers
<1> DEFINE new == [i \in 1 .. n |-> i]
<1>4. new \in Seq(Buffers) /\ Len(new) = n /\ \A i \in 1 .. n : new[i] = i
  BY IlAssumption DEF Buffers
<1>5. in_list' = new
  <2>1. new \o <<>> = new
    <3> HIDE DEF new
    <3>1. QED
      BY <1>4, ConcatEmptySeq
  <2>2. QED
    BY <1>2, <2>1
<1> HIDE DEF new
<1>6. omx["render"] \in OmxRec /\ 1 .. n \in SUBSET Buffers
  BY <1>1, IlAssumption DEF IlTypeOK, Buffers
<1>7. /\ omx' \in [Components -> OmxRec]
      /\ \A c \in Components : omx'[c].held = omx[c].held
  <2> DEFINE o == [omx["render"] EXCEPT !.bufs = 1 .. n]
  <2>1. omx' = [omx EXCEPT !["render"] = o]
    BY <1>1, <1>2, <1>6 DEF IlTypeOK, OmxRec
  <2>2. o \in OmxRec /\ o.held = omx["render"].held
    BY <1>6 DEF OmxRec
  <2> HIDE DEF o
  <2>3. QED
    BY <1>1, <2>1, <2>2 DEF IlTypeOK
<1>8. IlTypeOK'
  BY <1>3, <1>4, <1>5, <1>7 DEF IlTypeOK
<1>9. NoBuffers("render")' /\ NoBuffers("source")'
  BY <1>1, <1>3, <1>7 DEF NoBuffers
<1>10. PlacesOnce'
  <2>1. /\ user_list' = <<>> /\ omx'["render"].held = <<>>
        /\ Back(calls'["render"]) = {}
    BY <1>9 DEF NoBuffers
  <2>2. DOMAIN <<>> = {} /\ DOMAIN new = 1 .. n
    BY <1>4
  <2>3. Distinct(new)
    BY <1>4, <2>2 DEF Distinct
  <2>4. Once(new, <<>>, <<>>, calls'["render"])
    BY <2>1, <2>2, <2>3 DEF Once, Distinct, Apart, BackDistinct, BackApart
  <2>5. QED
    BY <1>5, <2>1, <2>4 DEF PlacesOnce
<1>11. QED
  BY <1>8, <1>9, <1>10

LEMMA AllocatingArgs ==
  /\ IfNotEnabled[1] = "IfEnabled" /\ IfNotEnabled[3] = <<Result(-1)>>
  /\ IfNotEnabled[4] = <<IfNotLoaded>>
  /\ IfNotLoaded[1] = "IfLoaded" /\ IfNotLoaded[3] = <<Result(-1)>>
  /\ IfNotLoaded[4] = Enabling
  /\ Allocate[1] = "UseBuffers" /\ Allocate[2] = "render"
<1>1. IfNotEnabled[1] = "IfEnabled" /\ IfNotEnabled[3] = <<Result(-1)>>
      /\ IfNotEnabled[4] = <<IfNotLoaded>>
  BY DEF IfNotEnabled
<1>2. IfNotLoaded[1] = "IfLoaded" /\ IfNotLoaded[3] = <<Result(-1)>>
      /\ IfNotLoaded[4] = Enabling
  BY DEF IfNotLoaded
<1>3. Allocate[1] = "UseBuffers" /\ Allocate[2] = "render"
  BY DEF Allocate
<1>4. QED
  BY <1>1, <1>2, <1>3

Regroups(s, t, b, q, a) ==
  (s \o (t \o b)) \o (q \o a) = s \o (t \o ((b \o q) \o a))

LEMMA JoinFive ==
  \A s, t, b, q, a :
    IsSeq(s) /\ IsSeq(t) /\ IsSeq(b) /\ IsSeq(q) /\ IsSeq(a)
      => Regroups(s, t, b, q, a)
<1> SUFFICES ASSUME NEW s, NEW t, NEW b, NEW q, NEW a,
                    IsSeq(s), IsSeq(t), IsSeq(b), IsSeq(q), IsSeq(a)
             PROVE  Regroups(s, t, b, q, a)
  OBVIOUS
<1>1. IsSeq(q \o a) /\ IsSeq(t \o b)
  BY SeqJoin
<1>2. Associates(b, q, a)
  BY SeqsAssociate, Zenon
<1>3. Associates(t, b, q \o a)
  BY <1>1, SeqsAssociate, Zenon
<1>4. Associates(s, t \o b, q \o a)
  BY <1>1, SeqsAssociate, Zenon
<1>5. QED
  BY <1>2, <1>3, <1>4, Zenon DEF Associates, Regroups

LEMMA BeforeBuffersStep ==
  ASSUME IlTypeOK, PlacesOnce, NoBuffers("render"), NoBuffers("source"),
         in_list = <<>>, user_list = <<>>, user_list' = user_list,
         BeforeBuffers, ClientStep
  PROVE  /\ IlTypeOK' /\ PlacesOnce' /\ NoBuffers("render")'
         /\ NoBuffers("source")'
         /\ BuffersThere' \/ (BeforeBuffers' /\ in_list' = <<>>)
<1>1. PICK p, q, s, size :
        /\ PlainCode(p) /\ PlainCode(q)
        /\ s \in {IfNotEnabled, IfNotLoaded, Allocate}
        /\ code = p \o (<<s>> \o (q \o AfterCreate(size)))
  BY DEF BeforeBuffers
<1> DEFINE a == AfterCreate(size)
           k == q \o a
           ks == <<s>> \o k
<1>2. IsSeq(a) /\ IsSeq(q) /\ IsSeq(k) /\ IsSeq(ks)
  BY <1>1, PartsAreSeqs, PlainIsSeq, OneIsSeq, SeqJoin
<1>3. {"source", "render"} \subseteq Components
  BY DEF Components
<1>4. ASSUME IlTypeOK', Drops, BuffersThere' \/ BeforeBuffers'
      PROVE  /\ IlTypeOK' /\ PlacesOnce' /\ NoBuffers("render")'
             /\ NoBuffers("source")'
             /\ BuffersThere' \/ (BeforeBuffers' /\ in_list' = <<>>)
  BY <1>3, <1>4, DropsKeep
<1>5. CASE p # <<>>
  <2>1. code = p \o ks
    BY <1>1
  <2> HIDE DEF ks
  <2>2. IlTypeOK' /\ Drops /\ \E t : PlainCode(t) /\ code' = t \o ks
    BY <1>1, <1>2, <1>5, <2>1, PlainClientStep
  <2>3. BeforeBuffers'
    BY <1>1, <2>2 DEF BeforeBuffers, ks
  <2>4. QED
    BY <1>4, <2>2, <2>3
<1>6. CASE p = <<>>
  <2>1. code = ks
    BY <1>1, <1>2, <1>6, EmptyFirst
  <2>2. Head(code) = s /\ Tail(code) = k
    BY <1>2, <2>1, OneFirst
  <2>3. CASE s \in {IfNotEnabled, IfNotLoaded}
    <3>1. DoBranch
      BY <2>2, <2>3, AllocatingArgs, WhichStep
    <3>2. Then(Arg(2)) \/ Then(Arg(3))
      BY <2>2, <2>3, <3>1, AllocatingArgs DEF DoBranch, Op
    <3>3. Arg(2) = s[3] /\ Arg(3) = s[4]
      BY <2>2, ArgIs
    <3>4. code' = s[3] \o k \/ code' = s[4] \o k
      BY <2>2, <3>2, <3>3 DEF Then
    <3>5. CASE code' = s[3] \o k
      <4> DEFINE r == <<Result(-1)>>
      <4>1. PlainCode(r) /\ s[3] = r
        BY <2>3, AllocatingArgs, StepsArePlain, PlainOne
      <4>2. PlainCode(r \o q) /\ IsSeq(r)
        BY <1>1, <4>1, PlainIsSeq, PlainJoin
      <4> HIDE DEF r, a
      <4>3. r \o (q \o a) = (r \o q) \o a
        <5>1. IsSeq(q) /\ IsSeq(a)
          BY <1>1, <1>2, PlainIsSeq
        <5>2. Associates(r, q, a)
          BY <4>2, <5>1, SeqsAssociate, Zenon
        <5>3. QED
          BY <5>2, Zenon DEF Associates
      <4>4. code' = (r \o q) \o a
        BY <3>5, <4>1, <4>3
      <4>5. BuffersThere'
        BY <4>2, <4>4 DEF BuffersThere, a
      <4>6. QED
        BY <1>4, <3>1, <4>5, BranchKeeps
    <3>6. CASE code' = s[4] \o k /\ s = IfNotEnabled
      <4> DEFINE k1 == <<IfNotLoaded>> \o k
      <4>1. code' = k1
        BY <3>6, AllocatingArgs
      <4>2. IsSeq(k1)
        BY <1>2, OneIsSeq, SeqJoin
      <4>3. code' = <<>> \o k1
        BY <4>1, <4>2, EmptyFirst
      <4>4. BeforeBuffers'
        BY <1>1, <4>3, PlainEmpty DEF BeforeBuffers
      <4>5. QED
        BY <1>4, <3>1, <4>4, BranchKeeps
    <3>7. CASE code' = s[4] \o k /\ s = IfNotLoaded
      <4> DEFINE send == <<Send("render", "PortEnable", "port")>>
                 b == AfterBuffers("render")
                 alloc == <<Allocate>>
      <4>1. code' = (send \o (alloc \o b)) \o k
        BY <3>7, AllocatingArgs, EnablingIs
      <4>2. PlainCode(send) /\ PlainCode(b) /\ IsSeq(alloc)
        BY <1>3, SendsArePlain, PlainOne, AfterBuffersIsPlain, OneIsSeq
      <4> HIDE DEF send, b
      <4>3. alloc = <<Allocate>>
        OBVIOUS
      <4> HIDE DEF alloc
      <4>4. IsSeq(send) /\ IsSeq(b) /\ IsSeq(alloc \o b)
        BY <4>2, PlainIsSeq, SeqJoin
      <4> HIDE DEF a
      <4>5. (send \o (alloc \o b)) \o (q \o a)
              = send \o (alloc \o ((b \o q) \o a))
        <5>1. IsSeq(send) /\ IsSeq(alloc) /\ IsSeq(b) /\ IsSeq(q) /\ IsSeq(a)
          BY <1>2, <4>2, <4>4
        <5>2. Regroups(send, alloc, b, q, a)
          BY <5>1, JoinFive, Zenon
        <5>3. QED
          BY <5>2, Zenon DEF Regroups
      <4>6. code' = send \o (alloc \o ((b \o q) \o a))
        BY <4>1, <4>5
      <4>7. code' = send \o (<<Allocate>> \o ((b \o q) \o AfterCreate(size)))
        BY <4>3, <4>6 DEF a
      <4>8. PlainCode(b \o q)
        BY <1>1, <4>2, PlainJoin
      <4>9. BeforeBuffers'
        BY <4>2, <4>7, <4>8 DEF BeforeBuffers
      <4>10. QED
        BY <1>4, <3>1, <4>9, BranchKeeps
    <3>8. QED
      BY <2>3, <3>4, <3>5, <3>6, <3>7
  <2>4. CASE s = Allocate
    <3>1. UseBuffers /\ Arg(1) = "render"
      BY <2>2, <2>4, AllocatingArgs, WhichStep, ArgIs
    <3>2. code' = <<>> \o k
      BY <2>2, <3>1 DEF UseBuffers, Then
    <3>3. code' = k
      BY <1>2, <3>2, EmptyFirst
    <3>4. BuffersThere'
      BY <1>1, <3>3 DEF BuffersThere
    <3>5. QED
      BY <3>1, <3>4, AllocateStep
  <2>5. QED
    BY <1>1, <2>3, <2>4
<1>7. QED
  BY <1>5, <1>6

LEMMA QueuedKept ==
  ASSUME UNCHANGED <<user_list, what, sent, played>>,
         omx'["render"].held \in {omx["render"].held, <<>>}
  PROVE  /\ Queued => Queued'
         /\ NewestLent => NewestLent'
<1>1. DOMAIN <<>> = {}
  OBVIOUS
<1>2. QED
  BY <1>1 DEF Queued, NewestLent

LEMMA ClientKeeps ==
  ASSUME BuffersInv, ClientStep, UNCHANGED sinkVars
  PROVE  BuffersInv' /\ omx'["render"].held \in {omx["render"].held, <<>>}
<1>1. /\ UNCHANGED <<user, handle, user_list>> /\ SinkTypeOK'
      /\ IlTypeOK /\ PlacesOnce /\ NoBuffers("source") /\ Queued
      /\ UNCHANGED <<what, sent, played>>
  BY DEF BuffersInv, sinkVars, SinkTypeOK
<1>2. {"source", "render"} \subseteq Components
  BY DEF Components
<1>3. code # <<>> /\ Head(code)[1] \notin SinkNames
  BY ClientHead
<1>4. ASSUME IlTypeOK', Drops
      PROVE  /\ PlacesOnce' /\ NoBuffers("source")'
             /\ NoBuffers("render") => NoBuffers("render")'
             /\ in_list = <<>> => in_list' = <<>>
             /\ Queued'
             /\ omx'["render"].held \in {omx["render"].held, <<>>}
  BY <1>1, <1>2, <1>4, DropsKeep, QueuedKept DEF Drops
<1>5. CASE user = "hdmi"
  <2>1. ASSUME IlTypeOK', PlacesOnce', NoBuffers("source")', Queued',
               HdmiControl',
               omx'["render"].held \in {omx["render"].held, <<>>}
        PROVE  /\ BuffersInv'
               /\ omx'["render"].held \in {omx["render"].held, <<>>}
    BY <1>1, <1>5, <2>1 DEF BuffersInv
  <2>2. \/ handle /\ ClosingCode
        \/ ~handle /\ NoBuffers("render") /\ BuffersThere
        \/ /\ ~handle /\ NoBuffers("render") /\ BeforeBuffers
           /\ in_list = <<>> /\ user_list = <<>>
    <3>1. ~OpenCode /\ ~ClosedCode /\ ~HandleCode /\ ~PlayCode /\ ~PutCode
      BY <1>3, Heads DEF SinkNames
    <3>2. code # Crashed
      BY <1>3, Heads DEF SinkNames
    <3>3. HdmiControl
      BY <1>5 DEF BuffersInv
    <3>4. QED
      BY <1>3, <3>1, <3>2, <3>3, Zenon DEF HdmiControl
  <2>3. CASE handle /\ ClosingCode
    <3>1. /\ IlTypeOK' /\ Drops
          /\ ClosingCode' \/ (ClosedCode' /\ NoBuffers("render")')
      BY <1>1, <2>3, ClosingStep
    <3>2. handle'
      BY <1>1, <2>3
    <3>3. HdmiControl'
      BY <3>1, <3>2, Zenon DEF HdmiControl
    <3>4. QED
      BY <1>4, <2>1, <3>1, <3>3
  <2>4. CASE ~handle /\ NoBuffers("render") /\ BuffersThere
    <3>1. IlTypeOK' /\ Drops /\ (BuffersThere' \/ HandleCode')
      BY <1>1, <2>4, BuffersThereStep
    <3>2. ~handle' /\ NoBuffers("render")'
      BY <1>1, <1>4, <2>4, <3>1
    <3>3. HdmiControl'
      BY <3>1, <3>2, Zenon DEF HdmiControl
    <3>4. QED
      BY <1>4, <2>1, <3>1, <3>3
  <2>5. CASE /\ ~handle /\ NoBuffers("render") /\ BeforeBuffers
             /\ in_list = <<>> /\ user_list = <<>>
    <3>1. /\ IlTypeOK' /\ PlacesOnce' /\ NoBuffers("render")'
          /\ NoBuffers("source")'
          /\ BuffersThere' \/ (BeforeBuffers' /\ in_list' = <<>>)
      BY <1>1, <2>5, BeforeBuffersStep
    <3>2. ~handle' /\ user_list' = <<>>
      BY <1>1, <2>5
    <3>3. HdmiControl'
      BY <3>1, <3>2, Zenon DEF HdmiControl
    <3>4. Queued' /\ omx'["render"].held \in {omx["render"].held, <<>>}
      BY <1>1, <3>1, QueuedKept DEF NoBuffers
    <3>5. QED
      BY <2>1, <3>1, <3>3, <3>4
  <2>6. QED
    BY <2>2, <2>3, <2>4, <2>5
<1>6. CASE user # "hdmi"
  <2>1. /\ PlainCode(code) /\ NoBuffers("render") /\ in_list = <<>>
        /\ user_list = <<>>
    BY <1>6 DEF BuffersInv, TunnelControl
  <2>2. IsSeq(code) /\ IsSeq(<<>>)
    BY <2>1, PlainEmpty, PlainIsSeq
  <2>3. code = code \o <<>>
    BY <2>2, EmptyFirst
  <2>4. IlTypeOK' /\ Drops /\ \E q : PlainCode(q) /\ code' = q \o <<>>
    BY <1>1, <1>3, <2>1, <2>2, <2>3, PlainClientStep
  <2>5. PlainCode(code')
    BY <2>4, PlainIsSeq, EmptyFirst
  <2>6. TunnelControl'
    BY <1>1, <1>4, <2>1, <2>4, <2>5 DEF TunnelControl
  <2>7. QED
    BY <1>1, <1>4, <1>6, <2>4, <2>6 DEF BuffersInv
<1>7. QED
  BY <1>5, <1>6

LEMMA OmxKeeps ==
  ASSUME BuffersInv, NEW c \in Components, OmxStep(c) \/ OmxFault(c),
         UNCHANGED sinkVars
  PROVE  BuffersInv' /\ omx'["render"].held \in {omx["render"].held, <<>>}
<1>1. /\ UNCHANGED <<user, handle, user_list>> /\ SinkTypeOK'
      /\ IlTypeOK /\ SinkTypeOK /\ PlacesOnce /\ NoBuffers("source")
      /\ Queued /\ UNCHANGED <<what, sent, played>>
  BY DEF BuffersInv, sinkVars, SinkTypeOK
<1>2. user_list \in Seq(Buffers)
  BY <1>1 DEF SinkTypeOK
<1>3. OmxEffect
  BY <1>1, <1>2, StepEffect
<1>4. code' = code
  BY DEF OmxStep, OmxFault, OmxComplete, Callback, BufferFlag, OmxFail,
         OmxReport, threadVars
<1>5. /\ PlayCode => PlayCode'
      /\ PutCode => PutCode'
      /\ ClosingCode => ClosingCode'
      /\ ClosedCode => ClosedCode'
      /\ OpenCode => OpenCode'
      /\ BuffersThere => BuffersThere'
      /\ HandleCode => HandleCode'
      /\ BeforeBuffers => BeforeBuffers'
  BY <1>4 DEF PlayCode, PutCode, ClosingCode, ClosedCode, OpenCode,
              BuffersThere, HandleCode, BeforeBuffers
<1>6. NoBuffers("render") => NoBuffers("render")' /\ in_list' = in_list
  BY <1>3 DEF OmxEffect
<1>7. Queued' /\ (NewestLent => NewestLent')
  BY <1>1, <1>3, QueuedKept DEF OmxEffect
<1>8. HdmiControl => HdmiControl'
  <2>1. handle' = handle /\ user_list' = user_list
    BY <1>1
  <2>2. CASE code = Crashed
    BY <1>4, <2>2, Zenon DEF HdmiControl
  <2>3. CASE /\ handle
             /\ \/ code = <<>> \/ PlayCode
                \/ PutCode /\ NewestLent
                \/ ClosingCode
                \/ ClosedCode /\ NoBuffers("render")
    BY <1>4, <1>5, <1>6, <1>7, <2>1, <2>3 DEF HdmiControl
  <2>4. CASE /\ ~handle /\ NoBuffers("render")
             /\ \/ code = <<>> \/ OpenCode \/ BuffersThere \/ HandleCode
                \/ BeforeBuffers /\ in_list = <<>> /\ user_list = <<>>
    BY <1>4, <1>5, <1>6, <2>1, <2>4 DEF HdmiControl
  <2>5. QED
    BY <2>2, <2>3, <2>4, Zenon DEF HdmiControl
<1>9. TunnelControl => TunnelControl'
  BY <1>1, <1>4, <1>6 DEF TunnelControl
<1>10. QED
  BY <1>1, <1>3, <1>8, <1>9, <1>7 DEF BuffersInv, OmxEffect
-----------------------------------------------------------------------------
(* The sink keeps the invariant.                                           *)

\* A step of the sink is not one of plain code.
LEMMA SinkIsHdmi ==
  ASSUME BuffersInv, code # <<>>, Head(code)[1] \in SinkNames
  PROVE  /\ user = "hdmi"
         /\ ~ClosingCode /\ ~BuffersThere /\ ~BeforeBuffers
<1>1. ~ClosingCode /\ ~BuffersThere /\ ~BeforeBuffers
  BY Heads
<1>2. CASE user # "hdmi"
  <2>1. PlainCode(code)
    BY <1>2 DEF BuffersInv, TunnelControl
  <2>2. QED
    BY <2>1, PlainNotSink
<1>3. QED
  BY <1>1, <1>2

\* The steps of onProcess and stop, regrouped.
ClosesFirst(p, f, c, o, q) ==
  (((p \o f) \o c) \o o) \o q = p \o (f \o (c \o (o \o q)))

LEMMA CloseRegroups ==
  \A p, f, c, o, q :
    IsSeq(p) /\ IsSeq(f) /\ IsSeq(c) /\ IsSeq(o) /\ IsSeq(q)
      => ClosesFirst(p, f, c, o, q)
<1> SUFFICES ASSUME NEW p, NEW f, NEW c, NEW o, NEW q,
                    IsSeq(p), IsSeq(f), IsSeq(c), IsSeq(o), IsSeq(q)
             PROVE  ClosesFirst(p, f, c, o, q)
  OBVIOUS
<1>1. IsSeq(p \o f) /\ IsSeq(o \o q)
  BY SeqJoin
<1>2. IsSeq((p \o f) \o c) /\ IsSeq(c \o (o \o q))
  BY <1>1, SeqJoin
<1>3. Associates((p \o f) \o c, o, q)
  BY <1>2, SeqsAssociate, Zenon
<1>4. Associates(p \o f, c, o \o q)
  BY <1>1, SeqsAssociate, Zenon
<1>5. Associates(p, f, c \o (o \o q))
  BY <1>2, SeqsAssociate, Zenon
<1>6. QED
  BY <1>3, <1>4, <1>5, Zenon DEF Associates, ClosesFirst

\* audioplay_create, followed by what depends on its result.
OpensFirst(p, i, q, b, r) ==
  ((p \o (i \o q)) \o b) \o r = p \o (i \o (q \o (b \o r)))

LEMMA OpenRegroups ==
  \A p, i, q, b, r :
    IsSeq(p) /\ IsSeq(i) /\ IsSeq(q) /\ IsSeq(b) /\ IsSeq(r)
      => OpensFirst(p, i, q, b, r)
<1> SUFFICES ASSUME NEW p, NEW i, NEW q, NEW b, NEW r,
                    IsSeq(p), IsSeq(i), IsSeq(q), IsSeq(b), IsSeq(r)
             PROVE  OpensFirst(p, i, q, b, r)
  OBVIOUS
<1>1. IsSeq(i \o q) /\ IsSeq(b \o r)
  BY SeqJoin
<1>2. IsSeq(p \o (i \o q)) /\ IsSeq(q \o (b \o r))
  BY <1>1, SeqJoin
<1>3. Associates(p \o (i \o q), b, r)
  BY <1>2, SeqsAssociate, Zenon
<1>4. Associates(p, i \o q, b \o r)
  BY <1>1, SeqsAssociate, Zenon
<1>5. Associates(i, q, b \o r)
  BY <1>1, SeqsAssociate, Zenon
<1>6. QED
  BY <1>3, <1>4, <1>5, Zenon DEF Associates, OpensFirst

\* Nothing but the code changes, and the sink's state stays.
LEMMA CodeKeeps ==
  ASSUME BuffersInv, UNCHANGED sinkVars, OnlyThread
  PROVE  /\ IlTypeOK' /\ SinkTypeOK' /\ PlacesOnce' /\ NoBuffers("source")'
         /\ NoBuffers("render") => NoBuffers("render")'
         /\ UNCHANGED <<user, handle, user_list, in_list>>
         /\ Queued'
  BY DEF BuffersInv, Queued, IlTypeOK, SinkTypeOK, PlacesOnce, NoBuffers,
         OnlyThread, sinkVars

\* Closing before something else, and for its own sake.
LEMMA CloseIs ==
  ASSUME handle, NEW o, NEW q, IsSeq(o), IsSeq(q), AfterClose(o \o q),
         code' = (Close \o o) \o q
  PROVE  ClosingCode'
<1>1. PICK p : PlainCode(p) /\ audioplay_delete = p \o FreeRender
  BY DeleteIs
<1>2. Close = (p \o FreeRender) \o Closed
  BY <1>1 DEF Close, Closed
<1>3. IsSeq(p) /\ IsSeq(FreeRender) /\ IsSeq(Closed)
  BY <1>1, PlainIsSeq, PartsAreSeqs
<1>4. ClosesFirst(p, FreeRender, Closed, o, q)
  BY <1>3, CloseRegroups, Zenon
<1>5. code' = p \o (FreeRender \o (Closed \o (o \o q)))
  BY <1>2, <1>4, Zenon DEF ClosesFirst
<1>6. QED
  BY <1>1, <1>5 DEF ClosingCode

LEMMA OpenCodeIs ==
  ASSUME NEW conf, NEW size
  PROVE  /\ AfterClose(<<<<"Open", conf, size>>>> \o Play(size))
         /\ IsSeq(<<<<"Open", conf, size>>>>) /\ IsSeq(Play(size))
         /\ IsSeq(<<<<"Open", conf, size>>>> \o Play(size))
<1>1. IsSeq(<<<<"Open", conf, size>>>>) /\ IsSeq(Play(size))
  BY OneIsSeq, PartsAreSeqs
<1>2. AfterClose(<<<<"Open", conf, size>>>> \o Play(size))
  BY DEF AfterClose
<1>3. QED
  BY <1>1, <1>2, SeqJoin

LEMMA ProcessKeeps ==
  ASSUME BuffersInv, NEW conf, NEW size, OnProcess(conf, size)
  PROVE  BuffersInv'
<1>1. user = "hdmi" /\ code = <<>>
  BY DEF OnProcess
<1>2. /\ IlTypeOK' /\ SinkTypeOK' /\ PlacesOnce' /\ NoBuffers("source")'
      /\ NoBuffers("render") => NoBuffers("render")'
      /\ UNCHANGED <<user, handle, user_list, in_list>> /\ Queued'
  BY CodeKeeps DEF OnProcess
<1> DEFINE o == <<<<"Open", conf, size>>>>
<1>3. /\ AfterClose(o \o Play(size)) /\ IsSeq(o) /\ IsSeq(Play(size))
      /\ IsSeq(o \o Play(size))
  BY OpenCodeIs
<1>4. \/ handle /\ code' = Play(size)
      \/ code' = (Close \o o) \o Play(size)
  BY DEF OnProcess, Play
<1>5. CASE handle /\ code' = Play(size)
  <2>1. PlayCode'
    BY <1>5 DEF PlayCode
  <2>2. QED
    BY <1>1, <1>2, <1>5, <2>1 DEF BuffersInv, HdmiControl
<1>6. CASE handle /\ code' = (Close \o o) \o Play(size)
  <2>1. ClosingCode'
    BY <1>3, <1>6, CloseIs
  <2>2. QED
    BY <1>1, <1>2, <1>6, <2>1 DEF BuffersInv, HdmiControl
<1>7. CASE ~handle /\ code' = (Close \o o) \o Play(size)
  <2>1. Close = <<>>
    BY <1>7 DEF Close
  <2>2. code' = o \o Play(size)
    BY <1>3, <1>7, <2>1, EmptyFirst
  <2>3. OpenCode'
    BY <2>2 DEF OpenCode
  <2>4. NoBuffers("render")
    <3>1. ~PlayCode /\ ~PutCode /\ ~ClosingCode /\ code # Crashed
      BY <1>1, Heads
    <3>2. QED
      BY <1>1, <1>7, <3>1 DEF BuffersInv, HdmiControl
  <2>5. QED
    BY <1>1, <1>2, <1>7, <2>3, <2>4 DEF BuffersInv, HdmiControl
<1>8. QED
  BY <1>4, <1>5, <1>6, <1>7

LEMMA StopKeeps == ASSUME BuffersInv, Stop PROVE BuffersInv'
<1>1. user = "hdmi" /\ handle /\ code' = Close
  BY DEF Stop
<1>2. /\ IlTypeOK' /\ SinkTypeOK' /\ PlacesOnce' /\ NoBuffers("source")'
      /\ UNCHANGED <<user, handle, user_list, in_list>> /\ Queued'
  BY CodeKeeps DEF Stop
<1>3. IsSeq(<<>>) /\ <<>> \o <<>> = <<>>
  BY PlainEmpty, PlainIsSeq, EmptyFirst
<1>4. IsSeq(Close)
  <2>1. PICK p : PlainCode(p) /\ audioplay_delete = p \o FreeRender
    BY DeleteIs
  <2>2. QED
    BY <1>1, <2>1, PlainIsSeq, PartsAreSeqs, SeqJoin DEF Close, Closed
<1>5. code' = (Close \o <<>>) \o <<>>
  BY <1>1, <1>4, EmptyFirst
<1>6. AfterClose(<<>> \o <<>>)
  BY <1>3 DEF AfterClose
<1>7. ClosingCode'
  BY <1>1, <1>3, <1>5, <1>6, CloseIs
<1>8. QED
  BY <1>1, <1>2, <1>7 DEF BuffersInv, HdmiControl

LEMMA OpeningKeeps == ASSUME BuffersInv, Opening PROVE BuffersInv'
<1>1. code # <<>> /\ Head(code)[1] = "Open"
  BY DEF Opening, Op
<1>2. user = "hdmi" /\ OpenCode /\ ~handle /\ NoBuffers("render")
  <2>1. user = "hdmi" /\ ~ClosingCode /\ ~BuffersThere /\ ~BeforeBuffers
    BY <1>1, SinkIsHdmi DEF SinkNames
  <2>2. ~ClosedCode /\ ~HandleCode /\ ~PlayCode /\ ~PutCode /\ code # Crashed
    BY <1>1, Heads
  <2>3. QED
    BY <1>1, <2>1, <2>2 DEF BuffersInv, HdmiControl
<1>3. PICK conf, size : code = <<<<"Open", conf, size>>>> \o Play(size)
  BY <1>2 DEF OpenCode
<1>4. Tail(code) = Play(size)
  BY <1>3, OpenCodeIs, OneFirst
<1>5. UNCHANGED <<omx, calls, user, handle, what, sent, played>>
  BY DEF Opening
<1>6. /\ in_list' \in {in_list, <<>>} /\ user_list' \in {user_list, <<>>}
      /\ \/ code' = <<>>
         \/ /\ in_list' = <<>> /\ user_list' = <<>>
            /\ Then(audioplay_create
                      \o Branch(<<<<"Opened">>>>, <<<<"Return">>>>))
  BY DEF Opening
<1>7. <<>> \in Seq(Buffers)
  OBVIOUS
<1>8. IlTypeOK' /\ SinkTypeOK' /\ NoBuffers("source")' /\ NoBuffers("render")'
  BY <1>2, <1>5, <1>6, <1>7 DEF BuffersInv, IlTypeOK, SinkTypeOK, NoBuffers
<1>9. Queued'
  BY <1>5 DEF BuffersInv, Queued
<1>10. PlacesOnce'
  <2>1. Once(in_list', user_list', omx["render"].held, calls["render"])
    BY <1>6, OnceDropped DEF BuffersInv, PlacesOnce
  <2>2. QED
    BY <1>5, <2>1 DEF PlacesOnce
<1>11. ~handle' /\ user' = "hdmi"
  BY <1>2, <1>5
<1>12. CASE code' = <<>>
  <2>1. HdmiControl'
    BY <1>8, <1>11, <1>12 DEF HdmiControl
  <2>2. QED
    BY <1>8, <1>10, <1>11, <1>9, <2>1 DEF BuffersInv
<1>13. CASE /\ in_list' = <<>> /\ user_list' = <<>>
            /\ Then(audioplay_create
                      \o Branch(<<<<"Opened">>>>, <<<<"Return">>>>))
  <2>1. PICK p, q : /\ PlainCode(p) /\ PlainCode(q)
                    /\ audioplay_create = p \o (<<IfNotEnabled>> \o q)
    BY CreateIs
  <2> DEFINE b == Branch(<<<<"Opened">>>>, <<<<"Return">>>>)
             i == <<IfNotEnabled>>
  <2>2. /\ IsSeq(p) /\ IsSeq(i) /\ IsSeq(q) /\ IsSeq(b)
        /\ IsSeq(Play(size))
    BY <2>1, PlainIsSeq, OneIsSeq, PartsAreSeqs DEF Branch
  <2>3. OpensFirst(p, i, q, b, Play(size))
    <3> HIDE DEF i, b
    <3>1. QED
      BY <2>2, OpenRegroups, Zenon
  <2>4. code' = ((p \o (i \o q)) \o b) \o Play(size)
    BY <1>4, <1>13, <2>1 DEF Then
  <2>5. code' = p \o (<<IfNotEnabled>> \o (q \o AfterCreate(size)))
    <3> HIDE DEF b
    <3>1. code' = p \o (i \o (q \o (b \o Play(size))))
      BY <2>3, <2>4, Zenon DEF OpensFirst
    <3>2. AfterCreate(size) = b \o Play(size)
      BY DEF AfterCreate, b
    <3>3. QED
      BY <3>1, <3>2, Zenon
  <2>6. BeforeBuffers'
    BY <2>1, <2>5 DEF BeforeBuffers
  <2>7. HdmiControl'
    BY <1>8, <1>11, <1>13, <2>6 DEF HdmiControl
  <2>8. QED
    BY <1>8, <1>10, <1>11, <1>9, <2>7 DEF BuffersInv
<1>14. QED
  BY <1>6, <1>12, <1>13

LEMMA HandleKeeps == ASSUME BuffersInv, HandleStep PROVE BuffersInv'
<1>1. code # <<>> /\ Head(code)[1] \in {"Opened", "Closed", "Return"}
  BY DEF HandleStep, Op
<1>2. /\ user = "hdmi" /\ NoBuffers("render")
      /\ \/ handle /\ ClosedCode
         \/ ~handle /\ HandleCode
  <2>1. user = "hdmi" /\ ~ClosingCode /\ ~BuffersThere /\ ~BeforeBuffers
    BY <1>1, SinkIsHdmi DEF SinkNames
  <2>2. ~OpenCode /\ ~PlayCode /\ ~PutCode /\ code # Crashed
    BY <1>1, Heads
  <2>3. QED
    BY <1>1, <2>1, <2>2 DEF BuffersInv, HdmiControl
<1>3. /\ user' = user /\ user_list' = user_list /\ in_list' = in_list
      /\ UNCHANGED <<omx, calls, what, sent, played>>
      /\ handle' \in {handle, TRUE, FALSE}
  BY DEF HandleStep, OnlyThread
<1>4. /\ IlTypeOK' /\ PlacesOnce' /\ NoBuffers("source")'
      /\ NoBuffers("render")' /\ SinkTypeOK' /\ Queued'
  BY <1>2, <1>3
     DEF BuffersInv, Queued, IlTypeOK, SinkTypeOK, PlacesOnce, NoBuffers
<1>5. HdmiControl'
  <2>1. CASE handle /\ ClosedCode
    <3>1. Head(code)[1] = "Closed"
      BY <2>1, Heads
    <3>2. handle' = FALSE /\ Then(<<>>)
      BY <3>1 DEF HandleStep, Op
    <3>3. PICK r : AfterClose(r) /\ code = Closed \o r
      BY <2>1 DEF ClosedCode
    <3>4. IsSeq(r)
      BY <3>3, PartsAreSeqs
    <3>5. Tail(code) = r
      BY <3>3, <3>4, OneFirst DEF Closed
    <3>6. code' = r
      BY <3>2, <3>4, <3>5, EmptyFirst DEF Then
    <3>7. code' = <<>> \/ OpenCode'
      BY <3>3, <3>6 DEF AfterClose, OpenCode
    <3>8. QED
      BY <1>4, <3>2, <3>7 DEF HdmiControl
  <2>2. CASE ~handle /\ HandleCode
    <3>1. PICK size, s : /\ s \in {"Opened", "Return"}
                         /\ code = <<<<s>>>> \o Play(size)
      BY <2>2 DEF HandleCode
    <3>2. Head(code) = <<s>> /\ Tail(code) = Play(size)
      BY <3>1, PartsAreSeqs, OneFirst
    <3>3. Head(code)[1] = s
      BY <3>2
    <3>4. CASE s = "Opened"
      <4>1. handle' = TRUE /\ Then(<<>>)
        BY <3>3, <3>4 DEF HandleStep, Op
      <4>2. code' = Play(size)
        BY <3>2, <4>1, PartsAreSeqs, EmptyFirst DEF Then
      <4>3. PlayCode'
        BY <4>2 DEF PlayCode
      <4>4. QED
        BY <4>1, <4>3 DEF HdmiControl
    <3>5. CASE s = "Return"
      <4>1. handle' = handle /\ code' = <<>>
        BY <3>3, <3>5 DEF HandleStep, Op
      <4>2. ~handle'
        BY <2>2, <4>1
      <4>3. QED
        BY <1>4, <4>1, <4>2 DEF HdmiControl
    <3>6. QED
      BY <3>1, <3>4, <3>5
  <2>3. QED
    BY <1>2, <2>1, <2>2
<1>6. QED
  BY <1>2, <1>3, <1>4, <1>5 DEF BuffersInv

\* Where the client thread is when it lends a buffer, and when it plays one.
LEMMA LendingAt ==
  ASSUME BuffersInv, Op("GetBuffer")
  PROVE  /\ user = "hdmi" /\ handle
         /\ \E size : Tail(code) = <<<<"PlayBuffer", size>>>>
<1>1. code # <<>> /\ Head(code)[1] = "GetBuffer"
  BY DEF Op
<1>2. user = "hdmi" /\ ~ClosingCode /\ ~BuffersThere /\ ~BeforeBuffers
  BY <1>1, SinkIsHdmi DEF SinkNames
<1>3. ~OpenCode /\ ~ClosedCode /\ ~HandleCode /\ ~PutCode /\ code # Crashed
  BY <1>1, Heads
<1>4. handle /\ PlayCode
  BY <1>1, <1>2, <1>3 DEF BuffersInv, HdmiControl
<1>5. QED
  BY <1>2, <1>4, Heads DEF PlayCode

LEMMA PlayingAt ==
  ASSUME BuffersInv, Op("PlayBuffer")
  PROVE  user = "hdmi" /\ handle /\ PutCode /\ NewestLent
<1>1. code # <<>> /\ Head(code)[1] = "PlayBuffer"
  BY DEF Op
<1>2. user = "hdmi" /\ ~ClosingCode /\ ~BuffersThere /\ ~BeforeBuffers
  BY <1>1, SinkIsHdmi DEF SinkNames
<1>3. ~OpenCode /\ ~ClosedCode /\ ~HandleCode /\ ~PlayCode /\ code # Crashed
  BY <1>1, Heads
<1>4. QED
  BY <1>1, <1>2, <1>3 DEF BuffersInv, HdmiControl

LEMMA GetKeeps == ASSUME BuffersInv, GetBuffer PROVE BuffersInv'
<1>1. /\ user = "hdmi" /\ handle
      /\ \E size : Tail(code) = <<<<"PlayBuffer", size>>>>
  BY LendingAt DEF GetBuffer
<1>2. UNCHANGED <<omx, calls, user, handle, played>>
  BY DEF GetBuffer
<1>3. PICK buffer \in 0 .. NumBuffers :
        /\ ilclient_get_input_buffer(buffer)
        /\ IF buffer = 0
           THEN code' = Crashed /\ UNCHANGED <<user_list, what, sent>>
           ELSE /\ user_list' = <<buffer>> \o user_list
                /\ what' = [what EXCEPT ![buffer] = sent + 1]
                /\ sent' = sent + 1
                /\ Then(<<>>)
  BY DEF GetBuffer
<1>4. /\ in_list \in Seq(Buffers) /\ user_list \in Seq(Buffers)
      /\ omx["render"].held \in Seq(Buffers) /\ calls["render"] \in Seq(Calls)
  BY DEF BuffersInv, IlTypeOK, SinkTypeOK, OmxRec, Components
<1>5. Once(in_list, user_list, omx["render"].held, calls["render"])
  BY DEF BuffersInv, PlacesOnce
<1>6. NoBuffers("source")'
  BY <1>2 DEF BuffersInv, NoBuffers
<1>7. CASE buffer = 0
  <2>1. in_list = <<>>
    <3>1. in_list # <<>> => Head(in_list) \in Buffers
      BY <1>4
    <3>2. QED
      BY <1>3, <1>7, <3>1 DEF ilclient_get_input_buffer, Buffers
  <2>2. in_list' = in_list
    BY <1>3, <2>1 DEF ilclient_get_input_buffer
  <2>3. IlTypeOK' /\ SinkTypeOK' /\ PlacesOnce' /\ Queued'
    BY <1>2, <1>3, <1>7, <2>2
       DEF BuffersInv, Queued, IlTypeOK, SinkTypeOK, PlacesOnce
  <2>4. HdmiControl'
    BY <1>3, <1>7 DEF HdmiControl
  <2>5. QED
    BY <1>1, <1>2, <1>6, <2>3, <2>4 DEF BuffersInv
<1>8. CASE buffer # 0
  <2>1. /\ in_list # <<>> /\ buffer = Head(in_list) /\ in_list' = Tail(in_list)
    BY <1>3, <1>8 DEF ilclient_get_input_buffer
  <2>2. /\ user_list' = <<buffer>> \o user_list /\ sent' = sent + 1
        /\ what' = [what EXCEPT ![buffer] = sent + 1] /\ Then(<<>>)
    BY <1>3, <1>8
  <2>3. buffer \in Buffers /\ in_list' \in Seq(Buffers)
    BY <1>4, <2>1
  <2>4. user_list' \in Seq(Buffers) /\ user_list' # <<>>
    BY <1>4, <2>2, <2>3
  <2>5. IlTypeOK'
    BY <1>2, <2>3 DEF BuffersInv, IlTypeOK
  <2>6. SinkTypeOK'
    BY <1>2, <2>2, <2>3, <2>4 DEF BuffersInv, SinkTypeOK
  <2>7. PlacesOnce'
    <3>1. Once(Tail(in_list), <<Head(in_list)>> \o user_list,
               omx["render"].held, calls["render"])
      BY <1>4, <1>5, <2>1, OnceLent
    <3>2. QED
      BY <1>2, <2>1, <2>2, <3>1 DEF PlacesOnce
  <2>8. PutCode'
    <3>1. PICK size : Tail(code) = <<<<"PlayBuffer", size>>>>
      BY <1>1
    <3>2. code' = <<<<"PlayBuffer", size>>>>
      BY <2>2, <3>1 DEF Then
    <3>3. QED
      BY <3>2 DEF PutCode
  <2>9. Queued' /\ NewestLent'
    <3> DEFINE h == omx["render"].held
    <3>1. /\ sent \in Nat /\ played \in Nat /\ played <= sent
          /\ what \in [Buffers -> Nat]
          /\ \A i \in DOMAIN h : what[h[i]] <= sent
      BY DEF BuffersInv, SinkTypeOK, Queued
    <3>2. ASSUME NEW i \in DOMAIN h PROVE what'[h[i]] = what[h[i]]
      <4>1. h[i] \in Buffers
        BY <1>4
      <4>2. 1 \in DOMAIN in_list /\ buffer = in_list[1]
        BY <1>4, <2>1
      <4>3. h[i] # buffer
        BY <1>5, <4>2 DEF Once, Apart
      <4>4. QED
        BY <2>2, <3>1, <4>1, <4>3
    <3>3. what'[buffer] = sent + 1 /\ Head(user_list') = buffer
      BY <1>4, <2>2, <2>3, <3>1
    <3>4. ASSUME NEW i \in DOMAIN h
          PROVE  what[h[i]] \in Nat /\ what[h[i]] < sent + 1
                 /\ what[h[i]] <= sent + 1
      BY <1>4, <3>1
    <3>5. played < sent + 1 /\ played <= sent + 1
      BY <3>1
    <3>6. omx' = omx /\ played' = played /\ sent' = sent + 1
      BY <1>2, <2>2
    <3>7. QED
      BY <2>4, <3>2, <3>3, <3>4, <3>5, <3>6 DEF Queued, NewestLent
  <2>10. HdmiControl'
    BY <1>1, <1>2, <2>8, <2>9 DEF HdmiControl
  <2>11. QED
    BY <1>1, <1>2, <1>6, <2>5, <2>6, <2>7, <2>9, <2>10 DEF BuffersInv
<1>9. QED
  BY <1>7, <1>8

LEMMA PlayKeeps == ASSUME BuffersInv, PlayBuffer PROVE BuffersInv'
<1>1. /\ user = "hdmi" /\ handle /\ PutCode /\ user_list # <<>>
      /\ NewestLent /\ Queued
  BY PlayingAt DEF PlayBuffer, NewestLent, BuffersInv
<1>2. UNCHANGED <<in_list, calls, user, handle, what, sent, played>>
  BY DEF PlayBuffer
<1>3. {"source", "render"} \subseteq Components
  BY DEF Components
<1>4. /\ in_list \in Seq(Buffers) /\ user_list \in Seq(Buffers)
      /\ omx["render"].held \in Seq(Buffers) /\ calls["render"] \in Seq(Calls)
  BY DEF BuffersInv, IlTypeOK, SinkTypeOK, OmxRec, Components
<1>5. CASE code' = Crashed /\ UNCHANGED <<omx, user_list>>
  <2>1. /\ IlTypeOK' /\ SinkTypeOK' /\ PlacesOnce' /\ NoBuffers("source")'
        /\ Queued'
    BY <1>2, <1>5
       DEF BuffersInv, Queued, IlTypeOK, SinkTypeOK, PlacesOnce, NoBuffers
  <2>2. QED
    BY <1>1, <1>2, <1>5, <2>1 DEF BuffersInv, HdmiControl
<1>6. CASE /\ omx' = [omx EXCEPT !["render"].held = Append(@, Head(user_list))]
           /\ user_list' = Tail(user_list)
           /\ Then(<<>>)
  <2> DEFINE held == Append(omx["render"].held, Head(user_list))
             o == [omx["render"] EXCEPT !.held = held]
  <2>1. omx["render"] \in OmxRec
    BY <1>3 DEF BuffersInv, IlTypeOK
  <2>2. held \in Seq(Buffers) /\ Tail(user_list) \in Seq(Buffers)
    BY <1>1, <1>4
  <2>3. omx' = [omx EXCEPT !["render"] = o]
    BY <1>3, <1>6 DEF BuffersInv, IlTypeOK
  <2>4. o \in OmxRec /\ o.held = held
    <3> HIDE DEF held
    <3>1. QED
      BY <2>1, <2>2 DEF OmxRec
  <2> HIDE DEF o, held
  <2>5. /\ omx' \in [Components -> OmxRec] /\ omx'["source"] = omx["source"]
        /\ omx'["render"].held = held
    BY <1>3, <2>3, <2>4 DEF BuffersInv, IlTypeOK
  <2>6. IlTypeOK' /\ SinkTypeOK' /\ NoBuffers("source")'
    BY <1>2, <1>6, <2>2, <2>5 DEF BuffersInv, IlTypeOK, SinkTypeOK, NoBuffers
  <2>7. PlacesOnce'
    <3>1. Once(in_list, user_list, omx["render"].held, calls["render"])
      BY DEF BuffersInv, PlacesOnce
    <3>2. Once(in_list, Tail(user_list), held, calls["render"])
      BY <1>1, <1>4, <3>1, OncePlayed DEF held
    <3>3. QED
      BY <1>2, <1>6, <2>5, <3>2 DEF PlacesOnce
  <2>8. code' = <<>>
    <3>1. Tail(code) = <<>>
      BY <1>1, Heads
    <3>2. QED
      BY <1>6, <3>1 DEF Then
  <2>9. Queued'
    <3> DEFINE h == omx["render"].held
    <3>1. DOMAIN held = DOMAIN h \cup {Len(h) + 1}
      BY <1>1, <1>4 DEF held
    <3>2. /\ held[Len(h) + 1] = Head(user_list)
          /\ \A i \in DOMAIN h : held[i] = h[i]
      BY <1>1, <1>4 DEF held
    <3>3. \A i \in DOMAIN held : what[held[i]] <= sent
      BY <1>1, <3>1, <3>2 DEF NewestLent, Queued, BuffersInv, SinkTypeOK
    <3>4. QED
      BY <1>1, <1>2, <2>5, <3>3 DEF Queued
  <2>10. QED
    BY <1>1, <1>2, <2>6, <2>7, <2>8, <2>9 DEF BuffersInv, HdmiControl
<1>7. QED
  BY <1>5, <1>6 DEF PlayBuffer

LEMMA RenderKeeps == ASSUME BuffersInv, Render PROVE BuffersInv'
<1> DEFINE h == omx["render"].held
           e == <<"EmptyBufferDone", Head(h)>>
<1>1. h # <<>>
  BY DEF Render
<1>2. UNCHANGED <<in_list, code, user, handle, user_list, what, sent>>
  BY DEF Render, threadVars
<1>3. {"source", "render"} \subseteq Components
  BY DEF Components
<1>4. /\ in_list \in Seq(Buffers) /\ user_list \in Seq(Buffers)
      /\ h \in Seq(Buffers) /\ calls["render"] \in Seq(Calls)
      /\ omx["render"] \in OmxRec
  BY DEF BuffersInv, IlTypeOK, SinkTypeOK, OmxRec, Components
<1>5. Head(h) \in Buffers /\ Tail(h) \in Seq(Buffers)
  BY <1>1, <1>4
<1>6. /\ omx' \in [Components -> OmxRec] /\ omx'["source"] = omx["source"]
      /\ omx'["render"].held = Tail(h)
  <2> DEFINE o == [omx["render"] EXCEPT !.held = Tail(h)]
  <2>1. omx' = [omx EXCEPT !["render"] = o]
    BY <1>3 DEF Render, BuffersInv, IlTypeOK
  <2>2. o \in OmxRec /\ o.held = Tail(h)
    <3> HIDE DEF h
    <3>1. QED
      BY <1>4, <1>5 DEF OmxRec
  <2> HIDE DEF o
  <2>3. QED
    BY <1>3, <2>1, <2>2 DEF BuffersInv, IlTypeOK
<1>7. e \in Calls
  BY <1>5 DEF Calls
<1>8. calls' = [calls EXCEPT !["render"] = Append(@, e)]
  BY DEF Render
<1> HIDE DEF e
<1>9. /\ calls' \in [Components -> Seq(Calls)]
      /\ calls'["source"] = calls["source"]
      /\ calls'["render"] = Append(calls["render"], e)
  BY <1>3, <1>4, <1>7, <1>8 DEF BuffersInv, IlTypeOK
<1>10. played' \in Nat
  BY <1>5 DEF Render, BuffersInv, SinkTypeOK
<1>11. IlTypeOK' /\ SinkTypeOK' /\ NoBuffers("source")'
  BY <1>2, <1>6, <1>9, <1>10
     DEF BuffersInv, IlTypeOK, SinkTypeOK, NoBuffers
<1>12. PlacesOnce'
  <2>1. Once(in_list, user_list, h, calls["render"])
    BY DEF BuffersInv, PlacesOnce
  <2>2. Once(in_list, user_list, Tail(h), Append(calls["render"], e))
    BY <1>1, <1>4, <2>1, OnceRendered DEF e
  <2>3. QED
    BY <1>2, <1>6, <1>9, <2>2 DEF PlacesOnce
<1>13. Queued' /\ (NewestLent => NewestLent')
  <2>1. /\ \A i \in DOMAIN Tail(h) : /\ i + 1 \in DOMAIN h
                                     /\ Tail(h)[i] = h[i + 1]
        /\ 1 \in DOMAIN h /\ Head(h) = h[1]
    BY <1>1, <1>4
  <2>2. played' = what[h[1]]
    BY <2>1 DEF Render
  <2>3. Queued
    BY DEF BuffersInv
  <2> HIDE DEF h
  <2>4. Queued'
    BY <1>2, <1>6, <2>1, <2>2, <2>3 DEF Queued, h
  <2>5. NewestLent => NewestLent'
    BY <1>2, <1>6, <2>1, <2>2 DEF NewestLent, h
  <2>6. QED
    BY <2>4, <2>5
<1>14. ~NoBuffers("render")
  BY <1>1 DEF NoBuffers
<1>15. user = "hdmi"
  BY <1>14 DEF BuffersInv, TunnelControl
<1>16. HdmiControl'
  <2>1. /\ PlayCode => PlayCode'
        /\ PutCode => PutCode'
        /\ ClosingCode => ClosingCode'
    BY <1>2 DEF PlayCode, PutCode, ClosingCode
  <2>2. HdmiControl
    BY <1>15 DEF BuffersInv
  <2>3. \/ code' = Crashed
        \/ /\ handle'
           /\ \/ code' = <<>> \/ PlayCode'
              \/ PutCode' /\ NewestLent'
              \/ ClosingCode'
    BY <1>2, <1>14, <1>13, <2>1, <2>2 DEF HdmiControl
  <2>4. QED
    BY <2>3, Zenon DEF HdmiControl
<1>17. QED
  BY <1>2, <1>11, <1>12, <1>15, <1>16, <1>13 DEF BuffersInv

\* The client of the tunnel calls the library, and calls it plainly.
LEMMA TunnelKeeps == ASSUME BuffersInv, TunnelClient PROVE BuffersInv'
<1>1. {"source", "render"} \subseteq Components
      /\ {"Executing", "Idle", "Loaded"} \subseteq States
  BY DEF Components, States
<1>2. PICK timeout \in BOOLEAN :
       code' = ilclient_create_component("source")
                 \o ilclient_create_component("render")
                 \o ilclient_setup_tunnel(timeout)
                 \o Branch(ilclient_state_transition("Executing")
                             \o ilclient_flush_tunnels
                             \o ilclient_disable_tunnel
                             \o <<SetupTunnel(FALSE)>>
                             \o ilclient_state_transition("Idle")
                             \o ilclient_state_transition("Loaded"), <<>>)
                 \o ilclient_cleanup_components(<<"source", "render">>)
  BY DEF TunnelClient
<1> DEFINE a == ilclient_create_component("source")
           b == ilclient_create_component("render")
           c == ilclient_setup_tunnel(timeout)
           d == ilclient_state_transition("Executing")
           e == ilclient_flush_tunnels
           f == ilclient_disable_tunnel
           g == <<SetupTunnel(FALSE)>>
           h == ilclient_state_transition("Idle")
           i == ilclient_state_transition("Loaded")
           j == ilclient_cleanup_components(<<"source", "render">>)
<1>3. /\ PlainCode(a) /\ PlainCode(b) /\ PlainCode(c) /\ PlainCode(d)
      /\ PlainCode(e) /\ PlainCode(f) /\ PlainCode(h) /\ PlainCode(i)
      /\ PlainCode(j)
  BY <1>1, CreateIsPlain, SetupTunnelIsPlain, TransitionIsPlain, FlushIsPlain,
     DisableTunnelIsPlain, CleanupIsPlain
<1>4. PlainCode(g)
  BY StepsArePlain, PlainOne
<1>5. code' = a \o b \o c \o Branch(d \o e \o f \o g \o h \o i, <<>>) \o j
  BY <1>2
<1> HIDE DEF a, b, c, d, e, f, g, h, i, j
<1>6. PlainCode(d \o e \o f \o g \o h \o i)
  BY <1>3, <1>4, PlainJoin
<1>7. PlainCode(Branch(d \o e \o f \o g \o h \o i, <<>>))
  BY <1>6, PlainEmpty, PlainBranch
<1>8. PlainCode(code')
  BY <1>3, <1>5, <1>7, PlainJoin
<1>9. UNCHANGED <<in_list, omx, calls, user, user_list, what, sent, played>>
      /\ handle' = TRUE /\ user = "tunnel"
  BY DEF TunnelClient, OnlyThread
<1>10. /\ IlTypeOK' /\ SinkTypeOK' /\ PlacesOnce' /\ NoBuffers("source")'
       /\ Queued'
  BY <1>9 DEF BuffersInv, Queued, IlTypeOK, SinkTypeOK, PlacesOnce, NoBuffers
<1>11. TunnelControl'
  BY <1>8, <1>9 DEF BuffersInv, TunnelControl, NoBuffers
<1>12. QED
  BY <1>9, <1>10, <1>11 DEF BuffersInv

LEMMA BuffersInit == Init => BuffersInv
<1> SUFFICES ASSUME Init PROVE BuffersInv
  OBVIOUS
<1>1. /\ code = <<>> /\ in_list = <<>> /\ user_list = <<>> /\ handle = FALSE
      /\ omx = [c \in Components |-> FreshOmx]
      /\ calls = [c \in Components |-> <<>>]
      /\ what = [b \in Buffers |-> 0] /\ sent = 0 /\ played = 0
  BY DEF Init, IlInit
<1>2. /\ <<>> \in Seq(Buffers) /\ <<>> \in Seq(Calls) /\ DOMAIN <<>> = {}
      /\ {"source", "render"} \subseteq Components
  BY DEF Components
<1>3. IlTypeOK /\ SinkTypeOK
  BY <1>1, <1>2, FreshType DEF IlTypeOK, SinkTypeOK
<1>4. NoBuffers("source") /\ NoBuffers("render")
  BY <1>1, <1>2, FreshType DEF NoBuffers, Back
<1>5. PlacesOnce
  BY <1>1, <1>2, <1>4 DEF PlacesOnce, NoBuffers, Once, Distinct, Apart,
                          BackDistinct, BackApart
<1>6. Queued
  BY <1>1, <1>2, <1>4 DEF Queued, NoBuffers
<1>7. HdmiControl
  BY <1>1, <1>4 DEF HdmiControl
<1>8. TunnelControl
  BY <1>1, <1>4, PlainEmpty DEF TunnelControl
<1>9. QED
  BY <1>1, <1>3, <1>4, <1>5, <1>7, <1>8, <1>6 DEF BuffersInv

LEMMA BuffersNext == BuffersInv /\ [Next]_vars => BuffersInv'
<1> SUFFICES ASSUME BuffersInv, [Next]_vars PROVE BuffersInv'
  OBVIOUS
<1>1. CASE Run
  <2>1. CASE SinkStep
    BY <2>1, OpeningKeeps, HandleKeeps, GetKeeps, PlayKeeps DEF SinkStep
  <2>2. QED
    BY <1>1, <2>1, ClientKeeps, RenderKeeps, OmxKeeps DEF Run
<1>2. CASE UNCHANGED vars
  <2>1. UNCHANGED <<in_list, omx, calls, code, user, handle, user_list, what,
                    sent, played>>
    BY <1>2 DEF vars, ilVars, sinkVars, threadVars
  <2>2. /\ PlayCode => PlayCode'
        /\ PutCode => PutCode'
        /\ ClosingCode => ClosingCode'
        /\ ClosedCode => ClosedCode'
        /\ OpenCode => OpenCode'
        /\ BuffersThere => BuffersThere'
        /\ HandleCode => HandleCode'
        /\ BeforeBuffers => BeforeBuffers'
    BY <2>1 DEF PlayCode, PutCode, ClosingCode, ClosedCode, OpenCode,
                BuffersThere, HandleCode, BeforeBuffers
  <2>3. NoBuffers("render") <=> NoBuffers("render")'
    BY <2>1 DEF NoBuffers
  <2>4. HdmiControl => HdmiControl'
    <3>1. NewestLent <=> NewestLent'
      BY <2>1 DEF NewestLent
    <3>2. QED
      BY <2>1, <2>2, <2>3, <3>1 DEF HdmiControl
  <2>5. TunnelControl => TunnelControl'
    BY <2>1, <2>3 DEF TunnelControl
  <2>6. /\ IlTypeOK' /\ SinkTypeOK' /\ PlacesOnce' /\ NoBuffers("source")'
        /\ Queued'
    BY <2>1 DEF BuffersInv, Queued, IlTypeOK, SinkTypeOK, PlacesOnce, NoBuffers
  <2>7. QED
    BY <2>1, <2>4, <2>5, <2>6 DEF BuffersInv
<1>3. QED
  BY <1>1, <1>2, ProcessKeeps, StopKeeps, TunnelKeeps, OmxKeeps DEF Next

LEMMA BuffersAlways == Spec => []BuffersInv
  BY BuffersInit, BuffersNext, PTL DEF Spec

\* A buffer of the port is on one list and once on it, however many buffers
\* there are, whatever fails while the port is enabled or disabled, and
\* whenever the renderer returns them.
THEOREM BufferStaysOnce == Spec => []BufferOnce
<1>1. BuffersInv => BufferOnce
  BY OnceIsBufferOnce DEF BuffersInv, PlacesOnce
<1>2. QED
  BY <1>1, BuffersAlways, PTL
-----------------------------------------------------------------------------
(* The sink implements a queue of chunks.                                  *)

\* The queue that the buffers in the renderer stand for.
Queue == [i \in 1 .. Len(omx["render"].held) |-> what[omx["render"].held[i]]]

\* The steps of the queue, seen from the sink.
LEMMA QueueSteps ==
  /\ Queue' = Queue /\ sent' = sent /\ played' = played
       => UNCHANGED Chunks!queueVars
  /\ Queue' = Queue /\ sent' = sent + 1 /\ played' = played => Chunks!Arrive
  /\ sent > played /\ (\A i \in 1 .. Len(Queue) : Queue[i] < sent)
         /\ Queue' = Append(Queue, sent) /\ sent' = sent /\ played' = played
       => Chunks!Put
  /\ Queue # <<>> /\ played' = Head(Queue) /\ Queue' = Tail(Queue)
         /\ sent' = sent
       => Chunks!Hear
  /\ Queue # <<>> /\ Queue' = <<>> /\ sent' = sent /\ played' = played
       => Chunks!Close
<1>1. Queue' = Queue /\ sent' = sent /\ played' = played
        => UNCHANGED Chunks!queueVars
  BY DEF Chunks!queueVars, Queue
<1>2. Queue' = Queue /\ sent' = sent + 1 /\ played' = played => Chunks!Arrive
  BY DEF Chunks!Arrive, Queue
<1>3. ASSUME sent > played, \A i \in 1 .. Len(Queue) : Queue[i] < sent,
             Queue' = Append(Queue, sent), sent' = sent, played' = played
      PROVE  Chunks!Put
  BY <1>3 DEF Chunks!Put, Queue
<1>4. ASSUME Queue # <<>>, played' = Head(Queue), Queue' = Tail(Queue),
             sent' = sent
      PROVE  Chunks!Hear
  BY <1>4 DEF Chunks!Hear, Queue
<1>5. ASSUME Queue # <<>>, Queue' = <<>>, sent' = sent, played' = played
      PROVE  Chunks!Close
  BY <1>5 DEF Chunks!Close, Queue
<1>6. QED
  BY <1>1, <1>2, <1>3, <1>4, <1>5

\* The chunks in the buffers of h.
ChunksIn(w, h) == [i \in 1 .. Len(h) |-> w[h[i]]]

LEMMA ChunksType ==
  ASSUME NEW h \in Seq(Buffers), NEW w \in [Buffers -> Nat]
  PROVE  /\ ChunksIn(w, h) \in Seq(Nat) /\ Len(ChunksIn(w, h)) = Len(h)
         /\ \A i \in 1 .. Len(h) : ChunksIn(w, h)[i] = w[h[i]]
<1>1. \A i \in 1 .. Len(h) : w[h[i]] \in Nat
  OBVIOUS
<1>2. QED
  BY <1>1 DEF ChunksIn

LEMMA ChunkPut ==
  ASSUME NEW h \in Seq(Buffers), NEW w \in [Buffers -> Nat], NEW b \in Buffers
  PROVE  ChunksIn(w, Append(h, b)) = Append(ChunksIn(w, h), w[b])
<1> DEFINE k == Append(h, b)
           p == ChunksIn(w, k)
           q == Append(ChunksIn(w, h), w[b])
<1>1. /\ k \in Seq(Buffers) /\ Len(k) = Len(h) + 1 /\ Len(h) \in Nat
      /\ \A i \in 1 .. Len(h) : k[i] = h[i]
      /\ k[Len(h) + 1] = b
  OBVIOUS
<1>2. w[b] \in Nat
  OBVIOUS
<1> HIDE DEF k
<1>3. /\ p \in Seq(Nat) /\ Len(p) = Len(k)
      /\ \A i \in 1 .. Len(k) : p[i] = w[k[i]]
  BY <1>1, ChunksType
<1>4. /\ q \in Seq(Nat) /\ Len(q) = Len(h) + 1
      /\ \A i \in 1 .. Len(h) : q[i] = w[h[i]]
      /\ q[Len(h) + 1] = w[b]
  BY <1>1, <1>2, ChunksType
<1> HIDE DEF p, q
<1>5. ASSUME NEW i \in 1 .. Len(p) PROVE p[i] = q[i]
  <2>1. p[i] = w[k[i]]
    BY <1>3
  <2>2. i \in 1 .. Len(h) \/ i = Len(h) + 1
    BY <1>1, <1>3
  <2>3. QED
    BY <1>1, <1>4, <2>1, <2>2
<1>6. p = q
  BY <1>1, <1>3, <1>4, <1>5, SeqEqual
<1>7. QED
  BY <1>6 DEF p, q, k

LEMMA ChunkHeard ==
  ASSUME NEW h \in Seq(Buffers), NEW w \in [Buffers -> Nat], h # <<>>
  PROVE  /\ ChunksIn(w, h) # <<>> /\ Head(ChunksIn(w, h)) = w[Head(h)]
         /\ ChunksIn(w, Tail(h)) = Tail(ChunksIn(w, h))
<1> DEFINE k == Tail(h)
           c == ChunksIn(w, h)
           p == ChunksIn(w, k)
           q == Tail(c)
<1>1. /\ k \in Seq(Buffers) /\ Len(k) = Len(h) - 1
      /\ Len(h) \in Nat /\ Len(h) > 0
      /\ \A i \in 1 .. Len(k) : k[i] = h[i + 1]
      /\ Head(h) = h[1]
  OBVIOUS
<1>2. /\ c \in Seq(Nat) /\ Len(c) = Len(h)
      /\ \A i \in 1 .. Len(h) : c[i] = w[h[i]]
  BY ChunksType
<1> HIDE DEF k, c
<1>3. c # <<>> /\ Head(c) = w[Head(h)]
  BY <1>1, <1>2
<1>4. /\ p \in Seq(Nat) /\ Len(p) = Len(k)
      /\ \A i \in 1 .. Len(k) : p[i] = w[k[i]]
  BY <1>1, ChunksType
<1>5. /\ q \in Seq(Nat) /\ Len(q) = Len(h) - 1
      /\ \A i \in 1 .. Len(h) - 1 : q[i] = c[i + 1]
  BY <1>1, <1>2, <1>3
<1> HIDE DEF p, q
<1>6. ASSUME NEW i \in 1 .. Len(p) PROVE p[i] = q[i]
  <2>1. i \in 1 .. Len(h) - 1 /\ i + 1 \in 1 .. Len(h)
    BY <1>1, <1>4
  <2>2. p[i] = w[h[i + 1]]
    BY <1>1, <1>4
  <2>3. q[i] = w[h[i + 1]]
    BY <1>2, <1>5, <2>1
  <2>4. QED
    BY <2>2, <2>3
<1>7. p = q
  BY <1>1, <1>4, <1>5, <1>6, SeqEqual
<1>8. QED
  BY <1>3, <1>7 DEF p, q, k, c

LEMMA QueueType ==
  ASSUME BuffersInv
  PROVE  /\ omx["render"].held \in Seq(Buffers) /\ what \in [Buffers -> Nat]
         /\ Queue = ChunksIn(what, omx["render"].held)
  BY DEF BuffersInv, IlTypeOK, SinkTypeOK, OmxRec, Components, Queue, ChunksIn

\* The device keeps its buffers, or gives all of them up.
LEMMA QueueDropped ==
  ASSUME BuffersInv, UNCHANGED <<what, sent, played>>,
         omx'["render"].held \in {omx["render"].held, <<>>}
  PROVE  [Chunks!QueueNext]_(Chunks!queueVars)
<1>1. CASE omx'["render"].held = omx["render"].held
  <2>1. Queue' = Queue
    BY <1>1 DEF Queue
  <2>2. QED
    BY <2>1, QueueSteps
<1>2. CASE omx'["render"].held = <<>>
  <2>1. Queue' = <<>>
    BY <1>2 DEF Queue
  <2>2. CASE Queue = <<>>
    BY <2>1, <2>2, QueueSteps
  <2>3. CASE Queue # <<>>
    BY <2>1, <2>3, QueueSteps DEF Chunks!QueueNext
  <2>4. QED
    BY <2>2, <2>3
<1>3. QED
  BY <1>1, <1>2

LEMMA GetArrives ==
  ASSUME BuffersInv, GetBuffer PROVE [Chunks!QueueNext]_(Chunks!queueVars)
<1> DEFINE h == omx["render"].held
<1>1. UNCHANGED <<omx, played>>
  BY DEF GetBuffer
<1>2. PICK buffer \in 0 .. NumBuffers :
        /\ ilclient_get_input_buffer(buffer)
        /\ IF buffer = 0
           THEN code' = Crashed /\ UNCHANGED <<user_list, what, sent>>
           ELSE /\ user_list' = <<buffer>> \o user_list
                /\ what' = [what EXCEPT ![buffer] = sent + 1]
                /\ sent' = sent + 1
                /\ Then(<<>>)
  BY DEF GetBuffer
<1>3. CASE buffer = 0
  BY <1>1, <1>2, <1>3, QueueDropped
<1>4. CASE buffer # 0
  <2>1. h \in Seq(Buffers) /\ what \in [Buffers -> Nat]
    BY QueueType
  <2>2. in_list # <<>> /\ buffer = Head(in_list)
    BY <1>2, <1>4 DEF ilclient_get_input_buffer
  <2>3. 1 \in DOMAIN in_list /\ buffer = in_list[1]
    BY <2>2 DEF BuffersInv, IlTypeOK
  <2>4. \A i \in 1 .. Len(h) : h[i] # buffer /\ h[i] \in Buffers
    BY <2>1, <2>3 DEF BuffersInv, PlacesOnce, Once, Apart
  <2>5. \A i \in 1 .. Len(h) : what'[h[i]] = what[h[i]]
    BY <1>2, <1>4, <2>1, <2>4
  <2>6. Queue' = Queue
    BY <1>1, <2>5 DEF Queue
  <2>7. QED
    BY <1>1, <1>2, <1>4, <2>6, QueueSteps DEF Chunks!QueueNext
<1>5. QED
  BY <1>3, <1>4

LEMMA PlayPuts ==
  ASSUME BuffersInv, PlayBuffer, BuffersInv'
  PROVE  [Chunks!QueueNext]_(Chunks!queueVars)
<1> DEFINE h == omx["render"].held
           k == omx'["render"].held
<1>1. UNCHANGED <<what, sent, played>>
  BY DEF PlayBuffer
<1>2. CASE omx' = omx
  BY <1>1, <1>2, QueueDropped
<1>3. CASE omx' = [omx EXCEPT !["render"].held = Append(@, Head(user_list))]
  <2>1. /\ NewestLent /\ user_list \in Seq(Buffers)
        /\ sent \in Nat /\ played \in Nat
    BY PlayingAt DEF PlayBuffer, BuffersInv, SinkTypeOK
  <2>2. /\ h \in Seq(Buffers) /\ what \in [Buffers -> Nat]
        /\ Queue = ChunksIn(what, h)
    BY QueueType
  <2>3. k = Append(h, Head(user_list))
    BY <1>3 DEF BuffersInv, IlTypeOK, OmxRec, Components
  <2>4. Head(user_list) \in Buffers /\ what[Head(user_list)] = sent
    BY <2>1 DEF NewestLent
  <2>5. Queue' = ChunksIn(what, k)
    BY <1>1 DEF Queue, ChunksIn
  <2>6. \A i \in 1 .. Len(Queue) : Queue[i] < sent
    BY <2>1, <2>2, ChunksType DEF NewestLent
  <2>7. played < sent
    BY <2>1 DEF NewestLent
  <2> HIDE DEF h, k
  <2>8. ChunksIn(what, k) = Append(ChunksIn(what, h), sent)
    BY <2>2, <2>3, <2>4, ChunkPut
  <2>9. Queue' = Append(Queue, sent)
    BY <2>2, <2>5, <2>8
  <2>10. Chunks!Put
    BY <1>1, <2>1, <2>6, <2>7, <2>9, QueueSteps
  <2>11. QED
    BY <2>10 DEF Chunks!QueueNext
<1>4. QED
  BY <1>2, <1>3 DEF PlayBuffer

LEMMA RenderHears ==
  ASSUME BuffersInv, Render PROVE [Chunks!QueueNext]_(Chunks!queueVars)
<1> DEFINE h == omx["render"].held
           k == omx'["render"].held
<1>1. /\ h # <<>> /\ played' = what[Head(h)]
      /\ UNCHANGED <<what, sent>>
  BY DEF Render
<1>2. /\ h \in Seq(Buffers) /\ what \in [Buffers -> Nat]
      /\ Queue = ChunksIn(what, h)
  BY QueueType
<1>3. k = Tail(h)
  BY DEF Render, BuffersInv, IlTypeOK, OmxRec, Components
<1>4. Queue' = ChunksIn(what, k)
  BY <1>1 DEF Queue, ChunksIn
<1> HIDE DEF h, k
<1>5. /\ ChunksIn(what, h) # <<>> /\ Head(ChunksIn(what, h)) = what[Head(h)]
      /\ ChunksIn(what, Tail(h)) = Tail(ChunksIn(what, h))
  BY <1>1, <1>2, ChunkHeard
<1>6. Queue # <<>> /\ Head(Queue) = what[Head(h)]
  BY <1>2, <1>5
<1>7. Queue' = Tail(Queue)
  BY <1>2, <1>3, <1>4, <1>5
<1>8. Chunks!Hear
  BY <1>1, <1>6, <1>7, QueueSteps
<1>9. QED
  BY <1>8 DEF Chunks!QueueNext

LEMMA QueueStarts == Init => Chunks!QueueInit
<1> SUFFICES ASSUME Init PROVE Chunks!QueueInit
  OBVIOUS
<1>1. omx["render"].held = <<>> /\ sent = 0 /\ played = 0
  BY FreshType DEF Init, IlInit, Components
<1>2. [i \in 1 .. Len(omx["render"].held) |-> what[omx["render"].held[i]]]
        = <<>>
  BY <1>1
<1>3. QED
  BY <1>1, <1>2 DEF Chunks!QueueInit

LEMMA SinkSteps ==
  BuffersInv /\ BuffersInv' /\ [Next]_vars
    => [Chunks!QueueNext]_(Chunks!queueVars)
<1> SUFFICES ASSUME BuffersInv, BuffersInv', [Next]_vars
             PROVE  [Chunks!QueueNext]_(Chunks!queueVars)
  OBVIOUS
<1>1. CASE UNCHANGED <<omx, what, sent, played>>
  BY <1>1, QueueDropped
<1>2. CASE \/ \E conf \in Confs, size \in Sizes : OnProcess(conf, size)
           \/ Stop \/ TunnelClient \/ Opening \/ HandleStep \/ UNCHANGED vars
  <2>1. UNCHANGED <<omx, what, sent, played>>
    BY <1>2 DEF OnProcess, Stop, TunnelClient, Opening, HandleStep, OnlyThread,
                vars, ilVars, sinkVars
  <2>2. QED
    BY <1>1, <2>1
<1>3. CASE \/ ClientStep
           \/ \E c \in Components : OmxStep(c) \/ OmxFault(c)
  <2>1. CASE UNCHANGED sinkVars
    <3>1. omx'["render"].held \in {omx["render"].held, <<>>}
      BY <1>3, <2>1, ClientKeeps, OmxKeeps
    <3>2. UNCHANGED <<what, sent, played>>
      BY <2>1 DEF sinkVars
    <3>3. QED
      BY <3>1, <3>2, QueueDropped
  <2>2. QED
    BY <2>1, <1>1, <1>2, GetArrives, PlayPuts, RenderHears
       DEF Next, Run, SinkStep
<1>4. QED
  BY <1>2, <1>3, GetArrives, PlayPuts, RenderHears DEF Next, Run, SinkStep

\* The sink, the library and the component together implement the safety of
\* a queue of chunks, for any number of buffers, chunks and faults: what is
\* heard was put, in that order and once, and closing only loses what was not
\* heard yet.
THEOREM SinkImplementsQueue ==
  Spec => Chunks!QueueInit /\ [][Chunks!QueueNext]_(Chunks!queueVars)
  BY BuffersAlways, QueueStarts, SinkSteps, PTL DEF Spec

-----------------------------------------------------------------------------
(* Event records *)

LEMMA EventsCounted == IsFiniteSet(Events) /\ Cardinality(Events) <= 15
<1> DEFINE e == <<<<"CmdComplete", "StateSet", "Loaded">>,
                  <<"CmdComplete", "StateSet", "Idle">>,
                  <<"CmdComplete", "StateSet", "Executing">>,
                  <<"CmdComplete", "PortEnable", "port">>,
                  <<"CmdComplete", "PortDisable", "port">>,
                  <<"CmdComplete", "Flush", "port">>,
                  <<"Error", "SameState", "cmd">>,
                  <<"Error", "SameState", "async">>,
                  <<"Error", "PortUnpopulated", "cmd">>,
                  <<"Error", "PortUnpopulated", "async">>,
                  <<"Error", "InsufficientResources", "cmd">>,
                  <<"Error", "InsufficientResources", "async">>,
                  <<"Error", "StreamCorrupt", "cmd">>,
                  <<"Error", "StreamCorrupt", "async">>,
                  <<"PortSettingsChanged", "port", "any">>>>
<1>1. ASSUME NEW i \in 1 .. 15 PROVE e[i] \in Events
  BY DEF Events, States
<1>2. ASSUME NEW ev \in Events PROVE \E i \in 1 .. 15 : e[i] = ev
  <2>1. CASE ev \in {"CmdComplete"} \X {"StateSet"} \X States
    BY <2>1 DEF States
  <2>2. CASE ev \in {"CmdComplete"} \X {"PortEnable", "PortDisable", "Flush"}
                     \X {"port"}
    BY <2>2
  <2>3. CASE ev \in {"Error"} \X {"SameState", "PortUnpopulated",
                                "InsufficientResources", "StreamCorrupt"}
                            \X {"cmd", "async"}
    BY <2>3
  <2>4. CASE ev = <<"PortSettingsChanged", "port", "any">>
    BY <2>4
  <2>5. QED
    BY <2>1, <2>2, <2>3, <2>4 DEF Events
<1>3. e \in Surjection(1 .. 15, Events)
  BY <1>1, <1>2, Fun_IsSurj
<1> HIDE DEF e
<1>4. ExistsSurjection(1 .. 15, Events)
  BY <1>3 DEF ExistsSurjection
<1>5. QED
  BY <1>4, FS_NatSurjection, FS_SurjCardinalityBound

LEMMA SmallestIs ==
  ASSUME NEW I \in SUBSET Nat, I # {} PROVE Min(I) \in I
<1> DEFINE R == OpToRel(<, Nat)
<1>1. IsWellFoundedOn(R, Nat)
  BY NatLessThanWellFounded
<1>2. \A y, x \in Nat : y < x => <<y, x>> \in R
  BY DEF OpToRel
<1> HIDE DEF R
<1>3. PICK x \in I : \A y \in I : ~(<<y, x>> \in R)
  BY <1>1, WFMin
<1>4. ASSUME NEW y \in I PROVE x <= y
  <2>1. x \in Nat /\ y \in Nat
    OBVIOUS
  <2>2. ~(y < x)
    BY <1>2, <1>3, <2>1, Zenon
  <2>3. QED
    BY <2>1, <2>2
<1>5. QED
  BY <1>4 DEF Min

LEMMA RankInRange ==
  ASSUME NEW I, IsFiniteSet(I), I \subseteq Nat, NEW i \in I
  PROVE  Cardinality({j \in I : j <= i}) \in 1 .. Cardinality(I)
<1> DEFINE B == {j \in I : j <= i}
<1>1. B \subseteq I
  OBVIOUS
<1>2. IsFiniteSet(B) /\ Cardinality(B) <= Cardinality(I)
  BY <1>1, FS_Subset
<1>3. i \in B
  OBVIOUS
<1> HIDE DEF B
<1>4. Cardinality(B) \in Nat /\ Cardinality(I) \in Nat
  BY <1>2, FS_CardinalityType
<1>5. Cardinality(B) # 0
  BY <1>2, <1>3, FS_EmptySet
<1>6. QED
  BY <1>2, <1>4, <1>5 DEF B

LEMMA RanksDiffer ==
  ASSUME NEW I, IsFiniteSet(I), I \subseteq Nat, NEW i \in I, NEW k \in I,
         i < k
  PROVE  Cardinality({j \in I : j <= i}) # Cardinality({j \in I : j <= k})
<1> DEFINE B == {j \in I : j <= i}
           C == {j \in I : j <= k}
<1>1. IsFiniteSet(B) /\ IsFiniteSet(C)
  BY FS_Subset
<1>2. B \subseteq C /\ k \in C /\ k \notin B
  <2>1. \A j \in Nat : j <= i => j <= k
    OBVIOUS
  <2>2. i \in Nat /\ k \in Nat /\ ~(k <= i) /\ k <= k
    OBVIOUS
  <2>3. QED
    BY <2>1, <2>2
<1> HIDE DEF B, C
<1>3. B \subseteq C /\ B # C
  BY <1>2
<1>4. Cardinality(B) # Cardinality(C)
  BY <1>1, <1>3, FS_Subset, FS_CardinalityType
<1>5. QED
  BY <1>4 DEF B, C

LEMMA DuplicatesGone ==
  ASSUME NEW S, NEW s \in Seq(S)
  PROVE  /\ WithoutDuplicates(s) \in Seq(S)
         /\ Len(WithoutDuplicates(s)) <= Len(s)
         /\ IsFiniteSet(S) =>
              Len(WithoutDuplicates(s)) <= Cardinality(S)
<1> DEFINE I == FirstOnes(s)
           n == Cardinality(I)
           Place(i) == Cardinality({j \in I : j <= i})
           At(k) == CHOOSE i \in I : Place(i) = k
<1>1. I \subseteq 1 .. Len(s)
  BY DEF FirstOnes
<1>2. /\ IsFiniteSet(1 .. Len(s)) /\ Cardinality(1 .. Len(s)) = Len(s)
  <2>1. 1 \in Int /\ Len(s) \in Int /\ Len(s) >= 0
    OBVIOUS
  <2>2. QED
    BY <2>1, FS_Interval
<1>3. IsFiniteSet(I) /\ n \in Nat /\ n <= Len(s)
  BY <1>1, <1>2, FS_Subset, FS_CardinalityType
<1>4. I \subseteq Nat
  BY <1>1
<1>5. \A i, j \in I : s[i] = s[j] => i = j
  <2>1. ASSUME NEW i \in I, NEW j \in I, i < j PROVE s[i] # s[j]
    BY <1>1, <2>1 DEF FirstOnes
  <2>2. QED
    BY <1>4, <2>1
<1> HIDE DEF I
<1>6. ASSUME NEW k \in 1 .. n PROVE \E i \in I : Place(i) = k
  <2> DEFINE f == [i \in I |-> Place(i)]
  <2>1. \A i \in I : f[i] \in 1 .. n
    BY <1>3, <1>4, RankInRange
  <2>2. \A i, j \in I : i < j => f[i] # f[j]
    BY <1>3, <1>4, RanksDiffer
  <2>3. \A i, j \in I : f[i] = f[j] => i = j
    <3> HIDE DEF f
    <3>1. QED
      BY <1>4, <2>2
  <2>4. f \in Injection(I, 1 .. n)
    <3>1. f \in [I -> 1 .. n]
      BY <2>1
    <3> HIDE DEF f
    <3>2. QED
      BY <2>3, <3>1, Fun_IsInj
  <2>5. IsFiniteSet(1 .. n) /\ Cardinality(1 .. n) = n
    BY <1>3, FS_Interval
  <2> HIDE DEF f
  <2>6. f \in Surjection(I, 1 .. n)
    BY <2>4, <2>5, FS_Injection
  <2>7. PICK i \in I : f[i] = k
    BY <2>6 DEF Surjection
  <2>8. QED
    BY <2>7 DEF f
<1>7. ASSUME NEW k \in 1 .. n PROVE At(k) \in I
  <2>1. \E i \in I : Place(i) = k
    BY <1>6
  <2> HIDE DEF Place
  <2>2. QED
    BY <2>1
<1>8. WithoutDuplicates(s) = [k \in 1 .. n |-> s[At(k)]]
  BY DEF WithoutDuplicates, I
<1> HIDE DEF At, n
<1>9. \A k \in 1 .. n : s[At(k)] \in S
  <2>1. \A i \in I : s[i] \in S
    BY <1>1
  <2>2. QED
    BY <1>7, <2>1, Zenon
<1>10. /\ WithoutDuplicates(s) \in Seq(S)
       /\ Len(WithoutDuplicates(s)) = n
  <2> DEFINE w == WithoutDuplicates(s)
  <2>1. n \in Nat
    BY <1>3
  <2>2. w \in [1 .. n -> S]
    BY <1>8, <1>9, Zenon
  <2> HIDE DEF w
  <2>3. w \in Seq(S) /\ Len(w) = n
    BY <2>1, <2>2
  <2>4. QED
    BY <2>3 DEF w
<1>11. ASSUME IsFiniteSet(S) PROVE n <= Cardinality(S)
  <2> DEFINE g == [i \in I |-> s[i]]
  <2>1. g \in [I -> S]
    BY <1>1
  <2>2. \A i, j \in I : g[i] = g[j] => i = j
    BY <1>5
  <2> HIDE DEF g
  <2>3. g \in Injection(I, S)
    BY <2>1, <2>2, Fun_IsInj
  <2>4. QED
    BY <1>11, <2>3, FS_Injection DEF n
<1>12. QED
  BY <1>3, <1>10, <1>11

\* The first index of a list that passes a test is one of the list.
LEMMA FoundIn ==
  ASSUME NEW n \in Nat, NEW I, I \subseteq 1 .. n, NEW i,
         i = IF I # {} THEN Min(I) ELSE 0, i > 0
  PROVE  i \in 1 .. n
<1>1. CASE I = {}
  BY <1>1
<1>2. CASE I # {}
  <2>1. I \in SUBSET Nat
    OBVIOUS
  <2>2. Min(I) \in I
    BY <1>2, <2>1, SmallestIs
  <2>3. QED
    BY <1>2, <2>2
<1>3. QED
  BY <1>1, <1>2

LEMMA RemovedFrom ==
  ASSUME NEW T, NEW s \in Seq(T), NEW i \in 1 .. Len(s)
  PROVE  RemoveAt(s, i) \in Seq(T) /\ Len(RemoveAt(s, i)) = Len(s) - 1
<1> DEFINE u == SubSeq(s, 1, i - 1)
           v == SubSeq(s, i + 1, Len(s))
<1>1. u \in Seq(T) /\ Len(u) = i - 1
  OBVIOUS
<1>2. v \in Seq(T) /\ Len(v) = Len(s) - i
  OBVIOUS
<1>3. RemoveAt(s, i) = u \o v
  BY DEF RemoveAt
<1> HIDE DEF u, v
<1>4. u \o v \in Seq(T) /\ Len(u \o v) = Len(u) + Len(v)
  BY <1>1, <1>2, ConcatProperties, Zenon
<1>5. QED
  BY <1>1, <1>2, <1>3, <1>4

\* A record is spare or on the list of a component; a list has at most one
\* event of each kind and the newest one.
Records ==
  /\ list \in [Components -> Seq(Events)]
  /\ spare = NumEvents - Len(list["source"]) - Len(list["render"])
  /\ \A c \in Components : Len(list[c]) <= 16

LEMMA OneListChanges ==
  ASSUME Records, NEW c \in Components, NEW q \in Seq(Events),
         Len(q) <= 16, list' = [list EXCEPT ![c] = q],
         spare' = spare + Len(list[c]) - Len(q)
  PROVE  Records'
<1>1. list' \in [Components -> Seq(Events)]
  BY DEF Records
<1>2. \A d \in Components : list'[d] = IF d = c THEN q ELSE list[d]
  BY DEF Records
<1>3. \A d \in Components : Len(list'[d]) <= 16
  BY <1>2 DEF Records
<1> DEFINE n == Len(list["source"])
           m == Len(list["render"])
           l == Len(q)
<1>4. n \in Nat /\ m \in Nat /\ l \in Nat /\ NumEvents \in Nat
  BY IlAssumption DEF Records, Components
<1>5. spare' = NumEvents - Len(list'["source"]) - Len(list'["render"])
  <2>1. CASE c = "source"
    <3>1. Len(list'["source"]) = l /\ Len(list'["render"]) = m
      BY <1>2, <2>1 DEF Components
    <3>2. spare' = NumEvents - n - m + n - l
      BY <2>1 DEF Records
    <3> HIDE DEF n, m, l
    <3>3. spare' = NumEvents - l - m
      BY <1>4, <3>2
    <3>4. QED
      BY <3>1, <3>3
  <2>2. CASE c = "render"
    <3>1. Len(list'["source"]) = n /\ Len(list'["render"]) = l
      BY <1>2, <2>2 DEF Components
    <3>2. spare' = NumEvents - n - m + m - l
      BY <2>2 DEF Records
    <3> HIDE DEF n, m, l
    <3>3. spare' = NumEvents - n - l
      BY <1>4, <3>2
    <3>4. QED
      BY <3>1, <3>3
  <2>3. QED
    BY <2>1, <2>2 DEF Components
<1>6. QED
  BY <1>1, <1>3, <1>5 DEF Records

LEMMA RecordsUnchanged ==
  ASSUME Records, UNCHANGED <<list, spare>> PROVE Records'
  BY DEF Records

LEMMA UnlinkKeeps ==
  ASSUME Records, NEW c \in Components, NEW i \in 1 .. Len(list[c]),
         Unlink(c, i)
  PROVE  Records'
<1> DEFINE q == RemoveAt(list[c], i)
<1>1. list[c] \in Seq(Events) /\ Len(list[c]) <= 16
  BY DEF Records
<1>2. q \in Seq(Events) /\ Len(q) = Len(list[c]) - 1
  BY <1>1, RemovedFrom
<1>3. list' = [list EXCEPT ![c] = q] /\ spare' = spare + 1
  BY DEF Unlink
<1> HIDE DEF q
<1>4. Len(q) \in Nat /\ Len(list[c]) \in Nat /\ spare \in Int
  BY <1>1, <1>2, IlAssumption DEF Records, Components
<1>5. Len(q) <= 16 /\ spare' = spare + Len(list[c]) - Len(q)
  BY <1>1, <1>2, <1>3, <1>4
<1>6. QED
  BY <1>2, <1>3, <1>5, OneListChanges

\* NUM_EVENTS is 100: two lists of 15 kinds of events, with the newest one
\* twice, are far from it.
EnoughRecords == NumEvents >= 32

\* A record is left for each event the handler can be called with.
LEMMA RecordsAreLeft ==
  ASSUME Records, NEW c \in Components, EnoughRecords PROVE RecordLeft(c)
<1> DEFINE n == Len(list["source"])
           m == Len(list["render"])
           l == Len(list[c])
           k == Len(WithoutDuplicates(list[c]))
<1>1. list[c] \in Seq(Events)
  BY DEF Records
<1>2. k \in Nat /\ k <= 15
  <2>1. WithoutDuplicates(list[c]) \in Seq(Events) /\ k <= Cardinality(Events)
    BY <1>1, EventsCounted, DuplicatesGone
  <2>2. k \in Nat
    BY <2>1
  <2>3. QED
    BY <2>1, <2>2, EventsCounted, FS_CardinalityType
<1>3. /\ n \in Nat /\ m \in Nat /\ l \in Nat /\ NumEvents \in Nat
      /\ n <= 16 /\ m <= 16
  BY IlAssumption DEF Records, Components
<1>4. spare = NumEvents - n - m
  BY DEF Records
<1>5. l = n \/ l = m
  BY DEF Components
<1>6. RecordLeft(c) <=> spare + (l - k) > 0
  BY DEF RecordLeft, Repeats
<1>7. NumEvents >= 32
  BY DEF EnoughRecords
<1> HIDE DEF n, m, l, k
<1>8. QED
  BY <1>2, <1>3, <1>4, <1>5, <1>6, <1>7

LEMMA HandlerKeeps ==
  ASSUME Records, NEW c \in Components, NEW ev \in Events, EventHandler(c, ev)
  PROVE  Records'
<1> DEFINE kept == WithoutDuplicates(list[c])
           stored == IF Ignored(c, ev) THEN kept ELSE <<ev>> \o kept
<1>1. list[c] \in Seq(Events)
  BY DEF Records
<1>2. kept \in Seq(Events) /\ Len(kept) <= 15
  <2>1. kept \in Seq(Events) /\ Len(kept) <= Cardinality(Events)
    BY <1>1, EventsCounted, DuplicatesGone
  <2>2. Len(kept) \in Nat
    BY <2>1
  <2>3. QED
    BY <2>1, <2>2, EventsCounted, FS_CardinalityType
<1>3. list' = [list EXCEPT ![c] = stored]
      /\ spare' = spare + Len(list[c]) - Len(stored)
  BY DEF EventHandler
<1> HIDE DEF kept
<1>4. stored \in Seq(Events) /\ Len(stored) <= 16
  <2>1. <<ev>> \o kept \in Seq(Events) /\ Len(<<ev>> \o kept) = 1 + Len(kept)
    BY <1>2
  <2>2. QED
    BY <1>2, <2>1
<1> HIDE DEF stored
<1>5. QED
  BY <1>3, <1>4, OneListChanges

LEMMA CallbackRecords ==
  ASSUME IlTypeOK, Records, NEW c \in Components, Callback(c) PROVE Records'
<1>1. Head(calls[c]) \in Calls
  BY DEF Callback, IlTypeOK
<1>2. CASE Head(calls[c])[1] = "EmptyBufferDone"
  <2>1. UNCHANGED <<list, spare>>
    BY <1>2 DEF Callback, EmptyBufferDone, clientVars
  <2>2. QED
    BY <2>1, RecordsUnchanged
<1>3. CASE Head(calls[c])[1] # "EmptyBufferDone"
  <2>1. Head(calls[c]) \in Events
    BY <1>1, <1>3 DEF Calls
  <2>2. EventHandler(c, Head(calls[c]))
    BY <1>3 DEF Callback
  <2>3. QED
    BY <2>1, <2>2, HandlerKeeps
<1>4. QED
  BY <1>2, <1>3

\* The steps that take an event off a list, from the component they name.
LEMMA UnlinkingKeeps ==
  ASSUME Records, Arg(1) \in Components,
         DoWait \/ DoWaitEvent \/ DoRemoveError \/ Reclaimed
  PROVE  Records'
<1> DEFINE c == Arg(1)
<1>1. Len(list[c]) \in Nat
  BY DEF Records
<1>2. ASSUME NEW I, I \subseteq 1 .. Len(list[c]), NEW i,
             i = IF I # {} THEN Min(I) ELSE 0, i > 0, Unlink(c, i)
      PROVE  Records'
  BY <1>1, <1>2, FoundIn, UnlinkKeeps
<1>3. ASSUME UNCHANGED <<list, spare>> PROVE Records'
  BY <1>3, RecordsUnchanged
<1>4. CASE DoWait
  <2> DEFINE I == {j \in 1 .. Len(list[c]) :
                     \/ list[c][j] = CmdComplete(Arg(2), Arg(3))
                     \/ EndsCommand(list[c][j])}
             i == IF I # {} THEN Min(I) ELSE 0
  <2>1. (i > 0 /\ Unlink(c, i)) \/ UNCHANGED <<list, spare>>
    BY <1>4 DEF DoWait, SelectInSeq, clientVars
  <2>2. QED
    BY <1>2, <1>3, <2>1
<1>5. CASE DoWaitEvent
  <2> DEFINE I == {j \in 1 .. Len(list[c]) : list[c][j] = Arg(2)}
             i == IF I # {} THEN Min(I) ELSE 0
  <2>1. (i > 0 /\ Unlink(c, i)) \/ UNCHANGED <<list, spare>>
    BY <1>5 DEF DoWaitEvent, SelectInSeq, clientVars
  <2>2. QED
    BY <1>2, <1>3, <2>1
<1>6. CASE DoRemoveError
  <2> DEFINE I == {j \in 1 .. Len(list[c]) :
                     list[c][j][1] = "Error" /\ list[c][j][3] \in Arg(2)}
             i == IF I # {} THEN Min(I) ELSE 0
  <2>1. (i > 0 /\ Unlink(c, i)) \/ UNCHANGED <<list, spare>>
    BY <1>6 DEF DoRemoveError, SelectInSeq, clientVars
  <2>2. QED
    BY <1>2, <1>3, <2>1
<1>7. CASE Reclaimed
  <2> DEFINE I == {j \in 1 .. Len(list[c]) : EndsCommand(list[c][j])}
             J == {j \in 1 .. Len(list[c]) :
                     list[c][j] = CmdComplete("PortDisable", "port")}
             e == IF I # {} THEN Min(I) ELSE 0
             d == IF J # {} THEN Min(J) ELSE 0
  <2>1. \/ e > 0 /\ Unlink(c, e)
        \/ d > 0 /\ Unlink(c, d)
        \/ UNCHANGED <<list, spare>>
    BY <1>7 DEF Reclaimed, SelectInSeq, clientVars
  <2>2. QED
    BY <1>2, <1>3, <2>1
<1>8. QED
  BY <1>4, <1>5, <1>6, <1>7

LEMMA ReturnEventsKeeps ==
  ASSUME Records, Arg(1) \in Components, DoComponent PROVE Records'
<1>1. CASE Op("ReturnEvents")
  <2>1. list' = [list EXCEPT ![Arg(1)] = <<>>]
        /\ spare' = spare + Len(list[Arg(1)])
    BY <1>1 DEF DoComponent, Op
  <2>2. <<>> \in Seq(Events) /\ Len(<<>>) = 0
    OBVIOUS
  <2>3. spare \in Int /\ Len(list[Arg(1)]) \in Nat
    BY IlAssumption DEF Records, Components
  <2>4. spare' = spare + Len(list[Arg(1)]) - Len(<<>>)
    BY <2>1, <2>2, <2>3
  <2>5. Len(<<>>) <= 16
    BY <2>2
  <2> DEFINE none == <<>>
  <2>6. /\ none \in Seq(Events) /\ Len(none) <= 16
        /\ list' = [list EXCEPT ![Arg(1)] = none]
        /\ spare' = spare + Len(list[Arg(1)]) - Len(none)
    BY <2>1, <2>2, <2>4, <2>5
  <2> HIDE DEF none
  <2>7. QED
    BY <2>6, OneListChanges
<1>2. CASE ~Op("ReturnEvents")
  <2>1. UNCHANGED <<list, spare>>
    BY <1>2 DEF DoComponent
  <2>2. QED
    BY <2>1, RecordsUnchanged
<1>3. QED
  BY <1>1, <1>2

\* The steps that name a component are plain ones: the library is called for
\* components there are.
Named(s) ==
  \/ PlainStep(s)
  \/ s[1] \in {"Branch", "IfOther", "IfLoaded", "IfEnabled", "UseBuffers"}

LEMMA NamedFirst ==
  ASSUME NEW p, NEW s, NEW k, PlainCode(p), IsSeq(k), Named(s),
         code = p \o (<<s>> \o k)
  PROVE  Named(Head(code))
<1>1. IsSeq(<<s>> \o k)
  BY OneIsSeq, SeqJoin
<1>2. CASE p = <<>>
  <2>1. code = <<s>> \o k
    BY <1>1, <1>2, EmptyFirst
  <2>2. QED
    BY <2>1, OneFirst
<1>3. CASE p # <<>>
  <2>1. Head(code) = Head(p)
    BY <1>1, <1>3, FirstStep, PlainIsSeq
  <2>2. Named(Head(p))
    BY <1>3, PlainHead DEF Named
  <2>3. QED
    BY <2>1, <2>2
<1>4. QED
  BY <1>2, <1>3

LEMMA ClientStepIsNamed ==
  ASSUME BuffersInv, ClientStep PROVE Named(Head(code))
<1>1. code # <<>> /\ Head(code)[1] \notin SinkNames
  BY ClientHead
<1>2. CASE user = "hdmi"
  <2>1. ClosingCode \/ BuffersThere \/ BeforeBuffers
    <3>1. ~OpenCode /\ ~ClosedCode /\ ~HandleCode /\ ~PlayCode /\ ~PutCode
      BY <1>1, Heads DEF SinkNames
    <3>2. code # Crashed
      BY <1>1, Heads DEF SinkNames
    <3>3. HdmiControl
      BY <1>2 DEF BuffersInv
    <3>4. QED
      BY <1>1, <3>1, <3>2, <3>3, Zenon DEF HdmiControl
  <2>2. CASE ClosingCode
    <3>1. Named(<<"FreeHandle", "render">>)
      BY DEF Named, PlainStep, Components
    <3>2. QED
      BY <2>2, <3>1, NamedFirst, PartsAreSeqs DEF ClosingCode, FreeRender
  <2>3. CASE BuffersThere
    <3>1. Named(<<"Branch", <<<<"Opened">>>>, <<<<"Return">>>>>>)
      BY DEF Named
    <3>2. QED
      BY <2>3, <3>1, NamedFirst, PartsAreSeqs
         DEF BuffersThere, AfterCreate, Branch
  <2>4. CASE BeforeBuffers
    <3>1. \A s \in {IfNotEnabled, IfNotLoaded, Allocate} : Named(s)
      BY DEF Named, IfNotEnabled, IfNotLoaded, Allocate
    <3>2. \A q, size : PlainCode(q) => IsSeq(q \o AfterCreate(size))
      BY PartsAreSeqs, PlainIsSeq, SeqJoin
    <3>3. QED
      BY <2>4, <3>1, <3>2, NamedFirst DEF BeforeBuffers
  <2>5. QED
    BY <2>1, <2>2, <2>3, <2>4
<1>3. CASE user # "hdmi"
  <2>1. PlainCode(code)
    BY <1>3 DEF BuffersInv, TunnelControl
  <2>2. QED
    BY <1>1, <2>1, PlainHead DEF Named
<1>4. QED
  BY <1>2, <1>3

LEMMA ClientRecords ==
  ASSUME BuffersInv, Records, ClientStep PROVE Records'
<1>1. Named(Head(code))
  BY ClientStepIsNamed
<1>2. CASE DoWait \/ DoWaitEvent \/ DoRemoveError \/ Reclaimed
  <2>1. Head(code)[1] \in {"Wait", "WaitEvent", "RemoveError", "Reclaimed"}
    BY <1>2 DEF DoWait, DoWaitEvent, DoRemoveError, Reclaimed, Op
  <2>2. Arg(1) \in Components
    BY <1>1, <2>1, ArgIs DEF Named, PlainStep
  <2>3. QED
    BY <1>2, <2>2, UnlinkingKeeps
<1>3. CASE DoComponent
  <2>1. Head(code)[1] \in {"Create", "ReturnEvents", "FreeHandle"}
    BY <1>3 DEF DoComponent, Op
  <2>2. Arg(1) \in Components
    BY <1>1, <2>1, ArgIs DEF Named, PlainStep
  <2>3. QED
    BY <1>3, <2>2, ReturnEventsKeeps
<1>4. CASE \/ DoSend \/ DoSleep \/ Timeout \/ Woken \/ DoBranch \/ DoMask
           \/ DoTransition \/ UseBuffers \/ Reclaim \/ DoSetupTunnel
  <2>1. UNCHANGED <<list, spare>>
    BY <1>4 DEF DoSend, DoSleep, Timeout, Woken, DoBranch, DoMask,
                DoTransition, UseBuffers, Reclaim, DoSetupTunnel, OnlyThread,
                clientVars
  <2>2. QED
    BY <2>1, RecordsUnchanged
<1>5. QED
  BY <1>2, <1>3, <1>4 DEF ClientStep

LEMMA RecordsStart == Init => Records
<1> SUFFICES ASSUME Init PROVE Records
  OBVIOUS
<1>1. list = [c \in Components |-> <<>>] /\ spare = NumEvents
  BY DEF Init, IlInit
<1>2. QED
  BY <1>1, IlAssumption DEF Records, Components

LEMMA RecordsStep == BuffersInv /\ Records /\ [Next]_vars => Records'
<1> SUFFICES ASSUME BuffersInv, Records, [Next]_vars PROVE Records'
  OBVIOUS
<1>1. ASSUME UNCHANGED <<list, spare>> PROVE Records'
  BY <1>1, RecordsUnchanged
<1>2. CASE Opening
  <2>1. \/ UNCHANGED <<list, spare>>
        \/ list' = [c \in Components |-> <<>>] /\ spare' = NumEvents
    BY <1>2 DEF Opening
  <2>2. CASE list' = [c \in Components |-> <<>>] /\ spare' = NumEvents
    BY <2>2, IlAssumption DEF Records, Components
  <2>3. QED
    BY <1>1, <2>1, <2>2
<1>3. CASE \/ HandleStep \/ GetBuffer \/ PlayBuffer \/ Render \/ Stop
           \/ TunnelClient \/ UNCHANGED vars
           \/ \E conf \in Confs, size \in Sizes : OnProcess(conf, size)
  <2>1. UNCHANGED <<list, spare>>
    BY <1>3 DEF HandleStep, GetBuffer, PlayBuffer, Render, Stop,
                TunnelClient, OnProcess, OnlyThread, clientVars, vars, ilVars
  <2>2. QED
    BY <1>1, <2>1
<1>4. ASSUME NEW c \in Components, OmxStep(c) \/ OmxFault(c) PROVE Records'
  <2>1. CASE Callback(c)
    BY <2>1, CallbackRecords DEF BuffersInv
  <2>2. CASE OmxComplete(c) \/ BufferFlag(c) \/ OmxFault(c)
    <3>1. UNCHANGED <<list, spare>>
      BY <2>2 DEF OmxComplete, BufferFlag, OmxFault, OmxFail, OmxReport,
                  clientVars
    <3>2. QED
      BY <1>1, <3>1
  <2>3. QED
    BY <1>4, <2>1, <2>2 DEF OmxStep
<1>5. QED
  BY <1>2, <1>3, <1>4, ClientRecords DEF Next, Run, SinkStep

\* The handler of events always finds a record, whatever the components
\* report, in whatever order and however often, and however late the client
\* looks at it: removing duplicates keeps the lists shorter than the pool,
\* also when errors nobody waits for stay on them.
THEOREM RecordsAlwaysSuffice ==
  ASSUME EnoughRecords PROVE Spec => []RecordsSuffice
<1>1. BuffersInv /\ Records => RecordsSuffice
  BY RecordsAreLeft DEF RecordsSuffice
<1>2. QED
  BY <1>1, BuffersAlways, RecordsStart, RecordsStep, PTL DEF Spec
=============================================================================
