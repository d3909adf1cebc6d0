----------------------------- MODULE AudioPlay -----------------------------
(***************************************************************************)
(* The HDMI sink (PiHdmiAudioSink.cpp) on top of audioplay (src/pi/audio.c)*)
(* on top of IlClient, and a client that connects two components by a      *)
(* tunnel.  Which of the two runs is chosen once, in user.                 *)
(*                                                                         *)
(* A buffer of the port has one of four places: the queue of returned      *)
(* buffers (in_list), the list of buffers lent to the sink                 *)
(* (user_buffer_list), the renderer (omx["render"].held), or none, before  *)
(* it is allocated and after it is freed.  A chunk of audio is a number,   *)
(* counted by sent; what[b] is the chunk copied into buffer b, played the  *)
(* last one heard.                                                         *)
(***************************************************************************)
EXTENDS IlClient

CONSTANTS
  Users,         \* a subset of {"hdmi", "tunnel"}
  Confs,         \* audio configurations
  Sizes,         \* sizes of pushed buffers, in bytes
  BytesPerSample,
  MaxLatency,    \* chunks in the renderer that keep the sink waiting
  MaxPushes      \* bound: buffers pushed

VARIABLES
  user,          \* who uses the library
  handle,        \* m_handle # nullptr
  m_conf,        \* m_conf
  user_list,     \* user_buffer_list
  what,          \* what[b]: the chunk in buffer b
  sent, played   \* the number of the last chunk copied, and played

sinkVars == <<user, handle, m_conf, user_list, what, sent, played>>
vars == <<ilVars, sinkVars>>

Init ==
  /\ IlInit
  /\ user \in Users
  /\ handle = FALSE /\ m_conf = "none"
  /\ user_list = <<>>
  /\ what = [b \in Buffers |-> 0]
  /\ sent = 0 /\ played = 0
-----------------------------------------------------------------------------
audioplay_create ==
  ilclient_create_component("render")
    \o ilclient_change_component_state("render", "Idle")
    \o ilclient_enable_port_buffers("render")
    \o Branch(ilclient_change_component_state("render", "Executing")
                \o <<Result(0)>>,
              ilclient_change_component_state("render", "Loaded")
                \o ilclient_cleanup_components(<<"render">>)
                \o <<Result(-1)>>)

audioplay_delete ==
  ilclient_change_component_state("render", "Idle")
    \o <<Send("render", "StateSet", "Loaded")>>
    \o ilclient_disable_port_buffers("render", user_list)
    \o ilclient_change_component_state("render", "Loaded")
    \o ilclient_cleanup_components(<<"render">>)

Close == IF handle THEN audioplay_delete \o <<<<"Closed">>>> ELSE <<>>

\* onProcess: a changed configuration closes the device, a closed one is
\* opened with the configuration and the size of this buffer.
OnProcess(conf, size) ==
  LET play == <<<<"GetBuffer">>, <<"PlayBuffer", size>>>>
  IN /\ user = "hdmi" /\ code = <<>> /\ sent < MaxPushes
     /\ code' = IF handle /\ m_conf = conf THEN play
                ELSE Close \o <<<<"Open", conf, size>>>> \o play
     /\ UNCHANGED <<ret, got, sinkVars>> /\ OnlyThread

\* stop().
Stop ==
  /\ user = "hdmi" /\ code = <<>> /\ handle
  /\ code' = Close
  /\ UNCHANGED <<ret, got, sinkVars>> /\ OnlyThread

\* audioplay_create up to the component: a size below one sample is refused;
\* the client, its event records and its lists are new.
Opening ==
  /\ Op("Open")
  /\ m_conf' = Arg(1)
  /\ IF Arg(2) < BytesPerSample
     THEN /\ code' = <<>>
          /\ UNCHANGED <<spare, list, flags, in_list, user_list>>
     ELSE /\ spare' = NumEvents
          /\ list' = [c \in Components |-> <<>>]
          /\ flags' = [c \in Components |-> {}]
          /\ in_list' = <<>> /\ user_list' = <<>>
          /\ Then(audioplay_create
                    \o Branch(<<<<"Opened">>>>, <<<<"Return">>>>))
  /\ UNCHANGED <<error_mask, related, omx, calls, signal, faults, ret, got,
                 user, handle, what, sent, played>>

\* m_handle is set, is cleared; onProcess returns because nothing opened.
HandleStep ==
  /\ \/ Op("Opened") /\ handle' = TRUE /\ Then(<<>>)
     \/ Op("Closed") /\ handle' = FALSE /\ Then(<<>>)
     \/ Op("Return") /\ UNCHANGED handle /\ code' = <<>>
  /\ UNCHANGED <<ret, got, user, m_conf, user_list, what, sent, played>>
  /\ OnlyThread

Crashed == <<<<"Crashed">>>>

\* Mutant: nothing is copied into the buffer.
GetBufferCopiesNothing ==
  /\ Op("GetBuffer")
  /\ \E buffer \in 0 .. NumBuffers :
       /\ ilclient_get_input_buffer(buffer)
       /\ IF buffer = 0
          THEN code' = Crashed /\ UNCHANGED <<user_list, sent>>
          ELSE /\ user_list' = <<buffer>> \o user_list
               /\ sent' = sent + 1
               /\ Then(<<>>)
  /\ UNCHANGED <<clientVars, omx, calls, signal, faults, ret, got, user,
                 handle, m_conf, what, played>>

\* audioplay_get_buffer and the copy: without a free buffer the copy goes to
\* a null pointer, and the program ends.
GetBuffer ==
  /\ Op("GetBuffer")
  /\ \E buffer \in 0 .. NumBuffers :
       /\ ilclient_get_input_buffer(buffer)
       /\ IF buffer = 0
          THEN code' = Crashed /\ UNCHANGED <<user_list, what, sent>>
          ELSE /\ user_list' = <<buffer>> \o user_list
               /\ what' = [what EXCEPT ![buffer] = sent + 1]
               /\ sent' = sent + 1
               /\ Then(<<>>)
  /\ UNCHANGED <<clientVars, omx, calls, signal, faults, ret, got, user,
                 handle, m_conf, played>>

\* audioplay_play_buffer, once audioplay_get_latency is low enough: the
\* buffer is at the head of the user list.  A size that is not whole samples
\* is refused, which ends the program: assert(ret == 0).
PlayBuffer ==
  /\ Op("PlayBuffer")
  /\ Len(omx["render"].held) <= MaxLatency
  /\ IF Arg(1) % BytesPerSample # 0
     THEN code' = Crashed /\ UNCHANGED <<omx, user_list>>
     ELSE /\ omx' = [omx EXCEPT !["render"].held = Append(@, Head(user_list))]
          /\ user_list' = Tail(user_list)
          /\ Then(<<>>)
  /\ UNCHANGED <<clientVars, in_list, calls, signal, faults, ret, got, user,
                 handle, m_conf, what, sent, played>>

\* The renderer plays its oldest buffer and gives it back: external.
Render ==
  LET held == omx["render"].held
  IN /\ omx["render"].state = "Executing" /\ held # <<>>
     /\ played' = what[Head(held)]
     /\ omx' = [omx EXCEPT !["render"].held = Tail(@)]
     /\ calls' = [calls EXCEPT
          !["render"] = Append(@, <<"EmptyBufferDone", Head(held)>>)]
     /\ UNCHANGED <<clientVars, in_list, signal, faults, threadVars, user,
                    handle, m_conf, user_list, what, sent>>

\* A client with a tunnel from source to render: connected, run, flushed,
\* taken down in the order ilclient.h asks for.  External.
TunnelClient ==
  /\ user = "tunnel" /\ code = <<>> /\ ~handle
  /\ \E timeout \in BOOLEAN :
       code' = ilclient_create_component("source")
                 \o ilclient_create_component("render")
                 \o ilclient_setup_tunnel(timeout)
                 \o Branch(ilclient_state_transition("Executing")
                             \o ilclient_flush_tunnels
                             \o ilclient_disable_tunnel
                             \o <<SetupTunnel(FALSE)>>
                             \o ilclient_state_transition("Idle")
                             \o ilclient_state_transition("Loaded"), <<>>)
                 \o ilclient_cleanup_components(<<"source", "render">>)
  /\ handle' = TRUE
  /\ UNCHANGED <<ret, got, user, m_conf, user_list, what, sent, played>>
  /\ OnlyThread

SinkStep == Opening \/ HandleStep \/ GetBuffer \/ PlayBuffer
OmxStep(c) == OmxComplete(c) \/ Callback(c) \/ BufferFlag(c)
OmxFault(c) == OmxFail(c) \/ OmxReport(c)

\* The threads of the client and of the components, which go on by themselves.
Run ==
  \/ SinkStep
  \/ ClientStep /\ UNCHANGED sinkVars
  \/ Render
  \/ \E c \in Components : OmxStep(c) /\ UNCHANGED sinkVars

Next ==
  \/ \E conf \in Confs, size \in Sizes : OnProcess(conf, size)
  \/ Stop
  \/ TunnelClient
  \/ Run
  \/ \E c \in Components : OmxFault(c) /\ UNCHANGED sinkVars

Spec == Init /\ [][Next]_vars /\ WF_vars(Run)
-----------------------------------------------------------------------------
(* Properties.                                                             *)

\* vc_assert(st->client->event_list) in the event handler never fails:
\* whatever the components report, and however slowly the client waits for
\* it, there is a record for the next event.
RecordsSuffice ==
  \A c \in Components :
    calls[c] # <<>> /\ Head(calls[c])[1] # "EmptyBufferDone" => RecordLeft(c)

\* A buffer is in one place: returned, with the sink, with the renderer or
\* on its way back.  The queue and the lists are linked through one field of
\* the buffer header, so a buffer in two of them would join the lists.
Places ==
  ({"in_list"} \X DOMAIN in_list)
    \cup ({"user_list"} \X DOMAIN user_list)
    \cup ({"held"} \X DOMAIN omx["render"].held)
    \cup ({"calls"} \X {i \in DOMAIN calls["render"] :
                         calls["render"][i][1] = "EmptyBufferDone"})
BufferAt(place) ==
  LET i == place[2]
  IN CASE place[1] = "in_list" -> in_list[i]
       [] place[1] = "user_list" -> user_list[i]
       [] place[1] = "held" -> omx["render"].held[i]
       [] place[1] = "calls" -> calls["render"][i][2]
BufferOnce == \A p, q \in Places : BufferAt(p) = BufferAt(q) => p = q

CommandDone(c, cmd, arg) ==
  CASE cmd = "StateSet" -> omx[c].state = arg
    [] cmd = "PortEnable" -> omx[c].enabled
    [] cmd = "PortDisable" -> ~omx[c].enabled /\ omx[c].bufs = {}

\* ilclient_wait_for_command_complete returns 0 only when this command has
\* been carried out: the end of an earlier command, or an error that arrived
\* while nobody waited, is not taken for it.
WaitMeansDone ==
  [][Op("Wait") /\ code' = Tail(code) /\ ret' = 0
       => CommandDone(Arg(1), Arg(2), Arg(3))]_vars

\* No call into the library blocks for ever, be it to open, to play, to set
\* up a tunnel that fails half-way or to take all down: the flags a thread
\* sleeps on are set for every event that could end its wait.
CallsReturn == []<>(code = <<>> \/ code = Crashed)

\* The sink is a queue of chunks: they are heard in order, each at most once,
\* and what was put is heard unless the device is closed.
Chunks == INSTANCE ChunkQueue WITH
  queue <- [i \in 1 .. Len(omx["render"].held) |->
              what[omx["render"].held[i]]],
  newest <- sent,
  heard <- played
PlaysInOrder == Chunks!QueueSpec
=============================================================================
