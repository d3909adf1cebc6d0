------------------------------ MODULE IlClient ------------------------------
(***************************************************************************)
(* The IL client library (src/pi/ilclient.c) that the HDMI sink plays      *)
(* through: event records shared by all components, an event list and a    *)
(* set of event flags per component, commands that complete later, tunnels *)
(* and the queue of returned buffers.                                      *)
(*                                                                         *)
(* Two kinds of threads meet here.  The client thread runs the functions   *)
(* of the library.  Each function is an operator that yields the sequence  *)
(* of steps the C function takes (Send, Wait, a branch on a result, ...);  *)
(* code is what the client thread still has to run, and there is one       *)
(* action per kind of step.  The components call back on threads of their  *)
(* own: calls[c] holds the callbacks a component has still to make.  The   *)
(* event lock (event_sema) and the buffer lock (sema) are never held       *)
(* across a wait, so a locked section is one action.                       *)
(*                                                                         *)
(* Two components with one port each: "render", which takes buffers from   *)
(* the client or from a tunnel, and "source", which feeds the tunnel.  How *)
(* components behave is external: OpenMAX IL runs on the VideoCore.        *)
(***************************************************************************)
EXTENDS Integers, Sequences, SequencesExt, FiniteSetsExt

CONSTANTS
  NumEvents,     \* event records of a client: NUM_EVENTS
  NumBuffers,    \* buffers of the input port: nBufferCountActual
  MaxFaults      \* bound: commands that fail and errors out of the blue

ASSUME IlAssumption == NumEvents \in Nat /\ NumBuffers \in Nat

VARIABLES
  spare,         \* how many event records are on client->event_list
  list,          \* list[c]: events of c not yet removed, the newest first
  flags,         \* flags[c]: event flags that are set
  error_mask,    \* error_mask[c]: ILCLIENT_ERROR_UNPOPULATED is set
  related,       \* related[c]: the component waited for, or "none"
  in_list,       \* buffers returned to the client
  omx,           \* omx[c]: the OpenMAX component behind c
  calls,         \* calls[c]: callbacks of c still to be made, in order
  signal,        \* signal[c]: a buffer is queued, its flag not set yet
  faults,        \* faults so far
  code,          \* what the client thread has still to do
  ret,           \* result of the last function
  got            \* the flags the last sleep consumed

clientVars == <<spare, list, flags, error_mask, related>>
threadVars == <<code, ret, got>>
ilVars == <<clientVars, in_list, omx, calls, signal, faults, threadVars>>

Components == {"source", "render"}
Buffers == 1 .. NumBuffers

\* A component as OMX_GetHandle creates it: loaded, its port enabled.
FreshOmx == [state |-> "Loaded", enabled |-> TRUE, cmds |-> <<>>,
             tunnel |-> FALSE, bufs |-> {}, held |-> <<>>]

\* After ilclient_init, before any component is created.
IlInit ==
  /\ spare = NumEvents
  /\ list = [c \in Components |-> <<>>]
  /\ flags = [c \in Components |-> {}]
  /\ error_mask = [c \in Components |-> FALSE]
  /\ related = [c \in Components |-> "none"]
  /\ in_list = <<>>
  /\ omx = [c \in Components |-> FreshOmx]
  /\ calls = [c \in Components |-> <<>>]
  /\ signal = [c \in Components |-> FALSE]
  /\ faults = 0
  /\ code = <<>> /\ ret = 0 /\ got = {}
-----------------------------------------------------------------------------
(* Events: <<eEvent, nData1, nData2>>.  nData2 of an error is "cmd" (1) if *)
(* it ends a command, "async" (0) if not.                                  *)

CmdComplete(cmd, arg) == <<"CmdComplete", cmd, arg>>
EventError(error, how) == <<"Error", error, how>>

EndsCommand(ev) == ev[1] = "Error" /\ ev[3] = "cmd"

\* The flag that ilclient_event_handler sets for an event.
FlagOf(ev) ==
  CASE ev[1] = "Error" -> "EVENT_ERROR"
    [] ev[1] = "PortSettingsChanged" -> "PARAMETER_CHANGED"
    [] ev[2] = "StateSet" -> "STATE_CHANGED"
    [] ev[2] = "PortEnable" -> "PORT_ENABLED"
    [] ev[2] = "PortDisable" -> "PORT_DISABLED"
    [] ev[2] = "Flush" -> "PORT_FLUSH"

\* The handler first drops repeated events, so that records do not run out:
\* of equal events the first one stays.
FirstOnes(events) ==
  {i \in DOMAIN events : \A j \in 1 .. i - 1 : events[j] # events[i]}
WithoutDuplicates(events) ==
  LET kept == FirstOnes(events)
      Place(i) == Cardinality({j \in kept : j <= i})
  IN [k \in 1 .. Cardinality(kept) |->
        events[CHOOSE i \in kept : Place(i) = k]]

Ignored(c, ev) == ev[2] = "PortUnpopulated" /\ error_mask[c]

Repeats(c) == Len(list[c]) - Len(WithoutDuplicates(list[c]))

\* A record is left for the next event: vc_assert(st->client->event_list).
RecordLeft(c) == spare + Repeats(c) > 0

\* Mutant: a component that waits for another is not told of its error.
EventHandlerTellsNobody(c, ev) ==
  LET kept == WithoutDuplicates(list[c])
      stored == IF Ignored(c, ev) THEN kept ELSE <<ev>> \o kept
  IN /\ RecordLeft(c)
     /\ list' = [list EXCEPT ![c] = stored]
     /\ spare' = spare + Len(list[c]) - Len(stored)
     /\ flags' = [flags EXCEPT ![c] = IF Ignored(c, ev) THEN @
                                      ELSE @ \cup {FlagOf(ev)}]
     /\ UNCHANGED <<error_mask, related, in_list, signal>>

EventHandler(c, ev) ==
  LET kept == WithoutDuplicates(list[c])
      stored == IF Ignored(c, ev) THEN kept ELSE <<ev>> \o kept
      raised == {d \in Components : \/ d = c /\ ~Ignored(c, ev)
                                    \/ EndsCommand(ev) /\ related[c] = d}
  IN /\ RecordLeft(c)
     /\ list' = [list EXCEPT ![c] = stored]
     /\ spare' = spare + Len(list[c]) - Len(stored)
     /\ flags' = [d \in Components |->
                    IF d \in raised THEN flags[d] \cup {FlagOf(ev)}
                    ELSE flags[d]]
     /\ UNCHANGED <<error_mask, related, in_list, signal>>

\* A returned buffer is queued under the lock, ...
EmptyBufferDone(c, buffer) ==
  /\ in_list' = Append(in_list, buffer)
  /\ signal' = [signal EXCEPT ![c] = TRUE]
  /\ UNCHANGED clientVars

\* ... and the flag is set after it is released.
BufferFlag(c) ==
  /\ signal[c]
  /\ signal' = [signal EXCEPT ![c] = FALSE]
  /\ flags' = [flags EXCEPT ![c] = @ \cup {"EMPTY_BUFFER_DONE"}]
  /\ UNCHANGED <<spare, list, error_mask, related, in_list>>
  /\ UNCHANGED <<omx, calls, faults, threadVars>>

\* Mutant: the buffer stays on the queue of returned buffers.
GetInputBufferKeepsIt(buffer) ==
  /\ buffer = IF in_list = <<>> THEN 0 ELSE Head(in_list)
  /\ UNCHANGED in_list

\* Takes a returned buffer off the queue, without waiting for one: 0 is NULL.
ilclient_get_input_buffer(buffer) ==
  /\ buffer = IF in_list = <<>> THEN 0 ELSE Head(in_list)
  /\ in_list' = IF in_list = <<>> THEN <<>> ELSE Tail(in_list)

\* A component makes its next callback.
Callback(c) ==
  /\ calls[c] # <<>> /\ ~signal[c]
  /\ LET call == Head(calls[c])
     IN IF call[1] = "EmptyBufferDone" THEN EmptyBufferDone(c, call[2])
                                       ELSE EventHandler(c, call)
  /\ calls' = [calls EXCEPT ![c] = Tail(@)]
  /\ UNCHANGED <<omx, faults, threadVars>>
-----------------------------------------------------------------------------
(* The library's functions, as the steps they take.                        *)

Send(c, cmd, arg) == <<"Send", c, cmd, arg>>
Wait(c, cmd, arg, other) == <<"Wait", c, cmd, arg, other>>
Sleep(c, mask, timeout) == <<"Sleep", c, mask, timeout>>
Relate(c, d) == <<"Relate", c, d>>
Mask(S, on) == <<"Mask", S, on>>
RemoveError(c, hows) == <<"RemoveError", c, hows>>
Result(r) == <<"Result", r>>
SetupTunnel(on) == <<"SetupTunnel", on>>
\* if the last result is 0, and if component c is loaded
Branch(ok, failed) == <<<<"Branch", ok, failed>>>>
IfLoaded(c, yes, no) == <<<<"IfLoaded", c, yes, no>>>>

ilclient_wait_for_command_complete(c, cmd, arg) ==
  <<Wait(c, cmd, arg, "none")>>

\* Mutant: only the errors of the other component are looked at.
WaitDualForOther(c, cmd, arg, other) ==
  <<Relate(other, c), RemoveError(other, {"cmd"}), Relate(other, "none")>>

ilclient_wait_for_command_complete_dual(c, cmd, arg, other) ==
  <<Relate(other, c), Wait(c, cmd, arg, other), Relate(other, "none")>>

ilclient_wait_for_event(c, ev, mask, timeout) ==
  <<<<"WaitEvent", c, ev, mask, timeout>>>>

ilclient_change_component_state(c, state) ==
  <<Send(c, "StateSet", state)>>
    \o ilclient_wait_for_command_complete(c, "StateSet", state)
    \o Branch(<<>>, <<RemoveError(c, {"cmd", "async"}), Result(-1)>>)

ilclient_disable_port(c) ==
  <<Send(c, "PortDisable", "port")>>
    \o ilclient_wait_for_command_complete(c, "PortDisable", "port")

\* ILCLIENT_DISABLE_ALL_PORTS is set for every component.
ilclient_create_component(c) == <<<<"Create", c>>>> \o ilclient_disable_port(c)

ilclient_cleanup_components(comps) ==
  [i \in 1 .. 2 * Len(comps) |->
     <<IF i % 2 = 1 THEN "ReturnEvents" ELSE "FreeHandle",
       comps[(i + 1) \div 2]>>]

\* The commands go out in a random order, all before the first wait.
ilclient_state_transition(state) ==
  <<Mask(IF state = "Loaded" THEN Components ELSE {}, TRUE),
    <<"Transition", Components, state>>,
    Wait("source", "StateSet", state, "none"),
    Wait("render", "StateSet", state, "none"),
    Mask(IF state = "Loaded" THEN Components ELSE {}, FALSE)>>

\* Buffers handed over by the application come first; the loop of
\* ilclient_disable_port_buffers is the steps Reclaim and Reclaimed.
ilclient_disable_port_buffers(c, bufferList) ==
  <<<<"IfEnabled", c,
      <<Send(c, "PortDisable", "port"),
        <<"Reclaim", c, bufferList, NumBuffers>>>>, <<>>>>>>

ilclient_enable_port_buffers(c) ==
  <<<<"IfEnabled", c, <<Result(-1)>>,
      IfLoaded(c, <<Result(-1)>>,
        <<Send(c, "PortEnable", "port"), <<"UseBuffers", c>>>>
          \o Branch(
               ilclient_wait_for_command_complete(c, "PortEnable", "port"),
               <<>>)
          \o Branch(<<>>, ilclient_disable_port_buffers(c, <<>>)
                            \o <<RemoveError(c, {"cmd"}), Result(-1)>>))>>>>

\* Mutant: the errors of the sink are let in before its port is disabled.
DisableTunnelUnmasksEarly ==
  <<Mask(Components, TRUE),
    Send("source", "PortDisable", "port"),
    Send("render", "PortDisable", "port"),
    Wait("source", "PortDisable", "port", "none"),
    Mask(Components, FALSE),
    Wait("render", "PortDisable", "port", "none")>>

ilclient_disable_tunnel ==
  <<Mask(Components, TRUE),
    Send("source", "PortDisable", "port"),
    Send("render", "PortDisable", "port"),
    Wait("source", "PortDisable", "port", "none"),
    Wait("render", "PortDisable", "port", "none"),
    Mask(Components, FALSE)>>

\* The sink was loaded and could not be brought to idle.
SinkNotIdle ==
  <<<<"IfOther",
      ilclient_wait_for_command_complete("source", "PortEnable", "port")
        \o ilclient_disable_port("render"), <<>>>>>>
    \o ilclient_disable_port("source") \o <<Result(-1)>>

\* The source did not follow, once the sink port is enabled.
EnableSource ==
  ilclient_wait_for_command_complete("source", "PortEnable", "port")
    \o Branch(<<>>, ilclient_disable_port("render") \o <<Result(-1)>>)

ilclient_enable_tunnel ==
  <<Send("source", "PortEnable", "port"),
    Send("render", "PortEnable", "port")>>
    \o IfLoaded("render",
         ilclient_wait_for_command_complete("render", "PortEnable", "port")
           \o Branch(<<Send("render", "StateSet", "Idle")>>
                       \o ilclient_wait_for_command_complete_dual(
                            "render", "StateSet", "Idle", "source"), <<>>)
           \o Branch(EnableSource, SinkNotIdle),
         ilclient_wait_for_command_complete("render", "PortEnable", "port")
           \o Branch(EnableSource,
                ilclient_disable_port("source")
                  \o ilclient_wait_for_event("source",
                       CmdComplete("PortEnable", "port"),
                       {"PORT_ENABLED", "EVENT_ERROR"}, FALSE)
                  \o <<Result(-1)>>))

ilclient_flush_tunnels ==
  <<Send("source", "Flush", "port"), Send("render", "Flush", "port")>>
    \o ilclient_wait_for_event("source", CmdComplete("Flush", "port"),
                               {"PORT_FLUSH"}, FALSE)
    \o ilclient_wait_for_event("render", CmdComplete("Flush", "port"),
                               {"PORT_FLUSH"}, FALSE)

ilclient_setup_tunnel(timeout) ==
  LET wait == IF timeout
              THEN ilclient_wait_for_event("source",
                     <<"PortSettingsChanged", "port", "any">>,
                     {"PARAMETER_CHANGED", "EVENT_ERROR"}, TRUE)
              ELSE <<>>
      undo == <<SetupTunnel(FALSE), Result(-5)>>
      clean == <<RemoveError("render", {"cmd", "async"}),
                 RemoveError("source", {"cmd", "async"})>>
      connect == <<SetupTunnel(TRUE)>>
        \o Branch(ilclient_enable_tunnel \o Branch(<<>>, clean \o undo), undo)
  IN IfLoaded("source", ilclient_change_component_state("source", "Idle"),
              <<Result(0)>>)
       \o Branch(wait, <<>>)
       \o Branch(ilclient_disable_tunnel \o <<<<"SelectStream">>>>
                   \o Branch(connect, <<>>), <<>>)
-----------------------------------------------------------------------------
(* The client thread.                                                      *)

Op(name) == code # <<>> /\ Head(code)[1] = name
Arg(i) == Head(code)[i + 1]
Then(steps) == code' = steps \o Tail(code)

\* A step that touches neither the event lists nor the component.
OnlyThread ==
  UNCHANGED <<clientVars, in_list, omx, calls, signal, faults>>

DoSend ==
  /\ Op("Send")
  /\ LET c == Arg(1)  cmd == Arg(2)  o == omx[c]
         again == cmd = "PortDisable" /\ ~o.enabled
     IN omx' = [omx EXCEPT ![c] =
          [o EXCEPT !.cmds = Append(o.cmds, <<cmd, Arg(3), again>>),
                    !.enabled = \/ cmd = "PortEnable"
                                \/ o.enabled /\ cmd # "PortDisable"]]
  /\ Then(<<>>)
  /\ UNCHANGED <<clientVars, in_list, calls, signal, faults, ret, got>>

MaskFor(cmd) == {"EVENT_ERROR", FlagOf(CmdComplete(cmd, "any"))}

\* Takes the i-th event off the list of c and puts its record back.
Unlink(c, i) ==
  /\ list' = [list EXCEPT ![c] = RemoveAt(@, i)]
  /\ spare' = spare + 1
  /\ flags' = [flags EXCEPT
       ![c] = IF list[c][i][1] = "Error" THEN @ \ {"EVENT_ERROR"} ELSE @]
  /\ UNCHANGED <<error_mask, related>>

DoWait ==
  /\ Op("Wait")
  /\ LET c == Arg(1)  other == Arg(4)
         Ends(ev) == ev = CmdComplete(Arg(2), Arg(3)) \/ EndsCommand(ev)
         i == SelectInSeq(list[c], Ends)
     IN \/ /\ i > 0
           /\ Unlink(c, i)
           /\ ret' = IF \/ list[c][i][1] = "CmdComplete"
                        \/ list[c][i][2] = "SameState" THEN 0 ELSE -1
           /\ Then(<<>>)
        \/ /\ i = 0
           /\ other # "none" /\ SelectInSeq(list[other], EndsCommand) > 0
           /\ ret' = -2
           /\ Then(<<>>) /\ UNCHANGED clientVars
        \/ /\ i = 0
           /\ other # "none" => SelectInSeq(list[other], EndsCommand) = 0
           /\ code' = <<Sleep(c, MaskFor(Arg(2)), FALSE)>> \o code
           /\ UNCHANGED <<clientVars, ret>>
  /\ UNCHANGED <<in_list, omx, calls, signal, faults, got>>

\* vcos_event_flags_get with VCOS_OR_CONSUME.
DoSleep ==
  /\ Op("Sleep")
  /\ LET c == Arg(1)  set == flags[c] \cap Arg(2)
     IN /\ set # {}
        /\ flags' = [flags EXCEPT ![c] = @ \ set]
        /\ got' = set
  /\ Then(<<>>)
  /\ UNCHANGED <<spare, list, error_mask, related, in_list, omx, calls,
                 signal, faults, ret>>

\* A sleep with a timeout may end without a flag.
Timeout ==
  /\ Op("Sleep") /\ Arg(3)
  /\ flags[Arg(1)] \cap Arg(2) = {}
  /\ got' = {}
  /\ Then(<<>>)
  /\ UNCHANGED ret /\ OnlyThread

DoWaitEvent ==
  /\ Op("WaitEvent")
  /\ LET c == Arg(1)  mask == Arg(3)
         Wanted(ev) == ev = Arg(2)
         IsError(ev) == ev[1] = "Error"
         i == SelectInSeq(list[c], Wanted)
         failed == "EVENT_ERROR" \in mask
                     /\ SelectInSeq(list[c], IsError) > 0
     IN \/ i > 0 /\ Unlink(c, i) /\ ret' = 0 /\ Then(<<>>)
        \/ /\ i = 0 /\ failed
           /\ flags' = [flags EXCEPT ![c] = @ \ {"EVENT_ERROR"}]
           /\ ret' = -2 /\ Then(<<>>)
           /\ UNCHANGED <<spare, list, error_mask, related>>
        \/ /\ i = 0 /\ ~failed
           /\ Then(<<Sleep(c, mask, Arg(4)), <<"Woken", Head(code)>>>>)
           /\ UNCHANGED <<clientVars, ret>>
  /\ UNCHANGED <<in_list, omx, calls, signal, faults, got>>

\* After the sleep of ilclient_wait_for_event: leave it, or look again.
Woken ==
  /\ Op("Woken")
  /\ LET leave == got = {} \/ "EVENT_ERROR" \in got
     IN /\ Then(IF leave THEN <<>> ELSE <<Arg(1)>>)
        /\ ret' = IF leave THEN (IF got = {} THEN -1 ELSE -2) ELSE ret
  /\ UNCHANGED got /\ OnlyThread

\* ilclient_remove_event(comp, OMX_EventError, ...): its result is not used.
DoRemoveError ==
  /\ Op("RemoveError")
  /\ LET c == Arg(1)
         Wanted(ev) == ev[1] = "Error" /\ ev[3] \in Arg(2)
         i == SelectInSeq(list[c], Wanted)
     IN IF i > 0 THEN Unlink(c, i) ELSE UNCHANGED clientVars
  /\ Then(<<>>)
  /\ UNCHANGED <<in_list, omx, calls, signal, faults, ret, got>>

\* Steps without a handshake: results, branches and the fields of COMPONENT_T.
DoBranch ==
  /\ \/ Op("Result") /\ ret' = Arg(1) /\ Then(<<>>)
     \/ /\ Op("Branch") /\ UNCHANGED ret
        /\ Then(IF ret = 0 THEN Arg(1) ELSE Arg(2))
     \/ /\ Op("IfOther") /\ UNCHANGED ret
        /\ Then(IF ret = -2 THEN Arg(1) ELSE Arg(2))
     \/ /\ Op("IfLoaded") /\ UNCHANGED ret
        /\ Then(IF omx[Arg(1)].state = "Loaded" THEN Arg(2) ELSE Arg(3))
     \/ /\ Op("IfEnabled") /\ UNCHANGED ret
        /\ Then(IF omx[Arg(1)].enabled THEN Arg(2) ELSE Arg(3))
  /\ UNCHANGED got /\ OnlyThread

DoMask ==
  /\ \/ /\ Op("Mask")
        /\ error_mask' = [c \in Components |->
                            IF c \in Arg(1) THEN Arg(2) ELSE error_mask[c]]
        /\ UNCHANGED related
     \/ /\ Op("Relate")
        /\ related' = [related EXCEPT ![Arg(1)] = Arg(2)]
        /\ UNCHANGED error_mask
  /\ Then(<<>>)
  /\ UNCHANGED <<spare, list, flags, in_list, omx, calls, signal, faults,
                 ret, got>>

DoTransition ==
  /\ Op("Transition")
  /\ \E c \in Arg(1) :
       /\ flags' = [flags EXCEPT ![c] = @ \ {"EVENT_ERROR"}]
       /\ Then(<<Send(c, "StateSet", Arg(2))>>
                 \o (IF Arg(1) = {c} THEN <<>>
                     ELSE <<<<"Transition", Arg(1) \ {c}, Arg(2)>>>>))
  /\ UNCHANGED <<spare, list, error_mask, related, in_list, omx, calls,
                 signal, faults, ret, got>>

\* The buffers a port gets: all of them, or those allocated before a failure;
\* none if the port is disabled already, because enabling it failed.
UseBuffers ==
  /\ Op("UseBuffers")
  /\ \E n \in 0 .. NumBuffers :
       LET on == omx[Arg(1)].enabled
           fault == on /\ n < NumBuffers
       IN /\ fault => faults < MaxFaults
          /\ ~on => n = 0
          /\ faults' = IF fault THEN faults + 1 ELSE faults
          /\ in_list' = [i \in 1 .. n |-> i] \o in_list
          /\ omx' = [omx EXCEPT ![Arg(1)].bufs = 1 .. n]
          /\ ret' = IF n < NumBuffers THEN -1 ELSE 0
  /\ Then(<<>>)
  /\ UNCHANGED <<clientVars, calls, signal, got>>

\* One turn of the loop of ilclient_disable_port_buffers: the buffers at
\* hand, or else those on the queue, are freed.
Reclaim ==
  /\ Op("Reclaim")
  /\ LET c == Arg(1)
         taken == IF Arg(2) = <<>> THEN in_list ELSE Arg(2)
         num == Arg(3) - Len(taken)
     IN /\ in_list' = IF Arg(2) = <<>> THEN <<>> ELSE in_list
        /\ omx' = [omx EXCEPT ![c].bufs = @ \ ToSet(taken)]
        /\ Then(IF num = 0
                THEN <<Wait(c, "PortDisable", "port", "none")>>
                ELSE <<Sleep(c, {"PORT_DISABLED", "EVENT_ERROR",
                                 "EMPTY_BUFFER_DONE"}, FALSE),
                       <<"Reclaimed", c, num>>>>)
  /\ UNCHANGED <<clientVars, calls, signal, faults, ret, got>>

\* The rest of the turn, after the sleep: leave if the command has ended.
Reclaimed ==
  /\ Op("Reclaimed")
  /\ LET c == Arg(1)
         IsDone(ev) == ev = CmdComplete("PortDisable", "port")
         e == SelectInSeq(list[c], EndsCommand)
         d == SelectInSeq(list[c], IsDone)
     IN \/ /\ "EVENT_ERROR" \in got /\ e > 0
           /\ Unlink(c, e) /\ Then(<<>>)
        \/ /\ ~("EVENT_ERROR" \in got /\ e > 0)
           /\ "PORT_DISABLED" \in got /\ d > 0
           /\ Unlink(c, d) /\ Then(<<>>)
        \/ /\ ~("EVENT_ERROR" \in got /\ e > 0)
           /\ ~("PORT_DISABLED" \in got /\ d > 0)
           /\ Then(<<<<"Reclaim", c, <<>>, Arg(2)>>>>)
           /\ UNCHANGED clientVars
  /\ UNCHANGED <<in_list, omx, calls, signal, faults, ret, got>>

\* OMX_SetupTunnel and the choice of a port stream, which may be refused.
DoSetupTunnel ==
  /\ \/ /\ Op("SetupTunnel")
        /\ omx' = [c \in Components |-> [omx[c] EXCEPT !.tunnel = Arg(1)]]
        /\ ret' = IF Arg(1) THEN 0 ELSE ret
        /\ UNCHANGED faults
     \/ Op("SelectStream") /\ ret' = 0 /\ UNCHANGED <<omx, faults>>
     \/ /\ \/ Op("SetupTunnel") /\ Arg(1)
           \/ Op("SelectStream")
        /\ faults < MaxFaults /\ faults' = faults + 1
        /\ ret' = -3 /\ UNCHANGED omx
  /\ Then(<<>>)
  /\ UNCHANGED <<clientVars, in_list, calls, signal, got>>

\* ilclient_create_component, ilclient_return_events and OMX_FreeHandle.
DoComponent ==
  /\ \/ /\ Op("Create")
        /\ omx' = [omx EXCEPT ![Arg(1)] = FreshOmx]
        /\ UNCHANGED <<list, spare, calls>>
     \/ /\ Op("ReturnEvents")
        /\ spare' = spare + Len(list[Arg(1)])
        /\ list' = [list EXCEPT ![Arg(1)] = <<>>]
        /\ UNCHANGED <<omx, calls>>
     \/ /\ Op("FreeHandle") /\ ~signal[Arg(1)]
        /\ calls' = [calls EXCEPT ![Arg(1)] = <<>>]
        /\ omx' = [omx EXCEPT ![Arg(1)] = FreshOmx]
        /\ UNCHANGED <<list, spare>>
  /\ Then(<<>>)
  /\ UNCHANGED <<flags, error_mask, related, in_list, signal, faults, ret,
                 got>>

ClientStep ==
  \/ DoSend \/ DoWait \/ DoSleep \/ Timeout \/ DoWaitEvent \/ Woken
  \/ DoRemoveError \/ DoBranch \/ DoMask \/ DoTransition \/ UseBuffers
  \/ Reclaim \/ Reclaimed \/ DoSetupTunnel \/ DoComponent
-----------------------------------------------------------------------------
(* The OpenMAX components: external.                                       *)

Peer(c) == IF c = "source" THEN "render" ELSE "source"

\* The port has its buffers, or its tunnel can get them.
Populated(c) ==
  IF omx[c].tunnel
  THEN LET p == omx[Peer(c)]
       IN p.enabled /\ \/ p.state # "Loaded"
                       \/ p.cmds # <<>> /\ Head(p.cmds)[1] = "StateSet"
  ELSE c = "source" \/ omx[c].bufs = Buffers

Ready(c, cmd, arg) ==
  LET o == omx[c]
      Disables(command) == command[1] = "PortDisable"
  IN CASE cmd = "PortEnable" -> \/ o.state = "Loaded" \/ Populated(c)
                                \/ SelectInSeq(o.cmds, Disables) > 0
       [] cmd = "PortDisable" -> o.bufs = {}
       [] arg = "Loaded" -> o.bufs = {}
       [] arg = "Idle" /\ o.state = "Loaded" -> ~o.enabled \/ Populated(c)
       [] OTHER -> TRUE

\* A component ends its next command.
OmxComplete(c) ==
  LET o == omx[c]
      cmd == Head(o.cmds)[1]  arg == Head(o.cmds)[2]
      same == Head(o.cmds)[3] \/ arg = o.state
      stop == cmd = "StateSet" /\ arg = "Idle"
      back == [i \in 1 .. Len(o.held) |-> <<"EmptyBufferDone", o.held[i]>>]
      gone == o.tunnel /\ ~same /\ cmd \in {"PortDisable", "StateSet"}
                /\ c = "source" /\ arg \in {"port", "Loaded"}
                /\ omx["render"].enabled /\ omx["render"].state # "Loaded"
  IN /\ o.cmds # <<>>
     /\ same \/ Ready(c, cmd, arg)
     /\ omx' = [omx EXCEPT ![c] =
          [o EXCEPT !.cmds = Tail(@),
                    !.state = IF cmd = "StateSet" THEN arg ELSE @,
                    !.held = IF stop THEN <<>> ELSE @]]
     /\ calls' = [d \in Components |->
          calls[d]
            \o (IF d # c THEN <<>>
                ELSE IF same THEN <<EventError("SameState", "cmd")>>
                ELSE (IF stop THEN back ELSE <<>>)
                       \o <<CmdComplete(cmd, arg)>>)
            \o (IF gone /\ d = "render"
                THEN <<EventError("PortUnpopulated", "async")>> ELSE <<>>)]
     /\ UNCHANGED <<clientVars, in_list, signal, faults, threadVars>>

\* A command that needs resources may fail; a port that cannot be enabled is
\* then disabled, without buffers.
OmxFail(c) ==
  LET o == omx[c]
      enable == Head(o.cmds)[1] = "PortEnable"
  IN /\ o.cmds # <<>> /\ faults < MaxFaults
     /\ enable \/ (Head(o.cmds)[1] = "StateSet" /\ o.state = "Loaded")
     /\ faults' = faults + 1
     /\ omx' = [omx EXCEPT ![c] =
          [o EXCEPT !.cmds = Tail(@),
                    !.enabled = @ /\ ~enable,
                    !.bufs = IF enable THEN {} ELSE @]]
     /\ calls' = [calls EXCEPT
          ![c] = Append(@, EventError("InsufficientResources", "cmd"))]
     /\ UNCHANGED <<clientVars, in_list, signal, threadVars>>

\* The component that reads the data reports an error of its own while it
\* executes; a source reports the settings of its port once it knows them.
OmxReport(c) ==
  /\ faults < MaxFaults /\ faults' = faults + 1
  /\ \/ /\ omx[c].state = "Executing" /\ (c = "source" \/ ~omx[c].tunnel)
        /\ calls' = [calls EXCEPT
             ![c] = Append(@, EventError("StreamCorrupt", "async"))]
     \/ /\ c = "source" /\ omx[c].state = "Idle" /\ ~omx[c].tunnel
        /\ calls' = [calls EXCEPT
             ![c] = Append(@, <<"PortSettingsChanged", "port", "any">>)]
  /\ UNCHANGED <<clientVars, in_list, omx, signal, threadVars>>
=============================================================================
