------------------------------- MODULE Playout -------------------------------
(***************************************************************************)
(* Sources in front of one sink, on the main loop: Source::pushBuffer,     *)
(* start() and stop(), Node::process, a filter (Filters), and at the end   *)
(* PortAudioSink, TcpClientSink, FileSink or AppSink.                      *)
(*                                                                         *)
(* TcpClientSink connects from inside onProcess and runs the main loop     *)
(* until that is done, so that handlers nest: stack holds one frame for    *)
(* each push that waits for its connection.  Buffers are numbered; a       *)
(* source has one buffer, m_buffer, that holds its last number or nothing. *)
(***************************************************************************)
EXTENDS Filters, FiniteSets

CONSTANTS
  Sources, Sinks,                     \* Sinks: the kinds of sink to look at
  MaxPushes, MaxControls, MaxFaults   \* bounds

ASSUME SourcesAssumption == "none" \notin Sources

VARIABLES
  sink,       \* the kind of sink at the end of the chain
  loop,       \* the io_context: "running" or "stopped"
  src,        \* of each source: started, pushed (buffers so far), receiving
              \* (m_isReceiving), buffer (in m_buffer) and conf (m_config)
  stack,      \* pushes that wait in connectAsync: source, id and ec
  current,    \* the source whose buffer is in the filter, or "none"
  dev,        \* the sink: socket; stream, runs and config (PortAudioSink), by
              \* (who pushed config); open and name (FileSink)
  ops,        \* connects: flying, or done and not yet handled
  out,        \* what the sink has given out; for FileSink, the file
  controls, faults

sinkVars == <<sink, loop, src, stack, current, dev, ops, out, controls,
              faults>>
vars == <<sinkVars, filterVars>>

Init ==
  /\ FiltersInit
  /\ sink \in Sinks /\ (sink = "portaudio" \/ node = "none")
  /\ loop = "running"
  /\ src = [s \in Sources |-> [started |-> FALSE, pushed |-> 0,
                               receiving |-> TRUE, buffer |-> 0, conf |-> 0]]
  /\ stack = <<>> /\ current = "none"
  /\ dev = [socket |-> "closed", stream |-> 0, runs |-> FALSE, config |-> 0,
            by |-> "none", open |-> FALSE, name |-> 1]
  /\ ops = {} /\ out = <<>>
  /\ controls = 0 /\ faults = 0

Top == stack[Len(stack)]

\* The main loop runs a handler: run() itself, or runOne() of a connectAsync
\* that has no result yet.
CanRun ==
  /\ loop = "running" /\ current = "none"
  /\ stack # <<>> => Top.ec = "pending"

\* A failure of the kind given, or none.
Fault(f, kinds) ==
  \/ f = "none" /\ UNCHANGED faults
  \/ f \in kinds /\ faults < MaxFaults /\ faults' = faults + 1
-----------------------------------------------------------------------------
(* PortAudioSink.  Opening fails without a configuration; a stream that    *)
(* does not run cannot be stopped, and is then not closed either.          *)

PaStart(d, f) ==
  IF d.config = 0 \/ f = "open" THEN d
  ELSE [d EXCEPT !.stream = d.config, !.runs = f # "start"]

PaStop(d, f) ==
  IF d.stream = 0 \/ ~d.runs \/ f = "stop" THEN d
  ELSE [d EXCEPT !.stream = 0, !.runs = FALSE]

\* Mutant: the stream is not opened again.
ConfigOnly(d, rate, f) == [d EXCEPT !.config = rate]

PaConfig(d, rate, f) ==
  LET new == [d EXCEPT !.config = rate]
  IN IF d.config = rate THEN d
     ELSE IF d.stream = 0 THEN new ELSE PaStart(PaStop(new, f), f)

Played(s, n, rate) == [src |-> s, n |-> n, rate |-> rate,
                       stream |-> dev.stream, by |-> dev.by]

PaProcess(s, rate) ==
  IF dev.stream # 0 /\ dev.runs
  THEN Append(out, Played(s, src[s].buffer, rate)) ELSE out
-----------------------------------------------------------------------------
(* TcpClientSink.  The socket is closed, opening, up or broken: isConnected *)
(* is true of all but the first.                                           *)

isConnected == dev.socket # "closed"

Aborted(o) == {[c EXCEPT !.res = IF @ = "flying" THEN "fail" ELSE @] : c \in o}

Close == dev' = [dev EXCEPT !.socket = "closed"] /\ ops' = Aborted(ops)

\* async_connect, which closes a socket that is open.
AsyncConnect(owner) ==
  /\ dev' = [dev EXCEPT !.socket = "opening"]
  /\ ops' = Aborted(ops) \cup {[owner |-> owner, res |-> "flying"]}

\* onStart: its connect belongs to no push.
TcpStart == AsyncConnect(<<"start", controls>>)

\* boost::asio::write blocks until a socket that is opening has its answer.
TcpWrite(s, n) ==
  \/ /\ dev.socket \in {"up", "opening"}
     /\ dev' = [dev EXCEPT !.socket = "up"]
     /\ ops' = {[c EXCEPT !.res = IF @ = "fail" THEN @ ELSE "ok"] : c \in ops}
     /\ out' = IF n = 0 THEN out ELSE Append(out, Played(s, n, 0))
  \/ /\ dev.socket \in {"broken", "opening"}
     /\ Close
     /\ UNCHANGED out

\* The host answers, or the system gives up; the socket stays open.
HostAnswers ==
  \E c \in ops, res \in {"ok", "fail"} :
    /\ c.res = "flying"
    /\ ops' = (ops \ {c}) \cup {[c EXCEPT !.res = res]}
    /\ dev' = [dev EXCEPT !.socket = IF res = "ok" THEN "up" ELSE "broken"]
    /\ UNCHANGED <<sink, loop, src, stack, current, out, controls, faults,
                   filterVars>>

PeerCloses ==
  /\ dev.socket = "up" /\ faults < MaxFaults
  /\ dev' = [dev EXCEPT !.socket = "broken"]
  /\ faults' = faults + 1
  /\ UNCHANGED <<sink, loop, src, stack, current, ops, out, controls,
                 filterVars>>

\* Mutant: the handler returns early when the connect has failed.
CompletionOnlyOfOk(c) ==
  stack' = [i \in DOMAIN stack |->
              IF stack[i].id = c.owner /\ c.res = "ok" /\ isConnected
              THEN [stack[i] EXCEPT !.ec = "ok"] ELSE stack[i]]

\* A connect's handler sets the ec of the push it belongs to; onStart's logs.
Completion(c) ==
  LET ec == IF c.res = "ok" /\ isConnected THEN "ok" ELSE "error"
  IN stack' = [i \in DOMAIN stack |->
                 IF stack[i].id = c.owner THEN [stack[i] EXCEPT !.ec = ec]
                 ELSE stack[i]]

RunCompletion ==
  /\ CanRun
  /\ \E c \in ops : /\ c.res # "flying"
                    /\ Completion(c)
                    /\ ops' = ops \ {c}
  /\ UNCHANGED <<sink, loop, src, current, dev, out, controls, faults,
                 filterVars>>
-----------------------------------------------------------------------------
(* FileSink and AppSink.                                                   *)

\* onStart closes the file and opens it again, which empties it.
FileStart == dev' = [dev EXCEPT !.open = TRUE] /\ out' = <<>>

FileStop == dev' = [dev EXCEPT !.open = FALSE]

FileProcess(s, n) ==
  /\ dev' = [dev EXCEPT !.open = TRUE]
  /\ out' = Append(IF dev.open THEN out ELSE <<>>, Played(s, n, 0))

setFileName ==
  /\ CanRun /\ sink = "file" /\ controls < MaxControls
  /\ controls' = controls + 1
  /\ \E name \in {1, 2} :
       /\ name # dev.name
       /\ dev' = [dev EXCEPT !.name = name]
       /\ out' = IF dev.open THEN <<>> ELSE out
  /\ UNCHANGED <<sink, loop, src, stack, current, ops, faults, filterVars>>

AppProcess(s, n) == out' = Append(out, Played(s, n, 0))
-----------------------------------------------------------------------------
(* Source.                                                                 *)

\* onStart and onStop of the sink.
SinkStart ==
  \/ /\ sink = "portaudio"
     /\ \E f \in {"none", "open", "start"} : /\ Fault(f, {"open", "start"})
                                             /\ dev' = PaStart(dev, f)
     /\ UNCHANGED <<ops, out>>
  \/ /\ sink = "tcp"
     /\ TcpStart /\ UNCHANGED <<out, faults>>
  \/ sink = "file" /\ FileStart /\ UNCHANGED <<ops, faults>>
  \/ sink = "app" /\ UNCHANGED <<dev, ops, out, faults>>

SinkStop ==
  \/ /\ sink = "portaudio"
     /\ \E f \in {"none", "stop"} : /\ Fault(f, {"stop"})
                                    /\ dev' = PaStop(dev, f)
     /\ UNCHANGED ops
  \/ sink = "tcp" /\ Close /\ UNCHANGED faults
  \/ sink = "file" /\ FileStop /\ UNCHANGED <<ops, faults>>
  \/ sink = "app" /\ UNCHANGED <<dev, ops, faults>>

Start ==
  /\ CanRun /\ controls < MaxControls
  /\ controls' = controls + 1
  /\ \E s \in Sources : src' = [src EXCEPT ![s].started = TRUE]
  /\ SinkStart
  /\ UNCHANGED <<sink, loop, stack, current, filterVars>>

Stop ==
  /\ CanRun /\ controls < MaxControls
  /\ controls' = controls + 1
  /\ \E s \in Sources : src' = [src EXCEPT ![s].started = FALSE]
  /\ SinkStop
  /\ UNCHANGED <<sink, loop, stack, current, out, filterVars>>

\* Mainloop::stop, called by a handler.
StopLoop ==
  /\ CanRun /\ sink = "tcp" /\ controls < MaxControls
  /\ controls' = controls + 1 /\ loop' = "stopped"
  /\ UNCHANGED <<sink, src, stack, current, dev, ops, out, faults, filterVars>>

\* The end of the chain clears the buffer, and the source receives again.
Processed(sources, s) ==
  [sources EXCEPT ![s] = [sources[s] EXCEPT !.buffer = 0, !.receiving = TRUE]]

\* Mutant: the next datagram is received while this one is pushed.
ReceivedEarly(s) ==
  [src EXCEPT ![s].pushed = @ + 1, ![s].buffer = src[s].pushed + 1]

\* A datagram arrives: onReceived.  The source receives again at its end.
Received(s) ==
  LET n == src[s].pushed + 1
  IN [src EXCEPT ![s] = [src[s] EXCEPT !.receiving = FALSE, !.pushed = n,
                                       !.buffer = n]]

CanReceive(s) == CanRun /\ src[s].receiving /\ src[s].pushed < MaxPushes

\* A source that is not started ignores the buffer and receives into it.
PushIgnored ==
  /\ \E s \in Sources : /\ CanReceive(s) /\ ~src[s].started
                        /\ src' = [Received(s) EXCEPT ![s].receiving = TRUE]
  /\ UNCHANGED <<sink, loop, stack, current, dev, ops, out, controls, faults,
                 filterVars>>

\* pushBuffer into PortAudioSink: the configuration, if it is a new one for
\* this source, and then the filter.
PushAudio(s, rate) ==
  /\ sink = "portaudio"
  /\ src' = [Received(s) EXCEPT ![s].conf = rate]
  /\ IF src[s].conf = rate THEN UNCHANGED <<dev, faults>>
     ELSE \E f \in {"none", "stop", "open", "start"} :
            /\ Fault(f, {"stop", "open", "start"})
            /\ dev' = [PaConfig(dev, rate, f) EXCEPT !.by = s]
  /\ current' = s
  /\ EnterProcess(rate)
  /\ UNCHANGED <<stack, ops, out>>

\* Out of the filter, into the sink.
PopAudio ==
  /\ current # "none" /\ main.pc = "done"
  /\ out' = PaProcess(current, main.arg)
  /\ src' = Processed(src, current)
  /\ current' = "none"
  /\ main' = Idle /\ used' = <<>>
  /\ UNCHANGED <<sink, loop, stack, dev, ops, controls, faults, node, bq,
                 headroom, volume, mutex, app, conf, ghosts>>

\* TcpClientSink::onProcess with a socket that is closed: resolve, connect,
\* and run the loop.
PushConnects(s) ==
  /\ sink = "tcp" /\ ~isConnected
  /\ LET id == <<s, src[s].pushed + 1>>
     IN \/ /\ AsyncConnect(id)
           /\ stack' = Append(stack, [src |-> s, id |-> id, ec |-> "pending"])
           /\ src' = Received(s)
           /\ UNCHANGED <<out, faults>>
        \/ /\ Fault("resolve", {"resolve"})
           /\ src' = Processed(Received(s), s)
           /\ UNCHANGED <<stack, dev, ops, out>>
  /\ UNCHANGED <<current, filterVars>>

PushWrites(s, n) ==
  /\ \/ sink = "file" /\ FileProcess(s, n) /\ UNCHANGED ops
     \/ sink = "app" /\ AppProcess(s, n) /\ UNCHANGED <<dev, ops>>
     \/ sink = "tcp" /\ isConnected /\ TcpWrite(s, n)
  /\ src' = Processed(Received(s), s)
  /\ UNCHANGED <<stack, current, faults, filterVars>>

Push ==
  /\ \E s \in Sources :
       /\ CanReceive(s) /\ src[s].started
       /\ \/ \E rate \in Rates : PushAudio(s, rate)
          \/ PushConnects(s)
          \/ PushWrites(s, src[s].pushed + 1)
  /\ UNCHANGED <<sink, loop, controls>>

\* The end of connectAsync, and with a connection the write.
Resume ==
  /\ stack # <<>> /\ Top.ec # "pending"
  /\ IF Top.ec = "error" \/ ~isConnected THEN Close /\ UNCHANGED out
     ELSE TcpWrite(Top.src, src[Top.src].buffer)
  /\ src' = Processed(src, Top.src)
  /\ stack' = SubSeq(stack, 1, Len(stack) - 1)
  /\ UNCHANGED <<sink, loop, current, controls, faults, filterVars>>
-----------------------------------------------------------------------------
\* The application calls a setter of the filter.
FilterCall ==
  /\ controls < MaxControls /\ controls' = controls + 1
  /\ CallSetter \/ setVolume
  /\ UNCHANGED <<sink, loop, src, stack, current, dev, ops, out, faults>>

FilterStep == (AppThread \/ MainThread) /\ UNCHANGED sinkVars

Next ==
  \/ Start \/ Stop \/ StopLoop \/ setFileName
  \/ PushIgnored \/ Push \/ PopAudio \/ Resume
  \/ HostAnswers \/ PeerCloses \/ RunCompletion
  \/ FilterCall \/ FilterStep

\* The threads run, and a connect ends: the system has its own time limit.
Fairness ==
  /\ WF_vars(Resume) /\ WF_vars(PopAudio)
  /\ WF_vars(HostAnswers) /\ WF_vars(RunCompletion)
  /\ WF_vars(MainThread /\ UNCHANGED sinkVars)
  /\ WF_vars(AppThread /\ UNCHANGED sinkVars)

Spec == Init /\ [][Next]_vars /\ Fairness
-----------------------------------------------------------------------------
(* Properties.                                                             *)

\* A push that waits for its connection lets pushes of other sources overtake
\* it, and comes back to the buffer it was called with: no source receives
\* into a buffer that waits.  So what leaves a sink is in order for each source
\* and never twice.
OutInOrder ==
  /\ \A i \in DOMAIN stack :
       src[stack[i].src].buffer = stack[i].id[2]
  /\ \A i, j \in DOMAIN out :
       i < j /\ out[i].src = out[j].src => out[i].n < out[j].n

\* PortAudioSink plays a buffer with another rate than the buffer's own only
\* if another source was the last to push a configuration: with one source,
\* whatever fails while it is stopped, opened and started, the rate is right.
RateOnlyByOther ==
  sink = "portaudio" =>
    \A i \in DOMAIN out :
      out[i].stream # out[i].rate => out[i].by # out[i].src

\* Every push returns, those in nested loops too, unless the main loop is
\* stopped under them: then connectAsync spins.
PushReturns ==
  /\ stack # <<>> ~> stack = <<>> \/ loop = "stopped"
  /\ current # "none" ~> current = "none"
=============================================================================
