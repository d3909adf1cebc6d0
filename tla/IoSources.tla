----------------------------- MODULE IoSources -----------------------------
(***************************************************************************)
(* The sources that live on the main loop's io_context: UdpSource and      *)
(* FdSource, from construction to the last handler that may run for them.  *)
(*                                                                         *)
(* One thread drives everything: it is either in the application, which    *)
(* constructs, initialises and destroys sources and calls Mainloop::poll,  *)
(* run or runOne, or inside the poll() a destructor makes.  The io_context *)
(* keeps, per source, the asynchronous reads that still wait for data, and *)
(* one queue of completed operations whose handlers have yet to run.  It   *)
(* stops by itself when it runs out of work, and once stopped it runs      *)
(* nothing before restart() is called.                                     *)
(*                                                                         *)
(* An object is constructed once; a second object is another element of    *)
(* Udp or Fd.  What a read delivers is not modelled here (see ReceiveLoop) *)
(* except from which descriptor it came.                                   *)
(***************************************************************************)
EXTENDS Naturals, Sequences, FiniteSets

CONSTANTS
    Udp,                \* the UdpSource objects the application constructs
    Fd,                 \* the FdSource objects
    Nobody,             \* no destructor is running
    MaxInits,           \* bound: how often init() is called on one FdSource
    Applications        \* the kinds of applications, each the set of the
                        \* habits it has (see Habits)

\* What an application may do besides: build a UdpSource while the loop is
\* stopped, call init() while a read has completed whose handler has not run
\* yet, call Mainloop::stop().
Habits == {"createsWhenStopped", "initsWhenQueued", "stops"}

ASSUME IoAssumption ==
    /\ Udp \cap Fd = {}
    /\ Nobody \notin Udp \cup Fd
    /\ MaxInits \in Nat
    /\ Applications \subseteq SUBSET Habits

Sources == Udp \cup Fd

VARIABLES
    stopped,      \* io_context::stopped()
    waiting,      \* waiting[s]: reads of s the reactor waits for
    queue,        \* completed operations, first the one that runs next
    life,         \* life[s]: unborn, alive, destroying (in ~T) or dead
    isOpen,       \* is the socket or descriptor of s open?
    inits,        \* inits[s]: which descriptor s has, counting init() calls
    isReceiving,  \* UdpSource::m_isReceiving
    isReady,      \* Source::m_isReady: set by a push, reset by stop()
    polling,      \* the source whose destructor polls, or Nobody
    habits        \* the habits of this run's application; never changes

vars == <<stopped, waiting, queue, life, isOpen, inits, isReceiving, isReady,
          polling, habits>>

Outcomes == {"ok", "error", "aborted"}
Completion == [source : Sources, fd : 0..MaxInits, ec : Outcomes]

TypeOK ==
    /\ stopped \in BOOLEAN
    /\ waiting \in [Sources -> Nat]
    /\ queue \in Seq(Completion)
    /\ life \in [Sources -> {"unborn", "alive", "destroying", "dead"}]
    /\ isOpen \in [Sources -> BOOLEAN]
    /\ inits \in [Sources -> 0..MaxInits]
    /\ isReceiving \in [Sources -> BOOLEAN]
    /\ isReady \in [Sources -> BOOLEAN]
    /\ polling \in Sources \cup {Nobody}
    /\ habits \in Applications

Init ==
    /\ stopped = FALSE
    /\ waiting = [s \in Sources |-> 0]
    /\ queue = <<>>
    /\ life = [s \in Sources |-> "unborn"]
    /\ isOpen = [s \in Sources |-> FALSE]
    /\ inits = [s \in Sources |-> 0]
    /\ isReceiving = [s \in Sources |-> FALSE]
    /\ isReady = [s \in Sources |-> FALSE]
    /\ polling = Nobody
    /\ habits \in Applications

----------------------------------------------------------------------------
(* The io_context *)

\* Does queue q hold a completed operation of s?
InQueue(q, s) == \E i \in DOMAIN q : q[i].source = s

\* outstanding_work_: something waits, or a handler has yet to run.
WorkIn(w, q) == \E s \in Sources : w[s] > 0 \/ InQueue(q, s)
Work == WorkIn(waiting, queue)

Completed(s, ec) == [source |-> s, fd |-> inits[s], ec |-> ec]

\* close(): every waiting read is queued as aborted; q is the queue before.
Aborted(q, s) == q \o [i \in 1..waiting[s] |-> Completed(s, "aborted")]

\* The reactor finds that a read of s can complete, with data or an error.
Complete(s, ec) ==
    /\ waiting[s] > 0
    /\ waiting' = [waiting EXCEPT ![s] = @ - 1]
    /\ queue' = Append(queue, Completed(s, ec))
    /\ UNCHANGED <<stopped, life, isOpen, inits, isReceiving, isReady,
                   polling, habits>>

----------------------------------------------------------------------------
(* Handlers.  The head of the queue is popped; the loop stops itself when  *)
(* the handler leaves no work behind.                                      *)

\* An asynchronous read on a closed socket completes at once with an error.
Rearm(s) ==
    IF isOpen[s]
    THEN /\ waiting' = [waiting EXCEPT ![s] = @ + 1]
         /\ queue' = Tail(queue)
    ELSE /\ queue' = Append(Tail(queue), Completed(s, "error"))
         /\ UNCHANGED waiting

StopWhenOutOfWork == stopped' = ~WorkIn(waiting', queue')

\* Source::pushBuffer considers the source ready.
Push(e) == isReady' = [isReady EXCEPT ![e.source] = TRUE]

\* UdpSource::onReceived.  m_isReceiving stays set when the read failed.
OnReceived(e) ==
    \/ /\ e.ec # "ok"
       /\ queue' = Tail(queue)
       /\ UNCHANGED <<waiting, isReceiving, isReady>>
    \/ /\ e.ec = "ok"
       /\ Push(e)
       /\ Rearm(e.source)
       /\ isReceiving' = [isReceiving EXCEPT ![e.source] = TRUE]

\* Mutant: an error leaves the source ready.
OnReadForgetsStop(e) ==
    \/ /\ e.ec # "ok"
       /\ queue' = Tail(queue)
       /\ UNCHANGED <<waiting, isReceiving, isReady>>
    \/ /\ e.ec = "ok"
       /\ Push(e)
       /\ Rearm(e.source)
       /\ UNCHANGED isReceiving

\* Mutant: a failed read is started again.
OnReadGoesOn(e) ==
    /\ Rearm(e.source)
    /\ isReady' = [isReady EXCEPT ![e.source] = e.ec = "ok"]
    /\ UNCHANGED isReceiving

\* FdSourcePrivate::onRead: an error stops the pipeline.
OnRead(e) ==
    \/ /\ e.ec # "ok"
       /\ queue' = Tail(queue)
       /\ isReady' = [isReady EXCEPT ![e.source] = FALSE]
       /\ UNCHANGED <<waiting, isReceiving>>
    \/ /\ e.ec = "ok"
       /\ Push(e)
       /\ Rearm(e.source)
       /\ UNCHANGED isReceiving

RunHandler ==
    /\ ~stopped
    /\ queue # <<>>
    /\ LET e == Head(queue)
       IN  \/ e.source \in Udp /\ OnReceived(e)
           \/ e.source \in Fd /\ OnRead(e)
    /\ StopWhenOutOfWork
    /\ UNCHANGED <<life, isOpen, inits, polling, habits>>

----------------------------------------------------------------------------
(* What the application calls *)

InApplication == polling = Nobody

\* Mainloop::poll, run and runOne run one handler after the other.
PollHandler == InApplication /\ RunHandler

\* Called without any work they stop the io_context.
PollWithoutWork ==
    /\ InApplication
    /\ ~stopped
    /\ ~Work
    /\ stopped' = TRUE
    /\ UNCHANGED <<waiting, queue, life, isOpen, inits, isReceiving, isReady,
                   polling, habits>>

\* Mainloop::stop
StopLoop ==
    /\ InApplication
    /\ "stops" \in habits
    /\ ~stopped
    /\ stopped' = TRUE
    /\ UNCHANGED <<waiting, queue, life, isOpen, inits, isReceiving, isReady,
                   polling, habits>>

\* UdpSource::UdpSource opens and binds the socket; if the multicast group
\* cannot be joined it returns without a receive.  It does not restart the
\* io_context.
CreateUdp(u, joined) ==
    /\ InApplication
    /\ life[u] = "unborn"
    /\ "createsWhenStopped" \in habits \/ ~stopped
    /\ life' = [life EXCEPT ![u] = "alive"]
    /\ isOpen' = [isOpen EXCEPT ![u] = TRUE]
    /\ isReceiving' = [isReceiving EXCEPT ![u] = joined]
    /\ waiting' = [waiting EXCEPT ![u] = IF joined THEN 1 ELSE 0]
    /\ UNCHANGED <<stopped, queue, inits, isReady, polling, habits>>

CreateFd(f) ==
    /\ InApplication
    /\ life[f] = "unborn"
    /\ life' = [life EXCEPT ![f] = "alive"]
    /\ UNCHANGED <<stopped, waiting, queue, isOpen, inits, isReceiving,
                   isReady, polling, habits>>

MayInit(f) ==
    /\ InApplication
    /\ life[f] = "alive"
    /\ inits[f] < MaxInits
    /\ \/ "initsWhenQueued" \in habits
       \/ \A i \in DOMAIN queue : queue[i].source = f => queue[i].ec # "ok"

\* Mutant: the io_context is not restarted.
InitForgetsRestart(f) ==
    /\ MayInit(f)
    /\ queue' = Aborted(queue, f)
    /\ waiting' = [waiting EXCEPT ![f] = 1]
    /\ isOpen' = [isOpen EXCEPT ![f] = TRUE]
    /\ inits' = [inits EXCEPT ![f] = @ + 1]
    /\ UNCHANGED <<stopped, life, isReceiving, isReady, polling, habits>>

\* FdSource::init with a descriptor: the old one is closed, the new one read,
\* the io_context restarted.
InitValid(f) ==
    /\ MayInit(f)
    /\ queue' = Aborted(queue, f)
    /\ waiting' = [waiting EXCEPT ![f] = 1]
    /\ isOpen' = [isOpen EXCEPT ![f] = TRUE]
    /\ inits' = [inits EXCEPT ![f] = @ + 1]
    /\ stopped' = FALSE
    /\ UNCHANGED <<life, isReceiving, isReady, polling, habits>>

\* FdSource::init with an invalid descriptor: close, stop, return.
InitInvalid(f) ==
    /\ MayInit(f)
    /\ queue' = Aborted(queue, f)
    /\ waiting' = [waiting EXCEPT ![f] = 0]
    /\ isOpen' = [isOpen EXCEPT ![f] = FALSE]
    /\ inits' = [inits EXCEPT ![f] = @ + 1]
    /\ isReady' = [isReady EXCEPT ![f] = FALSE]
    /\ UNCHANGED <<stopped, life, isReceiving, polling, habits>>

----------------------------------------------------------------------------
(* ~UdpSource and ~FdSource: close, poll until nothing is ready, delete *)

Destroy(s) ==
    /\ InApplication
    /\ life[s] = "alive"
    /\ life' = [life EXCEPT ![s] = "destroying"]
    /\ polling' = s
    /\ isOpen' = [isOpen EXCEPT ![s] = FALSE]
    /\ queue' = Aborted(queue, s)
    /\ waiting' = [waiting EXCEPT ![s] = 0]
    \* poll() without outstanding work stops the io_context.
    /\ stopped' = (stopped \/ ~Work)
    /\ UNCHANGED <<inits, isReceiving, isReady, habits>>

DestructorPolls == ~InApplication /\ RunHandler

\* Mutant: the destructor does not wait for the handlers.
DeleteAtOnce ==
    /\ ~InApplication
    /\ life' = [life EXCEPT ![polling] = "dead"]
    /\ polling' = Nobody
    /\ UNCHANGED <<stopped, waiting, queue, isOpen, inits, isReceiving,
                   isReady, habits>>

\* poll() returns when no handler is ready, or at once when stopped.
Delete ==
    /\ ~InApplication
    /\ queue = <<>> \/ stopped
    /\ life' = [life EXCEPT ![polling] = "dead"]
    /\ polling' = Nobody
    /\ UNCHANGED <<stopped, waiting, queue, isOpen, inits, isReceiving,
                   isReady, habits>>

----------------------------------------------------------------------------
Next ==
    \/ \E s \in Sources, ec \in {"ok", "error"} : Complete(s, ec)
    \/ PollHandler
    \/ PollWithoutWork
    \/ StopLoop
    \/ \E u \in Udp, joined \in BOOLEAN : CreateUdp(u, joined)
    \/ \E f \in Fd : CreateFd(f) \/ InitValid(f) \/ InitInvalid(f)
    \/ \E s \in Sources : Destroy(s)
    \/ DestructorPolls
    \/ Delete

\* The application keeps calling into the main loop, and poll() returns.
Fairness == WF_vars(PollHandler) /\ WF_vars(DestructorPolls) /\ WF_vars(Delete)

Spec == Init /\ [][Next]_vars /\ Fairness

----------------------------------------------------------------------------
(* Properties *)

\* The application leaves the loop to itself and builds no UdpSource on it
\* once it has stopped.
LoopKept == habits \cap {"createsWhenStopped", "stops"} = {}

\* No handler ever runs on a deleted object: both destructors close and then
\* poll so that the aborted handler runs before the memory goes.
HandlerLive == RunHandler => life[Head(queue).source] # "dead"
HandlerOnLiveObject == [][LoopKept => HandlerLive]_vars

\* The same of every application: both destructors say that they poll so that
\* no handler is called on a deleted object.
HandlerAlwaysOnLiveObject == [][HandlerLive]_vars

\* The main loop never sits stopped while an operation of a source is
\* outstanding: such a source would be deaf until someone restarts the loop.
WorkIsServed == LoopKept => (Work => ~stopped)

\* One read loop per source.  A UdpSource guards it with m_isReceiving, an
\* FdSource only by the order of close, assign and doRead.
LiveReads(s) ==
    waiting[s] + Cardinality({i \in DOMAIN queue : /\ queue[i].source = s
                                                   /\ queue[i].ec = "ok"})
OneReadLoop ==
    "initsWhenQueued" \notin habits => \A s \in Sources : LiveReads(s) <= 1

\* A completed operation is handled in the end, whatever else the application
\* does, for as long as the loop is not left stopped.
CompletionsHandled ==
    \A s \in Sources :
        LoopKept /\ InQueue(queue, s)
            ~> (~InQueue(queue, s) \/ waiting[s] > 0)

\* A source whose descriptor was replaced by an invalid one ends up not ready,
\* even if data of the old descriptor was still pushed after init().
InvalidFdStops ==
    \A f \in Fd : LoopKept /\ life[f] = "alive" /\ ~isOpen[f]
                     ~> (isOpen[f] \/ ~isReady[f] \/ life[f] # "alive")

============================================================================
