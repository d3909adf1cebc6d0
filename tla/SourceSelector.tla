--------------------------- MODULE SourceSelector ---------------------------
(***************************************************************************)
(* coro::core::Source and coro::core::SourceSelector.                      *)
(*                                                                         *)
(* A Source carries three atomic flags (m_isControlled, m_isStarted,       *)
(* m_isReady) and a mutex that guards its ready callback.  The selector    *)
(* keeps an unsynchronised list of sources and installs onSourceReady as   *)
(* the ready callback of each.  Any thread may push a buffer through a     *)
(* source, stop it or start it, so the flags are read and written one at a *)
(* time: every read or write of a flag is a step of its own.               *)
(*                                                                         *)
(* The list is walked in insertion order by the code; here a walk visits   *)
(* the listed sources in any order, so nothing depends on that order.      *)
(* addSource and removeSource change the list without a lock: they are     *)
(* taken only while no thread is inside a Source operation, which is what  *)
(* their caller has to ensure.                                             *)
(***************************************************************************)
EXTENDS Naturals, FiniteSets

CONSTANTS Sources,       \* the Source objects of the application
          SelfStarting,  \* those whose owner also calls start() itself, as
                         \* AirplaySource does when a stream begins
          Threads,       \* the threads that call into the sources
          Nobody         \* owner of a free mutex

ASSUME NobodyAssumption == Nobody \notin Threads
ASSUME SelfStartingAssumption == SelfStarting \subseteq Sources

VARIABLES isStarted,     \* Source::m_isStarted
          isReady,       \* Source::m_isReady
          isControlled,  \* Source::m_isControlled
          hasCallback,   \* whether Source::m_isReadyCallback is set
          mutex,         \* Source::m_mutex: the owner, or Nobody
          chain,         \* whether the nodes behind the source were last
                         \* told onStart (TRUE) or onStop (FALSE)
          sources,       \* SourceSelectorPrivate::sources
          pc,            \* the next step of each thread
          op,            \* the operation it is inside of
          src,           \* the source the operation was called on
          cur,           \* the source it is starting
          todo,          \* the part of the list its walk has still to visit
          orphans        \* history: listed sources that were waiting when the
                         \* only running source was removed from the list

flags == <<isStarted, isReady, isControlled, hasCallback>>
call == <<op, src, cur>>
vars == <<flags, mutex, chain, sources, pc, call, todo, orphans>>

Steps == {"idle", "onStop", "clearReady", "lock", "scan", "select",
          "start", "onStart", "unlock", "deliver"}
Ops == {"push", "stop", "start"}

\* An idle thread calls an operation of source s.
Begin(t, step, operation, s) ==
  /\ pc[t] = "idle"
  /\ pc' = [pc EXCEPT ![t] = step]
  /\ op' = [op EXCEPT ![t] = operation]
  /\ src' = [src EXCEPT ![t] = s]
  /\ cur' = [cur EXCEPT ![t] = s]
  /\ UNCHANGED todo

Goto(t, step) == pc' = [pc EXCEPT ![t] = step]
Visit(t, rest) == todo' = [todo EXCEPT ![t] = rest]

Quiescent == \A t \in Threads : pc[t] = "idle"

Running == {s \in sources : isStarted[s]}
-----------------------------------------------------------------------------
\* Mutant: readiness is declared only when it changes.
PushBufferOnChange(t, s) ==
  /\ Begin(t, IF isReady[s] THEN "deliver" ELSE "lock", "push", s)
  /\ isReady' = [isReady EXCEPT ![s] = TRUE]
  /\ UNCHANGED <<isStarted, isControlled, hasCallback, mutex, chain, sources,
                 orphans>>

(***************************************************************************)
(* Source::pushBuffer: the source is declared ready on every buffer, then  *)
(* the callback runs under the mutex, then the started flag decides        *)
(* whether the buffer enters the chain.                                    *)
(***************************************************************************)
PushBuffer(t, s) ==
  /\ Begin(t, "lock", "push", s)
  /\ isReady' = [isReady EXCEPT ![s] = TRUE]
  /\ UNCHANGED <<isStarted, isControlled, hasCallback, mutex, chain, sources,
                 orphans>>

\* Mutant: the mutex is not waited for.
LockWithoutWaiting(t) ==
  LET s == src[t] IN
  /\ pc[t] = "lock"
  /\ mutex' = [mutex EXCEPT ![s] = t]
  /\ Goto(t, IF hasCallback[s] THEN "scan" ELSE "unlock")
  /\ Visit(t, IF hasCallback[s] THEN sources ELSE {})
  /\ UNCHANGED <<flags, call, chain, sources, orphans>>

\* Mutant: onSourceReady returns after logging that a source stopped.
LockReturnsIfStopped(t) ==
  LET s == src[t]
      calls == hasCallback[s] /\ op[t] = "push" IN
  /\ pc[t] = "lock"
  /\ mutex[s] = Nobody
  /\ mutex' = [mutex EXCEPT ![s] = t]
  /\ Goto(t, IF calls THEN "scan" ELSE "unlock")
  /\ Visit(t, IF calls THEN sources ELSE {})
  /\ UNCHANGED <<flags, call, chain, sources, orphans>>

\* Source::setReady, after the flag was written: lock, then call the callback.
Lock(t) ==
  LET s == src[t] IN
  /\ pc[t] = "lock"
  /\ mutex[s] = Nobody
  /\ mutex' = [mutex EXCEPT ![s] = t]
  /\ Goto(t, IF hasCallback[s] THEN "scan" ELSE "unlock")
  /\ Visit(t, IF hasCallback[s] THEN sources ELSE {})
  /\ UNCHANGED <<flags, call, chain, sources, orphans>>

\* onSourceReady, first loop: give up as soon as a started source is seen.
Scan(t) ==
  /\ pc[t] = "scan"
  /\ \/ \E r \in todo[t] :
          IF isStarted[r]
          THEN Goto(t, "unlock") /\ Visit(t, {})
          ELSE Visit(t, todo[t] \ {r}) /\ UNCHANGED pc
     \/ todo[t] = {} /\ Goto(t, "select") /\ Visit(t, sources)
  /\ UNCHANGED <<flags, call, mutex, chain, sources, orphans>>

\* onSourceReady, second loop: every source found ready is started.
Select(t) ==
  /\ pc[t] = "select"
  /\ \/ \E r \in todo[t] :
          /\ Visit(t, todo[t] \ {r})
          /\ IF isReady[r]
             THEN Goto(t, "start") /\ cur' = [cur EXCEPT ![t] = r]
             ELSE UNCHANGED <<pc, cur>>
     \/ todo[t] = {} /\ Goto(t, "unlock") /\ UNCHANGED <<todo, cur>>
  /\ UNCHANGED <<op, src, flags, mutex, chain, sources, orphans>>

\* Source::start: the flag, whatever happened since the source was found ready.
SetStarted(t) ==
  /\ pc[t] = "start"
  /\ isStarted' = [isStarted EXCEPT ![cur[t]] = TRUE]
  /\ orphans' = orphans \ {cur[t]}
  /\ Goto(t, "onStart")
  /\ UNCHANGED <<call, todo, isReady, isControlled, hasCallback, mutex, chain,
                 sources>>

\* Source::start, after the flag was written: onStart down the chain.
OnStart(t) ==
  /\ pc[t] = "onStart"
  /\ chain' = [chain EXCEPT ![cur[t]] = TRUE]
  /\ Goto(t, IF op[t] = "start" THEN "idle" ELSE "select")
  /\ UNCHANGED <<call, todo, flags, mutex, sources, orphans>>

\* Mutant: a push is retried until its source is started.
UnlockAndRetry(t) ==
  /\ pc[t] = "unlock"
  /\ mutex' = [mutex EXCEPT ![src[t]] = Nobody]
  /\ Goto(t, IF op[t] # "push" THEN "idle"
             ELSE IF isStarted[src[t]] THEN "deliver" ELSE "lock")
  /\ UNCHANGED <<call, todo, flags, chain, sources, orphans>>

\* Source::setReady: unlock and return to pushBuffer or to stop's caller.
Unlock(t) ==
  /\ pc[t] = "unlock"
  /\ mutex' = [mutex EXCEPT ![src[t]] = Nobody]
  /\ Goto(t, IF op[t] = "push" THEN "deliver" ELSE "idle")
  /\ UNCHANGED <<call, todo, flags, chain, sources, orphans>>

\* Source::pushBuffer, last part: the buffer is processed by the chain (which
\* changes no state of this module) or dropped.
Enters(s) == isStarted[s] \/ ~isControlled[s]

Deliver(t) ==
  /\ pc[t] = "deliver"
  /\ Goto(t, "idle")
  /\ UNCHANGED <<call, todo, flags, mutex, chain, sources, orphans>>
-----------------------------------------------------------------------------
\* Mutant: stop leaves the started flag set.
StopKeepsStarted(t, s) ==
  /\ Begin(t, "onStop", "stop", s)
  /\ UNCHANGED <<flags, mutex, chain, sources, orphans>>

\* Source::stop: the started flag first, then the nodes, then the ready flag,
\* then the callback.
Stop(t, s) ==
  /\ Begin(t, "onStop", "stop", s)
  /\ isStarted' = [isStarted EXCEPT ![s] = FALSE]
  /\ UNCHANGED <<isReady, isControlled, hasCallback, mutex, chain, sources,
                 orphans>>

OnStop(t) ==
  /\ pc[t] = "onStop"
  /\ chain' = [chain EXCEPT ![src[t]] = FALSE]
  /\ Goto(t, "clearReady")
  /\ UNCHANGED <<call, todo, flags, mutex, sources, orphans>>

\* Mutant: clearing the ready flag does not call the callback.
ClearReadySilently(t) ==
  /\ pc[t] = "clearReady"
  /\ isReady' = [isReady EXCEPT ![src[t]] = FALSE]
  /\ orphans' = orphans \ {src[t]}
  /\ Goto(t, "idle")
  /\ UNCHANGED <<call, todo, isStarted, isControlled, hasCallback, mutex,
                 chain, sources>>

ClearReady(t) ==
  /\ pc[t] = "clearReady"
  /\ isReady' = [isReady EXCEPT ![src[t]] = FALSE]
  /\ orphans' = orphans \ {src[t]}
  /\ Goto(t, "lock")
  /\ UNCHANGED <<call, todo, isStarted, isControlled, hasCallback, mutex,
                 chain, sources>>

\* Source::start called from outside the selector.
Start(t, s) ==
  /\ s \in SelfStarting
  /\ Begin(t, "onStart", "start", s)
  /\ isStarted' = [isStarted EXCEPT ![s] = TRUE]
  /\ orphans' = orphans \ {s}
  /\ UNCHANGED <<isReady, isControlled, hasCallback, mutex, chain, sources>>
-----------------------------------------------------------------------------
\* SourceSelector::addSource: stop the source (it has no callback yet), take
\* control of it, install the callback, append it to the list.
AddSource(s) ==
  /\ Quiescent
  /\ s \notin sources
  /\ isStarted' = [isStarted EXCEPT ![s] = FALSE]
  /\ chain' = [chain EXCEPT ![s] = FALSE]
  /\ isReady' = [isReady EXCEPT ![s] = FALSE]
  /\ isControlled' = [isControlled EXCEPT ![s] = TRUE]
  /\ hasCallback' = [hasCallback EXCEPT ![s] = TRUE]
  /\ sources' = sources \cup {s}
  /\ UNCHANGED <<pc, call, todo, mutex, orphans>>

\* SourceSelector::removeSource: neither stops the source nor selects again.
RemoveSource(s) ==
  /\ Quiescent
  /\ s \in sources
  /\ hasCallback' = [hasCallback EXCEPT ![s] = FALSE]
  /\ sources' = sources \ {s}
  /\ isControlled' = [isControlled EXCEPT ![s] = FALSE]
  /\ orphans' = (orphans \ {s})
                  \cup (IF Running = {s} THEN {r \in sources' : isReady[r]}
                                         ELSE {})
  /\ UNCHANGED <<pc, call, todo, isStarted, isReady, mutex, chain>>
-----------------------------------------------------------------------------
\* A fresh Source is started, not ready, not controlled, without a callback;
\* none of its nodes was told onStart.
Init ==
  /\ isStarted = [s \in Sources |-> TRUE]
  /\ isReady = [s \in Sources |-> FALSE]
  /\ isControlled = [s \in Sources |-> FALSE]
  /\ hasCallback = [s \in Sources |-> FALSE]
  /\ mutex = [s \in Sources |-> Nobody]
  /\ chain = [s \in Sources |-> FALSE]
  /\ sources = {}
  /\ pc = [t \in Threads |-> "idle"]
  /\ op = [t \in Threads |-> "push"]
  /\ \E s \in Sources : src = [t \in Threads |-> s] /\ cur = src
  /\ todo = [t \in Threads |-> {}]
  /\ orphans = {}

\* The steps that follow from an operation already begun.
Step(t) ==
  \/ Lock(t) \/ Scan(t) \/ Select(t) \/ SetStarted(t) \/ OnStart(t)
  \/ Unlock(t) \/ Deliver(t) \/ OnStop(t) \/ ClearReady(t)

Next ==
  \/ \E t \in Threads : Step(t)
  \/ \E t \in Threads, s \in Sources :
       PushBuffer(t, s) \/ Stop(t, s) \/ Start(t, s)
  \/ \E s \in Sources : AddSource(s) \/ RemoveSource(s)

\* The scheduler runs every thread: an operation begun is carried on.
Fairness == \A t \in Threads : WF_vars(Step(t))

Spec == Init /\ [][Next]_vars /\ Fairness
-----------------------------------------------------------------------------
\* Every variable has its type.
TypeOK ==
  /\ isStarted \in [Sources -> BOOLEAN]
  /\ isReady \in [Sources -> BOOLEAN]
  /\ isControlled \in [Sources -> BOOLEAN]
  /\ hasCallback \in [Sources -> BOOLEAN]
  /\ mutex \in [Sources -> Threads \cup {Nobody}]
  /\ chain \in [Sources -> BOOLEAN]
  /\ sources \in SUBSET Sources
  /\ pc \in [Threads -> Steps]
  /\ op \in [Threads -> Ops]
  /\ src \in [Threads -> Sources]
  /\ cur \in [Threads -> Sources]
  /\ todo \in [Threads -> SUBSET Sources]
  /\ orphans \in SUBSET Sources

\* A thread is inside Source::setReady of source s, holding s.m_mutex.
Holds(t, s) ==
  /\ src[t] = s
  /\ \/ pc[t] \in {"scan", "select", "start", "unlock"}
     \/ pc[t] = "onStart" /\ op[t] # "start"

\* The ready callback of one source never runs in two threads at once
\* (the mutex taken in Source::setReady).
CallbackExclusive ==
  \A t, u \in Threads : \A s \in Sources :
    Holds(t, s) /\ Holds(u, s) => t = u

(***************************************************************************)
(* No wakeup is lost.  Once all calls have returned, a listed source that  *)
(* declared itself ready (Source::pushBuffer) is not left waiting while    *)
(* no listed source runs: whichever of the pushing and the stopping        *)
(* threads comes last performs the selection.  This rests on stop clearing *)
(* m_isStarted before it calls the callback and on pushBuffer setting      *)
(* m_isReady before it.  The exception is a source that was waiting when   *)
(* the running one was taken off the list, which removeSource ignores.     *)
(***************************************************************************)
NoLostWakeup ==
  Quiescent /\ Running = {} =>
    \A s \in sources : isReady[s] => s \in orphans

\* A selection under way will still look at source s, or start some source.
WillLookAt(t, s) ==
  \/ /\ pc[t] \in {"onStop", "clearReady", "lock", "scan"}
     /\ src[t] \in sources
  \/ pc[t] = "select" /\ s \in todo[t]
  \/ pc[t] = "start" /\ cur[t] \in sources

\* What makes NoLostWakeup inductive: at any moment a waiting source is
\* covered by a running source or by a selection that will still look at it.
WakeupPending ==
  \A s \in sources :
    isReady[s] /\ s \notin orphans =>
      \/ Running # {}
      \/ \E t \in Threads : WillLookAt(t, s)

(***************************************************************************)
(* A source on the list that keeps pushing buffers does not wait forever   *)
(* while nothing runs, not even after removeSource took the running source *)
(* away: pushBuffer declares readiness on every buffer, not only on the    *)
(* first.                                                                  *)
(***************************************************************************)
PusherServed ==
  \A s \in Sources :
    ([]<>(\E t \in Threads : pc[t] = "deliver" /\ src[t] = s))
      => []<>(s \notin sources \/ Running # {})

\* Every call into a Source returns: no thread blocks for ever on m_mutex.
CallsReturn ==
  \A t \in Threads : (pc[t] # "idle") ~> (pc[t] = "idle")

\* With the calls made one after the other, a buffer of a controlled source
\* enters the chain (Source::pushBuffer) only after the chain's nodes were
\* told onStart and not onStop since.
EntersStartedChain ==
  \A t \in Threads :
    LET s == src[t] IN
    pc[t] = "deliver" /\ isControlled[s] /\ Enters(s) => chain[s]
=============================================================================
