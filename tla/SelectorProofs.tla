--------------------------- MODULE SelectorProofs ---------------------------
(***************************************************************************)
(* Proofs about SourceSelector, for any sets of sources and threads.       *)
(***************************************************************************)
EXTENDS SourceSelector, TLAPS

\* The callback is installed exactly on the sources of the list.
CallbackInstalled == \A s \in Sources : hasCallback[s] <=> s \in sources

\* What a walk has still to visit is part of the list, and nothing is left
\* to visit outside a walk; a plain start() never walks.
WalkInv ==
  \A t \in Threads :
    /\ todo[t] \subseteq sources
    /\ pc[t] \notin {"idle", "onStart"} => op[t] # "start"
    /\ pc[t] = "start" => cur[t] \in sources
    /\ \/ pc[t] \in {"scan", "select", "start"}
       \/ pc[t] = "onStart" /\ op[t] # "start"
       \/ todo[t] = {}

\* A thread inside Source::setReady owns the mutex of its source.
MutexInv == \A t \in Threads : \A s \in Sources : Holds(t, s) => mutex[s] = t

IInv == TypeOK /\ CallbackInstalled /\ WalkInv /\ WakeupPending

-----------------------------------------------------------------------------
LEMMA TypeInit == Init => TypeOK
  BY DEF Init, TypeOK, Steps, Ops

\* No operation of Source or SourceSelector takes a variable out of its type.
LEMMA TypeStep == TypeOK /\ [Next]_vars => TypeOK'
<1> SUFFICES ASSUME TypeOK, [Next]_vars PROVE TypeOK'
  OBVIOUS
<1> USE DEF TypeOK, Steps, Ops, flags, call, Goto, Visit
<1>1. ASSUME NEW t \in Threads, NEW s \in Sources, PushBuffer(t, s)
      PROVE  TypeOK'
  BY <1>1 DEF PushBuffer, Begin
<1>2. ASSUME NEW t \in Threads, Lock(t) PROVE TypeOK'
  BY <1>2 DEF Lock
<1>3. ASSUME NEW t \in Threads, Scan(t) PROVE TypeOK'
  BY <1>3 DEF Scan
<1>4. ASSUME NEW t \in Threads, Select(t) \/ SetStarted(t) PROVE TypeOK'
  <2>1. CASE SetStarted(t)
    BY <2>1 DEF SetStarted
  <2>2. CASE Select(t)
    <3>1. cur' \in [Threads -> Sources] /\ pc' \in [Threads -> Steps]
      BY <2>2 DEF Select
    <3>2. todo' \in [Threads -> SUBSET Sources]
      BY <2>2 DEF Select
    <3>3. UNCHANGED <<op, src, flags, mutex, chain, sources, orphans>>
      BY <2>2 DEF Select
    <3>4. QED BY <3>1, <3>2, <3>3
  <2>3. QED BY <1>4, <2>1, <2>2
<1>5. ASSUME NEW t \in Threads, OnStart(t) PROVE TypeOK'
  BY <1>5 DEF OnStart
<1>6. ASSUME NEW t \in Threads, Unlock(t) PROVE TypeOK'
  BY <1>6, NobodyAssumption DEF Unlock
<1>7. ASSUME NEW t \in Threads, Deliver(t) PROVE TypeOK'
  BY <1>7 DEF Deliver
<1>8. ASSUME NEW t \in Threads, NEW s \in Sources, Stop(t, s) PROVE TypeOK'
  BY <1>8 DEF Stop, Begin
<1>9. ASSUME NEW t \in Threads, OnStop(t) PROVE TypeOK'
  BY <1>9 DEF OnStop
<1>10. ASSUME NEW t \in Threads, ClearReady(t) PROVE TypeOK'
  BY <1>10 DEF ClearReady
<1>11. ASSUME NEW t \in Threads, NEW s \in Sources, Start(t, s) PROVE TypeOK'
  BY <1>11 DEF Start, Begin
<1>12. ASSUME NEW s \in Sources, AddSource(s) PROVE TypeOK'
  BY <1>12 DEF AddSource
<1>13. ASSUME NEW s \in Sources, RemoveSource(s) PROVE TypeOK'
  BY <1>13 DEF RemoveSource
<1>14. CASE UNCHANGED vars
  BY <1>14 DEF vars
<1>15. QED
  BY <1>1, <1>2, <1>3, <1>4, <1>5, <1>6, <1>7, <1>8, <1>9, <1>10, <1>11,
     <1>12, <1>13, <1>14 DEF Next, Step

\* Type correctness of the sources, the list and the threads.
THEOREM TypeCorrect == Spec => []TypeOK
  BY TypeInit, TypeStep, PTL DEF Spec
-----------------------------------------------------------------------------
LEMMA MutexInit == Init => MutexInv
  BY DEF Init, MutexInv, Holds

\* Source::setReady enters and leaves the callback holding the mutex.
LEMMA MutexStep == TypeOK /\ MutexInv /\ [Next]_vars => MutexInv'
<1> SUFFICES ASSUME TypeOK, MutexInv, [Next]_vars PROVE MutexInv'
  OBVIOUS
<1> USE DEF TypeOK, MutexInv, Holds, flags, call, Goto, Visit
<1>1. ASSUME NEW t \in Threads, NEW s \in Sources,
             PushBuffer(t, s) \/ Stop(t, s) \/ Start(t, s)
      PROVE  MutexInv'
  BY <1>1 DEF PushBuffer, Stop, Start, Begin
<1>2. ASSUME NEW t \in Threads, Lock(t) PROVE MutexInv'
  BY <1>2, NobodyAssumption DEF Lock
<1>3. ASSUME NEW t \in Threads, Scan(t) PROVE MutexInv'
  BY <1>3 DEF Scan
<1>4. ASSUME NEW t \in Threads, Select(t) \/ SetStarted(t) PROVE MutexInv'
  BY <1>4 DEF Select, SetStarted
<1>5. ASSUME NEW t \in Threads, OnStart(t) PROVE MutexInv'
  BY <1>5 DEF OnStart
<1>6. ASSUME NEW t \in Threads, Unlock(t) PROVE MutexInv'
  BY <1>6 DEF Unlock
<1>7. ASSUME NEW t \in Threads, Deliver(t) \/ OnStop(t) \/ ClearReady(t)
      PROVE  MutexInv'
  BY <1>7 DEF Deliver, OnStop, ClearReady
<1>8. ASSUME NEW s \in Sources, AddSource(s) \/ RemoveSource(s)
      PROVE  MutexInv'
  BY <1>8 DEF AddSource, RemoveSource
<1>9. CASE UNCHANGED vars
  BY <1>9 DEF vars
<1>10. QED
  BY <1>1, <1>2, <1>3, <1>4, <1>5, <1>6, <1>7, <1>8, <1>9 DEF Next, Step

LEMMA MutexExcludes == MutexInv => CallbackExclusive
  BY DEF MutexInv, CallbackExclusive

\* The ready callback of a source never runs in two threads at once.
THEOREM CallbackExclusion == Spec => []CallbackExclusive
  BY TypeInit, TypeStep, MutexInit, MutexStep, MutexExcludes, PTL DEF Spec
-----------------------------------------------------------------------------
LEMMA ListInit == Init => CallbackInstalled /\ WalkInv
  BY DEF Init, CallbackInstalled, WalkInv

\* addSource and removeSource keep list and callbacks in step, and no walk is
\* under way when they change the list.
LEMMA ListStep ==
  TypeOK /\ CallbackInstalled /\ WalkInv /\ [Next]_vars
    => (CallbackInstalled /\ WalkInv)'
<1> SUFFICES ASSUME TypeOK, CallbackInstalled, WalkInv, [Next]_vars
             PROVE  (CallbackInstalled /\ WalkInv)'
  OBVIOUS
<1> USE DEF TypeOK, CallbackInstalled, WalkInv, flags, call, Goto, Visit
<1>1. ASSUME NEW t \in Threads, NEW s \in Sources,
             PushBuffer(t, s) \/ Stop(t, s) \/ Start(t, s)
      PROVE  (CallbackInstalled /\ WalkInv)'
  BY <1>1 DEF PushBuffer, Stop, Start, Begin
<1>2. ASSUME NEW t \in Threads, Lock(t)
      PROVE  (CallbackInstalled /\ WalkInv)'
  BY <1>2 DEF Lock
<1>3. ASSUME NEW t \in Threads, Scan(t)
      PROVE  (CallbackInstalled /\ WalkInv)'
  BY <1>3 DEF Scan
<1>4. ASSUME NEW t \in Threads, Select(t) \/ SetStarted(t)
      PROVE  (CallbackInstalled /\ WalkInv)'
  BY <1>4 DEF Select, SetStarted
<1>5. ASSUME NEW t \in Threads, OnStart(t)
      PROVE  (CallbackInstalled /\ WalkInv)'
  BY <1>5 DEF OnStart
<1>6. ASSUME NEW t \in Threads,
             Unlock(t) \/ Deliver(t) \/ OnStop(t) \/ ClearReady(t)
      PROVE  (CallbackInstalled /\ WalkInv)'
  BY <1>6 DEF Unlock, Deliver, OnStop, ClearReady
<1>7. ASSUME NEW s \in Sources, AddSource(s)
      PROVE  (CallbackInstalled /\ WalkInv)'
  BY <1>7 DEF AddSource, Quiescent
<1>8. ASSUME NEW s \in Sources, RemoveSource(s)
      PROVE  (CallbackInstalled /\ WalkInv)'
  BY <1>8 DEF RemoveSource, Quiescent
<1>9. CASE UNCHANGED vars
  BY <1>9 DEF vars
<1>10. QED
  BY <1>1, <1>2, <1>3, <1>4, <1>5, <1>6, <1>7, <1>8, <1>9 DEF Next, Step

LEMMA WakeupInit == Init => WakeupPending
  BY DEF Init, WakeupPending

\* Every step hands the duty to serve a waiting source on: to the caller that
\* just declared it ready, to the source that was seen running, or to the
\* thread that just stopped the last running one.
LEMMA WakeupStep == IInv /\ [Next]_vars => WakeupPending'
<1> SUFFICES ASSUME IInv, [Next]_vars,
                    NEW x \in sources', isReady'[x], x \notin orphans'
             PROVE  \/ Running' # {}
                    \/ \E t \in Threads : WillLookAt(t, x)'
  BY DEF WakeupPending
<1> USE DEF IInv, TypeOK, CallbackInstalled, WalkInv, flags, call, Goto, Visit
<1> DEFINE Goal == \/ Running' # {}
                   \/ \E t \in Threads : WillLookAt(t, x)'
<1>0. x \in Sources
  BY TypeStep DEF IInv, TypeOK
<1>1. ASSUME NEW t \in Threads, NEW s \in Sources, PushBuffer(t, s)
      PROVE  Goal
  <2>1. CASE x = s
    BY <1>1, <2>1 DEF PushBuffer, Begin, WillLookAt
  <2>2. CASE x # s
    BY <1>1, <2>2 DEF PushBuffer, Begin, WillLookAt, WakeupPending, Running
  <2>3. QED BY <2>1, <2>2
<1>2. ASSUME NEW t \in Threads, Lock(t) PROVE Goal
  BY <1>2 DEF Lock, WillLookAt, WakeupPending, Running
<1>3. ASSUME NEW t \in Threads, Scan(t) PROVE Goal
  <2>1. CASE \E r \in todo[t] : isStarted[r]
    BY <1>3, <2>1 DEF Scan, Running
  <2>2. CASE todo[t] # {} /\ ~ \E r \in todo[t] : isStarted[r]
    BY <1>3, <2>2 DEF Scan, WillLookAt, WakeupPending, Running
  <2>3. CASE todo[t] = {}
    BY <1>3, <2>3 DEF Scan, WillLookAt
  <2>4. QED BY <2>1, <2>2, <2>3
<1>4. ASSUME NEW t \in Threads, Select(t) PROVE Goal
  <2>1. CASE todo[t] = {}
    BY <1>4, <2>1 DEF Select, WillLookAt, WakeupPending, Running
  <2>2. ASSUME NEW r \in todo[t], isReady[r], Goto(t, "start"),
               cur' = [cur EXCEPT ![t] = r]
        PROVE  Goal
    BY <1>4, <2>2 DEF Select, WillLookAt
  <2>3. ASSUME NEW r \in todo[t], ~isReady[r], Visit(t, todo[t] \ {r}),
               UNCHANGED <<pc, cur>>
        PROVE  Goal
    <3>1. x # r
      BY <1>4, <2>3 DEF Select
    <3>2. QED
      BY <1>4, <2>3, <3>1 DEF Select, WillLookAt, WakeupPending, Running
  <2>4. QED
    BY <1>4, <2>1, <2>2, <2>3 DEF Select
<1>4a. ASSUME NEW t \in Threads, SetStarted(t) PROVE Goal
  BY <1>4a DEF SetStarted, Running
<1>5. ASSUME NEW t \in Threads, OnStart(t) PROVE Goal
  BY <1>5 DEF OnStart, WillLookAt, WakeupPending, Running
<1>6. ASSUME NEW t \in Threads, Unlock(t) \/ Deliver(t) PROVE Goal
  BY <1>6 DEF Unlock, Deliver, WillLookAt, WakeupPending, Running
<1>7. ASSUME NEW t \in Threads, NEW s \in Sources, Stop(t, s) PROVE Goal
  <2>1. CASE s \in sources
    BY <1>7, <2>1 DEF Stop, Begin, WillLookAt
  <2>2. CASE s \notin sources
    BY <1>7, <2>2 DEF Stop, Begin, WillLookAt, WakeupPending, Running
  <2>3. QED BY <2>1, <2>2
<1>8. ASSUME NEW t \in Threads, OnStop(t) PROVE Goal
  BY <1>8 DEF OnStop, WillLookAt, WakeupPending, Running
<1>9. ASSUME NEW t \in Threads, ClearReady(t) PROVE Goal
  BY <1>9 DEF ClearReady, WillLookAt, WakeupPending, Running
<1>10. ASSUME NEW t \in Threads, NEW s \in Sources, Start(t, s) PROVE Goal
  BY <1>10 DEF Start, Begin, WillLookAt, WakeupPending, Running
<1>11. ASSUME NEW s \in Sources, AddSource(s) PROVE Goal
  BY <1>11 DEF AddSource, Quiescent, WillLookAt, WakeupPending, Running
<1>12. ASSUME NEW s \in Sources, RemoveSource(s) PROVE Goal
  <2>1. CASE Running = {s}
    BY <1>12, <2>1 DEF RemoveSource
  <2>2. CASE Running # {s}
    BY <1>12, <2>2 DEF RemoveSource, Quiescent, WillLookAt, WakeupPending,
                       Running
  <2>3. QED BY <2>1, <2>2
<1>13. CASE UNCHANGED vars
  BY <1>13 DEF vars, WillLookAt, WakeupPending, Running
<1>14. QED
  BY <1>1, <1>2, <1>3, <1>4, <1>4a, <1>5, <1>6, <1>7, <1>8, <1>9, <1>10,
     <1>11, <1>12, <1>13 DEF Next, Step

LEMMA PendingSuffices == WakeupPending => NoLostWakeup
  BY DEF WakeupPending, NoLostWakeup, Quiescent, WillLookAt

LEMMA IInvInit == Init => IInv
  BY TypeInit, ListInit, WakeupInit DEF IInv

LEMMA IInvStep == IInv /\ [Next]_vars => IInv'
  BY TypeStep, ListStep, WakeupStep DEF IInv

\* At every moment, inside calls too, a source that declared itself ready is
\* covered by a running source or by a thread in Source::setReady or
\* Source::stop that will still look at it.
THEOREM WakeupStaysPending == Spec => []WakeupPending
<1>1. IInv => WakeupPending
  BY DEF IInv
<1>2. QED
  BY <1>1, IInvInit, IInvStep, PTL DEF Spec

\* Whatever the interleaving of pushes, stops and starts, a source that
\* declared itself ready is never left waiting once all calls have returned
\* while no source of the list runs.
THEOREM WakeupNotLost == Spec => []NoLostWakeup
  BY WakeupStaysPending, PendingSuffices, PTL
-----------------------------------------------------------------------------
\* The calls are made one after the other.
OneThread == \A t, u \in Threads : t = u

\* A controlled source that is started has told its chain so, or is about to;
\* a source whose chain is about to be told onStop is not started.
ChainInv ==
  /\ \A s \in Sources :
       isControlled[s] /\ isStarted[s] =>
         chain[s] \/ \E t \in Threads : pc[t] = "onStart" /\ cur[t] = s
  /\ \A t \in Threads : pc[t] = "onStop" => ~isStarted[src[t]]

LEMMA ChainInit == Init => ChainInv
  BY DEF Init, ChainInv

\* Source::start writes the flag before it tells the chain, Source::stop
\* clears it before, and nobody else acts in between.
LEMMA ChainStep ==
  ASSUME OneThread
  PROVE  TypeOK /\ ChainInv /\ [Next]_vars => ChainInv'
<1> SUFFICES ASSUME TypeOK, ChainInv, [Next]_vars PROVE ChainInv'
  OBVIOUS
<1> USE DEF TypeOK, ChainInv, OneThread, flags, call, Goto, Visit
<1>1. ASSUME NEW t \in Threads, NEW s \in Sources,
             PushBuffer(t, s) \/ Stop(t, s) \/ Start(t, s)
      PROVE  ChainInv'
  BY <1>1 DEF PushBuffer, Stop, Start, Begin
<1>2. ASSUME NEW t \in Threads, Lock(t) \/ Unlock(t) \/ Deliver(t)
      PROVE  ChainInv'
  BY <1>2 DEF Lock, Unlock, Deliver
<1>3. ASSUME NEW t \in Threads, Scan(t) PROVE ChainInv'
  BY <1>3 DEF Scan
<1>4. ASSUME NEW t \in Threads, Select(t) PROVE ChainInv'
  BY <1>4 DEF Select
<1>5. ASSUME NEW t \in Threads, SetStarted(t) PROVE ChainInv'
  BY <1>5 DEF SetStarted
<1>6. ASSUME NEW t \in Threads, OnStart(t) PROVE ChainInv'
  BY <1>6 DEF OnStart
<1>7. ASSUME NEW t \in Threads, OnStop(t) \/ ClearReady(t) PROVE ChainInv'
  BY <1>7 DEF OnStop, ClearReady
<1>8. ASSUME NEW s \in Sources, AddSource(s) \/ RemoveSource(s)
      PROVE  ChainInv'
  BY <1>8 DEF AddSource, RemoveSource, Quiescent
<1>9. CASE UNCHANGED vars
  BY <1>9 DEF vars
<1>10. QED
  BY <1>1, <1>2, <1>3, <1>4, <1>5, <1>6, <1>7, <1>8, <1>9 DEF Next, Step

\* With the calls made one after the other, a buffer of a controlled source
\* enters the chain (Source::pushBuffer) only after the chain was told
\* onStart and not onStop since.
THEOREM ChainStartedBeforeUse ==
  ASSUME OneThread
  PROVE  Spec => []EntersStartedChain
<1>1. TypeOK /\ ChainInv => EntersStartedChain
  BY DEF TypeOK, ChainInv, EntersStartedChain, Enters, OneThread
<1>2. QED
  BY <1>1, TypeInit, TypeStep, ChainInit, ChainStep, PTL DEF Spec
=============================================================================
