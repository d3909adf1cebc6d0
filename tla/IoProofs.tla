------------------------------ MODULE IoProofs ------------------------------
(***************************************************************************)
(* For any number of UdpSource and FdSource objects and any sequence of    *)
(* init() calls: as long as the application never stops the main loop and  *)
(* builds no UdpSource on a stopped one, the loop is never stopped with an *)
(* operation outstanding, and no handler runs on a deleted object.         *)
(***************************************************************************)
EXTENDS IoSources, SequenceTheorems, FiniteSetTheorems, TLAPS

----------------------------------------------------------------------------
(* What the queue operations keep *)

\* Appending a completed operation adds its source and no other.
LEMMA InQueueAppend ==
    ASSUME NEW q \in Seq(Completion), NEW e \in Completion, NEW s
    PROVE  InQueue(Append(q, e), s) <=> InQueue(q, s) \/ e.source = s
  <1>1. InQueue(Append(q, e), s) => InQueue(q, s) \/ e.source = s
    BY DEF InQueue
  <1>2. InQueue(q, s) => InQueue(Append(q, e), s)
    BY DEF InQueue
  <1>3. e.source = s => InQueue(Append(q, e), s)
    <2>1. Len(q) + 1 \in DOMAIN Append(q, e) /\ Append(q, e)[Len(q) + 1] = e
      OBVIOUS
    <2> QED BY <2>1 DEF InQueue
  <1> QED BY <1>1, <1>2, <1>3

\* Popping the queue only forgets its head.
LEMMA InQueueTail ==
    ASSUME NEW q \in Seq(Completion), q # <<>>, NEW s
    PROVE  /\ Head(q) \in Completion
           /\ Tail(q) \in Seq(Completion)
           /\ InQueue(Tail(q), s) => InQueue(q, s)
  <1>1. Head(q) \in Completion /\ Tail(q) \in Seq(Completion)
    BY HeadTailProperties
  <1>2. ASSUME NEW i \in DOMAIN Tail(q)
        PROVE  i + 1 \in DOMAIN q /\ Tail(q)[i] = q[i + 1]
    BY HeadTailProperties
  <1> QED BY <1>1, <1>2 DEF InQueue

\* Closing s queues operations of s only, and one for each that waited.
LEMMA InQueueAborted ==
    ASSUME TypeOK, NEW s \in Sources, NEW t
    PROVE  /\ Aborted(queue, s) \in Seq(Completion)
           /\ InQueue(Aborted(queue, s), t)
                 <=> InQueue(queue, t) \/ (t = s /\ waiting[s] > 0)
  <1> DEFINE a == [i \in 1..waiting[s] |-> Completed(s, "aborted")]
  <1>1. waiting[s] \in Nat /\ Completed(s, "aborted") \in Completion
    BY DEF TypeOK, Completed, Completion, Outcomes
  <1>2. a \in Seq(Completion) /\ Len(a) = waiting[s]
    BY <1>1
  <1>3. /\ queue \o a \in Seq(Completion)
        /\ Len(queue \o a) = Len(queue) + waiting[s]
        /\ \A i \in 1..Len(queue) : (queue \o a)[i] = queue[i]
        /\ \A i \in 1..waiting[s] :
              (queue \o a)[Len(queue) + i] = Completed(s, "aborted")
    <2>1. queue \in Seq(Completion)
      BY DEF TypeOK
    <2> HIDE DEF a
    <2>2. /\ queue \o a \in Seq(Completion)
          /\ Len(queue \o a) = Len(queue) + Len(a)
      BY <1>2, <2>1
    <2>3. \A i \in 1..Len(queue) : (queue \o a)[i] = queue[i]
      BY <1>2, <2>1
    <2>4. \A i \in 1..waiting[s] : (queue \o a)[Len(queue) + i] = a[i]
      BY <1>1, <1>2, <2>1
    <2>5. \A i \in 1..waiting[s] : a[i] = Completed(s, "aborted")
      BY DEF a
    <2> QED BY <1>2, <2>2, <2>3, <2>4, <2>5
  <1>4. Aborted(queue, s) = queue \o a
    BY DEF Aborted
  <1>5. DOMAIN queue = 1..Len(queue) /\ Len(queue) \in Nat
    BY DEF TypeOK
  <1> HIDE DEF a
  <1>6. DOMAIN (queue \o a) = 1..(Len(queue) + waiting[s])
    BY <1>3
  <1>7. Completed(s, "aborted").source = s
    BY DEF Completed
  <1>8. InQueue(queue \o a, t)
           => InQueue(queue, t) \/ (t = s /\ waiting[s] > 0)
    <2> SUFFICES ASSUME NEW i \in DOMAIN (queue \o a),
                        (queue \o a)[i].source = t
                 PROVE  InQueue(queue, t) \/ (t = s /\ waiting[s] > 0)
      BY DEF InQueue
    <2>1. CASE i \in 1..Len(queue)
      BY <2>1, <1>3, <1>5 DEF InQueue
    <2>2. CASE i \notin 1..Len(queue)
      <3>1. i - Len(queue) \in 1..waiting[s] /\ waiting[s] > 0
        BY <2>2, <1>1, <1>5, <1>6
      <3>2. i = Len(queue) + (i - Len(queue))
        BY <1>5, <1>6
      <3> QED BY <3>1, <3>2, <1>3, <1>7
    <2> QED BY <2>1, <2>2
  <1>9. InQueue(queue, t) => InQueue(queue \o a, t)
    BY <1>1, <1>3, <1>5, <1>6 DEF InQueue
  <1>10. waiting[s] > 0 => InQueue(queue \o a, s)
    <2> SUFFICES ASSUME waiting[s] > 0 PROVE InQueue(queue \o a, s)
      OBVIOUS
    <2>1. 1 \in 1..waiting[s] /\ Len(queue) + 1 \in DOMAIN (queue \o a)
      BY <1>1, <1>5, <1>6
    <2> QED BY <2>1, <1>3, <1>7 DEF InQueue
  <1> QED BY <1>3, <1>4, <1>8, <1>9, <1>10

----------------------------------------------------------------------------
(* The inductive invariant *)

\* A destroyed object has nothing outstanding; while its destructor polls its
\* socket is closed and nothing waits, so no handler can arm a read again.
Destroyed ==
    /\ \A s \in Sources :
          /\ life[s] = "dead" => waiting[s] = 0 /\ ~InQueue(queue, s)
          /\ life[s] = "destroying" => waiting[s] = 0 /\ ~isOpen[s]
    /\ polling # Nobody => life[polling] = "destroying"

IoInv == TypeOK /\ WorkIsServed /\ (LoopKept => Destroyed)

----------------------------------------------------------------------------
(* Type correctness *)

LEMMA IoTypeInit == Init => TypeOK
  <1> SUFFICES ASSUME Init PROVE TypeOK
    OBVIOUS
  <1>1. queue \in Seq(Completion)
    BY DEF Init
  <1>2. inits \in [Sources -> 0..MaxInits]
    BY IoAssumption DEF Init
  <1> QED BY <1>1, <1>2 DEF Init, TypeOK

\* Arming the next read keeps the types.
LEMMA RearmType ==
    ASSUME TypeOK, queue # <<>>, NEW s \in Sources, Rearm(s)
    PROVE  waiting' \in [Sources -> Nat] /\ queue' \in Seq(Completion)
  <1>1. Tail(queue) \in Seq(Completion)
    BY InQueueTail DEF TypeOK
  <1>2. Completed(s, "error") \in Completion
    BY DEF TypeOK, Completed, Completion, Outcomes
  <1>3. CASE isOpen[s]
    <2>1. waiting' = [waiting EXCEPT ![s] = @ + 1] /\ queue' = Tail(queue)
      BY <1>3, Zenon DEF Rearm
    <2> QED BY <1>1, <2>1 DEF TypeOK
  <1>4. CASE ~isOpen[s]
    <2>1. Append(Tail(queue), Completed(s, "error")) \in Seq(Completion)
      BY <1>1, <1>2
    <2>2. queue' = Append(Tail(queue), Completed(s, "error"))
      BY <1>4 DEF Rearm
    <2>3. waiting' = waiting
      BY <1>4 DEF Rearm
    <2> QED BY <2>1, <2>2, <2>3 DEF TypeOK
  <1> QED BY <1>3, <1>4

\* What one handler does to the variables a handler may change.
LEMMA HandlerType ==
    ASSUME TypeOK, RunHandler
    PROVE  TypeOK'
  <1> DEFINE e == Head(queue)
  <1>1. e \in Completion /\ Tail(queue) \in Seq(Completion)
    BY InQueueTail DEF TypeOK, RunHandler
  <1>2. e.source \in Sources
    BY <1>1 DEF Completion
  <1> HIDE DEF e
  <1>3. CASE e.source \in Udp /\ OnReceived(e)
    <2>1. CASE e.ec # "ok"
      BY <1>1, <1>3, <2>1
         DEF OnReceived, RunHandler, TypeOK, StopWhenOutOfWork, WorkIn
    <2>2. CASE e.ec = "ok"
      <3>1. waiting' \in [Sources -> Nat] /\ queue' \in Seq(Completion)
        BY <1>2, <1>3, <2>2, RearmType DEF OnReceived, RunHandler
      <3>2. /\ isReceiving' \in [Sources -> BOOLEAN]
            /\ isReady' \in [Sources -> BOOLEAN]
        BY <1>3, <2>2 DEF OnReceived, Push, TypeOK
      <3> QED BY <3>1, <3>2
                 DEF RunHandler, TypeOK, StopWhenOutOfWork, WorkIn
    <2> QED BY <2>1, <2>2
  <1>4. CASE e.source \in Fd /\ OnRead(e)
    <2>1. CASE e.ec # "ok"
      BY <1>1, <1>4, <2>1
         DEF OnRead, RunHandler, TypeOK, StopWhenOutOfWork, WorkIn
    <2>2. CASE e.ec = "ok"
      <3>1. waiting' \in [Sources -> Nat] /\ queue' \in Seq(Completion)
        BY <1>2, <1>4, <2>2, RearmType DEF OnRead, RunHandler
      <3>2. /\ isReceiving' \in [Sources -> BOOLEAN]
            /\ isReady' \in [Sources -> BOOLEAN]
        BY <1>4, <2>2 DEF OnRead, Push, TypeOK
      <3> QED BY <3>1, <3>2
                 DEF RunHandler, TypeOK, StopWhenOutOfWork, WorkIn
    <2> QED BY <2>1, <2>2
  <1> QED BY <1>3, <1>4 DEF RunHandler, e

LEMMA IoTypeStep ==
    ASSUME TypeOK, [Next]_vars
    PROVE  TypeOK'
  <1> USE DEF TypeOK
  <1>1. ASSUME NEW s \in Sources, NEW ec \in {"ok", "error"}, Complete(s, ec)
        PROVE  TypeOK'
    <2>1. Completed(s, ec) \in Completion
      BY DEF Completed, Completion, Outcomes
    <2>2. waiting' \in [Sources -> Nat]
      BY <1>1 DEF Complete
    <2>3. Append(queue, Completed(s, ec)) \in Seq(Completion)
      BY <2>1
    <2> QED BY <1>1, <2>2, <2>3 DEF Complete
  <1>2. CASE PollHandler \/ DestructorPolls
    BY <1>2, HandlerType DEF PollHandler, DestructorPolls
  <1>3. CASE PollWithoutWork \/ StopLoop
    BY <1>3 DEF PollWithoutWork, StopLoop
  <1>4. ASSUME NEW u \in Udp, NEW joined \in BOOLEAN, CreateUdp(u, joined)
        PROVE  TypeOK'
    BY <1>4 DEF CreateUdp
  <1>5. ASSUME NEW f \in Fd, CreateFd(f) PROVE TypeOK'
    BY <1>5 DEF CreateFd
  <1>6. ASSUME NEW f \in Fd, InitValid(f) \/ InitInvalid(f) PROVE TypeOK'
    <2>1. f \in Sources /\ Aborted(queue, f) \in Seq(Completion)
      BY InQueueAborted DEF Sources
    <2>2. inits[f] < MaxInits /\ inits[f] \in 0..MaxInits
      BY <1>6, <2>1 DEF InitValid, InitInvalid, MayInit
    <2>3. inits[f] + 1 \in 0..MaxInits
      BY <2>2, IoAssumption
    <2>4. inits' = [inits EXCEPT ![f] = @ + 1]
      BY <1>6 DEF InitValid, InitInvalid
    <2>5. inits' \in [Sources -> 0..MaxInits]
      BY <2>1, <2>3, <2>4
    <2>6. CASE InitValid(f)
      BY <2>1, <2>5, <2>6 DEF InitValid
    <2>7. CASE InitInvalid(f)
      BY <2>1, <2>5, <2>7 DEF InitInvalid
    <2> QED BY <1>6, <2>6, <2>7
  <1>7. ASSUME NEW s \in Sources, Destroy(s) PROVE TypeOK'
    <2>1. Aborted(queue, s) \in Seq(Completion)
      BY InQueueAborted
    <2> QED BY <1>7, <2>1 DEF Destroy
  <1>8. CASE Delete
    BY <1>8 DEF Delete, InApplication
  <1>9. CASE UNCHANGED vars
    BY <1>9 DEF vars
  <1> QED
    BY <1>1, <1>2, <1>3, <1>4, <1>5, <1>6, <1>7, <1>8, <1>9 DEF Next

----------------------------------------------------------------------------
(* Safety *)

\* The main loop stops itself only when nothing is outstanding, and nothing
\* becomes outstanding on a stopped loop: FdSource::init restarts it.
LEMMA WorkStep ==
    ASSUME LoopKept, TypeOK, Work => ~stopped, [Next]_vars
    PROVE  (Work => ~stopped)'
  <1> DEFINE Served == Work => ~stopped
  <1> SUFFICES Served'
    OBVIOUS
  <1> USE DEF Work
  <1>1. ASSUME NEW s \in Sources, NEW ec \in {"ok", "error"}, Complete(s, ec)
        PROVE  Served'
    BY <1>1 DEF Complete, WorkIn, TypeOK
  <1>2. CASE PollHandler \/ DestructorPolls
    BY <1>2 DEF PollHandler, DestructorPolls, RunHandler, StopWhenOutOfWork
  <1>3. CASE PollWithoutWork \/ StopLoop
    BY <1>3 DEF PollWithoutWork, StopLoop, LoopKept, WorkIn
  <1>4. ASSUME NEW u \in Udp, NEW joined \in BOOLEAN, CreateUdp(u, joined)
        PROVE  Served'
    BY <1>4 DEF CreateUdp, LoopKept
  <1>5. ASSUME NEW f \in Fd, CreateFd(f) PROVE Served'
    BY <1>5 DEF CreateFd, WorkIn
  <1>6. ASSUME NEW f \in Fd, InitValid(f) PROVE Served'
    BY <1>6 DEF InitValid
  <1>7. ASSUME NEW f \in Fd, InitInvalid(f) PROVE Served'
    <2>1. f \in Sources
      BY DEF Sources
    <2>2. ASSUME NEW t \in Sources, waiting'[t] > 0 \/ InQueue(queue', t)
          PROVE  \E x \in Sources : waiting[x] > 0 \/ InQueue(queue, x)
      BY <1>7, <2>1, <2>2, InQueueAborted DEF InitInvalid, TypeOK
    <2> QED BY <1>7, <2>2 DEF InitInvalid, WorkIn
  <1>8. ASSUME NEW s \in Sources, Destroy(s) PROVE Served'
    <2>1. ASSUME NEW t \in Sources, waiting'[t] > 0 \/ InQueue(queue', t)
          PROVE  \E x \in Sources : waiting[x] > 0 \/ InQueue(queue, x)
      BY <1>8, <2>1, InQueueAborted DEF Destroy, TypeOK
    <2> QED BY <1>8, <2>1 DEF Destroy, WorkIn
  <1>9. CASE Delete
    BY <1>9 DEF Delete, WorkIn
  <1>10. CASE UNCHANGED vars
    BY <1>10 DEF vars, WorkIn
  <1> QED
    BY <1>1, <1>2, <1>3, <1>4, <1>5, <1>6, <1>7, <1>8, <1>9, <1>10 DEF Next

\* A handler leaves objects without operations without operations, and arms
\* no read on a closed socket.
LEMMA HandlerKeepsDestroyed ==
    ASSUME TypeOK, Destroyed, RunHandler
    PROVE  Destroyed'
  <1> DEFINE e == Head(queue)
  <1>1. e \in Completion /\ e.source \in Sources /\ InQueue(queue, e.source)
    <2>1. 1 \in DOMAIN queue /\ queue[1] = e
      BY DEF TypeOK, RunHandler
    <2>2. e \in Completion
      BY InQueueTail DEF TypeOK, RunHandler
    <2> QED BY <2>1, <2>2 DEF InQueue, Completion
  <1>2. Tail(queue) \in Seq(Completion)
    BY InQueueTail DEF TypeOK, RunHandler
  <1>3. \A t : InQueue(Tail(queue), t) => InQueue(queue, t)
    BY InQueueTail DEF TypeOK, RunHandler
  <1> HIDE DEF e
  <1>4. \/ Rearm(e.source)
        \/ queue' = Tail(queue) /\ waiting' = waiting
    BY DEF RunHandler, OnReceived, OnRead, e
  <1>5. life' = life /\ isOpen' = isOpen /\ polling' = polling
    BY DEF RunHandler
  <1>6. ASSUME NEW t \in Sources, t # e.source
        PROVE  /\ waiting'[t] = waiting[t]
               /\ InQueue(queue', t) => InQueue(queue, t)
    <2>1. CASE isOpen[e.source] \/ ~Rearm(e.source)
      BY <1>1, <1>3, <1>4, <1>6, <2>1 DEF Rearm, TypeOK
    <2>2. CASE ~isOpen[e.source] /\ Rearm(e.source)
      <3>1. Completed(e.source, "error") \in Completion
        BY <1>1 DEF Completed, Completion, Outcomes, TypeOK
      <3>2. Completed(e.source, "error").source = e.source
        BY DEF Completed
      <3>3. InQueue(queue', t) => InQueue(Tail(queue), t)
        <4>1. queue' = Append(Tail(queue), Completed(e.source, "error"))
          BY <2>2, Zenon DEF Rearm
        <4> QED BY <1>2, <1>6, <3>1, <3>2, <4>1, InQueueAppend
      <3>4. waiting' = waiting
        BY <2>2, Zenon DEF Rearm
      <3> QED BY <1>3, <3>3, <3>4
    <2> QED BY <2>1, <2>2
  <1>7. ~isOpen[e.source] => waiting' = waiting
    BY <1>4 DEF Rearm
  <1>8. life[e.source] # "dead"
    BY <1>1 DEF Destroyed
  <1>9. ASSUME NEW t \in Sources
        PROVE  /\ life'[t] = "dead" => waiting'[t] = 0 /\ ~InQueue(queue', t)
               /\ life'[t] = "destroying" => waiting'[t] = 0 /\ ~isOpen'[t]
    <2>1. CASE t = e.source
      BY <1>5, <1>7, <1>8, <2>1 DEF Destroyed
    <2>2. CASE t # e.source
      BY <1>5, <1>6, <2>2 DEF Destroyed
    <2> QED BY <2>1, <2>2
  <1> QED BY <1>5, <1>9 DEF Destroyed

LEMMA DestroyedStep ==
    ASSUME TypeOK, Work => ~stopped, Destroyed, [Next]_vars
    PROVE  Destroyed'
  <1>1. ASSUME NEW s \in Sources, NEW ec \in {"ok", "error"}, Complete(s, ec)
        PROVE  Destroyed'
    <2>1. Completed(s, ec) \in Completion /\ Completed(s, ec).source = s
      BY DEF Completed, Completion, Outcomes, TypeOK
    <2>2. life[s] \notin {"dead", "destroying"}
      BY <1>1 DEF Complete, Destroyed
    <2>3. ASSUME NEW t, t # s PROVE InQueue(queue', t) => InQueue(queue, t)
      BY <1>1, <2>1, <2>3, InQueueAppend DEF Complete, TypeOK
    <2>4. \A t \in Sources : t # s => waiting'[t] = waiting[t]
      BY <1>1 DEF Complete, TypeOK
    <2>5. life' = life /\ isOpen' = isOpen /\ polling' = polling
      BY <1>1 DEF Complete
    <2> QED BY <2>2, <2>3, <2>4, <2>5 DEF Destroyed
  <1>2. CASE PollHandler \/ DestructorPolls
    BY <1>2, HandlerKeepsDestroyed DEF PollHandler, DestructorPolls
  <1>3. CASE PollWithoutWork \/ StopLoop
    BY <1>3 DEF PollWithoutWork, StopLoop, Destroyed
  <1>4. ASSUME NEW u \in Udp, NEW joined \in BOOLEAN, CreateUdp(u, joined)
        PROVE  Destroyed'
    BY <1>4 DEF CreateUdp, Destroyed, TypeOK, Sources, InApplication
  <1>5. ASSUME NEW f \in Fd, CreateFd(f) PROVE Destroyed'
    BY <1>5 DEF CreateFd, Destroyed, TypeOK, Sources, InApplication
  <1>6. ASSUME NEW f \in Fd, InitValid(f) \/ InitInvalid(f) PROVE Destroyed'
    <2>1. f \in Sources /\ life[f] = "alive"
      BY <1>6 DEF InitValid, InitInvalid, MayInit, Sources
    <2>2. ASSUME NEW t, t # f PROVE InQueue(queue', t) => InQueue(queue, t)
      BY <1>6, <2>1, <2>2, InQueueAborted DEF InitValid, InitInvalid
    <2>3. \A t \in Sources : t # f => /\ waiting'[t] = waiting[t]
                                      /\ isOpen'[t] = isOpen[t]
      BY <1>6 DEF InitValid, InitInvalid, TypeOK
    <2>4. life' = life /\ polling' = polling
      BY <1>6 DEF InitValid, InitInvalid
    <2> QED BY <2>1, <2>2, <2>3, <2>4 DEF Destroyed
  <1>7. ASSUME NEW s \in Sources, Destroy(s) PROVE Destroyed'
    <2>1. ASSUME NEW t, t # s PROVE InQueue(queue', t) => InQueue(queue, t)
      BY <1>7, <2>1, InQueueAborted DEF Destroy
    <2>2. \A t \in Sources : t # s => /\ waiting'[t] = waiting[t]
                                      /\ isOpen'[t] = isOpen[t]
                                      /\ life'[t] = life[t]
      BY <1>7 DEF Destroy, TypeOK
    <2>3. /\ waiting'[s] = 0 /\ ~isOpen'[s]
          /\ life'[s] = "destroying" /\ polling' = s
      BY <1>7 DEF Destroy, TypeOK
    <2> QED BY <2>1, <2>2, <2>3 DEF Destroyed
  <1>8. CASE Delete
    <2>1. polling \in Sources /\ life[polling] = "destroying"
      BY <1>8 DEF Delete, InApplication, Destroyed, TypeOK
    <2>2. ~InQueue(queue, polling)
      <3>1. CASE queue = <<>>
        BY <3>1 DEF InQueue
      <3>2. CASE stopped
        BY <2>1, <3>2 DEF Work, WorkIn
      <3> QED BY <1>8, <3>1, <3>2 DEF Delete
    <2>3. /\ waiting' = waiting /\ queue' = queue /\ isOpen' = isOpen
          /\ polling' = Nobody
          /\ life' = [life EXCEPT ![polling] = "dead"]
      BY <1>8 DEF Delete
    <2> QED BY <2>1, <2>2, <2>3 DEF Destroyed, TypeOK, InQueue
  <1>9. CASE UNCHANGED vars
    BY <1>9 DEF vars, Destroyed, InQueue
  <1> QED
    BY <1>1, <1>2, <1>3, <1>4, <1>5, <1>6, <1>7, <1>8, <1>9 DEF Next

\* An application keeps its habits.
LEMMA HabitsKept ==
    ASSUME [Next]_vars
    PROVE  habits' = habits
  BY DEF Next, vars, Complete, PollHandler, DestructorPolls, RunHandler,
         PollWithoutWork, StopLoop, CreateUdp, CreateFd, InitValid,
         InitInvalid, Destroy, Delete

\* The invariant holds from the start and is kept by every step.
LEMMA IoInvariant == Spec => []IoInv
  <1>1. Init => IoInv
    <2>1. Init => WorkIsServed
      BY DEF Init, WorkIsServed
    <2>2. Init => Destroyed
      BY DEF Init, Destroyed
    <2> QED BY <2>1, <2>2, IoTypeInit DEF IoInv
  <1>2. IoInv /\ [Next]_vars => IoInv'
    <2> SUFFICES ASSUME IoInv, [Next]_vars PROVE IoInv'
      OBVIOUS
    <2>1. TypeOK'
      BY IoTypeStep DEF IoInv
    <2>2. LoopKept' => LoopKept
      BY HabitsKept DEF LoopKept
    <2>3. LoopKept => (Work => ~stopped)'
      BY WorkStep DEF IoInv, WorkIsServed
    <2>4. LoopKept => Destroyed'
      BY DestroyedStep DEF IoInv, WorkIsServed
    <2> QED BY <2>1, <2>2, <2>3, <2>4 DEF IoInv, WorkIsServed
  <1> QED BY <1>1, <1>2, PTL DEF Spec

\* The main loop is never stopped while an operation of a source is
\* outstanding (Mainloop, FdSource::init), if the application does not stop it
\* and builds no UdpSource on a stopped one.
THEOREM WorkServed == Spec => []WorkIsServed
  BY IoInvariant, PTL DEF IoInv

\* Under the same condition no handler runs on a source whose destructor has
\* returned (UdpSource::~UdpSource, FdSource::~FdSource).
THEOREM NoHandlerOnDeleted == Spec => HandlerOnLiveObject
  <1>1. IoInv => (LoopKept => HandlerLive)
    <2> SUFFICES ASSUME IoInv, LoopKept, RunHandler
                 PROVE  life[Head(queue).source] # "dead"
      BY DEF HandlerLive
    <2>1. 1 \in DOMAIN queue /\ queue[1] = Head(queue)
      BY DEF IoInv, TypeOK, RunHandler
    <2>2. Head(queue) \in Completion
      BY InQueueTail DEF IoInv, TypeOK, RunHandler
    <2>3. Head(queue).source \in Sources /\ InQueue(queue, Head(queue).source)
      BY <2>1, <2>2 DEF Completion, InQueue
    <2> QED BY <2>3 DEF IoInv, Destroyed
  <1>2. IoInv /\ [Next]_vars => [LoopKept => HandlerLive]_vars
    BY <1>1
  <1> QED BY <1>2, IoInvariant, PTL DEF Spec, HandlerOnLiveObject

----------------------------------------------------------------------------
(* One read loop per source *)

\* Where queue q holds a read of s that delivered data.
Delivered(q, s) == {i \in DOMAIN q : q[i].source = s /\ q[i].ec = "ok"}

\* Either one read of s waits, or one has delivered data whose handler has
\* not run, or neither; before its constructor s has no read at all.
OneRead(s) ==
    /\ waiting[s] <= 1
    /\ waiting[s] > 0 => Delivered(queue, s) = {}
    /\ \A i, j \in Delivered(queue, s) : i = j
    /\ life[s] = "unborn" => waiting[s] = 0 /\ Delivered(queue, s) = {}

\* A queue that grows at its end by e.
LEMMA DeliveredAppend ==
    ASSUME NEW q \in Seq(Completion), NEW e \in Completion, NEW s
    PROVE  /\ Delivered(Append(q, e), s)
                 \subseteq Delivered(q, s) \cup {Len(q) + 1}
           /\ e.source # s \/ e.ec # "ok"
                 => Delivered(Append(q, e), s) = Delivered(q, s)
  <1>1. /\ DOMAIN q = 1..Len(q) /\ Len(q) \in Nat
        /\ DOMAIN Append(q, e) = 1..(Len(q) + 1)
        /\ \A i \in 1..Len(q) : Append(q, e)[i] = q[i]
        /\ Append(q, e)[Len(q) + 1] = e
    OBVIOUS
  <1>2. 1..(Len(q) + 1) = 1..Len(q) \cup {Len(q) + 1}
    BY <1>1
  <1> QED BY <1>1, <1>2 DEF Delivered

\* A queue whose head is popped.
LEMMA DeliveredTail ==
    ASSUME NEW q \in Seq(Completion), q # <<>>, NEW s,
           NEW i \in Delivered(Tail(q), s)
    PROVE  i + 1 \in Delivered(q, s) /\ i + 1 # 1 /\ i \in Nat
  <1>1. i \in DOMAIN Tail(q) /\ Tail(q)[i].source = s /\ Tail(q)[i].ec = "ok"
    BY DEF Delivered
  <1>2. DOMAIN Tail(q) = 1..(Len(q) - 1) /\ DOMAIN q = 1..Len(q)
    BY HeadTailProperties
  <1>3. Tail(q)[i] = q[i + 1]
    BY <1>1, <1>2, HeadTailProperties
  <1>4. i + 1 \in DOMAIN q /\ i + 1 # 1 /\ i \in Nat
    BY <1>1, <1>2
  <1> QED BY <1>1, <1>3, <1>4 DEF Delivered

\* Aborted reads deliver nothing.
LEMMA DeliveredAborted ==
    ASSUME TypeOK, NEW s \in Sources, NEW t
    PROVE  Delivered(Aborted(queue, s), t) = Delivered(queue, t)
  <1> DEFINE a == [i \in 1..waiting[s] |-> Completed(s, "aborted")]
  <1>1. waiting[s] \in Nat /\ Completed(s, "aborted") \in Completion
    BY DEF TypeOK, Completed, Completion, Outcomes
  <1>2. a \in Seq(Completion) /\ Len(a) = waiting[s]
    BY <1>1
  <1>3. \A i \in 1..Len(a) : a[i].ec # "ok"
    BY <1>2 DEF Completed
  <1>4. Aborted(queue, s) = queue \o a
    BY DEF Aborted
  <1> HIDE DEF a
  <1>5. queue \in Seq(Completion) /\ Len(queue) \in Nat
    BY DEF TypeOK
  <1>6. /\ DOMAIN queue = 1..Len(queue)
        /\ DOMAIN (queue \o a) = 1..(Len(queue) + Len(a))
        /\ \A i \in 1..Len(queue) : (queue \o a)[i] = queue[i]
        /\ \A i \in 1..Len(a) : (queue \o a)[Len(queue) + i] = a[i]
    BY <1>2, <1>5
  <1>7. ASSUME NEW i \in DOMAIN (queue \o a), (queue \o a)[i].ec = "ok"
        PROVE  i \in DOMAIN queue
    <2> SUFFICES ASSUME i \notin DOMAIN queue PROVE FALSE
      OBVIOUS
    <2>1. i - Len(queue) \in 1..Len(a) /\ i = Len(queue) + (i - Len(queue))
      BY <1>1, <1>2, <1>5, <1>6
    <2> QED BY <1>3, <1>6, <1>7, <2>1
  <1>8. DOMAIN queue \subseteq DOMAIN (queue \o a)
    BY <1>1, <1>2, <1>5, <1>6
  <1> QED BY <1>4, <1>6, <1>7, <1>8 DEF Delivered

\* A handler arms the next read only when it takes the delivered one away,
\* and that one was the only read of its source.
LEMMA HandlerKeepsOneRead ==
    ASSUME TypeOK, \A s \in Sources : OneRead(s), RunHandler,
           NEW t \in Sources
    PROVE  OneRead(t)'
  <1> DEFINE e == Head(queue)
  <1>0. queue \in Seq(Completion) /\ queue # <<>>
    BY DEF TypeOK, RunHandler
  <1>1. 1 \in DOMAIN queue /\ queue[1] = e /\ e \in Completion
    BY <1>0, HeadTailProperties
  <1>2. e.source \in Sources
    BY <1>1 DEF Completion
  <1>3. e.ec = "ok" => 1 \in Delivered(queue, e.source)
    BY <1>1 DEF Delivered
  <1>4. \A s : \A i \in Delivered(Tail(queue), s) :
           i + 1 \in Delivered(queue, s) /\ i + 1 # 1 /\ i \in Nat
    BY <1>0, DeliveredTail
  <1> HIDE DEF e
  <1>5. /\ waiting[t] \in Nat
        /\ OneRead(t)
        /\ OneRead(e.source)
        /\ life' = life
    BY <1>2 DEF TypeOK, RunHandler
  <1>6. Delivered(queue, t) = {} => Delivered(Tail(queue), t) = {}
    BY <1>4
  <1>7. \A i, j \in Delivered(Tail(queue), t) : i = j
    BY <1>4, <1>5 DEF OneRead
  <1>8. CASE e.ec # "ok" /\ queue' = Tail(queue) /\ waiting' = waiting
    BY <1>5, <1>6, <1>7, <1>8 DEF OneRead
  <1>9. CASE e.ec = "ok" /\ Rearm(e.source)
    <2>1. waiting[e.source] = 0
      <3>1. waiting[e.source] \in Nat
        BY <1>2 DEF TypeOK
      <3> QED BY <1>3, <1>5, <1>9, <3>1 DEF OneRead
    <2>2. Delivered(Tail(queue), e.source) = {}
      BY <1>3, <1>4, <1>5, <1>9 DEF OneRead
    <2>3. life[e.source] # "unborn"
      BY <1>3, <1>5, <1>9 DEF OneRead
    <2>4. CASE isOpen[e.source]
      <3>1. /\ waiting' = [waiting EXCEPT ![e.source] = @ + 1]
            /\ queue' = Tail(queue)
        BY <1>9, <2>4, Zenon DEF Rearm
      <3>2. CASE t = e.source
        <4>1. waiting'[t] = 1
          BY <2>1, <3>1, <3>2, <1>2 DEF TypeOK
        <4> QED BY <1>5, <2>2, <2>3, <3>1, <3>2, <4>1 DEF OneRead
      <3>3. CASE t # e.source
        <4>1. waiting'[t] = waiting[t]
          BY <3>1, <3>3 DEF TypeOK
        <4> QED BY <1>5, <1>6, <1>7, <3>1, <4>1 DEF OneRead
      <3> QED BY <3>2, <3>3
    <2>5. CASE ~isOpen[e.source]
      <3>1. /\ waiting' = waiting
            /\ queue' = Append(Tail(queue), Completed(e.source, "error"))
        BY <1>9, <2>5, Zenon DEF Rearm
      <3>2. Completed(e.source, "error") \in Completion
        BY <1>2 DEF Completed, Completion, Outcomes, TypeOK
      <3>3. Tail(queue) \in Seq(Completion)
        BY <1>0, HeadTailProperties
      <3>4. Delivered(queue', t) = Delivered(Tail(queue), t)
        <4>1. Completed(e.source, "error").ec # "ok"
          BY DEF Completed
        <4> QED BY <3>1, <3>2, <3>3, <4>1, DeliveredAppend
      <3> QED BY <1>5, <1>6, <1>7, <3>1, <3>4 DEF OneRead
    <2> QED BY <2>4, <2>5
  <1> QED BY <1>8, <1>9 DEF RunHandler, OnReceived, OnRead, e

\* No operation of a source or of the main loop gives a source a second read,
\* if init() is never called between a read and its handler.
LEMMA OneReadStep ==
    ASSUME TypeOK, \A s \in Sources : OneRead(s),
           "initsWhenQueued" \notin habits, [Next]_vars, NEW t \in Sources
    PROVE  OneRead(t)'
  <1>0. waiting[t] \in Nat /\ OneRead(t) /\ queue \in Seq(Completion)
    BY DEF TypeOK
  <1>1. ASSUME NEW s \in Sources, NEW ec \in {"ok", "error"}, Complete(s, ec)
        PROVE  OneRead(t)'
    <2>1. /\ Completed(s, ec) \in Completion
          /\ Completed(s, ec).source = s
      BY DEF Completed, Completion, Outcomes, TypeOK
    <2>2. queue' = Append(queue, Completed(s, ec)) /\ life' = life
      BY <1>1 DEF Complete
    <2>3. CASE t = s
      <3>1. waiting[s] = 1 /\ Delivered(queue, s) = {}
        BY <1>0, <1>1, <2>3 DEF Complete, OneRead
      <3>2. waiting'[s] = 0
        BY <1>1, <3>1 DEF Complete, TypeOK
      <3>3. /\ Delivered(queue', s) \subseteq {Len(queue) + 1}
            /\ life[s] # "unborn"
        BY <1>0, <2>1, <2>2, <2>3, <3>1, DeliveredAppend DEF OneRead
      <3> QED BY <2>2, <2>3, <3>2, <3>3 DEF OneRead
    <2>4. CASE t # s
      <3>1. Delivered(queue', t) = Delivered(queue, t)
        BY <1>0, <2>1, <2>2, <2>4, DeliveredAppend
      <3>2. waiting'[t] = waiting[t]
        BY <1>1, <2>4 DEF Complete, TypeOK
      <3> QED BY <1>0, <2>2, <3>1, <3>2 DEF OneRead
    <2> QED BY <2>3, <2>4
  <1>2. CASE PollHandler \/ DestructorPolls
    BY <1>2, HandlerKeepsOneRead DEF PollHandler, DestructorPolls
  <1>3. CASE PollWithoutWork \/ StopLoop
    BY <1>0, <1>3 DEF PollWithoutWork, StopLoop, OneRead
  <1>4. ASSUME NEW u \in Udp, NEW joined \in BOOLEAN, CreateUdp(u, joined)
        PROVE  OneRead(t)'
    <2>1. queue' = queue /\ u \in Sources
      BY <1>4 DEF CreateUdp, Sources
    <2>2. CASE t = u
      <3>1. Delivered(queue, t) = {}
        BY <1>0, <1>4, <2>2 DEF CreateUdp, OneRead
      <3>2. waiting'[t] \in {0, 1} /\ life'[t] = "alive"
        BY <1>4, <2>1, <2>2 DEF CreateUdp, TypeOK
      <3> QED BY <2>1, <3>1, <3>2 DEF OneRead
    <2>3. CASE t # u
      <3>1. waiting'[t] = waiting[t] /\ life'[t] = life[t]
        BY <1>4, <2>1, <2>3 DEF CreateUdp, TypeOK
      <3> QED BY <1>0, <2>1, <3>1 DEF OneRead
    <2> QED BY <2>2, <2>3
  <1>5. ASSUME NEW f \in Fd, CreateFd(f) PROVE OneRead(t)'
    BY <1>0, <1>5 DEF CreateFd, OneRead, TypeOK, Sources
  <1>6. ASSUME NEW f \in Fd, InitValid(f) \/ InitInvalid(f)
        PROVE  OneRead(t)'
    <2>1. f \in Sources /\ life' = life /\ life[f] = "alive"
      BY <1>6 DEF InitValid, InitInvalid, MayInit, Sources
    <2>2. Delivered(queue', t) = Delivered(queue, t)
      BY <1>6, <2>1, DeliveredAborted DEF InitValid, InitInvalid
    <2>3. CASE t = f
      <3>1. Delivered(queue, t) = {}
        BY <1>6, <2>3 DEF InitValid, InitInvalid, MayInit, Delivered
      <3>2. waiting'[t] \in {0, 1}
        BY <1>6, <2>3 DEF InitValid, InitInvalid, TypeOK
      <3> QED BY <2>1, <2>2, <2>3, <3>1, <3>2 DEF OneRead
    <2>4. CASE t # f
      <3>1. waiting'[t] = waiting[t]
        BY <1>6, <2>1, <2>4 DEF InitValid, InitInvalid, TypeOK
      <3> QED BY <1>0, <2>1, <2>2, <3>1 DEF OneRead
    <2> QED BY <2>3, <2>4
  <1>7. ASSUME NEW s \in Sources, Destroy(s) PROVE OneRead(t)'
    <2>1. Delivered(queue', t) = Delivered(queue, t)
      BY <1>7, DeliveredAborted DEF Destroy
    <2>2. /\ waiting'[t] = 0 \/ waiting'[t] = waiting[t]
          /\ life'[t] = "unborn" => life[t] = "unborn"
      BY <1>7 DEF Destroy, TypeOK
    <2> QED BY <1>0, <2>1, <2>2 DEF OneRead
  <1>8. CASE Delete
    <2>1. /\ waiting' = waiting /\ queue' = queue
          /\ life'[t] = "unborn" => life[t] = "unborn"
      BY <1>8 DEF Delete, TypeOK
    <2> QED BY <1>0, <2>1 DEF OneRead
  <1>9. CASE UNCHANGED vars
    BY <1>0, <1>9 DEF vars, OneRead
  <1> QED
    BY <1>1, <1>2, <1>3, <1>4, <1>5, <1>6, <1>7, <1>8, <1>9 DEF Next

\* Each source has one read loop: at most one asynchronous read waits or has
\* delivered data that its handler has not pushed yet.  UdpSource keeps it by
\* arming in onReceived only, FdSource by closing before it reads again; it
\* needs an application that calls init() only when no completed read of the
\* old descriptor is queued.
THEOREM ReadLoopsAreSingle == Spec => []OneReadLoop
  <1> DEFINE Single == "initsWhenQueued" \notin habits
                          => \A s \in Sources : OneRead(s)
  <1>1. Init => Single
    <2> SUFFICES ASSUME Init, NEW s \in Sources PROVE OneRead(s)
      OBVIOUS
    <2>1. waiting[s] = 0 /\ Delivered(queue, s) = {}
      BY DEF Init, Delivered
    <2> QED BY <2>1 DEF OneRead
  <1>2. IoInv /\ Single /\ [Next]_vars => Single'
    <2> SUFFICES ASSUME IoInv, Single, [Next]_vars,
                        "initsWhenQueued" \notin habits',
                        NEW t \in Sources
                 PROVE  OneRead(t)'
      OBVIOUS
    <2>1. "initsWhenQueued" \notin habits
      BY HabitsKept
    <2> QED BY <2>1, OneReadStep DEF IoInv
  <1>3. IoInv /\ Single => OneReadLoop
    <2> SUFFICES ASSUME TypeOK, NEW s \in Sources, OneRead(s)
                 PROVE  LiveReads(s) <= 1
      BY DEF IoInv, OneReadLoop
    <2>1. LiveReads(s) = waiting[s] + Cardinality(Delivered(queue, s))
      BY DEF LiveReads, Delivered
    <2>2. waiting[s] \in Nat
      BY DEF TypeOK
    <2>3. CASE Delivered(queue, s) = {}
      <3>1. Cardinality(Delivered(queue, s)) = 0
        BY <2>3, FS_EmptySet
      <3> QED BY <2>1, <2>2, <3>1 DEF OneRead
    <2>4. CASE Delivered(queue, s) # {}
      <3>1. \E x : Delivered(queue, s) = {x}
        BY <2>4 DEF OneRead
      <3>2. Cardinality(Delivered(queue, s)) = 1
        BY <3>1, FS_Singleton
      <3> QED BY <2>1, <2>2, <2>4, <3>2 DEF OneRead
    <2> QED BY <2>3, <2>4
  <1> HIDE DEF Single
  <1> QED BY <1>1, <1>2, <1>3, IoInvariant, PTL DEF Spec

=============================================================================
