----------------------------- MODULE ChunkQueue -----------------------------
(***************************************************************************)
(* What an audio sink promises: chunks of audio are heard one after the    *)
(* other, in the order they were put, each at most once, and every chunk   *)
(* is heard unless the sink is closed first.  No buffers, no threads, no   *)
(* device.                                                                 *)
(***************************************************************************)
EXTENDS Integers, Sequences

VARIABLES
  queue,         \* chunks put and not yet heard, the oldest first
  newest,        \* the number of the newest chunk
  heard          \* the number of the last chunk heard

queueVars == <<queue, newest, heard>>

QueueInit == queue = <<>> /\ newest = 0 /\ heard = 0

\* A chunk arrives, and the sink may still be busy with it.
Arrive ==
  /\ newest' = newest + 1
  /\ UNCHANGED <<queue, heard>>

\* The newest chunk is put, once.
Put ==
  /\ newest > heard
  /\ \A i \in 1 .. Len(queue) : queue[i] < newest
  /\ queue' = Append(queue, newest)
  /\ UNCHANGED <<newest, heard>>

Hear ==
  /\ queue # <<>>
  /\ heard' = Head(queue)
  /\ queue' = Tail(queue)
  /\ UNCHANGED newest

Close ==
  /\ queue # <<>>
  /\ queue' = <<>>
  /\ UNCHANGED <<newest, heard>>

QueueNext == Arrive \/ Put \/ Hear \/ Close

QueueSpec ==
  QueueInit /\ [][QueueNext]_queueVars /\ WF_queueVars(Hear)
=============================================================================
