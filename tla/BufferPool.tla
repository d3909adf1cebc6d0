----------------------------- MODULE BufferPool -----------------------------
(***************************************************************************)
(* BufferPool: the free list behind Buffer::create and behind every        *)
(* BufferPtr that is dropped.  A source has the buffer b in hand and calls *)
(* its operations (BufferOps); the application may keep a buffer, in the   *)
(* callback of an AppSink, and drop it later; sources come and go.  All on *)
(* one thread, as the free list has no lock.                               *)
(***************************************************************************)
EXTENDS BufferOps, Sequences, SequencesExt

CONSTANT MaxBuffers   \* bound: buffers ever made

VARIABLES mine,      \* which buffer b is
          s_buffers, \* the free list: buffers with their number
          kept,      \* buffers the application holds
          made       \* how many were made

poolVars == <<vars, mine, s_buffers, kept, made>>

Numbered(id, buffer) == [id |-> id, buffer |-> buffer]

PoolInit == Init /\ mine = 1 /\ s_buffers = <<>> /\ kept = {} /\ made = 1

\* Mutant: what was in the buffer stays in view.
DeleterKeepsView(free, id, buffer) == Append(free, Numbered(id, buffer))

BufferDeleter(free, id, buffer) == Append(free, Numbered(id, Clear(buffer)))

\* BufferPool::acquire, from the free list given: its first buffer that is
\* large enough, or a new one.
acquire(free, size) ==
  LET fits == {i \in DOMAIN free : Bytes(free[i].buffer) >= size} IN
  /\ granted' = Nothing
  /\ \/ \E i \in fits :
          /\ \A j \in fits : i <= j
          /\ b' = free[i].buffer /\ mine' = free[i].id
          /\ s_buffers' = RemoveAt(free, i)
          /\ UNCHANGED made
     \/ /\ fits = {}
        /\ made < MaxBuffers /\ Create(size).words <= MaxWords
        /\ b' = Create(size) /\ mine' = made + 1
        /\ s_buffers' = free
        /\ made' = made + 1

\* The callback of an AppSink keeps the buffer: Node::process creates one that
\* is as large.  What the application reads in it does not matter here.
Keep ==
  /\ b.size > 0 /\ granted = Nothing
  /\ kept' = kept \cup {Numbered(mine, Clear(b))}
  /\ acquire(s_buffers, Bytes(b))

\* The application is done with a buffer.
Drop ==
  \E f \in kept :
    /\ kept' = kept \ {f}
    /\ s_buffers' = BufferDeleter(s_buffers, f.id, f.buffer)
    /\ UNCHANGED <<vars, mine, made>>

\* The source goes, and its buffer with it; another one creates a buffer.
Replace(size) ==
  /\ acquire(BufferDeleter(s_buffers, mine, b), size)
  /\ UNCHANGED kept

PoolNext ==
  \/ Next /\ UNCHANGED <<mine, s_buffers, kept, made>>
  \/ Defined /\ Keep
  \/ Drop
  \/ \E size \in Sizes : Defined /\ Replace(size)

PoolSpec == PoolInit /\ [][PoolNext]_poolVars
-----------------------------------------------------------------------------
\* A buffer that Buffer::create hands out is as good as a new one, whoever had
\* it before: it is empty, begins at its first byte and holds what was asked
\* for, and neither the application nor the free list has it too.
RecycledAsNew ==
  [][LET AsNew(size) ==
           /\ b'.size = 0 /\ b'.offset = 0 /\ Bytes(b') >= size
           /\ \A f \in kept' \cup ToSet(s_buffers') : f.id # mine'
     IN /\ Keep => AsNew(Bytes(b))
        /\ \A size \in Sizes : Replace(size) => AsNew(size)]_poolVars
=============================================================================
